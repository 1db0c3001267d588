----------------------------- MODULE AudioQueue -----------------------------
(***************************************************************************)
(* What the audio backend promises between push() and the feeder thread:   *)
(* a bounded first-in first-out queue of bytes.  A block is put in whole,  *)
(* whole frames are taken out, and nothing is lost, duplicated, torn or    *)
(* reordered in between.  XboxAudio implements it with a lock-free ring.   *)
(***************************************************************************)
EXTENDS Naturals, Sequences

CONSTANTS
    Capacity,   \* bytes the queue holds at most
    FrameBytes, \* bytes of a stereo sample
    BlockBytes, \* bytes of a block
    Blocks      \* the blocks that may be pushed, numbers

VARIABLES
    q,          \* the bytes in the queue
    out         \* the bytes taken out last

\* Byte i of block b.
BlockOf(b) == [i \in 1..BlockBytes |-> b * BlockBytes + i]

Init == q = << >> /\ out = << >>

Put ==
    /\ Len(q) + BlockBytes <= Capacity
    /\ \E b \in Blocks : q' = q \o BlockOf(b)
    /\ UNCHANGED out

Get ==
    /\ \E n \in 1..Len(q) :
          /\ n % FrameBytes = 0
          /\ out' = SubSeq(q, 1, n)
          /\ q' = SubSeq(q, n + 1, Len(q))

\* The backend is started again.
Clear == q' = << >> /\ out' = << >>

Next == Put \/ Get \/ Clear

Spec == Init /\ [][Next]_<<q, out>>
=============================================================================
