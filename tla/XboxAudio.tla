------------------------------ MODULE XboxAudio ------------------------------
(***************************************************************************)
(* The DirectSound backend of the Xbox port                                *)
(* (Platform/xbox/xbox_audio_directsound.cpp): push(), called by the       *)
(* emulation thread once per block of samples, a lock-free byte ring       *)
(* (ByteFifo), the feeder thread that refills the looping hardware buffer, *)
(* and init() and term(), which start and end the feeder.                  *)
(*                                                                         *)
(* A step reads or writes the other thread's cursor at most once.  The two *)
(* memcpy() of a wrapped copy are one step.  A byte of sound is a number.  *)
(***************************************************************************)
EXTENDS Integers, Sequences

CONSTANTS
    FrameBytes,     \* FRAME_BYTES (4)
    BlockBytes,     \* BLOCK_BYTES, also FEED_CHUNK (2048)
    Cap,            \* size of the FIFO (DS_BUF_BYTES)
    DsBytes,        \* DS_BUF_BYTES, size of the hardware buffer (4 blocks)
    MaxTimeouts,    \* timeouts after which push() drops a block (5)
    Lag,            \* bytes the hardware plays at most in a round of the feeder
    MaxFails,       \* bound: rounds in a row in which DirectSound fails
    JoinSteps,      \* steps the feeder takes at least while term() waits (2 s)
    Blocks          \* bound: the blocks that may be pushed, numbers

ASSUME SizeAssumption ==
    /\ {FrameBytes, BlockBytes, Cap, DsBytes, MaxTimeouts} \subseteq Nat \ {0}
    /\ BlockBytes % FrameBytes = 0 /\ Cap % FrameBytes = 0
    /\ DsBytes % FrameBytes = 0
    /\ BlockBytes < Cap
    /\ {Lag, MaxFails, JoinSteps} \subseteq Nat
    /\ Blocks \subseteq Nat

VARIABLES
    \* ByteFifo
    buf, wpos, rpos,
    roomEvent,      \* is it signalled (auto-reset)
    \* the emulation thread
    ppc,            \* where it is in push(), init() or term()
    block, wait,    \* arguments of push()
    timeouts,
    \* the feeder thread
    fpc,            \* "none" when there is no thread
    feederRunning,
    avail, n,       \* bytes to refill, bytes read() takes
    scratch,        \* what read() copied
    out,            \* what read() returned last
    drained, writePos,
    fails,          \* rounds in a row that did not refill the buffer
    waited,         \* steps it has taken since term() waits for it
    \* the hardware
    playing, play,
    fresh,          \* bytes of its buffer that were written since last played
    paced           \* bytes played in this round of the feeder

fifoVars == <<buf, wpos, rpos>>
emuVars == <<ppc, block, wait, timeouts>>
feederVars == <<fpc, avail, n, scratch, out, drained, writePos, fails, waited>>
hwVars == <<playing, play, fresh, paced>>
vars == <<fifoVars, roomEvent, emuVars, feederVars, feederRunning, hwVars>>

Least(a, b) == IF a < b THEN a ELSE b

\* x &= ~(FRAME_BYTES - 1)
Aligned(x) == x - (x % FrameBytes)

\* push() returns: its arguments and locals are gone.
Return == ppc' = "idle" /\ block' = 0 /\ wait' = FALSE /\ timeouts' = 0

BlockOf(b) == [i \in 1..BlockBytes |-> b * BlockBytes + i]

-----------------------------------------------------------------------------
(* ByteFifo *)

readable == (wpos - rpos + Cap) % Cap

\* Mutant of writable: the byte that tells full from empty is not kept.
writable_All == Cap - readable

writable == Cap - 1 - readable

\* Mutant of write_copy: a block that reaches the end of the ring is cut there.
write_copy_NoWrap ==
    /\ ppc = "copy"
    /\ buf' = [a \in 0..(Cap - 1) |->
                 IF a >= wpos /\ a - wpos < BlockBytes
                 THEN BlockOf(block)[a - wpos + 1] ELSE buf[a]]
    /\ ppc' = "publish"
    /\ UNCHANGED <<wpos, rpos, roomEvent, block, wait, timeouts, feederVars,
                   feederRunning, hwVars>>

\* write(): the bytes first ...
write_copy ==
    /\ ppc = "copy"
    /\ buf' = [a \in 0..(Cap - 1) |->
                 LET i == (a - wpos + Cap) % Cap
                 IN  IF i < BlockBytes THEN BlockOf(block)[i + 1] ELSE buf[a]]
    /\ ppc' = "publish"
    /\ UNCHANGED <<wpos, rpos, roomEvent, block, wait, timeouts, feederVars,
                   feederRunning, hwVars>>

\* ... then the cursor; push() returns.
write_publish ==
    /\ ppc = "publish"
    /\ wpos' = (wpos + BlockBytes) % Cap
    /\ Return
    /\ UNCHANGED <<buf, rpos, roomEvent, feederVars, feederRunning, hwVars>>

\* read(): how much there is ...
read ==
    /\ fpc = "read"
    /\ n' = Aligned(Least(Least(avail, BlockBytes), readable))
    /\ fpc' = IF n' = 0 THEN "lock" ELSE "copy"
    /\ UNCHANGED <<fifoVars, roomEvent, emuVars, avail, scratch, out, drained,
                   writePos, fails, feederRunning, hwVars>>

\* ... the bytes ...
read_copy ==
    /\ fpc = "copy"
    /\ scratch' = [i \in 1..n |-> buf[(rpos + i - 1) % Cap]]
    /\ fpc' = "consume"
    /\ UNCHANGED <<fifoVars, roomEvent, emuVars, avail, n, out, drained,
                   writePos, fails, feederRunning, hwVars>>

\* ... then the cursor.
read_consume ==
    /\ fpc = "consume"
    /\ rpos' = (rpos + n) % Cap
    /\ out' = scratch /\ scratch' = << >>
    /\ drained' = TRUE
    /\ fpc' = "lock"
    /\ UNCHANGED <<buf, wpos, roomEvent, emuVars, avail, n, writePos, fails,
                   feederRunning, hwVars>>

-----------------------------------------------------------------------------
(* push(), on the emulation thread *)

push ==
    /\ ppc = "idle"
    /\ block' \in Blocks /\ wait' \in BOOLEAN
    /\ timeouts' = 0
    /\ ppc' = "write"
    /\ UNCHANGED <<fifoVars, roomEvent, feederVars, feederRunning, hwVars>>

\* write() has room, or push() waits or gives up.
write ==
    /\ ppc = "write"
    /\ \/ /\ BlockBytes <= writable
          /\ ppc' = "copy" /\ UNCHANGED <<block, wait, timeouts>>
       \/ /\ BlockBytes > writable /\ wait
          /\ ppc' = "wait" /\ UNCHANGED <<block, wait, timeouts>>
       \/ BlockBytes > writable /\ ~ wait /\ Return
    /\ UNCHANGED <<fifoVars, roomEvent, feederVars, feederRunning, hwVars>>

\* Mutant of push_wait: every return of the wait counts as progress.
push_wait_Forever ==
    /\ ppc = "wait"
    /\ roomEvent' = FALSE /\ timeouts' = 0 /\ ppc' = "write"
    /\ UNCHANGED <<fifoVars, block, wait, feederVars, feederRunning, hwVars>>

\* WaitForSingleObject(roomEvent, 100): a signal, or a timeout.
push_wait ==
    /\ ppc = "wait"
    /\ \/ /\ roomEvent /\ roomEvent' = FALSE
          /\ timeouts' = 0 /\ ppc' = "write" /\ UNCHANGED <<block, wait>>
       \/ /\ ~ roomEvent /\ timeouts + 1 < MaxTimeouts
          /\ timeouts' = timeouts + 1 /\ ppc' = "write"
          /\ UNCHANGED <<roomEvent, block, wait>>
       \/ ~ roomEvent /\ timeouts + 1 >= MaxTimeouts /\ Return /\ UNCHANGED roomEvent
    /\ UNCHANGED <<fifoVars, feederVars, feederRunning, hwVars>>

-----------------------------------------------------------------------------
(* feederMain() *)

\* Mutant of feeder_position: the distance is taken the wrong way round.
feeder_position_Back ==
    /\ fpc = "top" /\ feederRunning
    /\ paced' = 0
    /\ avail' = Aligned((writePos - play + DsBytes) % DsBytes)
    /\ drained' = FALSE
    /\ fpc' = IF avail' > 0 THEN "read" ELSE "top"
    /\ fails' = IF avail' > 0 THEN fails ELSE 0
    /\ UNCHANGED <<fifoVars, roomEvent, emuVars, n, scratch, out, writePos,
                   feederRunning, playing, play, fresh>>

\* A round begins.  GetCurrentPosition() fails and leaves everything to the next
\* round, or tells what the hardware has played since the last refill.
feeder_position ==
    /\ fpc = "top" /\ feederRunning
    /\ paced' = 0
    /\ \/ /\ fails < MaxFails /\ fails' = fails + 1
          /\ UNCHANGED <<avail, drained, fpc>>
       \/ /\ avail' = Aligned(IF play >= writePos THEN play - writePos
                              ELSE DsBytes - writePos + play)
          /\ drained' = FALSE
          /\ fpc' = IF avail' > 0 THEN "read" ELSE "top"
          /\ fails' = IF avail' > 0 THEN fails ELSE 0
    /\ UNCHANGED <<fifoVars, roomEvent, emuVars, n, scratch, out, writePos,
                   feederRunning, playing, play, fresh>>

feeder_exit ==
    /\ fpc = "top" /\ ~ feederRunning
    /\ fpc' = "none"
    /\ UNCHANGED <<fifoVars, roomEvent, emuVars, avail, n, scratch, out, drained,
                   writePos, fails, feederRunning, hwVars>>

\* The chunk at writePos is filled with sound and silence.
Refill ==
    LET chunk == Least(avail, BlockBytes) IN
    /\ fresh' = fresh \cup {(writePos + i) % DsBytes : i \in 0..(chunk - 1)}
    /\ writePos' = (writePos + chunk) % DsBytes
    /\ avail' = avail - chunk
    /\ fpc' = IF avail' > 0 THEN "read" ELSE "wake"
    /\ fails' = IF avail' > 0 THEN fails ELSE 0

\* Mutant of feeder_lock: a failed Lock() is tried again in the same round.
feeder_lock_Retry ==
    /\ fpc = "lock"
    /\ n' = 0
    /\ \/ fpc' = "read" /\ UNCHANGED <<writePos, avail, fresh, fails>>
       \/ Refill
    /\ UNCHANGED <<fifoVars, roomEvent, emuVars, scratch, out, drained,
                   feederRunning, playing, play, paced>>

\* Lock() and Unlock(): a chunk is written, or the lock fails, the bytes that
\* were read are lost and the round ends.
feeder_lock ==
    /\ fpc = "lock"
    /\ n' = 0
    /\ \/ /\ fails < MaxFails /\ fails' = fails + 1
          /\ fpc' = "wake" /\ UNCHANGED <<writePos, avail, fresh>>
       \/ Refill
    /\ UNCHANGED <<fifoVars, roomEvent, emuVars, scratch, out, drained,
                   feederRunning, playing, play, paced>>

\* Mutant of feeder_wake: a waiting push() is told only of a whole chunk.
feeder_wake_Whole ==
    /\ fpc = "wake"
    /\ roomEvent' = (roomEvent \/ (drained /\ Len(out) = BlockBytes))
    /\ drained' = FALSE /\ avail' = 0
    /\ fpc' = "top"
    /\ UNCHANGED <<fifoVars, emuVars, n, scratch, out, writePos, fails,
                   feederRunning, hwVars>>

feeder_wake ==
    /\ fpc = "wake"
    /\ roomEvent' = (roomEvent \/ drained)
    /\ drained' = FALSE /\ avail' = 0
    /\ fpc' = "top"
    /\ UNCHANGED <<fifoVars, emuVars, n, scratch, out, writePos, fails,
                   feederRunning, hwVars>>

-----------------------------------------------------------------------------
(* The hardware plays its buffer in a loop, whether or not it was refilled.  *)
(* A round of the feeder (a sleep of 2 ms and the copying) takes it no longer *)
(* than Lag bytes.                                                           *)

Play ==
    /\ playing /\ paced < Lag
    /\ paced' = paced + 1
    /\ play' = (play + 1) % DsBytes
    /\ fresh' = fresh \ {play}
    /\ UNCHANGED <<fifoVars, roomEvent, emuVars, feederVars, feederRunning,
                   playing>>

-----------------------------------------------------------------------------
(* init() and term() *)

Init ==
    /\ buf = [a \in 0..(Cap - 1) |-> 0] /\ wpos = 0 /\ rpos = 0
    /\ roomEvent = FALSE
    /\ ppc = "off" /\ block = 0 /\ wait = FALSE /\ timeouts = 0
    /\ fpc = "none" /\ avail = 0 /\ n = 0 /\ scratch = << >> /\ out = << >>
    /\ drained = FALSE /\ writePos = 0 /\ feederRunning = FALSE
    /\ fails = 0 /\ waited = 0
    /\ playing = FALSE /\ play = 0 /\ fresh = {} /\ paced = 0

\* init(), once the objects are created: the buffer is silent, the feeder runs,
\* or could not be started.  There is one feeder at a time (NoFeederLeft).
init ==
    /\ ppc = "off" /\ fpc = "none"
    /\ buf' = [a \in 0..(Cap - 1) |-> 0] /\ wpos' = 0 /\ rpos' = 0
    /\ writePos' = 0 /\ play' = 0 /\ fresh' = 0..(DsBytes - 1)
    /\ roomEvent' = FALSE
    /\ out' = << >> /\ fails' = 0 /\ paced' = 0
    /\ \/ feederRunning' = TRUE /\ fpc' = "top" /\ ppc' = "init"
       \/ feederRunning' = FALSE /\ UNCHANGED fpc /\ ppc' = "join"
    /\ UNCHANGED <<block, wait, timeouts, avail, n, scratch, drained, waited, playing>>

\* ... and the hardware starts to play, or init() fails and calls term().
init_Play ==
    /\ ppc = "init"
    /\ \/ playing' = TRUE /\ ppc' = "idle" /\ UNCHANGED feederRunning
       \/ UNCHANGED playing /\ ppc' = "join" /\ feederRunning' = FALSE
    /\ UNCHANGED <<fifoVars, roomEvent, block, wait, timeouts, feederVars,
                   play, fresh, paced>>

term ==
    /\ ppc = "idle"
    /\ feederRunning' = FALSE
    /\ ppc' = "join"
    /\ UNCHANGED <<fifoVars, roomEvent, block, wait, timeouts, feederVars, hwVars>>

\* WaitForSingleObject(feederThread, 2000), whose result nobody looks at: the
\* feeder has ended or the time is up.  The buffer is stopped and released.
term_release ==
    /\ ppc = "join"
    /\ fpc = "none" \/ waited >= JoinSteps
    /\ playing' = FALSE /\ fresh' = {}
    /\ roomEvent' = FALSE
    /\ waited' = 0
    /\ ppc' = "off"
    /\ UNCHANGED <<fifoVars, block, wait, timeouts, fpc, avail, n, scratch, out,
                   drained, writePos, fails, feederRunning, play, paced>>

PushNext == write \/ write_copy \/ write_publish \/ push_wait

FeederNext ==
    /\ \/ feeder_position \/ feeder_exit \/ read \/ read_copy \/ read_consume
       \/ feeder_lock \/ feeder_wake
    /\ waited' = IF ppc = "join" THEN Least(waited + 1, JoinSteps) ELSE waited

Next ==
    \/ init \/ init_Play \/ term \/ term_release
    \/ push \/ PushNext \/ FeederNext \/ Play

Spec == Init /\ [][Next]_vars

\* The emulation thread runs; nothing is assumed of the feeder.
LiveSpec == Spec /\ WF_vars(PushNext)

-----------------------------------------------------------------------------
(* Properties *)

\* Types; the cursors stay in the ring, at frame boundaries.
TypeOK ==
    /\ buf \in [0..(Cap - 1) -> Nat]
    /\ {wpos, rpos} \subseteq {a \in 0..(Cap - 1) : a % FrameBytes = 0}
    /\ {roomEvent, wait, feederRunning, drained, playing} \subseteq BOOLEAN
    /\ ppc \in {"off", "init", "idle", "write", "copy", "publish", "wait", "join"}
    /\ fpc \in {"none", "top", "read", "copy", "consume", "lock", "wake"}
    /\ block \in Blocks \cup {0} /\ timeouts \in 0..(MaxTimeouts - 1)
    /\ avail \in 0..(DsBytes - 1) /\ n \in 0..BlockBytes
    /\ avail % FrameBytes = 0 /\ n % FrameBytes = 0
    /\ scratch \in Seq(Nat) /\ out \in Seq(Nat)
    /\ {writePos, play} \subseteq 0..(DsBytes - 1)
    /\ fresh \subseteq 0..(DsBytes - 1)
    /\ fails \in 0..MaxFails /\ paced \in 0..Lag /\ waited \in 0..JoinSteps

\* "Lock-free single-producer / single-consumer byte FIFO": what the feeder is
\* about to take out was published, and the block push() is copying lies outside
\* of it, so that neither thread touches bytes the other one is using.
NoOverlap ==
    /\ fpc \in {"copy", "consume"} => n <= readable
    /\ ppc \in {"copy", "publish"} => readable + BlockBytes < Cap

\* The bytes between the cursors.
Content == [i \in 1..readable |-> buf[(rpos + i - 1) % Cap]]

Queue == INSTANCE AudioQueue WITH q <- Content, Capacity <- Cap - 1

\* The ring, copied into and out of without a lock, is a queue of bytes.
ImplementsQueue == Queue!Spec

\* No wakeup is lost: a push() that waits while there is room for its block has
\* a signal waiting for it, unless the feeder is still in the round that made
\* the room.
NoLostWakeup ==
    ppc = "wait" /\ BlockBytes <= writable => roomEvent \/ drained

\* "audio can never freeze the emulator": push() returns, even if the feeder
\* has stopped, because every signal it waits for comes with bytes drained.
PushReturns == (ppc \in {"write", "wait"}) ~> (ppc = "idle")

\* "never a replay of stale buffer contents": the hardware plays no byte that
\* the feeder has not written since it was last played, although rounds fail and
\* a round refills only what was played before it began.
NoReplay == [][play' # play /\ playing => play \in fresh]_vars

\* term() and a failed init() leave no feeder behind, although they do not look
\* at the result of their wait: whatever the feeder is doing when it is told to
\* stop, it ends in time.  So no thread uses a buffer that was released, and no
\* two feeders drain one FIFO.
NoFeederLeft == ppc = "off" => fpc = "none"
=============================================================================
