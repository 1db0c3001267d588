--------------------------- MODULE XboxAudioProofs ---------------------------
(***************************************************************************)
(* Proofs about XboxAudio, for any size of ring, block, frame and hardware *)
(* buffer, and any number of timeouts: the ring that push() and the feeder *)
(* share without a lock is a queue of bytes, no wakeup is lost, the        *)
(* hardware plays no stale sound and the feeder ends in time.              *)
(*                                                                         *)
(* The inductive invariant says what each thread may rely on at each of    *)
(* its steps although the other one has moved in between: that the room or *)
(* the bytes it has seen are still there (NoOverlap), what it has copied   *)
(* so far (ProducerOK, ConsumerOK), and that the feeder lives while push() *)
(* may need it (LifeOK).  Two more are built on it, each for sizes of the  *)
(* code that are conditions here: FreshOK bounds what may be stale in each *)
(* phase of a round (InTime), TimeOK what the feeder has left to do while  *)
(* term() waits for it (EnoughTime).                                       *)
(***************************************************************************)
EXTENDS XboxAudio, SequenceTheorems, TLAPS

\* Cursor arithmetic without a remainder.
Slot(a, k) == IF a + k < Cap THEN a + k ELSE a + k - Cap
Gap(w, r) == IF w >= r THEN w - r ELSE w - r + Cap
DsDist(x, w) == IF x >= w THEN x - w ELSE x - w + DsBytes

\* push() has a block, and before it moves the cursor the block is in the ring.
ProducerOK ==
    /\ ppc \in {"write", "copy", "publish", "wait"} => block \in Blocks
    /\ ppc = "publish" =>
          \A i \in 1..BlockBytes : buf[Slot(wpos, i - 1)] = block * BlockBytes + i

\* The feeder's locals: what it copied is what the ring still holds.
ConsumerOK ==
    /\ fpc \in {"none", "top"} => ~ drained /\ avail = 0
    /\ fpc \in {"read", "copy", "consume", "lock"} => avail > 0
    /\ fpc \in {"copy", "consume"} => n > 0
    /\ fpc = "consume" => scratch = [i \in 1..n |-> buf[Slot(rpos, i - 1)]]

\* The feeder runs from init() to term().
LifeOK ==
    /\ ppc \in {"off", "join"} <=> ~ feederRunning
    /\ feederRunning => fpc # "none"
    /\ playing => ppc \notin {"off", "init"}

IInv ==
    /\ TypeOK
    /\ NoOverlap
    /\ ProducerOK
    /\ ConsumerOK
    /\ LifeOK
    /\ NoLostWakeup
-----------------------------------------------------------------------------
(* Arithmetic. *)

\* The sizes are positive numbers.
LEMMA Sizes ==
    /\ FrameBytes \in Nat \ {0} /\ BlockBytes \in Nat \ {0} /\ Cap \in Nat \ {0}
    /\ DsBytes \in Nat \ {0} /\ MaxTimeouts \in Nat \ {0}
    /\ Lag \in Nat /\ MaxFails \in Nat /\ JoinSteps \in Nat
    /\ BlockBytes < Cap
  BY SizeAssumption

\* A cursor wraps at most once.
LEMMA ModOnce ==
    ASSUME NEW c \in Nat \ {0}, NEW a \in Nat, a < 2 * c
    PROVE  a % c = IF a < c THEN a ELSE a - c
  OBVIOUS

\* Sums and differences of whole frames are whole frames.
LEMMA WholeFrames ==
    ASSUME NEW f \in Nat \ {0}, NEW a \in Int, NEW b \in Int, a % f = 0, b % f = 0
    PROVE  (a + b) % f = 0 /\ (a - b) % f = 0
<1>1. PICK p \in Int : a = f * p
  OBVIOUS
<1>2. PICK q \in Int : b = f * q
  OBVIOUS
<1>3. a + b = f * (p + q) + 0 /\ a - b = f * (p - q) + 0
  BY <1>1, <1>2
<1>4. \A x \in Int : (f * x + 0) % f = 0
  OBVIOUS
<1>5. QED
  BY <1>3, <1>4

\* x &= ~(FRAME_BYTES - 1) rounds down to whole frames.
LEMMA AlignedOK ==
    ASSUME NEW x \in Nat
    PROVE  Aligned(x) \in 0..x /\ Aligned(x) % FrameBytes = 0
<1> DEFINE q == x \div FrameBytes
<1>1. x % FrameBytes \in 0..(FrameBytes - 1) /\ x % FrameBytes <= x
  BY Sizes
<1>2. q \in Int /\ x = FrameBytes * q + (x % FrameBytes)
  BY Sizes
<1> HIDE DEF q
<1>3. x - (x % FrameBytes) = FrameBytes * q + 0
  BY <1>1, <1>2, Sizes
<1>4. (FrameBytes * q + 0) % FrameBytes = 0
  BY <1>2, Sizes
<1>5. QED
  BY <1>1, <1>3, <1>4 DEF Aligned

\* A cursor of the ring moved on by less than a round.
LEMMA SlotIs ==
    ASSUME NEW a \in 0..(Cap - 1), NEW k \in 0..Cap
    PROVE  (a + k) % Cap = Slot(a, k) /\ Slot(a, k) \in 0..(Cap - 1)
<1> DEFINE s == a + k
<1>1. s \in Nat /\ s < 2 * Cap
  BY Sizes
<1>2. s % Cap = IF s < Cap THEN s ELSE s - Cap
  <2> HIDE DEF s
  <2> QED
    BY <1>1, Sizes, ModOnce
<1>3. QED
  BY <1>1, <1>2, Sizes DEF Slot

\* The distance of two cursors.
LEMMA GapIs ==
    ASSUME NEW w \in 0..(Cap - 1), NEW r \in 0..(Cap - 1)
    PROVE  (w - r + Cap) % Cap = Gap(w, r) /\ Gap(w, r) \in 0..(Cap - 1)
<1> DEFINE s == w - r + Cap
<1>1. s \in Nat /\ s < 2 * Cap
  BY Sizes
<1>2. s % Cap = IF s < Cap THEN s ELSE s - Cap
  <2> HIDE DEF s
  <2> QED
    BY <1>1, Sizes, ModOnce
<1>3. QED
  BY <1>1, <1>2, Sizes DEF Gap

\* A position of the hardware buffer moved on by less than a round.
LEMMA DsSlotIs ==
    ASSUME NEW a \in 0..(DsBytes - 1), NEW k \in 0..DsBytes
    PROVE  /\ (a + k) % DsBytes = IF a + k < DsBytes THEN a + k ELSE a + k - DsBytes
           /\ (a + k) % DsBytes \in 0..(DsBytes - 1)
<1> DEFINE s == a + k
<1>1. s \in Nat /\ s < 2 * DsBytes
  BY Sizes
<1>2. s % DsBytes = IF s < DsBytes THEN s ELSE s - DsBytes
  <2> HIDE DEF s
  <2> QED
    BY <1>1, Sizes, ModOnce
<1>3. QED
  BY <1>1, <1>2, Sizes

\* Whole frames keep the cursors at frame boundaries.
LEMMA SlotAligned ==
    ASSUME NEW a \in 0..(Cap - 1), NEW k \in 0..Cap, a % FrameBytes = 0, k % FrameBytes = 0
    PROVE  Slot(a, k) % FrameBytes = 0
<1> DEFINE s == a + k
<1>1. a \in Int /\ k \in Int /\ s \in Int /\ Cap \in Int /\ Cap % FrameBytes = 0
  BY Sizes, SizeAssumption
<1>2. s % FrameBytes = 0
  BY <1>1, Sizes, WholeFrames
<1>3. (s - Cap) % FrameBytes = 0
  <2> HIDE DEF s
  <2> QED
    BY <1>1, <1>2, Sizes, WholeFrames
<1>4. Slot(a, k) = s \/ Slot(a, k) = s - Cap
  BY <1>1, Sizes DEF Slot
<1>5. QED
  BY <1>2, <1>3, <1>4

\* ... and so are the distances between them.
LEMMA GapAligned ==
    ASSUME NEW w \in 0..(Cap - 1), NEW r \in 0..(Cap - 1), w % FrameBytes = 0, r % FrameBytes = 0
    PROVE  Gap(w, r) % FrameBytes = 0
<1> DEFINE s == w - r
<1>1. w \in Int /\ r \in Int /\ s \in Int /\ Cap \in Int /\ Cap % FrameBytes = 0
  BY Sizes, SizeAssumption
<1>2. s % FrameBytes = 0
  BY <1>1, Sizes, WholeFrames
<1>3. (s + Cap) % FrameBytes = 0
  <2> HIDE DEF s
  <2> QED
    BY <1>1, <1>2, Sizes, WholeFrames
<1>4. QED
  BY <1>2, <1>3 DEF Gap

\* What the cursors say.
LEMMA ReadableIs ==
    ASSUME TypeOK
    PROVE  /\ readable = Gap(wpos, rpos) /\ readable \in 0..(Cap - 1)
           /\ readable % FrameBytes = 0
           /\ wpos \in 0..(Cap - 1) /\ rpos \in 0..(Cap - 1)
           /\ wpos % FrameBytes = 0 /\ rpos % FrameBytes = 0
<1>1. /\ wpos \in 0..(Cap - 1) /\ rpos \in 0..(Cap - 1)
      /\ wpos % FrameBytes = 0 /\ rpos % FrameBytes = 0
  BY DEF TypeOK
<1>2. QED
  BY <1>1, GapIs, GapAligned DEF readable

\* A block of sound is made of numbers.
LEMMA BlocksOK == \A b \in Blocks \cup {0} : b \in Nat
  BY SizeAssumption

\* Init satisfies the invariant: the backend is off.
LEMMA InitOK == Init => IInv
<1> SUFFICES ASSUME Init PROVE IInv
  OBVIOUS
<1>1. 0 % FrameBytes = 0
  BY Sizes
<1>2. TypeOK
  BY <1>1, Sizes DEF Init, TypeOK
<1>3. NoOverlap /\ ProducerOK /\ ConsumerOK /\ LifeOK /\ NoLostWakeup
  BY DEF Init, NoOverlap, ProducerOK, ConsumerOK, LifeOK, NoLostWakeup
<1>4. QED
  BY <1>2, <1>3 DEF IInv

-----------------------------------------------------------------------------
(* push(). *)

\* push() is called.
LEMMA PushOK == ASSUME IInv, push PROVE IInv'
<1> USE DEF IInv
<1>1. readable' = readable
  BY DEF push, readable, fifoVars, hwVars, feederVars
<1>2. TypeOK'
  BY Sizes DEF TypeOK, push, fifoVars, hwVars, feederVars
<1>3. (NoOverlap /\ ProducerOK /\ NoLostWakeup)'
  BY <1>1 DEF NoOverlap, ProducerOK, NoLostWakeup, push, fifoVars, feederVars
<1>4. (ConsumerOK /\ LifeOK)'
  BY DEF ConsumerOK, LifeOK, push, fifoVars, feederVars, hwVars
<1>6. QED
  BY <1>2, <1>3, <1>4

\* write() finds room, or push() waits or drops the block.
LEMMA WriteOK == ASSUME IInv, write PROVE IInv'
<1> USE DEF IInv
<1>1. readable' = readable /\ writable' = writable
  BY DEF write, readable, writable, fifoVars, hwVars, feederVars
<1>2. TypeOK'
  <2>1. /\ UNCHANGED <<fifoVars, roomEvent, feederVars, feederRunning, hwVars>>
        /\ ppc' \in {"idle", "write", "copy", "wait"} /\ block' \in {block, 0}
        /\ wait' \in {wait, FALSE} /\ timeouts' \in {timeouts, 0}
    BY DEF write, Return
  <2>2. 0 \in 0..(MaxTimeouts - 1)
    BY Sizes
  <2>3. QED
    BY <2>1, <2>2 DEF TypeOK, fifoVars, hwVars, feederVars
<1>3. NoOverlap'
  BY <1>1, ReadableIs, Sizes DEF NoOverlap, write, Return, writable, feederVars
<1>4. (ProducerOK /\ NoLostWakeup)'
  BY <1>1, ReadableIs, Sizes DEF ProducerOK, NoLostWakeup, write, Return, writable
<1>5. (ConsumerOK /\ LifeOK)'
  BY DEF ConsumerOK, LifeOK, write, Return, fifoVars, feederVars, hwVars
<1>7. QED
  BY <1>2, <1>3, <1>4, <1>5

\* The wait ends with a signal or a timeout.
LEMMA PushWaitOK == ASSUME IInv, push_wait PROVE IInv'
<1> USE DEF IInv
<1>1. readable' = readable
  BY DEF push_wait, readable, fifoVars, hwVars, feederVars
<1>2. TypeOK'
  <2>1. /\ UNCHANGED <<fifoVars, feederVars, feederRunning, hwVars>>
        /\ ppc' \in {"idle", "write"} /\ block' \in {block, 0}
        /\ wait' \in {wait, FALSE} /\ roomEvent' \in {roomEvent, FALSE}
    BY DEF push_wait, Return
  <2>2. timeouts' \in 0..(MaxTimeouts - 1)
    <3>1. timeouts \in 0..(MaxTimeouts - 1)
      BY DEF TypeOK
    <3>2. timeouts' = 0 \/ (timeouts' = timeouts + 1 /\ timeouts + 1 < MaxTimeouts)
      BY DEF push_wait, Return
    <3>3. QED
      BY <3>1, <3>2, Sizes
  <2>3. QED
    BY <2>1, <2>2 DEF TypeOK, fifoVars, hwVars, feederVars
<1>3. (NoOverlap /\ ProducerOK /\ NoLostWakeup)'
  BY <1>1 DEF NoOverlap, ProducerOK, NoLostWakeup, push_wait, Return, fifoVars, feederVars
<1>4. (ConsumerOK /\ LifeOK)'
  BY DEF ConsumerOK, LifeOK, push_wait, Return, fifoVars, feederVars, hwVars
<1>6. QED
  BY <1>2, <1>3, <1>4

\* The copy of a block spares the bytes between the cursors.
LEMMA CopySparesContent ==
    ASSUME IInv, write_copy
    PROVE  /\ \A i \in 1..BlockBytes : buf'[Slot(wpos, i - 1)] = block * BlockBytes + i
           /\ \A k \in 0..(Cap - 1) : k < readable => buf'[Slot(rpos, k)] = buf[Slot(rpos, k)]
           /\ buf' \in [0..(Cap - 1) -> Nat]
<1> USE DEF IInv
<1>1. /\ readable = Gap(wpos, rpos) /\ readable \in 0..(Cap - 1)
      /\ wpos \in 0..(Cap - 1) /\ rpos \in 0..(Cap - 1)
  BY ReadableIs
<1>2. buf' = [a \in 0..(Cap - 1) |->
                IF Gap(a, wpos) < BlockBytes THEN block * BlockBytes + (Gap(a, wpos) + 1) ELSE buf[a]]
  <2>1. \A a \in 0..(Cap - 1) : (a - wpos + Cap) % Cap = Gap(a, wpos) /\ Gap(a, wpos) \in 0..(Cap - 1)
    BY <1>1, GapIs
  <2>2. \A k \in 0..(Cap - 1) : k < BlockBytes => BlockOf(block)[k + 1] = block * BlockBytes + (k + 1)
    BY Sizes DEF BlockOf
  <2>3. QED
    BY <2>1, <2>2 DEF write_copy
<1>3. readable + BlockBytes < Cap
  BY DEF write_copy, NoOverlap
<1>4. ASSUME NEW i \in 1..BlockBytes
      PROVE  buf'[Slot(wpos, i - 1)] = block * BlockBytes + i
  <2>1. Slot(wpos, i - 1) \in 0..(Cap - 1) /\ Gap(Slot(wpos, i - 1), wpos) = i - 1
    BY <1>1, Sizes DEF Slot, Gap
  <2>2. QED
    BY <1>2, <2>1, Sizes
<1>5. ASSUME NEW k \in 0..(Cap - 1), k < readable
      PROVE  buf'[Slot(rpos, k)] = buf[Slot(rpos, k)]
  <2>1. Slot(rpos, k) \in 0..(Cap - 1) /\ ~ (Gap(Slot(rpos, k), wpos) < BlockBytes)
    BY <1>1, <1>3, <1>5, Sizes DEF Slot, Gap
  <2>2. QED
    BY <1>2, <2>1
<1>6. buf' \in [0..(Cap - 1) -> Nat]
  <2>1. \A a \in 0..(Cap - 1) : Gap(a, wpos) \in 0..(Cap - 1)
    BY <1>1, GapIs
  <2>2. block * BlockBytes \in Nat
    BY BlocksOK, Sizes DEF TypeOK
  <2>3. \A a \in 0..(Cap - 1) : block * BlockBytes + (Gap(a, wpos) + 1) \in Nat /\ buf[a] \in Nat
    <3> DEFINE m == block * BlockBytes
    <3>1. \A a \in 0..(Cap - 1) : buf[a] \in Nat
      BY DEF TypeOK
    <3> HIDE DEF m
    <3>2. \A a \in 0..(Cap - 1) : m + (Gap(a, wpos) + 1) \in Nat
      BY <2>1, <2>2 DEF m
    <3>3. QED
      BY <3>1, <3>2 DEF m
  <2>4. QED
    BY <1>2, <2>3
<1>7. QED
  BY <1>4, <1>5, <1>6

\* The bytes of a block are copied.
LEMMA WriteCopyOK == ASSUME IInv, write_copy PROVE IInv'
<1> USE DEF IInv
<1>1. /\ UNCHANGED <<wpos, rpos, roomEvent, block, wait, timeouts, fpc, avail, n, scratch, out,
                     drained, writePos, feederRunning, playing, play, fresh, fails, waited, paced>>
      /\ ppc = "copy" /\ ppc' = "publish"
  BY DEF write_copy, feederVars, hwVars
<1>2. readable' = readable
  BY <1>1 DEF readable
<1>3. TypeOK'
  BY <1>1, CopySparesContent DEF TypeOK
<1>4. (NoOverlap /\ ProducerOK /\ NoLostWakeup)'
  BY <1>1, <1>2, CopySparesContent DEF NoOverlap, ProducerOK, NoLostWakeup
<1>5. ConsumerOK'
  <2>1. fpc = "consume" => [i \in 1..n |-> buf'[Slot(rpos, i - 1)]] = [i \in 1..n |-> buf[Slot(rpos, i - 1)]]
    <3> SUFFICES ASSUME fpc = "consume", NEW i \in 1..n
                 PROVE  buf'[Slot(rpos, i - 1)] = buf[Slot(rpos, i - 1)]
      OBVIOUS
    <3>1. n <= readable /\ n \in Nat /\ readable \in 0..(Cap - 1)
      BY ReadableIs, Sizes DEF NoOverlap, TypeOK
    <3>2. i - 1 \in 0..(Cap - 1) /\ i - 1 < readable
      BY <3>1, Sizes
    <3>3. QED
      BY <3>2, CopySparesContent
  <2>2. QED
    BY <1>1, <2>1 DEF ConsumerOK
<1>6. LifeOK'
  BY <1>1 DEF LifeOK
<1>8. QED
  BY <1>3, <1>4, <1>5, <1>6

\* The cursor moves: the block is readable.
LEMMA PublishMoves ==
    ASSUME IInv, write_publish
    PROVE  /\ wpos' = Slot(wpos, BlockBytes) /\ wpos' \in 0..(Cap - 1)
           /\ wpos' % FrameBytes = 0
           /\ readable' = readable + BlockBytes
<1> USE DEF IInv
<1>1. wpos \in 0..(Cap - 1) /\ rpos \in 0..(Cap - 1) /\ readable = Gap(wpos, rpos)
      /\ wpos % FrameBytes = 0
  BY ReadableIs
<1>2. wpos' = Slot(wpos, BlockBytes) /\ wpos' \in 0..(Cap - 1) /\ rpos' = rpos
  <2>1. BlockBytes \in 0..Cap
    BY Sizes
  <2>2. QED
    BY <1>1, <2>1, SlotIs DEF write_publish
<1>3. wpos' % FrameBytes = 0
  BY <1>1, <1>2, SlotAligned, Sizes, SizeAssumption
<1>4. readable' = Gap(wpos', rpos)
  BY <1>1, <1>2, GapIs DEF readable
<1>5. Gap(wpos', rpos) = Gap(wpos, rpos) + BlockBytes
  BY <1>1, <1>2, Sizes DEF write_publish, NoOverlap, Slot, Gap
<1>6. QED
  BY <1>1, <1>2, <1>3, <1>4, <1>5

\* push() returns with the block in the ring.
LEMMA WritePublishOK == ASSUME IInv, write_publish PROVE IInv'
<1> USE DEF IInv
<1>1. /\ UNCHANGED <<buf, rpos, roomEvent, fpc, avail, n, scratch, out,
                     drained, writePos, feederRunning, playing, play, fresh, fails, waited, paced>>
      /\ ppc = "publish" /\ ppc' = "idle" /\ block' = 0 /\ wait' = FALSE /\ timeouts' = 0
  BY DEF write_publish, feederVars, hwVars, Return
<1>2. TypeOK'
  <2>1. 0 \in 0..(MaxTimeouts - 1)
    BY Sizes
  <2>2. QED
    BY <1>1, <2>1, PublishMoves DEF TypeOK
<1>3. NoOverlap'
  <2>1. n \in Nat /\ BlockBytes \in Nat /\ readable \in Nat
    BY ReadableIs, Sizes DEF TypeOK
  <2>2. QED
    BY <1>1, <2>1, PublishMoves DEF NoOverlap
<1>4. (ProducerOK /\ NoLostWakeup /\ ConsumerOK /\ LifeOK)'
  BY <1>1 DEF ProducerOK, NoLostWakeup, ConsumerOK, LifeOK
<1>7. QED
  BY <1>2, <1>3, <1>4
-----------------------------------------------------------------------------
(* The feeder. *)

\* What was played since the last refill, in whole frames.
LEMMA AvailIs ==
    ASSUME TypeOK,
           avail' = Aligned(IF play >= writePos THEN play - writePos ELSE DsBytes - writePos + play)
    PROVE  /\ avail' \in Nat /\ avail' <= DsDist(play, writePos) /\ avail' % FrameBytes = 0
           /\ DsDist(play, writePos) \in 0..(DsBytes - 1)
           /\ DsDist(play, writePos) - avail' <= FrameBytes - 1
<1> DEFINE d == IF play >= writePos THEN play - writePos ELSE DsBytes - writePos + play
<1>1. d = DsDist(play, writePos) /\ d \in 0..(DsBytes - 1)
  <2>1. play \in 0..(DsBytes - 1) /\ writePos \in 0..(DsBytes - 1)
    BY DEF TypeOK
  <2>2. QED
    BY <2>1, Sizes DEF DsDist
<1>2. avail' = Aligned(d)
  OBVIOUS
<1> HIDE DEF d
<1>3. d - Aligned(d) <= FrameBytes - 1
  BY <1>1, Sizes DEF Aligned
<1>4. QED
  BY <1>1, <1>2, <1>3, AlignedOK

\* The feeder looks at the play position.
LEMMA PositionOK == ASSUME IInv, feeder_position, waited' \in 0..JoinSteps PROVE IInv'
<1> USE DEF IInv
<1>1. /\ UNCHANGED <<buf, wpos, rpos, roomEvent, ppc, block, wait, timeouts, n, scratch, out,
                     writePos, feederRunning, playing, play, fresh>>
      /\ fpc = "top" /\ feederRunning /\ paced' = 0
  BY DEF feeder_position, fifoVars, emuVars
<1>2. readable' = readable /\ writable' = writable
  BY <1>1 DEF readable, writable
<1>3. 0 \in 0..Lag /\ 0 \in 0..MaxFails
  BY Sizes
<1>4. CASE fails < MaxFails /\ fails' = fails + 1 /\ UNCHANGED <<avail, drained, fpc>>
  <2>1. fails' \in 0..MaxFails
    <3>1. fails \in 0..MaxFails
      BY DEF TypeOK
    <3>2. QED
      BY <1>4, <3>1, Sizes
  <2>2. TypeOK'
    BY <1>1, <1>3, <1>4, <2>1 DEF TypeOK
  <2>3. (NoOverlap /\ ProducerOK /\ ConsumerOK /\ LifeOK /\ NoLostWakeup)'
    BY <1>1, <1>2, <1>4 DEF NoOverlap, ProducerOK, ConsumerOK, LifeOK, NoLostWakeup
  <2>4. QED
    BY <2>2, <2>3
<1>5. CASE /\ avail' = Aligned(IF play >= writePos THEN play - writePos
                               ELSE DsBytes - writePos + play)
           /\ drained' = FALSE
           /\ fpc' = IF avail' > 0 THEN "read" ELSE "top"
           /\ fails' = IF avail' > 0 THEN fails ELSE 0
  <2>1. /\ avail' \in Nat /\ avail' <= DsDist(play, writePos) /\ avail' % FrameBytes = 0
        /\ DsDist(play, writePos) \in 0..(DsBytes - 1)
    BY <1>5, AvailIs
  <2>2. TypeOK'
    <3>1. avail' \in 0..(DsBytes - 1)
      BY <2>1, Sizes
    <3>2. QED
      BY <1>1, <1>3, <1>5, <2>1, <3>1 DEF TypeOK
  <2>3. (NoOverlap /\ ProducerOK /\ LifeOK)'
    BY <1>1, <1>2, <1>5 DEF NoOverlap, ProducerOK, LifeOK
  <2>4. ConsumerOK'
    BY <1>1, <1>5, <2>1 DEF ConsumerOK
  <2>5. NoLostWakeup'
    BY <1>1, <1>2, <1>5 DEF NoLostWakeup, ConsumerOK
  <2>6. QED
    BY <2>2, <2>3, <2>4, <2>5
<1>6. QED
  BY <1>4, <1>5 DEF feeder_position


\* The feeder ends.
LEMMA ExitOK == ASSUME IInv, feeder_exit, waited' \in 0..JoinSteps PROVE IInv'
<1> USE DEF IInv
<1>1. /\ UNCHANGED <<buf, wpos, rpos, roomEvent, ppc, block, wait, timeouts, avail, n, scratch, out,
                     drained, writePos, feederRunning, playing, play, fresh, fails, paced>>
      /\ fpc = "top" /\ ~ feederRunning /\ fpc' = "none"
  BY DEF feeder_exit, fifoVars, emuVars, hwVars
<1>2. readable' = readable /\ writable' = writable
  BY <1>1 DEF readable, writable
<1>3. TypeOK'
  BY <1>1 DEF TypeOK
<1>4. (NoOverlap /\ ProducerOK /\ ConsumerOK)'
  BY <1>1, <1>2 DEF NoOverlap, ProducerOK, ConsumerOK
<1>5. (LifeOK /\ NoLostWakeup)'
  BY <1>1, <1>2 DEF LifeOK, NoLostWakeup
<1>6. QED
  BY <1>3, <1>4, <1>5

\* read() takes no more than is there.
LEMMA ReadOK == ASSUME IInv, read, waited' \in 0..JoinSteps PROVE IInv'
<1> USE DEF IInv
<1>1. /\ UNCHANGED <<buf, wpos, rpos, roomEvent, ppc, block, wait, timeouts, avail, scratch, out,
                     drained, writePos, feederRunning, playing, play, fresh, fails, paced>>
      /\ fpc = "read" /\ fpc' = IF n' = 0 THEN "lock" ELSE "copy"
      /\ n' = Aligned(Least(Least(avail, BlockBytes), readable))
  BY DEF read, fifoVars, emuVars, hwVars
<1>2. n' \in 0..BlockBytes /\ n' <= readable /\ n' % FrameBytes = 0
  <2> DEFINE l == Least(Least(avail, BlockBytes), readable)
  <2>1. avail \in Nat /\ readable \in Nat /\ BlockBytes \in Nat
    BY ReadableIs, Sizes DEF TypeOK
  <2>2. l \in Nat /\ l <= BlockBytes /\ l <= readable
    BY <2>1 DEF Least
  <2> HIDE DEF l
  <2>3. Aligned(l) \in 0..l /\ Aligned(l) % FrameBytes = 0
    BY <2>2, AlignedOK
  <2>4. n' = Aligned(l)
    BY <1>1 DEF l
  <2>5. QED
    BY <2>1, <2>2, <2>3, <2>4
<1>3. readable' = readable /\ writable' = writable
  BY <1>1 DEF readable, writable
<1>4. TypeOK'
  BY <1>1, <1>2 DEF TypeOK
<1>5. (NoOverlap /\ ProducerOK)'
  BY <1>1, <1>2, <1>3 DEF NoOverlap, ProducerOK
<1>6. ConsumerOK'
  BY <1>1, <1>2 DEF ConsumerOK
<1>7. (LifeOK /\ NoLostWakeup)'
  BY <1>1, <1>3 DEF LifeOK, NoLostWakeup
<1>8. QED
  BY <1>4, <1>5, <1>6, <1>7

\* The bytes are copied out of the ring.
LEMMA ReadCopyOK == ASSUME IInv, read_copy, waited' \in 0..JoinSteps PROVE IInv'
<1> USE DEF IInv
<1>1. /\ UNCHANGED <<buf, wpos, rpos, roomEvent, ppc, block, wait, timeouts, avail, n, out,
                     drained, writePos, feederRunning, playing, play, fresh, fails, paced>>
      /\ fpc = "copy" /\ fpc' = "consume"
      /\ scratch' = [i \in 1..n |-> buf[(rpos + i - 1) % Cap]]
  BY DEF read_copy, fifoVars, emuVars, hwVars
<1>2. /\ scratch' = [i \in 1..n |-> buf[Slot(rpos, i - 1)]]
      /\ scratch' \in Seq(Nat)
  <2>1. n \in Nat /\ n <= readable /\ readable \in 0..(Cap - 1) /\ rpos \in 0..(Cap - 1)
    BY <1>1, ReadableIs, Sizes DEF NoOverlap, TypeOK
  <2>2. \A i \in 1..n : rpos + i - 1 = rpos + (i - 1) /\ i - 1 \in 0..Cap
    BY <2>1, Sizes
  <2>3. \A i \in 1..n : (rpos + i - 1) % Cap = Slot(rpos, i - 1) /\ Slot(rpos, i - 1) \in 0..(Cap - 1)
    BY <2>1, <2>2, SlotIs
  <2>4. \A i \in 1..n : buf[Slot(rpos, i - 1)] \in Nat
    BY <2>3 DEF TypeOK
  <2>5. scratch' = [i \in 1..n |-> buf[Slot(rpos, i - 1)]]
    BY <1>1, <2>3
  <2>6. scratch' \in [1..n -> Nat]
    BY <2>4, <2>5
  <2>7. QED
    BY <2>1, <2>5, <2>6, SeqDef
<1>3. readable' = readable /\ writable' = writable
  BY <1>1 DEF readable, writable
<1>4. TypeOK'
  BY <1>1, <1>2 DEF TypeOK
<1>5. (NoOverlap /\ ProducerOK)'
  BY <1>1, <1>3 DEF NoOverlap, ProducerOK
<1>6. ConsumerOK'
  BY <1>1, <1>2 DEF ConsumerOK
<1>7. (LifeOK /\ NoLostWakeup)'
  BY <1>1, <1>3 DEF LifeOK, NoLostWakeup
<1>8. QED
  BY <1>4, <1>5, <1>6, <1>7

\* The cursor moves: the bytes are no longer in the ring.
LEMMA ConsumeMoves ==
    ASSUME IInv, read_consume
    PROVE  /\ rpos' = Slot(rpos, n) /\ rpos' \in 0..(Cap - 1)
           /\ rpos' % FrameBytes = 0
           /\ readable' = readable - n /\ n \in 0..readable
<1> USE DEF IInv
<1>1. /\ wpos \in 0..(Cap - 1) /\ rpos \in 0..(Cap - 1) /\ readable = Gap(wpos, rpos)
      /\ rpos % FrameBytes = 0 /\ readable \in 0..(Cap - 1)
  BY ReadableIs
<1>2. n \in 0..readable /\ n \in 0..Cap /\ n % FrameBytes = 0
  BY <1>1, Sizes DEF read_consume, NoOverlap, TypeOK
<1>3. rpos' = Slot(rpos, n) /\ rpos' \in 0..(Cap - 1) /\ wpos' = wpos
  BY <1>1, <1>2, SlotIs DEF read_consume
<1>4. rpos' % FrameBytes = 0
  BY <1>1, <1>2, <1>3, SlotAligned
<1>5. readable' = Gap(wpos, rpos')
  BY <1>1, <1>3, GapIs DEF readable
<1>6. Gap(wpos, rpos') = Gap(wpos, rpos) - n
  BY <1>1, <1>2, <1>3, Sizes DEF Slot, Gap
<1>7. QED
  BY <1>1, <1>2, <1>3, <1>4, <1>5, <1>6

\* read() returns: there is room, and the round will end with a signal.
LEMMA ConsumeOK == ASSUME IInv, read_consume, waited' \in 0..JoinSteps PROVE IInv'
<1> USE DEF IInv
<1>1. /\ UNCHANGED <<buf, wpos, roomEvent, ppc, block, wait, timeouts, avail, n,
                     writePos, feederRunning, playing, play, fresh, fails, paced>>
      /\ fpc = "consume" /\ fpc' = "lock" /\ drained' = TRUE
      /\ out' = scratch /\ scratch' = << >>
  BY DEF read_consume, emuVars, hwVars
<1>2. TypeOK'
  <2>1. << >> \in Seq(Nat)
    BY EmptySeq
  <2>2. QED
    BY <1>1, <2>1, ConsumeMoves DEF TypeOK
<1>3. NoOverlap'
  <2>1. readable \in Nat /\ n \in Nat /\ readable' = readable - n /\ BlockBytes \in Nat /\ Cap \in Nat
    BY ConsumeMoves, ReadableIs, Sizes
  <2>2. QED
    BY <1>1, <2>1 DEF NoOverlap
<1>4. (ProducerOK /\ ConsumerOK /\ LifeOK /\ NoLostWakeup)'
  BY <1>1 DEF ProducerOK, ConsumerOK, LifeOK, NoLostWakeup
<1>7. QED
  BY <1>2, <1>3, <1>4

\* What it means that a chunk was refilled.
Refilled(chunk) ==
    /\ chunk <= BlockBytes /\ (chunk = avail \/ chunk = BlockBytes)
    /\ avail' = avail - chunk
    /\ avail' \in 0..(DsBytes - 1) /\ avail' % FrameBytes = 0
    /\ writePos' = IF writePos + chunk < DsBytes THEN writePos + chunk
                   ELSE writePos + chunk - DsBytes
    /\ writePos' \in 0..(DsBytes - 1)
    /\ \A x \in 0..(DsBytes - 1) : x \in fresh' <=> x \in fresh \/ DsDist(x, writePos) < chunk
    /\ fresh' \subseteq 0..(DsBytes - 1)

\* Refill writes a chunk of the hardware buffer.
LEMMA RefillIs ==
    ASSUME IInv, fpc = "lock", Refill
    PROVE  \E chunk \in 1..avail : Refilled(chunk)
<1> USE DEF IInv
<1> DEFINE chunk == Least(avail, BlockBytes)
<1>1. /\ avail \in 0..(DsBytes - 1) /\ avail > 0 /\ avail % FrameBytes = 0
      /\ writePos \in 0..(DsBytes - 1) /\ fresh \subseteq 0..(DsBytes - 1)
  BY DEF TypeOK, ConsumerOK
<1>2. /\ chunk \in 1..avail /\ chunk \in 0..DsBytes /\ chunk % FrameBytes = 0
      /\ chunk <= BlockBytes /\ (chunk = avail \/ chunk = BlockBytes)
  BY <1>1, Sizes, SizeAssumption DEF Least
<1>3. /\ fresh' = fresh \cup {(writePos + i) % DsBytes : i \in 0..(chunk - 1)}
      /\ writePos' = (writePos + chunk) % DsBytes /\ avail' = avail - chunk
  BY DEF Refill
<1> HIDE DEF chunk
<1>4. avail' \in 0..(DsBytes - 1) /\ avail' % FrameBytes = 0
  <2>1. avail' \in 0..(DsBytes - 1)
    BY <1>1, <1>2, <1>3, Sizes
  <2>2. avail \in Int /\ chunk \in Int
    BY <1>1, <1>2
  <2>3. (avail - chunk) % FrameBytes = 0
    BY <1>1, <1>2, <2>2, Sizes, WholeFrames
  <2>4. QED
    BY <1>3, <2>1, <2>3
<1>5. /\ writePos' = IF writePos + chunk < DsBytes THEN writePos + chunk
                     ELSE writePos + chunk - DsBytes
      /\ writePos' \in 0..(DsBytes - 1)
  BY <1>1, <1>2, <1>3, DsSlotIs
<1>6. /\ \A x \in 0..(DsBytes - 1) : x \in fresh' <=> x \in fresh \/ DsDist(x, writePos) < chunk
      /\ fresh' \subseteq 0..(DsBytes - 1)
  <2>1. \A i \in 0..(chunk - 1) :
           /\ (writePos + i) % DsBytes = IF writePos + i < DsBytes THEN writePos + i
                                         ELSE writePos + i - DsBytes
           /\ (writePos + i) % DsBytes \in 0..(DsBytes - 1)
    <3> TAKE i \in 0..(chunk - 1)
    <3>1. i \in 0..DsBytes
      BY <1>2, Sizes
    <3>2. QED
      BY <1>1, <3>1, DsSlotIs
  <2>2. ASSUME NEW x \in 0..(DsBytes - 1)
        PROVE  (\E i \in 0..(chunk - 1) : x = (writePos + i) % DsBytes) <=> DsDist(x, writePos) < chunk
    <3>1. ASSUME NEW i \in 0..(chunk - 1), x = (writePos + i) % DsBytes
          PROVE  DsDist(x, writePos) < chunk
      BY <1>1, <1>2, <2>1, <3>1, Sizes DEF DsDist
    <3>2. ASSUME DsDist(x, writePos) < chunk
          PROVE  \E i \in 0..(chunk - 1) : x = (writePos + i) % DsBytes
      <4>1. DsDist(x, writePos) \in 0..(chunk - 1)
        BY <1>1, <1>2, <3>2, Sizes DEF DsDist
      <4>2. x = IF writePos + DsDist(x, writePos) < DsBytes THEN writePos + DsDist(x, writePos)
                ELSE writePos + DsDist(x, writePos) - DsBytes
        BY <1>1, Sizes DEF DsDist
      <4>3. x = (writePos + DsDist(x, writePos)) % DsBytes
        BY <2>1, <4>1, <4>2
      <4>4. QED
        BY <4>1, <4>3
    <3>3. QED
      BY <3>1, <3>2
  <2> DEFINE W == {(writePos + i) % DsBytes : i \in 0..(chunk - 1)}
  <2>3. \A x : x \in W <=> \E i \in 0..(chunk - 1) : x = (writePos + i) % DsBytes
    OBVIOUS
  <2>4. W \subseteq 0..(DsBytes - 1)
    BY <2>1
  <2>5. fresh' = fresh \cup W
    BY <1>3
  <2> HIDE DEF W
  <2>6. \A x \in 0..(DsBytes - 1) : x \in W <=> DsDist(x, writePos) < chunk
    BY <2>2, <2>3
  <2>7. QED
    BY <1>1, <2>4, <2>5, <2>6
<1>7. Refilled(chunk)
  BY <1>2, <1>3, <1>4, <1>5, <1>6 DEF Refilled
<1>8. QED
  BY <1>2, <1>7

\* A chunk of the hardware buffer is written, or Lock() failed.
LEMMA LockOK == ASSUME IInv, feeder_lock, waited' \in 0..JoinSteps PROVE IInv'
<1> USE DEF IInv
<1>1. /\ UNCHANGED <<buf, wpos, rpos, roomEvent, ppc, block, wait, timeouts, scratch, out,
                     drained, feederRunning, playing, play, paced>>
      /\ fpc = "lock" /\ n' = 0
  BY DEF feeder_lock, fifoVars, emuVars
<1>2. readable' = readable /\ writable' = writable
  BY <1>1 DEF readable, writable
<1>3. 0 % FrameBytes = 0 /\ 0 \in 0..BlockBytes /\ 0 \in 0..MaxFails
  BY Sizes
<1>4. CASE fails < MaxFails /\ fails' = fails + 1 /\ fpc' = "wake" /\ UNCHANGED <<writePos, avail, fresh>>
  <2>1. fails' \in 0..MaxFails
    <3>1. fails \in 0..MaxFails
      BY DEF TypeOK
    <3>2. QED
      BY <1>4, <3>1, Sizes
  <2>2. TypeOK'
    BY <1>1, <1>3, <1>4, <2>1 DEF TypeOK
  <2>3. (NoOverlap /\ ProducerOK /\ ConsumerOK /\ LifeOK /\ NoLostWakeup)'
    BY <1>1, <1>2, <1>4 DEF NoOverlap, ProducerOK, ConsumerOK, LifeOK, NoLostWakeup
  <2>4. QED
    BY <2>2, <2>3
<1>5. CASE Refill
  <2>1. PICK chunk \in 1..avail : Refilled(chunk)
    BY <1>1, <1>5, RefillIs
  <2>2. /\ fails' = IF avail' > 0 THEN fails ELSE 0
        /\ fpc' = IF avail' > 0 THEN "read" ELSE "wake"
    BY <1>5 DEF Refill
  <2>3. TypeOK'
    BY <1>1, <1>3, <2>1, <2>2 DEF TypeOK, Refilled
  <2>4. (NoOverlap /\ ProducerOK /\ LifeOK /\ NoLostWakeup)'
    BY <1>1, <1>2, <2>2 DEF NoOverlap, ProducerOK, LifeOK, NoLostWakeup
  <2>5. ConsumerOK'
    BY <1>1, <2>1, <2>2 DEF ConsumerOK, Refilled
  <2>6. QED
    BY <2>3, <2>4, <2>5
<1>6. QED
  BY <1>4, <1>5 DEF feeder_lock


\* The end of a round: a push() that waits is told if bytes were drained.
LEMMA WakeOK == ASSUME IInv, feeder_wake, waited' \in 0..JoinSteps PROVE IInv'
<1> USE DEF IInv
<1>1. /\ UNCHANGED <<buf, wpos, rpos, ppc, block, wait, timeouts, n, scratch, out,
                     writePos, feederRunning, playing, play, fresh, fails, paced>>
      /\ fpc = "wake" /\ fpc' = "top" /\ drained' = FALSE /\ avail' = 0
      /\ roomEvent' = (roomEvent \/ drained)
  BY DEF feeder_wake, fifoVars, emuVars, hwVars
<1>2. readable' = readable /\ writable' = writable
  BY <1>1 DEF readable, writable
<1>3. 0 \in 0..(DsBytes - 1) /\ 0 % FrameBytes = 0
  BY Sizes
<1>4. TypeOK'
  BY <1>1, <1>3 DEF TypeOK
<1>5. (NoOverlap /\ ProducerOK /\ ConsumerOK)'
  BY <1>1, <1>2 DEF NoOverlap, ProducerOK, ConsumerOK
<1>6. (LifeOK /\ NoLostWakeup)'
  BY <1>1, <1>2 DEF LifeOK, NoLostWakeup
<1>8. QED
  BY <1>4, <1>5, <1>6
-----------------------------------------------------------------------------
(* The hardware, init() and term(). *)

\* The play position moves on by one.
LEMMA PlayMoves ==
    ASSUME IInv, Play
    PROVE  /\ play' = IF play + 1 < DsBytes THEN play + 1 ELSE play + 1 - DsBytes
           /\ play' \in 0..(DsBytes - 1)
<1>1. 1 \in 0..DsBytes /\ play \in 0..(DsBytes - 1)
  BY Sizes DEF IInv, TypeOK
<1>2. QED
  BY <1>1, DsSlotIs DEF Play

\* The hardware plays a byte.
LEMMA PlayOK == ASSUME IInv, Play PROVE IInv'
<1> USE DEF IInv
<1>1. /\ UNCHANGED <<buf, wpos, rpos, roomEvent, ppc, block, wait, timeouts, fpc, avail, n,
                     scratch, out, drained, writePos, fails, waited, feederRunning, playing>>
      /\ fresh' = fresh \ {play}
  BY DEF Play, fifoVars, emuVars, feederVars
<1>2. readable' = readable /\ writable' = writable
  BY <1>1 DEF readable, writable
<1>3. play' \in 0..(DsBytes - 1)
  BY PlayMoves
<1>4. paced' \in 0..Lag
  BY Sizes DEF Play, TypeOK
<1>5. fresh' \subseteq 0..(DsBytes - 1)
  BY <1>1 DEF TypeOK
<1>6. TypeOK'
  BY <1>1, <1>3, <1>4, <1>5 DEF TypeOK
<1>7. (NoOverlap /\ ProducerOK /\ ConsumerOK /\ LifeOK /\ NoLostWakeup)'
  BY <1>1, <1>2 DEF NoOverlap, ProducerOK, ConsumerOK, LifeOK, NoLostWakeup
<1>8. QED
  BY <1>6, <1>7


\* init() starts the feeder on an empty ring and a silent buffer.
LEMMA InitStepOK == ASSUME IInv, init PROVE IInv'
<1> USE DEF IInv
<1>1. /\ UNCHANGED <<block, wait, timeouts, avail, n, scratch, drained, waited, playing>>
      /\ fails' = 0 /\ paced' = 0
      /\ ppc = "off" /\ fpc = "none"
      /\ buf' = [a \in 0..(Cap - 1) |-> 0] /\ wpos' = 0 /\ rpos' = 0
      /\ writePos' = 0 /\ play' = 0 /\ fresh' = 0..(DsBytes - 1)
      /\ roomEvent' = FALSE /\ out' = << >>
      /\ \/ feederRunning' = TRUE /\ fpc' = "top" /\ ppc' = "init"
         \/ feederRunning' = FALSE /\ fpc' = "none" /\ ppc' = "join"
  BY DEF init
<1>2. TypeOK'
  <2>1. /\ 0 \in 0..(Cap - 1) /\ 0 \in 0..(DsBytes - 1) /\ 0 % FrameBytes = 0
        /\ 0 \in 0..MaxFails /\ 0 \in 0..Lag
    BY Sizes
  <2>2. << >> \in Seq(Nat)
    BY EmptySeq
  <2>3. QED
    BY <1>1, <2>1, <2>2 DEF TypeOK
<1>3. (NoOverlap /\ ProducerOK /\ ConsumerOK)'
  BY <1>1 DEF NoOverlap, ProducerOK, ConsumerOK
<1>4. (LifeOK /\ NoLostWakeup)'
  BY <1>1 DEF LifeOK, NoLostWakeup
<1>6. QED
  BY <1>2, <1>3, <1>4

\* The hardware starts, or init() gives up; term() is called.
LEMMA StartStopOK == ASSUME IInv, init_Play \/ term PROVE IInv'
<1> USE DEF IInv
<1>1. /\ UNCHANGED <<buf, wpos, rpos, roomEvent, block, wait, timeouts, fpc, avail, n,
                     scratch, out, drained, writePos, play, fresh, fails, waited, paced>>
      /\ ppc \in {"init", "idle"}
      /\ \/ ppc = "init" /\ playing' = TRUE /\ ppc' = "idle" /\ feederRunning' = feederRunning
         \/ playing' = playing /\ ppc' = "join" /\ feederRunning' = FALSE
  BY DEF init_Play, term, fifoVars, feederVars, hwVars
<1>2. readable' = readable /\ writable' = writable
  BY <1>1 DEF readable, writable
<1>3. TypeOK'
  BY <1>1 DEF TypeOK
<1>4. (NoOverlap /\ ProducerOK /\ ConsumerOK)'
  BY <1>1, <1>2 DEF NoOverlap, ProducerOK, ConsumerOK
<1>5. (LifeOK /\ NoLostWakeup)'
  BY <1>1, <1>2 DEF LifeOK, NoLostWakeup
<1>7. QED
  BY <1>3, <1>4, <1>5

\* The buffer is released, whether or not the feeder has ended.
LEMMA ReleaseOK == ASSUME IInv, term_release PROVE IInv'
<1> USE DEF IInv
<1>1. /\ UNCHANGED <<buf, wpos, rpos, block, wait, timeouts, fpc, avail, n,
                     scratch, out, drained, writePos, fails, feederRunning, play, paced>>
      /\ ppc = "join" /\ playing' = FALSE /\ fresh' = {}
      /\ roomEvent' = FALSE /\ waited' = 0 /\ ppc' = "off"
  BY DEF term_release, fifoVars, feederVars
<1>2. TypeOK'
  <2>1. 0 \in 0..JoinSteps
    BY Sizes
  <2>2. QED
    BY <1>1, <2>1 DEF TypeOK
<1>3. (NoOverlap /\ ProducerOK /\ ConsumerOK)'
  <2>1. readable' = readable
    BY <1>1 DEF readable
  <2>2. QED
    BY <1>1, <2>1 DEF NoOverlap, ProducerOK, ConsumerOK
<1>4. (LifeOK /\ NoLostWakeup)'
  BY <1>1 DEF LifeOK, NoLostWakeup
<1>5. QED
  BY <1>2, <1>3, <1>4

-----------------------------------------------------------------------------
(* The ring is a queue. *)

\* Content as a sequence.
LEMMA ContentIs ==
    ASSUME TypeOK
    PROVE  /\ Content = [i \in 1..readable |-> buf[Slot(rpos, i - 1)]]
           /\ Content \in Seq(Nat) /\ Len(Content) = readable
<1>1. readable \in 0..(Cap - 1) /\ rpos \in 0..(Cap - 1)
  BY ReadableIs
<1>2. \A i \in 1..readable : rpos + i - 1 = rpos + (i - 1) /\ i - 1 \in 0..Cap
  BY <1>1, Sizes
<1>3. \A i \in 1..readable :
         (rpos + i - 1) % Cap = Slot(rpos, i - 1) /\ Slot(rpos, i - 1) \in 0..(Cap - 1)
  BY <1>1, <1>2, SlotIs
<1>4. Content = [i \in 1..readable |-> buf[Slot(rpos, i - 1)]]
  BY <1>3 DEF Content
<1>5. Content \in [1..readable -> Nat]
  BY <1>3, <1>4 DEF TypeOK
<1>6. readable \in Nat
  BY <1>1, Sizes
<1>7. QED
  BY <1>4, <1>5, <1>6, SeqDef

\* Nothing of the ring changed.
LEMMA SameContent ==
    ASSUME UNCHANGED <<buf, wpos, rpos, out>>
    PROVE  UNCHANGED <<Content, out>>
  BY DEF Content, readable

\* write() puts the block at the end of the queue when it moves the cursor.
LEMMA PublishPuts == ASSUME IInv, write_publish, TypeOK' PROVE Queue!Put
<1> USE DEF IInv
<1>1. /\ UNCHANGED <<buf, rpos, out>> /\ ppc = "publish"
  BY DEF write_publish, feederVars
<1>2. /\ readable' = readable + BlockBytes /\ readable \in 0..(Cap - 1)
      /\ readable + BlockBytes < Cap /\ block \in Blocks
      /\ readable = Gap(wpos, rpos) /\ wpos \in 0..(Cap - 1) /\ rpos \in 0..(Cap - 1)
  BY <1>1, PublishMoves, ReadableIs DEF NoOverlap, ProducerOK
<1>3. /\ Content = [i \in 1..readable |-> buf[Slot(rpos, i - 1)]]
      /\ Content \in Seq(Nat) /\ Len(Content) = readable
  BY ContentIs
<1>4. /\ Content' = [i \in 1..(readable + BlockBytes) |-> buf[Slot(rpos, i - 1)]]
  <2>1. (Content = [i \in 1..readable |-> buf[Slot(rpos, i - 1)]])'
    BY ContentIs, PTL
  <2>2. QED
    BY <1>1, <1>2, <2>1 DEF Slot
<1>5. Queue!BlockOf(block) = [i \in 1..BlockBytes |-> block * BlockBytes + i]
  BY DEF Queue!BlockOf
<1>6. Queue!BlockOf(block) \in Seq(Nat) /\ Len(Queue!BlockOf(block)) = BlockBytes
  <2>1. block * BlockBytes \in Nat
    BY <1>2, BlocksOK, Sizes
  <2> DEFINE m == block * BlockBytes
  <2>2. \A i \in 1..BlockBytes : m + i \in Nat
    <3> HIDE DEF m
    <3> QED
      BY <2>1, Sizes DEF m
  <2>3. Queue!BlockOf(block) \in [1..BlockBytes -> Nat]
    BY <1>5, <2>2
  <2>4. QED
    BY <1>5, <2>3, Sizes, SeqDef
<1>7. \A i \in 1..BlockBytes : buf[Slot(rpos, readable + i - 1)] = block * BlockBytes + i
  <2>1. \A i \in 1..BlockBytes : Slot(rpos, readable + i - 1) = Slot(wpos, i - 1)
    BY <1>2, Sizes DEF Slot, Gap
  <2>2. QED
    BY <1>1, <2>1 DEF ProducerOK
<1>8. Content' = Content \o Queue!BlockOf(block)
  <2> DEFINE c == Content \o Queue!BlockOf(block)
             d == Content'
  <2>1. c \in Seq(Nat) /\ Len(c) = readable + BlockBytes
    BY <1>3, <1>6, ConcatProperties
  <2>2. d \in Seq(Nat) /\ Len(d) = readable + BlockBytes
    <3>1. (Content \in Seq(Nat) /\ Len(Content) = readable)'
      BY ContentIs, PTL
    <3>2. QED
      BY <1>2, <3>1
  <2>3. ASSUME NEW i \in 1..(readable + BlockBytes) PROVE d[i] = c[i]
    <3>1. CASE i <= readable
      <4>1. c[i] = Content[i]
        BY <1>2, <1>3, <1>6, <3>1, ConcatProperties
      <4>2. QED
        BY <1>2, <1>3, <1>4, <3>1, <4>1
    <3>2. CASE i > readable
      <4>1. i - readable \in 1..BlockBytes
        BY <1>2, <3>2, Sizes
      <4>2. c[i] = Queue!BlockOf(block)[i - readable]
        BY <1>2, <1>3, <1>6, <3>2, <4>1, Sizes, ConcatProperties
      <4>3. readable + (i - readable) - 1 = i - 1
        BY <1>2, Sizes
      <4>4. buf[Slot(rpos, i - 1)] = block * BlockBytes + (i - readable)
        BY <1>7, <4>1, <4>3
      <4>5. QED
        BY <1>4, <1>5, <4>1, <4>2, <4>4
    <3>3. i <= readable \/ i > readable
      BY <1>2, Sizes
    <3>4. QED
      BY <3>1, <3>2, <3>3
  <2> HIDE DEF c, d
  <2>4. c = d
    BY <2>1, <2>2, <2>3, SeqEqual
  <2>5. QED
    BY <2>4 DEF c, d
<1>9. Len(Content) + BlockBytes <= Cap - 1
  BY <1>2, <1>3, Sizes
<1>10. QED
  BY <1>1, <1>2, <1>8, <1>9 DEF Queue!Put
\* read() takes the frames it copied from the head of the queue when it moves
\* the cursor.
LEMMA ConsumeGets == ASSUME IInv, read_consume, TypeOK' PROVE Queue!Get
<1> USE DEF IInv
<1>1. /\ UNCHANGED <<buf, wpos>> /\ fpc = "consume" /\ out' = scratch
      /\ scratch = [i \in 1..n |-> buf[Slot(rpos, i - 1)]]
  BY DEF read_consume, ConsumerOK
<1>2. /\ readable' = readable - n /\ readable \in 0..(Cap - 1) /\ n \in 1..readable
      /\ n % FrameBytes = 0
      /\ rpos' = Slot(rpos, n) /\ rpos \in 0..(Cap - 1)
  <2>1. n > 0 /\ n % FrameBytes = 0
    BY <1>1 DEF ConsumerOK, TypeOK
  <2>2. QED
    BY <2>1, ConsumeMoves, ReadableIs
<1>3. /\ Content = [i \in 1..readable |-> buf[Slot(rpos, i - 1)]]
      /\ Content \in Seq(Nat) /\ Len(Content) = readable
  BY ContentIs
<1>4. /\ Content' = [i \in 1..(readable - n) |-> buf[Slot(rpos', i - 1)]]
      /\ Content' \in Seq(Nat) /\ Len(Content') = readable - n
  <2>1. (Content = [i \in 1..readable |-> buf[Slot(rpos, i - 1)]])'
    BY ContentIs, PTL
  <2>2. (Content \in Seq(Nat) /\ Len(Content) = readable)'
    BY ContentIs, PTL
  <2>3. QED
    BY <1>1, <1>2, <2>1, <2>2 DEF Slot
<1>5. \A i \in 1..readable : Content[i] \in Nat
  BY <1>3, ElementOfSeq
<1>6. out' = SubSeq(Content, 1, n)
  <2> DEFINE c == SubSeq(Content, 1, n)
  <2>1. \A i \in 1..n : Content[i] \in Nat /\ Content[i] = scratch[i]
    BY <1>1, <1>2, <1>3, <1>5
  <2>2. n \in Int /\ 1 \in Int /\ n - 1 + 1 = n /\ 1 <= n
    BY <1>2
  <2>3. c \in Seq(Nat) /\ Len(c) = n /\ \A i \in 1..n : c[i] = Content[1 + i - 1]
    BY <2>1, <2>2, SubSeqProperties
  <2>4. \A i \in 1..n : c[i] = scratch[i]
    <3>1. \A i \in 1..n : 1 + i - 1 = i
      BY <2>2
    <3>2. QED
      BY <2>1, <2>3, <3>1
  <2>5. scratch \in Seq(Nat) /\ Len(scratch) = n
    BY <1>1, <1>2 DEF TypeOK
  <2> HIDE DEF c
  <2>6. scratch = c
    BY <2>3, <2>4, <2>5, SeqEqual
  <2>7. QED
    BY <1>1, <2>6 DEF c
<1>7. Content' = SubSeq(Content, n + 1, Len(Content))
  <2> DEFINE c == SubSeq(Content, n + 1, readable)
             d == Content'
  <2>1. \A i \in (n + 1)..readable : Content[i] \in Nat
    BY <1>2, <1>5
  <2>2. n + 1 \in Int /\ readable \in Int /\ readable - (n + 1) + 1 = readable - n
    BY <1>2
  <2>3. c \in Seq(Nat) /\ Len(c) = readable - n
        /\ \A i \in 1..(readable - n) : c[i] = Content[(n + 1) + i - 1]
    <3>1. /\ c \in Seq(Nat) /\ Len(c) = IF n + 1 <= readable THEN readable - (n + 1) + 1 ELSE 0
          /\ \A i \in 1..(readable - (n + 1) + 1) : c[i] = Content[(n + 1) + i - 1]
      BY <2>1, <2>2, SubSeqProperties
    <3> HIDE DEF c
    <3>2. Len(c) = readable - n
      BY <1>2, <3>1
    <3>3. QED
      BY <2>2, <3>1, <3>2
  <2>4. ASSUME NEW i \in 1..(readable - n) PROVE d[i] = c[i]
    <3>1. (n + 1) + i - 1 = n + i /\ n + i \in 1..readable
      BY <1>2
    <3>2. Slot(rpos', i - 1) = Slot(rpos, (n + i) - 1)
      BY <1>2, Sizes DEF Slot
    <3>3. d[i] = buf[Slot(rpos', i - 1)] /\ Content[n + i] = buf[Slot(rpos, (n + i) - 1)]
      BY <1>3, <1>4, <3>1
    <3>4. QED
      BY <2>3, <3>1, <3>2, <3>3
  <2>5. d \in Seq(Nat) /\ Len(d) = readable - n
    BY <1>4
  <2> HIDE DEF c, d
  <2>6. c = d
    BY <2>3, <2>4, <2>5, SeqEqual
  <2>7. QED
    BY <1>3, <2>6 DEF c, d
<1>8. QED
  BY <1>2, <1>3, <1>6, <1>7 DEF Queue!Get

\* Copying a block into the ring does not show in the queue.
LEMMA CopyIsHidden == ASSUME IInv, write_copy, TypeOK' PROVE UNCHANGED <<Content, out>>
<1> USE DEF IInv
<1>1. UNCHANGED <<wpos, rpos, out>>
  BY DEF write_copy, feederVars
<1>2. readable' = readable /\ readable \in 0..(Cap - 1)
  BY <1>1, ReadableIs DEF readable
<1>3. Content = [i \in 1..readable |-> buf[Slot(rpos, i - 1)]]
  BY ContentIs
<1>4. (Content = [i \in 1..readable |-> buf[Slot(rpos, i - 1)]])'
  BY ContentIs, PTL
<1>5. \A i \in 1..readable : buf'[Slot(rpos, i - 1)] = buf[Slot(rpos, i - 1)]
  <2>1. \A i \in 1..readable : i - 1 \in 0..(Cap - 1) /\ i - 1 < readable
    BY <1>2, Sizes
  <2>2. QED
    BY <2>1, CopySparesContent
<1>6. QED
  BY <1>1, <1>2, <1>3, <1>4, <1>5 DEF Slot

\* An empty ring is an empty queue.
LEMMA EmptyContent == ASSUME wpos = 0, rpos = 0 PROVE Content = << >>
<1>1. 0 \in 0..(Cap - 1) /\ Gap(0, 0) = 0
  BY Sizes DEF Gap
<1>2. (0 - 0 + Cap) % Cap = 0
  BY <1>1, GapIs
<1>3. readable = 0
  BY <1>2 DEF readable
<1>4. QED
  BY <1>3 DEF Content

-----------------------------------------------------------------------------
(* Theorems. *)

\* The steps that leave the ring alone.
Elsewhere ==
    \/ init_Play \/ term \/ term_release \/ push \/ write \/ push_wait
    \/ feeder_position \/ feeder_exit \/ read \/ read_copy \/ feeder_lock \/ feeder_wake
    \/ Play \/ UNCHANGED vars

\* IInv is inductive.
LEMMA StepOK == ASSUME IInv, [Next]_vars PROVE IInv'
<1>1. CASE UNCHANGED vars
  <2> USE DEF vars, fifoVars, emuVars, feederVars, hwVars
  <2>1. readable' = readable /\ writable' = writable
    BY <1>1 DEF readable, writable
  <2>2. TypeOK'
    BY <1>1 DEF IInv, TypeOK
  <2>3. (NoOverlap /\ ProducerOK /\ ConsumerOK)'
    BY <1>1, <2>1 DEF IInv, NoOverlap, ProducerOK, ConsumerOK
  <2>4. (LifeOK /\ NoLostWakeup)'
    BY <1>1, <2>1 DEF IInv, LifeOK, NoLostWakeup
  <2>5. QED
    BY <2>2, <2>3, <2>4 DEF IInv
<1>2. CASE init \/ init_Play \/ term \/ term_release \/ Play
  BY <1>2, InitStepOK, StartStopOK, ReleaseOK, PlayOK
<1>3. CASE push \/ PushNext
  BY <1>3, PushOK, WriteOK, WriteCopyOK, WritePublishOK, PushWaitOK DEF PushNext
<1>4. CASE FeederNext
  <2>1. waited' \in 0..JoinSteps
    <3>1. waited \in 0..JoinSteps
      BY DEF IInv, TypeOK
    <3>2. QED
      BY <1>4, <3>1, Sizes DEF FeederNext, Least
  <2>2. QED
    BY <1>4, <2>1, PositionOK, ExitOK, ReadOK, ReadCopyOK, ConsumeOK, LockOK, WakeOK DEF FeederNext
<1>5. QED
  BY <1>1, <1>2, <1>3, <1>4 DEF Next

\* IInv holds in every reachable state.
LEMMA Invariant == Spec => []IInv
<1>1. IInv /\ [Next]_vars => IInv'
  BY StepOK
<1>2. QED
  BY <1>1, InitOK, PTL DEF Spec

\* Type correctness: the cursors stay in the ring, at frame boundaries.
THEOREM TypeCorrect == Spec => []TypeOK
<1>1. IInv => TypeOK
  BY DEF IInv
<1>2. QED
  BY <1>1, Invariant, PTL

\* push() and the feeder never touch the same bytes of the ring.
THEOREM CopiesApart == Spec => []NoOverlap
<1>1. IInv => NoOverlap
  BY DEF IInv
<1>2. QED
  BY <1>1, Invariant, PTL

\* A push() that waits although there is room will be woken.
THEOREM WakeupKept == Spec => []NoLostWakeup
<1>1. IInv => NoLostWakeup
  BY DEF IInv
<1>2. QED
  BY <1>1, Invariant, PTL

\* The lock-free ring implements the queue of AudioQueue: nothing is lost,
\* duplicated, torn or reordered between push() and the feeder.
THEOREM RingIsQueue == Spec => ImplementsQueue
<1>1. Init => Queue!Init
  BY EmptyContent DEF Init, Queue!Init
<1>2. ASSUME IInv, [Next]_vars PROVE [Queue!Next]_<<Content, out>>
  <2>1. TypeOK'
    BY <1>2, StepOK DEF IInv
  <2>2. CASE init
    <3>1. wpos' = 0 /\ rpos' = 0 /\ out' = << >>
      BY <2>2 DEF init
    <3>2. Content' = << >>
      <4>1. (wpos = 0 /\ rpos = 0)'
        BY <3>1
      <4>2. (Content = << >>)'
        BY <4>1, EmptyContent, PTL
      <4>3. QED
        BY <4>2
    <3>3. QED
      BY <3>1, <3>2 DEF Queue!Next, Queue!Clear
  <2>3. CASE write_publish
    BY <1>2, <2>1, <2>3, PublishPuts DEF Queue!Next
  <2>4. CASE read_consume
    BY <1>2, <2>1, <2>4, ConsumeGets DEF Queue!Next
  <2>5. CASE write_copy
    BY <1>2, <2>1, <2>5, CopyIsHidden
  <2>6. CASE Elsewhere
    <3>1. UNCHANGED <<buf, wpos, rpos, out>>
      BY <2>6 DEF Elsewhere, init_Play, term, term_release, push, write, push_wait,
                  feeder_position, feeder_exit, read, read_copy, feeder_lock, feeder_wake,
                  Play, vars, fifoVars, feederVars
    <3>2. QED
      BY <3>1, SameContent
  <2>7. QED
    BY <1>2, <2>2, <2>3, <2>4, <2>5, <2>6 DEF Next, PushNext, FeederNext, Elsewhere
<1>3. IInv /\ [Next]_vars => [Queue!Next]_<<Content, out>>
  BY <1>2
<1>4. QED
  BY <1>1, <1>3, Invariant, PTL DEF Spec, ImplementsQueue, Queue!Spec
-----------------------------------------------------------------------------
(* What the hardware plays, and how the feeder ends: for two conditions on   *)
(* the constants that the sizes of the code satisfy.                         *)

\* The hardware buffer is longer than what is played while MaxFails rounds in a
\* row fail, in the round that refills it and in the one before: 8192 bytes are
\* 46 ms, a round is a sleep of 2 ms.
InTime == FrameBytes + (MaxFails + 2) * Lag <= DsBytes

\* While term() waits the feeder can refill the whole buffer and end: 18 steps in
\* 2 s with the sizes of the code, which has four blocks.
EnoughTime == \E k \in Nat : DsBytes <= k * BlockBytes /\ 4 * k + 2 <= JoinSteps

\* Bytes of the hardware buffer that were played and not written since.
Stale == DsDist(play, writePos)

\* They lie from the write position on.  Between two rounds of the feeder what a
\* frame leaves over, the failed rounds and this one may have made bytes stale;
\* in a round that refills, what is left to refill comes on top of what was played
\* since it began.
FreshOK ==
    ppc # "off" =>
        /\ \A x \in 0..(DsBytes - 1) : x \in fresh <=> DsDist(x, writePos) >= Stale
        /\ fpc \in {"none", "top", "wake"} => Stale <= FrameBytes - 1 + fails * Lag + paced
        /\ fpc \in {"read", "copy", "consume", "lock"} =>
              /\ avail <= Stale /\ Stale - avail <= FrameBytes - 1 + paced
              /\ Stale <= FrameBytes - 1 + (fails + 1) * Lag + paced

\* Steps that concern neither the feeder's progress nor the hardware.
SameSound ==
    /\ UNCHANGED <<writePos, avail, fails, play, fresh, paced>>
    /\ ppc' # "off" => ppc # "off"
    /\ \/ fpc' = fpc
       \/ fpc \in {"read", "copy", "consume"} /\ fpc' \in {"copy", "consume", "lock"}
       \/ fpc = "top" /\ fpc' = "none"

\* The bytes played in a number of rounds.
LEMMA LagIs ==
    ASSUME NEW k \in Nat
    PROVE  /\ k * Lag \in Nat /\ (k + 1) * Lag = k * Lag + Lag
           /\ 0 * Lag = 0
           /\ k <= MaxFails => k * Lag <= MaxFails * Lag
           /\ (MaxFails + 2) * Lag = MaxFails * Lag + Lag + Lag
  BY Sizes

\* Such steps make nothing stale.
LEMMA SameSoundOK == ASSUME FreshOK, SameSound PROVE FreshOK'
  BY DEF FreshOK, SameSound, Stale

\* The types these proofs need.
LEMMA SoundTypes ==
    ASSUME IInv
    PROVE  /\ play \in 0..(DsBytes - 1) /\ writePos \in 0..(DsBytes - 1)
           /\ fresh \subseteq 0..(DsBytes - 1) /\ avail \in 0..(DsBytes - 1)
           /\ fails \in Nat /\ fails <= MaxFails /\ paced \in Nat /\ paced <= Lag
           /\ Stale \in 0..(DsBytes - 1)
<1>1. /\ play \in 0..(DsBytes - 1) /\ writePos \in 0..(DsBytes - 1)
      /\ fresh \subseteq 0..(DsBytes - 1) /\ avail \in 0..(DsBytes - 1)
      /\ fails \in 0..MaxFails /\ paced \in 0..Lag
  BY DEF IInv, TypeOK
<1>2. QED
  BY <1>1, Sizes DEF Stale, DsDist

\* The beginning of a round.
LEMMA PositionFresh == ASSUME IInv, FreshOK, feeder_position PROVE FreshOK'
<1>1. /\ UNCHANGED <<writePos, play, fresh, ppc>> /\ fpc = "top" /\ paced' = 0
  BY DEF feeder_position, emuVars
<1>2. SUFFICES ASSUME ppc # "off" PROVE FreshOK'
  BY <1>1 DEF FreshOK
<1>3. /\ \A x \in 0..(DsBytes - 1) : x \in fresh <=> DsDist(x, writePos) >= Stale
      /\ Stale <= FrameBytes - 1 + fails * Lag + paced
  BY <1>1, <1>2 DEF FreshOK
<1>4. Stale' = Stale
  BY <1>1 DEF Stale
<1>5. Stale <= FrameBytes - 1 + (fails + 1) * Lag /\ fails * Lag \in Nat /\ (fails + 1) * Lag \in Nat
  BY <1>3, SoundTypes, LagIs, Sizes
<1>6. CASE fails' = fails + 1 /\ UNCHANGED <<avail, drained, fpc>>
  BY <1>1, <1>3, <1>4, <1>5, <1>6, SoundTypes, Sizes DEF FreshOK
<1>7. CASE /\ avail' = Aligned(IF play >= writePos THEN play - writePos
                               ELSE DsBytes - writePos + play)
           /\ fpc' = IF avail' > 0 THEN "read" ELSE "top"
           /\ fails' = IF avail' > 0 THEN fails ELSE 0
  <2>1. avail' \in Nat /\ avail' <= Stale /\ Stale - avail' <= FrameBytes - 1
    BY <1>7, AvailIs DEF IInv, Stale
  <2>2. CASE avail' > 0
    BY <1>1, <1>3, <1>4, <1>5, <1>7, <2>1, <2>2, SoundTypes, Sizes DEF FreshOK
  <2>3. CASE ~ (avail' > 0)
    <3>1. Stale <= FrameBytes - 1 + fails' * Lag + paced'
      BY <1>1, <1>7, <2>1, <2>3, SoundTypes, LagIs, Sizes
    <3>2. QED
      BY <1>1, <1>3, <1>4, <1>7, <2>3, <3>1 DEF FreshOK
  <2>4. QED
    BY <2>2, <2>3
<1>8. QED
  BY <1>6, <1>7 DEF feeder_position

\* A chunk is written, or Lock() failed.
LEMMA LockFresh == ASSUME IInv, FreshOK, feeder_lock PROVE FreshOK'
<1>1. /\ UNCHANGED <<play, ppc, paced>> /\ fpc = "lock"
  BY DEF feeder_lock, emuVars
<1>2. SUFFICES ASSUME ppc # "off" PROVE FreshOK'
  BY <1>1 DEF FreshOK
<1>3. /\ \A x \in 0..(DsBytes - 1) : x \in fresh <=> DsDist(x, writePos) >= Stale
      /\ avail <= Stale /\ Stale - avail <= FrameBytes - 1 + paced
      /\ Stale <= FrameBytes - 1 + (fails + 1) * Lag + paced
  BY <1>1, <1>2 DEF FreshOK
<1>4. CASE fails' = fails + 1 /\ fpc' = "wake" /\ UNCHANGED <<writePos, avail, fresh>>
  <2>1. Stale' = Stale
    BY <1>1, <1>4 DEF Stale
  <2>2. QED
    BY <1>1, <1>3, <1>4, <2>1 DEF FreshOK
<1>5. CASE Refill
  <2>1. PICK chunk \in 1..avail : Refilled(chunk)
    BY <1>1, <1>5, RefillIs
  <2>2. /\ fails' = IF avail' > 0 THEN fails ELSE 0
        /\ fpc' = IF avail' > 0 THEN "read" ELSE "wake"
    BY <1>5 DEF Refill
  <2>3. Stale' = Stale - chunk
    BY <1>1, <1>3, <2>1, SoundTypes, Sizes DEF Stale, DsDist, Refilled
  <2>4. ASSUME NEW x \in 0..(DsBytes - 1)
        PROVE  x \in fresh' <=> DsDist(x, writePos') >= Stale'
    <3>1. \/ DsDist(x, writePos) < chunk /\ DsDist(x, writePos') = DsDist(x, writePos) - chunk + DsBytes
          \/ DsDist(x, writePos) >= chunk /\ DsDist(x, writePos') = DsDist(x, writePos) - chunk
      BY <2>1, SoundTypes, Sizes DEF DsDist, Refilled
    <3>2. DsDist(x, writePos) \in 0..(DsBytes - 1)
      BY SoundTypes, Sizes DEF DsDist
    <3>3. x \in fresh' <=> x \in fresh \/ DsDist(x, writePos) < chunk
      BY <2>1 DEF Refilled
    <3>4. QED
      BY <1>3, <2>1, <2>3, <3>1, <3>2, <3>3, SoundTypes, Sizes
  <2>5. avail' = avail - chunk /\ Stale' - avail' <= FrameBytes - 1 + paced' /\ avail' <= Stale'
    BY <1>1, <1>3, <2>1, <2>3, SoundTypes, Sizes DEF Refilled
  <2>6. CASE avail' > 0
    <3>1. Stale' <= FrameBytes - 1 + (fails' + 1) * Lag + paced'
      BY <1>1, <1>3, <2>1, <2>2, <2>3, <2>6, SoundTypes, LagIs, Sizes
    <3>2. QED
      BY <2>2, <2>4, <2>5, <2>6, <3>1 DEF FreshOK
  <2>7. CASE ~ (avail' > 0)
    <3>1. Stale' <= FrameBytes - 1 + fails' * Lag + paced'
      BY <1>1, <2>1, <2>2, <2>3, <2>5, <2>7, SoundTypes, LagIs, Sizes
    <3>2. QED
      BY <2>2, <2>4, <2>7, <3>1 DEF FreshOK
  <2>8. QED
    BY <2>6, <2>7
<1>6. QED
  BY <1>4, <1>5 DEF feeder_lock

\* The end of a round.
LEMMA WakeFresh == ASSUME IInv, FreshOK, feeder_wake PROVE FreshOK'
  BY DEF feeder_wake, FreshOK, Stale, emuVars, hwVars

\* A byte is played: the last one that is fresh is still some way off.
LEMMA PlayFresh == ASSUME InTime, IInv, FreshOK, Play PROVE FreshOK' /\ play \in fresh
<1>1. /\ UNCHANGED <<writePos, avail, fails, ppc, fpc>> /\ paced < Lag /\ paced' = paced + 1
      /\ fresh' = fresh \ {play}
  BY DEF Play, emuVars, feederVars
<1>2. ppc # "off"
  BY DEF IInv, LifeOK, Play
<1>3. \A x \in 0..(DsBytes - 1) : x \in fresh <=> DsDist(x, writePos) >= Stale
  BY <1>2 DEF FreshOK
<1>4. Stale <= FrameBytes - 1 + (fails + 1) * Lag + paced
  <2>1. fpc \in {"none", "top", "wake", "read", "copy", "consume", "lock"}
    BY DEF IInv, TypeOK
  <2>2. fails * Lag \in Nat /\ (fails + 1) * Lag = fails * Lag + Lag
    BY SoundTypes, LagIs
  <2>3. QED
    BY <1>2, <2>1, <2>2, SoundTypes, Sizes DEF FreshOK
<1>5. Stale + 1 < DsBytes
  <2>1. (fails + 1) * Lag <= MaxFails * Lag + Lag /\ MaxFails * Lag \in Nat /\ (fails + 1) * Lag \in Nat
    BY SoundTypes, LagIs, Sizes
  <2>2. FrameBytes + MaxFails * Lag + Lag + Lag <= DsBytes
    BY Sizes DEF InTime
  <2>3. QED
    BY <1>1, <1>4, <2>1, <2>2, SoundTypes, Sizes
<1>6. Stale' = Stale + 1
  BY <1>1, <1>5, PlayMoves, SoundTypes, Sizes DEF Stale, DsDist
<1>7. ASSUME NEW x \in 0..(DsBytes - 1)
      PROVE  x \in fresh' <=> DsDist(x, writePos) >= Stale + 1
  <2>1. DsDist(x, writePos) \in Int /\ (DsDist(x, writePos) = Stale <=> x = play)
    BY SoundTypes, Sizes DEF DsDist, Stale
  <2>2. QED
    BY <1>1, <1>3, <2>1, SoundTypes
<1>8. play \in fresh
  BY <1>3, SoundTypes DEF Stale
<1>9. FreshOK'
  <2>1. fails * Lag \in Nat /\ (fails + 1) * Lag \in Nat
    BY SoundTypes, LagIs
  <2>2. UNCHANGED <<fpc, fails, avail>>
    BY <1>1
  <2>3. \A x \in 0..(DsBytes - 1) : x \in fresh' <=> DsDist(x, writePos') >= Stale'
    BY <1>1, <1>6, <1>7
  <2>4. fpc' \in {"none", "top", "wake"} => Stale' <= FrameBytes - 1 + fails' * Lag + paced'
    BY <1>1, <1>2, <1>6, <2>1, <2>2, SoundTypes, Sizes DEF FreshOK
  <2>5. fpc' \in {"read", "copy", "consume", "lock"} =>
           /\ avail' <= Stale' /\ Stale' - avail' <= FrameBytes - 1 + paced'
           /\ Stale' <= FrameBytes - 1 + (fails' + 1) * Lag + paced'
    BY <1>1, <1>2, <1>6, <2>1, <2>2, SoundTypes, Sizes DEF FreshOK
  <2>6. QED
    BY <2>3, <2>4, <2>5 DEF FreshOK
<1>10. QED
  BY <1>8, <1>9

\* init() fills the buffer with silence.
LEMMA InitFresh == ASSUME IInv, init PROVE FreshOK'
<1>1. /\ writePos' = 0 /\ play' = 0 /\ fresh' = 0..(DsBytes - 1) /\ fails' = 0 /\ paced' = 0
      /\ fpc' \in {"top", "none"}
  BY DEF init
<1>2. Stale' = 0 /\ \A x \in 0..(DsBytes - 1) : DsDist(x, 0) >= 0
  BY <1>1, Sizes DEF Stale, DsDist
<1>3. 0 <= FrameBytes - 1 + 0 * Lag + 0
  BY Sizes
<1>4. QED
  BY <1>1, <1>2, <1>3 DEF FreshOK

\* The hardware never plays a byte twice, whatever the two threads do, as long as
\* the buffer outlasts the rounds that fail.
THEOREM SoundIsFresh == InTime /\ Spec => NoReplay
<1>1. CASE InTime
  <2>1. Init => FreshOK
    BY DEF Init, FreshOK
  <2>2. ASSUME IInv, FreshOK, [Next]_vars
        PROVE  FreshOK' /\ (play' # play /\ playing => play \in fresh)
    <3>1. CASE Play
      BY <1>1, <2>2, <3>1, PlayFresh
    <3>2. CASE init
      <4>1. ~ playing
        BY <2>2, <3>2 DEF init, IInv, LifeOK
      <4>2. QED
        BY <2>2, <3>2, <4>1, InitFresh
    <3>3. CASE feeder_position \/ feeder_lock \/ feeder_wake
      <4>1. play' = play
        BY <3>3 DEF feeder_position, feeder_lock, feeder_wake, hwVars
      <4>2. QED
        BY <2>2, <3>3, <4>1, PositionFresh, LockFresh, WakeFresh
    <3>4. CASE term_release
      BY <3>4 DEF term_release, FreshOK
    <3>5. CASE init_Play \/ term \/ push \/ PushNext
      <4>1. SameSound
        BY <3>5 DEF SameSound, init_Play, term, push, PushNext, write, write_copy, write_publish,
                    push_wait, Return, feederVars, hwVars
      <4>2. QED
        BY <2>2, <4>1, SameSoundOK DEF SameSound
    <3>6. CASE feeder_exit \/ read \/ read_copy \/ read_consume \/ UNCHANGED vars
      <4>1. SameSound
        BY <3>6 DEF SameSound, feeder_exit, read, read_copy, read_consume, vars, emuVars,
                    feederVars, hwVars
      <4>2. QED
        BY <2>2, <4>1, SameSoundOK DEF SameSound
    <3>7. QED
      BY <2>2, <3>1, <3>2, <3>3, <3>4, <3>5, <3>6 DEF Next, FeederNext
  <2>3. IInv /\ FreshOK /\ [Next]_vars => FreshOK' /\ [play' # play /\ playing => play \in fresh]_vars
    BY <2>2
  <2>4. QED
    BY <2>1, <2>3, Invariant, PTL DEF Spec, NoReplay
<1>2. CASE ~ InTime
  BY <1>2
<1>3. QED
  BY <1>1, <1>2

\* The steps the feeder still takes when it is told to stop, with c chunks to
\* refill.
StepsLeft(c) ==
    CASE fpc = "read" -> 4 * c + 2
      [] fpc = "copy" -> 4 * c + 1
      [] fpc = "consume" -> 4 * c
      [] fpc = "lock" -> 4 * c - 1
      [] fpc = "wake" -> 2
      [] fpc = "top" -> 1
      [] OTHER -> 0

\* While term() waits, the feeder has time left for them.
TimeOK ==
    /\ ppc # "join" => waited = 0
    /\ ppc = "join" /\ fpc # "none" =>
          \E c \in Nat : avail <= c * BlockBytes /\ waited + StepsLeft(c) <= JoinSteps

\* A step of the feeder while term() waits takes it nearer to its end.
LEMMA FeederNearer ==
    ASSUME IInv, TimeOK, FeederNext, ppc = "join", fpc # "none", fpc' # "none"
    PROVE  \E c \in Nat : avail' <= c * BlockBytes /\ waited' + StepsLeft(c)' <= JoinSteps
<1>1. PICK c \in Nat : avail <= c * BlockBytes /\ waited + StepsLeft(c) <= JoinSteps
  BY DEF TimeOK
<1>2. waited \in Nat /\ avail \in Nat /\ JoinSteps \in Nat
  BY Sizes DEF IInv, TypeOK
<1>3. ~ feederRunning /\ waited' = Least(waited + 1, JoinSteps)
  BY DEF IInv, LifeOK, FeederNext
<1>4. c # 0 \/ avail = 0
  BY <1>1, <1>2, Sizes
<1>5. CASE read \/ read_copy \/ read_consume
  <2>1. /\ avail' = avail /\ fpc \in {"read", "copy", "consume"}
        /\ \/ fpc = "read" /\ fpc' \in {"copy", "lock"}
           \/ fpc = "copy" /\ fpc' = "consume"
           \/ fpc = "consume" /\ fpc' = "lock"
    BY <1>5 DEF read, read_copy, read_consume
  <2>2. waited' + StepsLeft(c)' <= JoinSteps
    BY <1>1, <1>2, <1>3, <2>1 DEF StepsLeft, Least
  <2>3. QED
    BY <1>1, <2>1, <2>2
<1>6. CASE feeder_lock
  <2>1. fpc = "lock" /\ avail > 0
    BY <1>6 DEF feeder_lock, IInv, ConsumerOK
  <2>2. c \in Nat \ {0} /\ waited + (4 * c - 1) <= JoinSteps
    BY <1>1, <1>2, <1>4, <2>1 DEF StepsLeft
  <2>3. CASE fpc' = "wake" /\ avail' = avail
    <3>1. waited' + StepsLeft(c)' <= JoinSteps
      BY <1>2, <1>3, <2>2, <2>3 DEF StepsLeft, Least
    <3>2. QED
      BY <1>1, <2>3, <3>1
  <2>4. CASE Refill
    <3>1. PICK chunk \in 1..avail : Refilled(chunk)
      BY <2>1, <2>4, RefillIs
    <3>2. fpc' = (IF avail' > 0 THEN "read" ELSE "wake") /\ avail' = avail - chunk
      BY <2>4, <3>1 DEF Refill, Refilled
    <3>3. CASE fpc' = "wake"
      <4>1. waited' + StepsLeft(c)' <= JoinSteps
        BY <1>2, <1>3, <2>2, <3>3 DEF StepsLeft, Least
      <4>2. avail' <= c * BlockBytes
        BY <1>1, <1>2, <3>1, <3>2, Sizes
      <4>3. QED
        BY <4>1, <4>2
    <3>4. CASE fpc' = "read"
      <4>1. chunk = BlockBytes
        BY <1>2, <3>1, <3>2, <3>4 DEF Refilled
      <4>2. (c - 1) * BlockBytes = c * BlockBytes - BlockBytes /\ c - 1 \in Nat /\ c * BlockBytes \in Nat
        BY <2>2, Sizes
      <4>3. avail' <= (c - 1) * BlockBytes
        BY <1>1, <1>2, <3>2, <4>1, <4>2, Sizes
      <4>4. waited' + StepsLeft(c - 1)' <= JoinSteps
        BY <1>2, <1>3, <2>2, <3>4 DEF StepsLeft, Least
      <4>5. QED
        BY <4>2, <4>3, <4>4
    <3>5. QED
      BY <3>2, <3>3, <3>4
  <2>5. QED
    BY <1>6, <2>3, <2>4 DEF feeder_lock
<1>7. CASE feeder_wake
  <2>1. fpc = "wake" /\ fpc' = "top" /\ avail' = 0
    BY <1>7 DEF feeder_wake
  <2>2. waited' + StepsLeft(0)' <= JoinSteps /\ avail' <= 0 * BlockBytes
    BY <1>1, <1>2, <1>3, <2>1, Sizes DEF StepsLeft, Least
  <2>3. QED
    BY <2>2
<1>8. QED
  BY <1>3, <1>5, <1>6, <1>7 DEF FeederNext, feeder_position, feeder_exit

\* The wait begins.
LEMMA WaitBegins ==
    ASSUME EnoughTime, IInv, waited = 0
    PROVE  \E c \in Nat : avail <= c * BlockBytes /\ waited + StepsLeft(c) <= JoinSteps
<1>1. PICK k \in Nat : DsBytes <= k * BlockBytes /\ 4 * k + 2 <= JoinSteps
  BY DEF EnoughTime
<1>2. avail \in 0..(DsBytes - 1)
  BY DEF IInv, TypeOK
<1>3. k # 0 /\ k * BlockBytes \in Nat
  BY <1>1, Sizes
<1>4. avail <= k * BlockBytes
  BY <1>1, <1>2, <1>3, Sizes
<1>5. StepsLeft(k) <= 4 * k + 2 /\ StepsLeft(k) \in Nat
  BY <1>3 DEF StepsLeft
<1>6. QED
  BY <1>1, <1>4, <1>5, Sizes

\* term() and a failed init() end the feeder before they release the buffer, if
\* their wait is long enough for what the feeder may still have to do.
THEOREM FeederEnds == EnoughTime /\ Spec => []NoFeederLeft
<1>1. CASE EnoughTime
  <2>1. Init => TimeOK /\ NoFeederLeft
    BY DEF Init, TimeOK, NoFeederLeft
  <2>2. ASSUME IInv, TimeOK, NoFeederLeft, [Next]_vars
        PROVE  TimeOK' /\ NoFeederLeft'
    <3>1. CASE init
      BY <2>2, <3>1 DEF init, TimeOK, NoFeederLeft
    <3>2. CASE init_Play \/ term
      <4>1. /\ UNCHANGED <<fpc, avail, waited>> /\ ppc' # "off" /\ waited = 0
        BY <2>2, <3>2 DEF init_Play, term, feederVars, TimeOK
      <4>2. \E c \in Nat : avail <= c * BlockBytes /\ waited + StepsLeft(c) <= JoinSteps
        BY <1>1, <2>2, <4>1, WaitBegins
      <4>3. QED
        BY <4>1, <4>2 DEF TimeOK, NoFeederLeft, StepsLeft
    <3>3. CASE term_release
      <4>1. fpc = "none"
        <5>1. SUFFICES ASSUME fpc # "none" PROVE FALSE
          OBVIOUS
        <5>2. PICK c \in Nat : avail <= c * BlockBytes /\ waited + StepsLeft(c) <= JoinSteps
          BY <2>2, <3>3, <5>1 DEF TimeOK, term_release
        <5>3. waited >= JoinSteps /\ waited \in Nat /\ avail \in Nat
          BY <2>2, <3>3, <5>1 DEF term_release, IInv, TypeOK
        <5>4. fpc \in {"read", "copy", "consume", "lock"} => c # 0
          BY <2>2, <5>2, <5>3, Sizes DEF IInv, ConsumerOK
        <5>5. StepsLeft(c) >= 1 /\ StepsLeft(c) \in Nat
          <6>1. fpc \in {"none", "top", "read", "copy", "consume", "lock", "wake"}
            BY <2>2 DEF IInv, TypeOK
          <6>2. QED
            BY <5>1, <5>4, <6>1 DEF StepsLeft
        <5>6. QED
          BY <5>2, <5>3, <5>5, Sizes
      <4>2. QED
        BY <3>3, <4>1 DEF term_release, TimeOK, NoFeederLeft
    <3>4. CASE push \/ PushNext
      <4>1. UNCHANGED <<fpc, avail, waited>> /\ ppc \notin {"off", "join"} /\ ppc' \notin {"off", "join"}
        BY <3>4 DEF push, PushNext, write, write_copy, write_publish, push_wait, Return, feederVars
      <4>2. QED
        BY <2>2, <4>1 DEF TimeOK, NoFeederLeft
    <3>5. CASE Play \/ UNCHANGED vars
      <4>1. UNCHANGED <<fpc, avail, waited, ppc>>
        BY <3>5 DEF Play, vars, emuVars, feederVars
      <4>2. QED
        BY <2>2, <4>1 DEF TimeOK, NoFeederLeft, StepsLeft
    <3>6. CASE FeederNext
      <4>1. ppc' = ppc /\ fpc # "none"
        BY <3>6 DEF FeederNext, feeder_position, feeder_exit, read, read_copy, read_consume,
                    feeder_lock, feeder_wake, emuVars
      <4>2. waited' = IF ppc = "join" THEN Least(waited + 1, JoinSteps) ELSE waited
        BY <3>6 DEF FeederNext
      <4>3. QED
        BY <2>2, <3>6, <4>1, <4>2, FeederNearer DEF TimeOK, NoFeederLeft
    <3>7. QED
      BY <2>2, <3>1, <3>2, <3>3, <3>4, <3>5, <3>6 DEF Next
  <2>3. IInv /\ TimeOK /\ NoFeederLeft /\ [Next]_vars => (TimeOK /\ NoFeederLeft)'
    BY <2>2
  <2>4. QED
    BY <2>1, <2>3, Invariant, PTL DEF Spec
<1>2. CASE ~ EnoughTime
  BY <1>2
<1>3. QED
  BY <1>1, <1>2
=============================================================================
