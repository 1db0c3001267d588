--------------------------- MODULE Sh4SchedProofs ---------------------------
(***************************************************************************)
(* Proofs about Sh4Sched, for every word size, time slice and delay bound  *)
(* that satisfy ClockAssumption.                                           *)
(*                                                                         *)
(* The inductive invariant IInv ties each wrapped deadline to the history  *)
(* variable `left': a scheduled slot ends at (Now + left) % Word, with     *)
(* left between Floor and MainClock + 1.  Floor is 0 except for the slots  *)
(* that the loop of sh4_sched_tick() has not visited yet, which may be     *)
(* late by up to one time slice.                                           *)
(***************************************************************************)
EXTENDS Sh4Sched, TLAPS

Slots == [cb : BOOLEAN, start : Words, end : Words]

\* Slot s, due in l cycles from `now', is late by no more than -floor, and it
\* was requested no more than MainClock + 1 cycles before its deadline.
OnTime(s, l, now, floor) ==
    IsScheduled(s) =>
        /\ s.end = (now + l) % Word
        /\ l \in floor..(MainClock + 1)
        /\ (s.end - s.start) % Word \in 0..(MainClock + 1)
        /\ l <= (s.end - s.start) % Word

AllOnTime(list, lft, now) ==
    /\ DOMAIN lft = DOMAIN list
    /\ \A i \in DOMAIN list : OnTime(list[i], lft[i], now, 0)

Floor(i) ==
    IF (pc = "tick" /\ i >= pos) \/ (pc = "cb" /\ i > pos) THEN - Timeslice ELSE 0

ListOK ==
    /\ DOMAIN left = DOMAIN schList
    /\ \A i \in DOMAIN schList : OnTime(schList[i], left[i], Now, Floor(i))

\* Between two ticks sh4_sched_next reaches no further than any deadline.
NextOK ==
    pc = "run" =>
        /\ schedNext >= 0
        /\ \A i \in DOMAIN schList :
              IsScheduled(schList[i]) => schedNext <= left[i] /\ nextId # -1

SavedOK ==
    saved # << >> =>
        /\ saved.ffb \in Words /\ saved.next \in Int
        /\ saved.list \in Seq(Slots)
        /\ saved.left \in Seq((- Timeslice)..(MainClock + 1))
        /\ AllOnTime(saved.list, saved.left, (saved.ffb - saved.next) % Word)

IInv ==
    /\ TypeOK
    /\ ListOK
    /\ NextOK
    /\ SavedOK
    /\ pc = "cb" => pos \in DOMAIN schList

-----------------------------------------------------------------------------
(* Arithmetic of wrapping words *)

\* The remainder of a quotient-remainder pair is unique.
LEMMA ModUnique ==
    ASSUME NEW W \in Nat \ {0}, NEW q \in Int, NEW r \in 0..(W - 1)
    PROVE  (W * q + r) % W = r
  OBVIOUS

\* Quotient and remainder of the u32 arithmetic, and how they make up a number.
LEMMA ModDiv ==
    ASSUME NEW W \in Nat \ {0}, NEW x \in Int
    PROVE  /\ x \div W \in Int /\ x % W \in 0..(W - 1)
           /\ x = W * (x \div W) + (x % W)
  OBVIOUS

\* Adding whole words leaves the wrapped value as it is.
LEMMA ModPeriod ==
    ASSUME NEW W \in Nat \ {0}, NEW x \in Int, NEW k \in Int
    PROVE  (x + W * k) % W = x % W
<1> DEFINE q == x \div W
           r == x % W
<1>1. q \in Int /\ r \in 0..(W - 1) /\ x = W * q + r
  BY ModDiv
<1> HIDE DEF q, r
<1>2. x + W * k = W * (q + k) + r
  BY <1>1
<1>3. (W * (q + k) + r) % W = r
  BY <1>1, ModUnique
<1> QED
  BY <1>2, <1>3 DEF r

\* A word may be wrapped before or after an addition.
LEMMA ModAdd ==
    ASSUME NEW a \in Int, NEW b \in Int
    PROVE  ((a % Word) + b) % Word = (a + b) % Word
<1> DEFINE q == a \div Word
           r == a % Word
<1>0. Word \in Nat \ {0}
  BY ClockAssumption
<1>1. q \in Int /\ r \in 0..(Word - 1) /\ a = Word * q + r
  BY <1>0, ModDiv
<1> HIDE DEF q, r
<1>2. a + b = (r + b) + Word * q /\ r + b \in Int
  BY <1>0, <1>1
<1>3. (a + b) % Word = (r + b) % Word
  BY <1>0, <1>1, <1>2, ModPeriod
<1> QED
  BY <1>3 DEF r

\* ... and before or after a subtraction.
LEMMA ModSub ==
    ASSUME NEW a \in Int, NEW b \in Int
    PROVE  (b - (a % Word)) % Word = (b - a) % Word
<1> DEFINE q == a \div Word
           r == a % Word
<1>0. Word \in Nat \ {0}
  BY ClockAssumption
<1>1. q \in Int /\ r \in 0..(Word - 1) /\ a = Word * q + r
  BY <1>0, ModDiv
<1> HIDE DEF q, r
<1>2. b - r = (b - a) + Word * q /\ b - a \in Int
  BY <1>0, <1>1
<1>3. (b - r) % Word = (b - a) % Word
  BY <1>0, <1>1, <1>2, ModPeriod
<1> QED
  BY <1>3 DEF r

\* A wrapped value is a word; a word wraps to itself, one below 0 gains a word.
LEMMA ModWord ==
    ASSUME NEW x \in Int
    PROVE  /\ x % Word \in Words
           /\ x \in Words => x % Word = x
           /\ x + Word \in Words => x % Word = x + Word
<1>0. Word \in Nat \ {0}
  BY ClockAssumption
<1>1. x % Word \in Words
  BY <1>0, ModDiv DEF Words
<1>2. ASSUME NEW y \in Words PROVE y % Word = y
  BY <1>0 DEF Words
<1>3. (x + Word) % Word = x % Word
  BY <1>0, ModPeriod, x + Word * 1 = x + Word, 1 \in Int
<1> QED
  BY <1>1, <1>2, <1>3

\* The distance from a time t to a deadline l cycles after `now'.
LEMMA Distance ==
    ASSUME NEW now \in Int, NEW l \in Int, NEW d \in Int
    PROVE  (((now + l) % Word) - ((now - d) % Word)) % Word = (l + d) % Word
<1> DEFINE e == (now + l) % Word
<1>0. e \in Int /\ now + l \in Int /\ now - d \in Int /\ d - now \in Int
  BY ModWord, ClockAssumption DEF Words
<1>1. (e + (d - now)) % Word = ((now + l) + (d - now)) % Word
  BY <1>0, ModAdd
<1> HIDE DEF e
<1>2. (e - ((now - d) % Word)) % Word = (e - (now - d)) % Word
  BY <1>0, ModSub
<1>3. e - (now - d) = e + (d - now) /\ (now + l) + (d - now) = l + d
  BY <1>0
<1> QED
  BY <1>1, <1>2, <1>3 DEF e

\* From the start a of a period that ends at e, l cycles after `now'.
LEMMA Elapsed ==
    ASSUME NEW now \in Int, NEW l \in Int, NEW a \in Int, NEW e \in Int,
           e = (now + l) % Word
    PROVE  (now - a) % Word = (((e - a) % Word) - l) % Word
<1> DEFINE d == (e - a) % Word
           b == (- a) - l
<1>1. d \in Int /\ e - a \in Int /\ - l \in Int /\ b \in Int /\ now + l \in Int
  BY ModWord, ClockAssumption DEF Words
<1>2. (d + (- l)) % Word = ((e - a) + (- l)) % Word
  BY <1>1, ModAdd
<1>3. (((now + l) % Word) + b) % Word = ((now + l) + b) % Word
  BY <1>1, ModAdd
<1>4. (e + b) % Word = ((now + l) + b) % Word
  BY <1>3
<1>5. (e - a) + (- l) = e + b /\ (now + l) + b = now - a
  OBVIOUS
<1> HIDE DEF d
<1>6. d + (- l) = d - l
  BY <1>1
<1> QED
  BY <1>2, <1>4, <1>5, <1>6 DEF d

-----------------------------------------------------------------------------
(* The scheduler's operators *)

\* What ClockAssumption says of the constants, in the form the steps use.
LEMMA ConstFacts ==
    /\ Word \in Int /\ Timeslice \in Int /\ MainClock \in Int
    /\ Timeslice >= 1 /\ MainClock >= 0
    /\ 2 * Timeslice + 2 * MainClock + 4 <= Word
    /\ None \in Words /\ 0 \in Words
  BY ClockAssumption DEF None, Words

\* sh4_sched_now() is a word.
LEMMA TypeNow ==
    ASSUME ffb \in Words, schedNext \in Int
    PROVE  Now \in Words /\ Now \in Int
  BY ModWord, ConstFacts DEF Now, Words

\* A slot that is on time is on time by a laxer floor too.
LEMMA FloorLower ==
    ASSUME NEW s, NEW l, NEW now, NEW hi \in {0, - Timeslice}, NEW lo \in {hi, - Timeslice},
           OnTime(s, l, now, hi)
    PROVE  OnTime(s, l, now, lo)
  BY ConstFacts DEF OnTime

\* sh4_sched_remaining() at `now' is the true distance to the deadline, or a
\* word short of zero when the deadline is past.
LEMMA RemainingNow ==
    ASSUME NEW s \in Slots, NEW l \in Int, NEW now \in Words,
           OnTime(s, l, now, - Timeslice), IsScheduled(s)
    PROVE  sh4_sched_remaining(s, now) = IF l >= 0 THEN l ELSE l + Word
<1>1. s.end = (now + l) % Word /\ l \in (- Timeslice)..(MainClock + 1)
  BY DEF OnTime
<1>2. now \in Int /\ now - 0 = now /\ now % Word = now /\ l + 0 = l
  BY ConstFacts, ModWord DEF Words
<1>3. (((now + l) % Word) - ((now - 0) % Word)) % Word = (l + 0) % Word
  BY <1>2, Distance, 0 \in Int, Zenon
<1>4. l % Word = IF l >= 0 THEN l ELSE l + Word
  BY <1>1, ModWord, ConstFacts DEF Words
<1> QED
  BY <1>1, <1>2, <1>3, <1>4 DEF sh4_sched_remaining

\* sh4_sched_tick() compares the distance from the start of the slice: exact.
LEMMA RemainingSlice ==
    ASSUME NEW s \in Slots, NEW l \in Int, NEW now \in Words,
           OnTime(s, l, now, - Timeslice), IsScheduled(s)
    PROVE  Signed(sh4_sched_remaining(s, (now - Timeslice) % Word)) = l + Timeslice
<1>1. s.end = (now + l) % Word /\ l \in (- Timeslice)..(MainClock + 1)
  BY DEF OnTime
<1>2. now \in Int /\ Timeslice \in Int /\ l + Timeslice \in Int
  BY ConstFacts DEF Words
<1>3. (((now + l) % Word) - ((now - Timeslice) % Word)) % Word = (l + Timeslice) % Word
  BY <1>2, Distance, Zenon
<1>4. l + Timeslice \in Words /\ 2 * (l + Timeslice) < Word
  BY <1>1, ConstFacts DEF Words
<1>5. (l + Timeslice) % Word = l + Timeslice
  BY <1>2, <1>4, ModWord
<1> QED
  BY <1>1, <1>3, <1>4, <1>5 DEF sh4_sched_remaining, Signed

\* sh4_sched_ffts() leaves the current time alone and keeps the clock in range.
LEMMA FftsClock ==
    ASSUME NEW list \in Seq(Slots), NEW lft, NEW now \in Words,
           \A i \in DOMAIN list : lft[i] \in Int /\ OnTime(list[i], lft[i], now, - Timeslice),
           sh4_sched_ffts(list, now)
    PROVE  /\ ffb' \in Words
           /\ schedNext' \in (- Timeslice)..(MainClock + 1)
           /\ nextId' \in Nat \cup {-1}
           /\ Now' = now
<1>1. /\ schedNext' \in (- Timeslice)..(MainClock + 1)
      /\ nextId' \in Nat \cup {-1}
  <2>1. CASE \E i \in DOMAIN list :
               /\ IsEarliest(list, now, i)
               /\ nextId' = i
               /\ schedNext' = Signed(sh4_sched_remaining(list[i], now))
    <3>1. PICK i \in DOMAIN list :
               /\ IsEarliest(list, now, i)
               /\ nextId' = i
               /\ schedNext' = Signed(sh4_sched_remaining(list[i], now))
      BY <2>1
    <3>2. i \in Nat /\ list[i] \in Slots /\ lft[i] \in Int
          /\ OnTime(list[i], lft[i], now, - Timeslice)
      BY <3>1
    <3>3. IsScheduled(list[i])
      BY <3>1, ConstFacts DEF IsEarliest, sh4_sched_remaining, Words
    <3>4. sh4_sched_remaining(list[i], now) = IF lft[i] >= 0 THEN lft[i] ELSE lft[i] + Word
      BY <3>2, <3>3, RemainingNow
    <3>5. lft[i] \in (- Timeslice)..(MainClock + 1)
      BY <3>2, <3>3 DEF OnTime
    <3>6. Signed(sh4_sched_remaining(list[i], now)) = lft[i]
      BY <3>4, <3>5, ConstFacts DEF Signed
    <3> QED
      BY <3>1, <3>2, <3>5, <3>6
  <2>2. CASE nextId' = -1 /\ schedNext' = MainClock
    BY <2>2, ConstFacts
  <2> QED
    BY <2>1, <2>2 DEF sh4_sched_ffts
<1>2. ffb' = (now + schedNext') % Word
  BY DEF sh4_sched_ffts
<1>3. now \in Int /\ schedNext' \in Int /\ now + schedNext' \in Int
  BY <1>1, ConstFacts DEF Words
<1>4. ffb' \in Words
  BY <1>2, <1>3, ModWord
<1>5. (((now + schedNext') % Word) + (- schedNext')) % Word = ((now + schedNext') + (- schedNext')) % Word
  BY <1>3, ModAdd, - schedNext' \in Int
<1>6. now % Word = now
  BY <1>3, ModWord
<1>7. Now' = now
  BY <1>2, <1>3, <1>4, <1>5, <1>6 DEF Now, Words
<1> QED
  BY <1>1, <1>4, <1>7

\* When no deadline is past, sh4_sched_next is the distance to the earliest.
LEMMA FftsRun ==
    ASSUME NEW list \in Seq(Slots), NEW lft, NEW now \in Words,
           \A i \in DOMAIN list : lft[i] \in Int,
           AllOnTime(list, lft, now),
           sh4_sched_ffts(list, now)
    PROVE  /\ schedNext' >= 0
           /\ \A i \in DOMAIN list :
                 IsScheduled(list[i]) => schedNext' <= lft[i] /\ nextId' # -1
<1> DEFINE rem(i) == sh4_sched_remaining(list[i], now)
<1>1. ASSUME NEW i \in DOMAIN list, IsScheduled(list[i])
      PROVE  /\ rem(i) = lft[i] /\ lft[i] \in 0..(MainClock + 1)
             /\ rem(i) < None /\ Signed(rem(i)) = lft[i]
  <2>1. list[i] \in Slots /\ lft[i] \in Int /\ OnTime(list[i], lft[i], now, 0)
    BY DEF AllOnTime
  <2>2. OnTime(list[i], lft[i], now, - Timeslice) /\ lft[i] \in 0..(MainClock + 1)
    BY <1>1, <2>1, ConstFacts DEF OnTime
  <2>3. rem(i) = lft[i]
    BY <1>1, <2>1, <2>2, RemainingNow
  <2> QED
    BY <2>2, <2>3, ConstFacts DEF Signed, None
<1>2. CASE \E i \in DOMAIN list :
             /\ IsEarliest(list, now, i)
             /\ nextId' = i
             /\ schedNext' = Signed(rem(i))
  <2>1. PICK i \in DOMAIN list :
             /\ IsEarliest(list, now, i)
             /\ nextId' = i
             /\ schedNext' = Signed(rem(i))
    BY <1>2
  <2>2. IsScheduled(list[i])
    BY <2>1, ConstFacts DEF IsEarliest, sh4_sched_remaining, Words
  <2>3. schedNext' = lft[i] /\ rem(i) = lft[i] /\ lft[i] \in 0..(MainClock + 1) /\ nextId' # -1
    BY <1>1, <2>1, <2>2
  <2>4. \A j \in DOMAIN list : rem(i) <= rem(j)
    BY <2>1 DEF IsEarliest
  <2> QED
    BY <1>1, <2>3, <2>4
<1>3. CASE /\ \A i \in DOMAIN list : ~ (rem(i) < None)
           /\ nextId' = -1
           /\ schedNext' = MainClock
  BY <1>1, <1>3, ConstFacts
<1> QED
  BY <1>2, <1>3 DEF sh4_sched_ffts

\* The deadline sh4_sched_request() computes is never the word -1, and lies
\* `cycles' ahead, or cycles + 1 when -1 had to be skipped.
LEMMA EndAfterOK ==
    ASSUME NEW cycles \in 0..MainClock, Now \in Words
    PROVE  /\ EndAfter(cycles) \in Words /\ EndAfter(cycles) # None
           /\ LeftAfter(cycles) \in {cycles, cycles + 1}
           /\ LeftAfter(cycles) \in 0..(MainClock + 1)
           /\ EndAfter(cycles) = (Now + LeftAfter(cycles)) % Word
           /\ (EndAfter(cycles) - Now) % Word = LeftAfter(cycles)
<1> DEFINE n == Now
           l == LeftAfter(cycles)
           e == (n + cycles) % Word
<1>1. n \in Int /\ cycles \in Int /\ n + cycles \in Int /\ e \in Words
  BY ModWord, ConstFacts DEF Words
<1>2. l \in {cycles, cycles + 1} /\ l \in 0..(MainClock + 1) /\ l \in Int
  BY ConstFacts DEF LeftAfter
<1>3. EndAfter(cycles) = (n + l) % Word
  <2>1. CASE e # None
    BY <2>1 DEF EndAfter, LeftAfter
  <2>2. CASE e = None
    <3>1. (e + 1) % Word = ((n + cycles) + 1) % Word
      BY <1>1, ModAdd, 1 \in Int
    <3>2. (n + cycles) + 1 = n + l /\ EndAfter(cycles) = 0
      BY <1>1, <2>2 DEF EndAfter, LeftAfter
    <3>3. e + 1 = Word
      BY <2>2, ConstFacts DEF None
    <3>4. Word % Word = 0
      BY ClockAssumption
    <3> QED
      BY <3>1, <3>2, <3>3, <3>4
  <2> QED
    BY <2>1, <2>2
<1>4. EndAfter(cycles) \in Words /\ EndAfter(cycles) # None
  BY <1>1, ConstFacts DEF EndAfter, Words, None
<1>5. (EndAfter(cycles) - n) % Word = l
  <2>1. (((n + l) % Word) + (- n)) % Word = ((n + l) + (- n)) % Word
    BY <1>1, <1>2, ModAdd, - n \in Int, n + l \in Int
  <2>2. l % Word = l
    BY <1>2, ModWord, ConstFacts DEF Words
  <2> HIDE DEF n, l
  <2>3. EndAfter(cycles) - n = ((n + l) % Word) + (- n) /\ (n + l) + (- n) = l
    BY <1>1, <1>2, <1>3, <1>4, ConstFacts DEF Words
  <2> QED
    BY <2>1, <2>2, <2>3
<1> QED
  BY <1>2, <1>3, <1>4, <1>5

\* Replacing one element of a sequence.
LEMMA SeqUpdate ==
    ASSUME NEW S, NEW s \in Seq(S), NEW i \in DOMAIN s, NEW v \in S
    PROVE  /\ [s EXCEPT ![i] = v] \in Seq(S)
           /\ DOMAIN [s EXCEPT ![i] = v] = DOMAIN s
           /\ [s EXCEPT ![i] = v][i] = v
           /\ \A j \in DOMAIN s : j # i => [s EXCEPT ![i] = v][j] = s[j]
  OBVIOUS

\* A request, from an instruction or a callback, moves the deadline of one slot.
LEMMA RequestOK ==
    ASSUME TypeOK, ListOK, NEW id \in DOMAIN schList,
           NEW cycles \in (0..MainClock) \cup {-1},
           sh4_sched_request(schList, id, cycles)
    PROVE  /\ schList' \in Seq(Slots) /\ left' \in Seq((- Timeslice)..(MainClock + 1))
           /\ DOMAIN schList' = DOMAIN schList /\ DOMAIN left' = DOMAIN schList
           /\ ffb' \in Words /\ schedNext' \in (- Timeslice)..(MainClock + 1)
           /\ nextId' \in Nat \cup {-1}
           /\ Now' = Now
           /\ \A i \in DOMAIN schList : OnTime(schList'[i], left'[i], Now, Floor(i))
           /\ AllOnTime(schList, left, Now) =>
                /\ schedNext' >= 0
                /\ \A i \in DOMAIN schList :
                      IsScheduled(schList'[i]) => schedNext' <= left'[i] /\ nextId' # -1
<1> DEFINE end == IF cycles = -1 THEN None ELSE EndAfter(cycles)
           lft == IF cycles = -1 THEN 0 ELSE LeftAfter(cycles)
           n == Now
           slot == schList[id]
           new == [slot EXCEPT !.start = n, !.end = end]
<1>1. /\ schList \in Seq(Slots) /\ left \in Seq((- Timeslice)..(MainClock + 1))
      /\ DOMAIN left = DOMAIN schList /\ n \in Words
  BY TypeNow DEF TypeOK, ListOK, Slots
<1>2. /\ schList' = [schList EXCEPT ![id] = new]
      /\ left' = [left EXCEPT ![id] = lft]
      /\ sh4_sched_ffts(schList', n)
  BY DEF sh4_sched_request
<1>3. /\ end \in Words /\ lft \in 0..(MainClock + 1)
      /\ end # None => end = (n + lft) % Word /\ (end - n) % Word = lft
  <2>1. CASE cycles = -1
    BY <2>1, ConstFacts
  <2>2. CASE cycles \in 0..MainClock
    BY <1>1, <2>2, EndAfterOK
  <2> QED
    BY <2>1, <2>2
<1> HIDE DEF end, lft, n
<1>a. /\ new \in Slots /\ new.start = n /\ new.end = end
      /\ lft \in (- Timeslice)..(MainClock + 1)
  <2>1. slot \in Slots
    BY <1>1
  <2> HIDE DEF slot
  <2>2. new \in Slots /\ new.start = n /\ new.end = end
    BY <1>1, <1>3, <2>1 DEF Slots
  <2> QED
    BY <1>3, <2>2, ConstFacts
<1> HIDE DEF new
<1>4. /\ schList' \in Seq(Slots) /\ left' \in Seq((- Timeslice)..(MainClock + 1))
      /\ DOMAIN schList' = DOMAIN schList /\ DOMAIN left' = DOMAIN schList
      /\ \A i \in DOMAIN schList : i # id => schList'[i] = schList[i] /\ left'[i] = left[i]
      /\ schList'[id] = new /\ left'[id] = lft
  BY <1>1, <1>2, <1>a, SeqUpdate
<1>5. OnTime(schList'[id], left'[id], n, 0)
  BY <1>3, <1>4, <1>a, ConstFacts DEF OnTime, IsScheduled, Slots
<1>6. \A i \in DOMAIN schList : Floor(i) \in {0, - Timeslice}
  BY DEF Floor
<1>7. ASSUME NEW i \in DOMAIN schList
      PROVE  OnTime(schList'[i], left'[i], n, Floor(i))
  <2>1. CASE i = id
    BY <1>5, <1>6, <2>1, FloorLower, ConstFacts
  <2>2. CASE i # id
    BY <1>4, <2>2 DEF ListOK, n
  <2> QED
    BY <2>1, <2>2
<1>8. \A i \in DOMAIN schList' : left'[i] \in Int /\ OnTime(schList'[i], left'[i], n, - Timeslice)
  <2>1. ASSUME NEW i \in DOMAIN schList PROVE left'[i] \in Int
    BY <1>1, <1>4, ConstFacts
  <2>2. ASSUME NEW i \in DOMAIN schList PROVE OnTime(schList'[i], left'[i], n, - Timeslice)
    BY <1>6, <1>7, <2>1, FloorLower, ConstFacts
  <2> QED
    BY <1>4, <2>1, <2>2
<1>9. /\ ffb' \in Words /\ schedNext' \in (- Timeslice)..(MainClock + 1)
      /\ nextId' \in Nat \cup {-1} /\ Now' = n
  BY <1>1, <1>2, <1>4, <1>8, FftsClock
<1>10. ASSUME AllOnTime(schList, left, n)
       PROVE  /\ schedNext' >= 0
              /\ \A i \in DOMAIN schList :
                    IsScheduled(schList'[i]) => schedNext' <= left'[i] /\ nextId' # -1
  <2>1. AllOnTime(schList', left', n)
    BY <1>4, <1>5, <1>10 DEF AllOnTime
  <2> QED
    BY <1>1, <1>2, <1>4, <1>8, <2>1, FftsRun
<1> QED
  BY <1>4, <1>7, <1>9, <1>10 DEF n

-----------------------------------------------------------------------------
(* IInv is inductive: one lemma per action *)

Lefts == (- Timeslice)..(MainClock + 1)

\* The types of the state and, between two ticks, that nothing is overdue.
LEMMA Facts ==
    ASSUME IInv
    PROVE  /\ schList \in Seq(Slots) /\ left \in Seq(Lefts)
           /\ DOMAIN left = DOMAIN schList
           /\ \A i \in DOMAIN schList : schList[i] \in Slots /\ left[i] \in Lefts /\ left[i] \in Int
           /\ Now \in Words /\ Now \in Int /\ schedNext \in Int /\ ffb \in Int
           /\ pc = "run" => AllOnTime(schList, left, Now)
<1>1. /\ schList \in Seq(Slots) /\ left \in Seq(Lefts)
      /\ DOMAIN left = DOMAIN schList /\ ffb \in Words /\ schedNext \in Int /\ ffb \in Int
  BY ConstFacts DEF IInv, TypeOK, ListOK, Slots, Lefts, Words
<1>2. \A i \in DOMAIN schList : schList[i] \in Slots /\ left[i] \in Lefts
  BY <1>1
<1>3. \A x \in Lefts : x \in Int
  BY ConstFacts DEF Lefts
<1>4. Now \in Words /\ Now \in Int
  BY <1>1, TypeNow
<1>5. ASSUME pc = "run" PROVE AllOnTime(schList, left, Now)
  <2>1. \A i \in DOMAIN schList : Floor(i) = 0
    BY <1>5 DEF Floor
  <2> QED
    BY <2>1 DEF IInv, ListOK, AllOnTime
<1> QED
  BY <1>1, <1>2, <1>3, <1>4, <1>5

\* A step that leaves the save state alone keeps it sound.
LEMMA SavedKept == ASSUME SavedOK, saved' = saved PROVE SavedOK'
  BY DEF SavedOK

\* A step that ends in sh4_sched_ffts() over a list with nothing overdue.
LEMMA FftsEstablishes ==
    ASSUME NEW list \in Seq(Slots), NEW lft \in Seq(Lefts), NEW now \in Words,
           AllOnTime(list, lft, now), sh4_sched_ffts(list, now),
           schList' = list, left' = lft, pc' = "run", pos' \in Nat \ {0},
           jitter' \in 0..Timeslice, SavedOK'
    PROVE  IInv'
<1>1. \A i \in DOMAIN list : lft[i] \in Int
  BY ConstFacts DEF AllOnTime, Lefts
<1>2. \A i \in DOMAIN list : OnTime(list[i], lft[i], now, - Timeslice)
  BY FloorLower DEF AllOnTime
<1>3. /\ ffb' \in Words /\ schedNext' \in Lefts
      /\ nextId' \in Nat \cup {-1} /\ Now' = now
  BY <1>1, <1>2, FftsClock DEF Lefts
<1>4. /\ schedNext' >= 0
      /\ \A i \in DOMAIN list : IsScheduled(list[i]) => schedNext' <= lft[i] /\ nextId' # -1
  BY <1>1, FftsRun
<1>5. TypeOK'
  BY <1>3 DEF TypeOK, Slots, Lefts
<1>6. ListOK'
  <2>1. \A i : Floor(i)' = 0
    BY DEF Floor
  <2> QED
    BY <1>3, <2>1 DEF ListOK, AllOnTime
<1>7. NextOK'
  BY <1>4 DEF NextOK
<1> QED
  BY <1>5, <1>6, <1>7 DEF IInv

\* IInv holds in the state of a new machine.
LEMMA InitOK == Init => IInv
  BY ConstFacts DEF Init, IInv, TypeOK, ListOK, NextOK, SavedOK, Words

\* sh4_sched_register(), in a free slot or a new one, keeps IInv.
LEMMA RegisterOK == ASSUME IInv, sh4_sched_register PROVE IInv'
<1> DEFINE free == {i \in DOMAIN schList : ~ schList[i].cb}
           new == [cb |-> TRUE, start |-> None, end |-> None]
<1>1. new \in Slots /\ ~ IsScheduled(new) /\ 0 \in Lefts
  BY ConstFacts DEF Slots, IsScheduled, Lefts
<1> HIDE DEF new
<1>2. /\ pc = "run" /\ UNCHANGED <<ffb, schedNext, nextId, pc, pos, jitter, saved>> /\ Now' = Now
  BY DEF sh4_sched_register, Now
<1>3. \/ \E i \in DOMAIN schList :
             /\ schList' = [schList EXCEPT ![i] = new]
             /\ left' = [left EXCEPT ![i] = 0]
      \/ /\ schList' = Append(schList, new)
         /\ left' = Append(left, 0)
  BY DEF sh4_sched_register, new
<1>4. /\ schList' \in Seq(Slots) /\ left' \in Seq(Lefts)
      /\ DOMAIN left' = DOMAIN schList'
      /\ \A i \in DOMAIN schList' :
            \/ i \in DOMAIN schList /\ schList'[i] = schList[i] /\ left'[i] = left[i]
            \/ ~ IsScheduled(schList'[i])
  <2>1. ASSUME NEW i \in DOMAIN schList, schList' = [schList EXCEPT ![i] = new],
               left' = [left EXCEPT ![i] = 0]
        PROVE  <1>4!:
    BY <1>1, <2>1, Facts, SeqUpdate
  <2>2. ASSUME schList' = Append(schList, new), left' = Append(left, 0)
        PROVE  <1>4!:
    BY <1>1, <2>2, Facts
  <2> QED
    BY <1>3, <2>1, <2>2
<1>5. TypeOK'
  BY <1>2, <1>4 DEF IInv, TypeOK, Slots, Lefts
<1>6. ListOK'
  <2>1. \A i : Floor(i)' = 0
    BY <1>2 DEF Floor
  <2>2. AllOnTime(schList, left, Now)
    BY <1>2, Facts
  <2> QED
    BY <1>2, <1>4, <2>1, <2>2 DEF ListOK, AllOnTime, OnTime
<1>7. NextOK'
  BY <1>2, <1>4 DEF IInv, NextOK
<1> QED
  BY <1>2, <1>5, <1>6, <1>7, SavedKept DEF IInv

\* sh4_sched_unregister(), of the last slot or another, keeps IInv.
LEMMA UnregisterOK ==
    ASSUME IInv, NEW id \in DOMAIN schList, sh4_sched_unregister(id) PROVE IInv'
<1> DEFINE n == Len(schList)
           slot == schList[id]
           s == [slot EXCEPT !.cb = FALSE, !.end = None]
<1>1. /\ schList' = IF id = n THEN SubSeq(schList, 1, n - 1) ELSE [schList EXCEPT ![id] = s]
      /\ left' = IF id = n THEN SubSeq(left, 1, n - 1) ELSE [left EXCEPT ![id] = 0]
      /\ sh4_sched_ffts(schList', Now)
      /\ pc = "run" /\ UNCHANGED <<pc, pos, jitter, saved>>
  BY DEF sh4_sched_unregister
<1>2. s \in Slots /\ ~ IsScheduled(s) /\ 0 \in Lefts
  <2>1. slot \in Slots
    BY Facts
  <2> HIDE DEF slot
  <2>2. s \in Slots /\ s.end = None
    BY <2>1, ConstFacts DEF Slots
  <2> HIDE DEF s
  <2> QED
    BY <2>2, ConstFacts DEF IsScheduled, Lefts
<1> HIDE DEF s
<1>3. /\ schList' \in Seq(Slots) /\ left' \in Seq(Lefts)
      /\ DOMAIN left' = DOMAIN schList'
      /\ \A i \in DOMAIN schList' :
            \/ i \in DOMAIN schList /\ schList'[i] = schList[i] /\ left'[i] = left[i]
            \/ ~ IsScheduled(schList'[i])
  <2>1. CASE id = n
    <3>1. Len(left) = n /\ n \in Nat \ {0}
      BY Facts
    <3> QED
      BY <1>1, <2>1, <3>1, Facts
  <2>2. CASE id # n
    BY <1>1, <1>2, <2>2, Facts, SeqUpdate
  <2> QED
    BY <2>1, <2>2
<1>4. AllOnTime(schList', left', Now)
  <2>1. AllOnTime(schList, left, Now)
    BY <1>1, Facts
  <2> QED
    BY <1>3, <2>1 DEF AllOnTime, OnTime
<1>5. pos' \in Nat \ {0} /\ jitter' \in 0..Timeslice /\ SavedOK' /\ pc' = "run"
  BY <1>1, SavedKept DEF IInv, TypeOK
<1> QED
  BY <1>1, <1>3, <1>4, <1>5, Facts, FftsEstablishes

\* A request by a device, in a callback or not, keeps IInv.
LEMMA RequestStepOK ==
    ASSUME IInv, NEW id \in DOMAIN schList, NEW c \in Delays \cup {-1}, Request(id, c)
    PROVE  IInv'
<1>1. /\ pc \in {"run", "cb"} /\ sh4_sched_request(schList, id, c)
      /\ UNCHANGED <<pc, pos, jitter, saved>>
  BY DEF Request
<1>2. c \in (0..MainClock) \cup {-1}
  BY BoundAssumption
<1>3. /\ schList' \in Seq(Slots) /\ left' \in Seq(Lefts)
      /\ DOMAIN schList' = DOMAIN schList /\ DOMAIN left' = DOMAIN schList
      /\ ffb' \in Words /\ schedNext' \in Lefts
      /\ nextId' \in Nat \cup {-1}
      /\ Now' = Now
      /\ \A i \in DOMAIN schList : OnTime(schList'[i], left'[i], Now, Floor(i))
      /\ AllOnTime(schList, left, Now) =>
            /\ schedNext' >= 0
            /\ \A i \in DOMAIN schList :
                  IsScheduled(schList'[i]) => schedNext' <= left'[i] /\ nextId' # -1
  BY <1>1, <1>2, RequestOK DEF IInv, Lefts
<1>4. TypeOK'
  BY <1>1, <1>3 DEF IInv, TypeOK, Slots, Lefts
<1>5. ListOK'
  <2>1. \A i : Floor(i)' = Floor(i)
    BY <1>1 DEF Floor
  <2> QED
    BY <1>3, <2>1 DEF ListOK
<1>6. NextOK'
  BY <1>1, <1>3, Facts DEF NextOK
<1> QED
  BY <1>1, <1>3, <1>4, <1>5, <1>6, SavedKept DEF IInv

\* Time passes: a deadline moves closer by the length of the slice.
LEMMA SliceOnTime ==
    ASSUME NEW s \in Slots, NEW l \in Int, NEW now \in Words, OnTime(s, l, now, 0)
    PROVE  OnTime(s, l - Timeslice, (now + Timeslice) % Word, - Timeslice)
<1>1. SUFFICES ASSUME IsScheduled(s)
      PROVE  /\ s.end = (((now + Timeslice) % Word) + (l - Timeslice)) % Word
             /\ l - Timeslice \in (- Timeslice)..(MainClock + 1)
             /\ (s.end - s.start) % Word \in 0..(MainClock + 1)
             /\ l - Timeslice <= (s.end - s.start) % Word
  BY DEF OnTime
<1>2. /\ s.end = (now + l) % Word /\ l \in 0..(MainClock + 1)
      /\ (s.end - s.start) % Word \in 0..(MainClock + 1)
      /\ l <= (s.end - s.start) % Word
  BY <1>1 DEF OnTime
<1>3. now + Timeslice \in Int /\ l - Timeslice \in Int
      /\ (now + Timeslice) + (l - Timeslice) = now + l
  BY ConstFacts DEF Words
<1>4. (((now + Timeslice) % Word) + (l - Timeslice)) % Word = (now + l) % Word
  BY <1>3, ModAdd
<1> QED
  BY <1>2, <1>4, ConstFacts

\* The end of a time slice, which starts a tick when a deadline is past, keeps IInv.
LEMMA UpdateOK == ASSUME IInv, UpdateSystem_INTC PROVE IInv'
<1> DEFINE next == schedNext - Timeslice
           now == (Now + Timeslice) % Word
           late == [i \in DOMAIN left |->
                      IF IsScheduled(schList[i]) THEN left[i] - Timeslice ELSE 0]
<1>1. pc = "run" /\ left' = late /\ UNCHANGED <<schList, jitter, saved>>
  BY DEF UpdateSystem_INTC
<1>2. AllOnTime(schList, left, Now) /\ next \in Int /\ now \in Words /\ schedNext \in 0..(MainClock + 1)
  <2>0. Now + Timeslice \in Int
    BY Facts, ConstFacts
  <2>1. now \in Words
    BY <2>0, ModWord
  <2>2. next \in Int /\ schedNext \in 0..(MainClock + 1)
    BY <1>1, Facts, ConstFacts DEF IInv, TypeOK, NextOK
  <2> QED
    BY <1>1, <2>1, <2>2, Facts
<1>3. ASSUME NEW i \in DOMAIN schList
      PROVE  /\ late[i] \in Lefts
             /\ IsScheduled(schList[i]) =>
                  late[i] = left[i] - Timeslice /\ schedNext <= left[i] /\ nextId # -1
             /\ OnTime(schList[i], late[i], now, - Timeslice)
  <2>1. i \in DOMAIN left /\ schList[i] \in Slots /\ left[i] \in Int /\ OnTime(schList[i], left[i], Now, 0)
    BY <1>2, Facts DEF AllOnTime
  <2>2. CASE IsScheduled(schList[i])
    <3>1. late[i] = left[i] - Timeslice /\ schedNext <= left[i] /\ nextId # -1
      BY <1>1, <2>1, <2>2 DEF IInv, NextOK
    <3>2. left[i] \in 0..(MainClock + 1)
      BY <2>1, <2>2 DEF OnTime
    <3>3. OnTime(schList[i], left[i] - Timeslice, now, - Timeslice)
      BY <2>1, Facts, SliceOnTime
    <3>4. late[i] \in Lefts
      BY <3>1, <3>2, ConstFacts DEF Lefts
    <3> HIDE DEF now, late
    <3> QED
      BY <3>1, <3>3, <3>4
  <2>3. CASE ~ IsScheduled(schList[i])
    BY <2>1, <2>3, ConstFacts DEF OnTime, Lefts
  <2> QED
    BY <2>2, <2>3
<1>4. left' \in Seq(Lefts) /\ DOMAIN left' = DOMAIN schList
  BY <1>1, <1>3, Facts
<1>5. SavedOK' /\ jitter' \in 0..Timeslice
  BY <1>1, SavedKept DEF IInv, TypeOK
<1>6. ASSUME schedNext' = next, ffb' = ffb PROVE Now' = now
  <2>1. (((ffb - schedNext) % Word) + Timeslice) % Word = ((ffb - schedNext) + Timeslice) % Word
    BY Facts, ModAdd, ConstFacts
  <2>2. (ffb - schedNext) + Timeslice = ffb - next
    BY Facts, ConstFacts
  <2> QED
    BY <1>6, <2>1, <2>2 DEF Now
<1> HIDE DEF now, late
<1>7. CASE next >= 0 /\ schedNext' = next /\ UNCHANGED <<ffb, nextId, pc, pos>>
  <2>1. TypeOK'
    BY <1>1, <1>2, <1>4, <1>5, <1>7, ConstFacts DEF IInv, TypeOK, Slots, Lefts
  <2>2. ListOK'
    <3>1. ASSUME NEW i \in DOMAIN schList
          PROVE  OnTime(schList[i], late[i], now, 0)
      BY <1>2, <1>3, <1>7, Facts, ConstFacts DEF OnTime
    <3>2. \A i : Floor(i)' = 0
      BY <1>1, <1>7 DEF Floor
    <3> QED
      BY <1>1, <1>4, <1>6, <1>7, <3>1, <3>2 DEF ListOK
  <2>3. NextOK'
    BY <1>1, <1>2, <1>3, <1>7, Facts, ConstFacts DEF NextOK
  <2> QED
    BY <1>1, <1>5, <1>7, <2>1, <2>2, <2>3 DEF IInv
<1>8. CASE next < 0 /\ schedNext' = next /\ pc' = "tick" /\ pos' = 1 /\ UNCHANGED <<ffb, nextId>>
  <2>1. TypeOK'
    BY <1>1, <1>2, <1>4, <1>5, <1>8, ConstFacts DEF IInv, TypeOK, Slots, Lefts
  <2>2. ListOK'
    <3>1. \A i \in DOMAIN schList : Floor(i)' = - Timeslice
      BY <1>8, Facts DEF Floor
    <3> QED
      BY <1>1, <1>3, <1>4, <1>6, <1>8, <3>1 DEF ListOK
  <2> QED
    BY <1>5, <1>8, <2>1, <2>2 DEF IInv, NextOK
<1>9. CASE nextId = -1 /\ sh4_sched_ffts(schList, now) /\ UNCHANGED <<pc, pos>>
  <2>1. AllOnTime(schList, left', now)
    BY <1>1, <1>3, <1>4, <1>9 DEF AllOnTime, OnTime
  <2>2. pos' \in Nat \ {0} /\ pc' = "run"
    BY <1>1, <1>9 DEF IInv, TypeOK
  <2> QED
    BY <1>1, <1>2, <1>4, <1>5, <1>9, <2>1, <2>2, Facts, FftsEstablishes
<1> QED
  BY <1>7, <1>8, <1>9 DEF UpdateSystem_INTC, now

\* A slot the tick loop calls back is scheduled and late by a slice at most;
\* one it passes over is not overdue.
LEMMA DueOK ==
    ASSUME IInv, NEW i \in DOMAIN schList
    PROVE  /\ DueInSlice(i) => IsScheduled(schList[i]) /\ left[i] \in (- Timeslice)..0
           /\ ~ DueInSlice(i) /\ IsScheduled(schList[i]) => left[i] >= 0
<1> DEFINE fztime == (Now - Timeslice) % Word
           remaining == Signed(sh4_sched_remaining(schList[i], fztime))
<1>1. DueInSlice(i) <=> remaining >= 0 /\ remaining <= Timeslice
  BY DEF DueInSlice
<1>2. CASE IsScheduled(schList[i])
  <2>1. OnTime(schList[i], left[i], Now, - Timeslice)
    <3>1. OnTime(schList[i], left[i], Now, Floor(i))
      BY DEF IInv, ListOK
    <3>2. Floor(i) \in {0, - Timeslice}
      BY DEF Floor
    <3> QED
      BY <3>1, <3>2, FloorLower
  <2>2. remaining = left[i] + Timeslice
    BY <1>2, <2>1, Facts, RemainingSlice
  <2>3. left[i] \in (- Timeslice)..(MainClock + 1)
    BY <1>2, <2>1 DEF OnTime
  <2> HIDE DEF remaining
  <2> QED
    BY <1>1, <1>2, <2>2, <2>3, ConstFacts
<1>3. CASE ~ IsScheduled(schList[i])
  <2>1. remaining = -1
    BY <1>3, ConstFacts DEF sh4_sched_remaining, Signed, None
  <2> HIDE DEF remaining
  <2> QED
    BY <1>1, <1>3, <2>1
<1> QED
  BY <1>2, <1>3

\* The tick loop passes a slot that is not due, which is then not late either.
LEMMA TickSkipOK == ASSUME IInv, tick_skip PROVE IInv'
<1>1. /\ pc = "tick" /\ pos \in DOMAIN schList /\ ~ DueInSlice(pos) /\ pos' = pos + 1
      /\ UNCHANGED <<ffb, schedNext, nextId, schList, pc, jitter, left, saved>>
  BY DEF tick_skip
<1>2. TypeOK' /\ NextOK' /\ Now' = Now
  BY <1>1 DEF IInv, TypeOK, NextOK, Now
<1>3. ListOK'
  <2>1. ASSUME NEW i \in DOMAIN schList
        PROVE  OnTime(schList[i], left[i], Now, Floor(i)')
    <3>1. OnTime(schList[i], left[i], Now, Floor(i)) /\ i \in Nat /\ pos \in Nat
      BY Facts DEF IInv, ListOK, TypeOK
    <3>2. CASE i = pos
      <4>1. IsScheduled(schList[i]) => left[i] >= 0
        BY <1>1, <3>2, DueOK
      <4>2. Floor(i)' = 0
        BY <1>1, <3>1, <3>2 DEF Floor
      <4> QED
        BY <3>1, <4>1, <4>2, ConstFacts DEF OnTime
    <3>3. CASE i # pos
      <4>1. Floor(i)' = Floor(i)
        BY <1>1, <3>1, <3>3 DEF Floor
      <4> QED
        BY <3>1, <4>1
    <3> QED
      BY <3>2, <3>3
  <2> QED
    BY <1>1, <1>2, <2>1 DEF IInv, ListOK
<1> QED
  BY <1>1, <1>2, <1>3, SavedKept DEF IInv

\* The jitter that handle_cb() computes from wrapped words is the lateness.
LEMMA JitterOK ==
    ASSUME IInv, handle_cb
    PROVE  jitter' = - left[pos] /\ jitter' \in 0..Timeslice
<1> DEFINE s == schList[pos]
           l == left[pos]
           d == (s.end - s.start) % Word
<1>1. pos \in DOMAIN schList /\ DueInSlice(pos) /\ pc = "tick"
  BY DEF handle_cb
<1>2. s \in Slots /\ l \in Int /\ IsScheduled(s) /\ l \in (- Timeslice)..0
  BY <1>1, DueOK, Facts
<1>3. OnTime(s, l, Now, Floor(pos))
  BY <1>1 DEF IInv, ListOK
<1>4. s.end = (Now + l) % Word /\ d \in 0..(MainClock + 1)
  BY <1>2, <1>3 DEF OnTime
<1>5. s.end \in Int /\ s.start \in Int /\ Now \in Int
  <2>1. Now \in Int
    BY Facts
  <2>2. s.end \in Words /\ s.start \in Words
    BY <1>2 DEF Slots
  <2> QED
    BY <2>1, <2>2, ConstFacts DEF Words
<1>6. (Now - s.start) % Word = d - l
  <2>1. (Now - s.start) % Word = (d - l) % Word
    BY <1>2, <1>4, <1>5, Elapsed
  <2> HIDE DEF s, l, d
  <2>2. d - l \in Words /\ d - l \in Int
    BY <1>2, <1>4, ConstFacts DEF Words
  <2> QED
    BY <2>1, <2>2, ModWord
<1>7. jitter' = Signed((Now - s.start) % Word) - Signed(d)
  BY DEF handle_cb
<1> HIDE DEF s, l, d
<1>8. Signed(d) = d /\ Signed(d - l) = d - l
  BY <1>2, <1>4, ConstFacts DEF Signed
<1> QED
  BY <1>2, <1>4, <1>6, <1>7, <1>8, ConstFacts DEF l

\* handle_cb() takes the slot off the schedule before the callback.
LEMMA HandleOK == ASSUME IInv, handle_cb PROVE IInv'
<1> DEFINE slot == schList[pos]
           s == [slot EXCEPT !.start = Now, !.end = None]
<1>1. /\ pc = "tick" /\ pos \in DOMAIN schList
      /\ schList' = [schList EXCEPT ![pos] = s] /\ left' = [left EXCEPT ![pos] = 0]
      /\ pc' = "cb" /\ UNCHANGED <<ffb, schedNext, nextId, pos, saved>>
  BY DEF handle_cb
<1>2. s \in Slots /\ ~ IsScheduled(s) /\ 0 \in Lefts
  <2>1. slot \in Slots /\ Now \in Words
    BY <1>1, Facts
  <2> HIDE DEF slot
  <2>2. s \in Slots /\ s.end = None
    BY <2>1, ConstFacts DEF Slots
  <2> HIDE DEF s
  <2> QED
    BY <2>2, ConstFacts DEF IsScheduled, Lefts
<1> HIDE DEF s
<1>3. /\ schList' \in Seq(Slots) /\ left' \in Seq(Lefts)
      /\ DOMAIN schList' = DOMAIN schList /\ DOMAIN left' = DOMAIN schList
      /\ schList'[pos] = s
      /\ \A i \in DOMAIN schList : i # pos => schList'[i] = schList[i] /\ left'[i] = left[i]
  BY <1>1, <1>2, Facts, SeqUpdate
<1>4. TypeOK' /\ Now' = Now
  BY <1>1, <1>3, JitterOK DEF IInv, TypeOK, Slots, Lefts, Now
<1>5. ListOK'
  <2>1. ASSUME NEW i \in DOMAIN schList
        PROVE  OnTime(schList'[i], left'[i], Now, Floor(i)')
    <3>1. CASE i = pos
      BY <1>2, <1>3, <3>1 DEF OnTime
    <3>2. CASE i # pos
      <4>1. Floor(i)' = Floor(i)
        BY <1>1, <3>2, Facts DEF Floor, IInv, TypeOK
      <4> QED
        BY <1>3, <3>2, <4>1 DEF IInv, ListOK
    <3> QED
      BY <3>1, <3>2
  <2> QED
    BY <1>3, <1>4, <2>1 DEF ListOK
<1> QED
  BY <1>1, <1>3, <1>4, <1>5, SavedKept DEF IInv, NextOK

\* A callback that returns, with or without a new period, keeps IInv.
LEMMA ReturnOK ==
    ASSUME IInv, NEW r \in Delays, cb_return(r) PROVE IInv'
<1> DEFINE c == IF r > jitter THEN r - jitter ELSE 0
<1>1. /\ pc = "cb" /\ pc' = "tick" /\ pos' = pos + 1 /\ jitter' = 0 /\ saved' = saved
      /\ \/ sh4_sched_request(schList, pos, c)
         \/ UNCHANGED <<ffb, schedNext, nextId, schList, left>>
  BY DEF cb_return
<1>2. c \in 0..MainClock
  BY BoundAssumption, ConstFacts DEF IInv, TypeOK
<1> HIDE DEF c
<1>3. /\ schList' \in Seq(Slots) /\ left' \in Seq(Lefts)
      /\ DOMAIN schList' = DOMAIN schList /\ DOMAIN left' = DOMAIN schList
      /\ ffb' \in Words /\ schedNext' \in Lefts /\ nextId' \in Nat \cup {-1} /\ Now' = Now
      /\ \A i \in DOMAIN schList : OnTime(schList'[i], left'[i], Now, Floor(i))
  <2>1. CASE sh4_sched_request(schList, pos, c)
    BY <1>1, <1>2, <2>1, RequestOK DEF IInv, Lefts
  <2>2. CASE UNCHANGED <<ffb, schedNext, nextId, schList, left>>
    BY <2>2, Facts DEF IInv, TypeOK, ListOK, Lefts, Now
  <2> QED
    BY <1>1, <2>1, <2>2
<1>4. TypeOK'
  BY <1>1, <1>3, ConstFacts DEF IInv, TypeOK, Slots, Lefts
<1>5. ListOK'
  <2>1. \A i \in DOMAIN schList : Floor(i)' = Floor(i)
    BY <1>1, Facts DEF Floor, IInv, TypeOK
  <2> QED
    BY <1>3, <2>1 DEF ListOK
<1> QED
  BY <1>1, <1>4, <1>5, SavedKept DEF IInv, NextOK

\* At the end of the tick loop nothing is overdue: sh4_sched_ffts() is sound.
LEMMA TickEndOK == ASSUME IInv, tick_end PROVE IInv'
<1>1. /\ pc = "tick" /\ pos \notin DOMAIN schList /\ sh4_sched_ffts(schList, Now)
      /\ pc' = "run" /\ pos' = 1 /\ UNCHANGED <<schList, jitter, left, saved>>
  BY DEF tick_end
<1>2. ASSUME NEW i \in DOMAIN schList PROVE OnTime(schList[i], left[i], Now, 0)
  BY <1>1, Facts DEF IInv, ListOK, Floor, TypeOK
<1>3. AllOnTime(schList, left, Now)
  BY <1>2, Facts DEF AllOnTime
<1>4. jitter' \in 0..Timeslice /\ SavedOK' /\ pos' \in Nat \ {0}
  BY <1>1, SavedKept DEF IInv, TypeOK
<1> QED
  BY <1>1, <1>3, <1>4, Facts, FftsEstablishes

\* sh4_sched_reset() keeps IInv.
LEMMA ResetOK == ASSUME IInv, sh4_sched_reset PROVE IInv'
<1>1. /\ pc = "run" /\ ffb' = 0 /\ schedNext' = 0 /\ nextId' = -1
      /\ schList' = [i \in DOMAIN schList |-> [schList[i] EXCEPT !.start = None, !.end = None]]
      /\ left' = [i \in DOMAIN left |-> 0]
      /\ UNCHANGED <<pc, pos, jitter, saved>>
  BY DEF sh4_sched_reset
<1>2. ASSUME NEW i \in DOMAIN schList
      PROVE  schList'[i] \in Slots /\ schList'[i].end = None
  <2> DEFINE slot == schList[i]
  <2>1. slot \in Slots
    BY Facts
  <2>2. schList'[i] = [slot EXCEPT !.start = None, !.end = None]
    BY <1>1
  <2> HIDE DEF slot
  <2> QED
    BY <2>1, <2>2, ConstFacts DEF Slots
<1>3. schList' \in Seq(Slots) /\ left' \in Seq(Lefts) /\ DOMAIN left' = DOMAIN schList'
      /\ DOMAIN schList' = DOMAIN schList
  <2>1. 0 \in Lefts
    BY ConstFacts DEF Lefts
  <2>2. /\ Len(schList) \in Nat /\ DOMAIN schList = 1..Len(schList)
        /\ DOMAIN left = DOMAIN schList
    BY Facts
  <2>3. DOMAIN schList' = DOMAIN schList /\ DOMAIN left' = DOMAIN schList
    BY <1>1, <2>2
  <2>4. schList' \in [1..Len(schList) -> Slots] /\ left' \in [1..Len(schList) -> Lefts]
    BY <1>1, <1>2, <2>1, <2>2, <2>3
  <2> QED
    BY <2>2, <2>3, <2>4
<1>4. TypeOK'
  <2>1. 0 \in Lefts /\ 0 \in Words
    BY ConstFacts DEF Lefts
  <2> QED
    BY <1>1, <1>3, <2>1 DEF IInv, TypeOK, Slots, Lefts
<1>5. ListOK' /\ NextOK'
  <2>1. \A i \in DOMAIN schList' : ~ IsScheduled(schList'[i])
    BY <1>2, <1>3 DEF IsScheduled
  <2>2. ASSUME NEW i \in DOMAIN schList'
        PROVE  OnTime(schList'[i], left'[i], Now', Floor(i)')
    BY <2>1 DEF OnTime
  <2>3. ListOK'
    BY <1>3, <2>2 DEF ListOK
  <2>4. NextOK'
    <3>0. schedNext' = 0
      BY <1>1, Zenon
    <3>1. schedNext' >= 0
      BY <3>0
    <3> QED
      BY <2>1, <3>1 DEF NextOK
  <2> QED
    BY <2>3, <2>4
<1> QED
  BY <1>1, <1>4, <1>5, SavedKept DEF IInv

\* A state is saved in which nothing is overdue.
LEMMA SerializeOK == ASSUME IInv, sh4_sched_serialize PROVE IInv'
<1>1. /\ pc = "run"
      /\ saved' = [ffb |-> ffb, next |-> schedNext, list |-> schList, left |-> left]
      /\ UNCHANGED <<ffb, schedNext, nextId, schList, pc, pos, jitter, left>>
  BY DEF sh4_sched_serialize
<1>2. TypeOK' /\ ListOK' /\ NextOK'
  BY <1>1 DEF IInv, TypeOK, ListOK, NextOK, Now, Floor
<1>3. /\ saved'.ffb = ffb /\ saved'.next = schedNext
      /\ saved'.list = schList /\ saved'.left = left
  BY <1>1
<1>4. SavedOK'
  BY <1>1, <1>3, Facts DEF SavedOK, IInv, TypeOK, Now, Lefts
<1> QED
  BY <1>1, <1>2, <1>4 DEF IInv

\* Reading a saved state back establishes IInv again.
LEMMA DeserializeOK == ASSUME IInv, sh4_sched_deserialize PROVE IInv'
<1> DEFINE now == (saved.ffb - saved.next) % Word
<1>1. /\ pc = "run" /\ saved # << >> /\ schList' = saved.list /\ left' = saved.left
      /\ sh4_sched_ffts(saved.list, now) /\ UNCHANGED <<pc, pos, jitter, saved>>
  BY DEF sh4_sched_deserialize
<1>2. /\ saved.ffb \in Words /\ saved.next \in Int /\ saved.list \in Seq(Slots)
      /\ saved.left \in Seq(Lefts) /\ AllOnTime(saved.list, saved.left, now)
  BY <1>1 DEF IInv, SavedOK, Lefts
<1>3. now \in Words
  <2>1. saved.ffb - saved.next \in Int
    BY <1>2, ConstFacts DEF Words
  <2> QED
    BY <2>1, ModWord
<1>4. pos' \in Nat \ {0} /\ jitter' \in 0..Timeslice /\ SavedOK' /\ pc' = "run"
  BY <1>1, SavedKept DEF IInv, TypeOK
<1> HIDE DEF now
<1> QED
  BY <1>1, <1>2, <1>3, <1>4, FftsEstablishes

\* A step that changes nothing keeps IInv.
LEMMA StutterOK == ASSUME IInv, UNCHANGED vars PROVE IInv'
  BY SavedKept DEF IInv, vars, TypeOK, ListOK, NextOK, Now, Floor

\* Every step of the scheduler keeps IInv.
LEMMA InductionStep == IInv /\ [Next]_vars => IInv'
<1> SUFFICES ASSUME IInv, [Next]_vars PROVE IInv'
  OBVIOUS
<1>1. CASE sh4_sched_register
  BY <1>1, RegisterOK
<1>2. CASE \E id \in DOMAIN schList : sh4_sched_unregister(id)
  BY <1>2, UnregisterOK
<1>3. CASE \E id \in DOMAIN schList, c \in Delays \cup {-1} : Request(id, c)
  BY <1>3, RequestStepOK
<1>4. CASE UpdateSystem_INTC
  BY <1>4, UpdateOK
<1>5. CASE tick_skip
  BY <1>5, TickSkipOK
<1>6. CASE handle_cb
  BY <1>6, HandleOK
<1>7. CASE \E r \in Delays : cb_return(r)
  BY <1>7, ReturnOK
<1>8. CASE tick_end
  BY <1>8, TickEndOK
<1>9. CASE sh4_sched_reset
  BY <1>9, ResetOK
<1>10. CASE sh4_sched_serialize
  BY <1>10, SerializeOK
<1>11. CASE sh4_sched_deserialize
  BY <1>11, DeserializeOK
<1>12. CASE UNCHANGED vars
  BY <1>12, StutterOK
<1> QED
  BY <1>1, <1>2, <1>3, <1>4, <1>5, <1>6, <1>7, <1>8, <1>9, <1>10, <1>11, <1>12 DEF Next

-----------------------------------------------------------------------------
(* The theorems *)

\* IInv holds in every reachable state.
LEMMA Invariance == Spec => []IInv
  BY InitOK, InductionStep, PTL DEF Spec

\* Every variable of the scheduler keeps its range: sh4_sched_next stays within
\* a time slice below zero and a cycle above SH4_MAIN_CLOCK, and the jitter a
\* callback of sh4_sched_tick() is given within [0, SH4_TIMESLICE].
THEOREM TypeCorrect == Spec => []TypeOK
<1>1. IInv => TypeOK
  BY DEF IInv
<1> QED
  BY <1>1, Invariance, PTL

\* No event is lost, whatever the number of slots, the size of the word and the
\* order in which devices register, reschedule, cancel, call each other back,
\* reset, save and load.
THEOREM EventsAreKept == Spec => []NoEventLost
<1>1. ASSUME IInv, pc = "run", NEW i \in DOMAIN schList, IsScheduled(schList[i])
      PROVE  /\ left[i] \in schedNext..(MainClock + 1) /\ schedNext >= 0
             /\ sh4_sched_remaining(schList[i], Now) = left[i]
             /\ nextId # -1
  <2>1. OnTime(schList[i], left[i], Now, 0) /\ left[i] \in Int /\ schList[i] \in Slots /\ Now \in Words
    BY <1>1, Facts DEF AllOnTime
  <2>2. left[i] \in 0..(MainClock + 1)
    BY <1>1, <2>1 DEF OnTime
  <2>3. OnTime(schList[i], left[i], Now, - Timeslice)
    BY <2>1, FloorLower
  <2>4. sh4_sched_remaining(schList[i], Now) = left[i]
    BY <1>1, <2>1, <2>2, <2>3, RemainingNow
  <2>5. schedNext >= 0 /\ schedNext <= left[i] /\ nextId # -1 /\ schedNext \in Int
    BY <1>1, Facts DEF IInv, NextOK
  <2> QED
    BY <2>2, <2>4, <2>5, ConstFacts
<1>2. IInv => NoEventLost
  BY <1>1 DEF NoEventLost
<1> QED
  BY <1>2, Invariance, PTL

\* The jitter handed to every callback is the true lateness of its event.
THEOREM JitterIsExact == Spec => JitterIsLateness
<1> DEFINE A == pc = "tick" /\ pc' = "cb" => jitter' = - left[pos] /\ jitter' \in 0..Timeslice
<1>1. ASSUME IInv, [Next]_vars PROVE [A]_vars
  <2>1. CASE handle_cb
    BY <1>1, <2>1, JitterOK
  <2>2. CASE ~ handle_cb
    BY <1>1, <2>2 DEF Next, vars, sh4_sched_register, sh4_sched_unregister, Request,
       UpdateSystem_INTC, tick_skip, cb_return, tick_end, sh4_sched_reset,
       sh4_sched_serialize, sh4_sched_deserialize
  <2> QED
    BY <2>1, <2>2
<1> QED
  BY <1>1, Invariance, PTL DEF Spec, JitterIsLateness

\* A request is granted, on the cycle asked for or on the next one when the
\* deadline would read as "not scheduled", and a period starts at the deadline
\* that fired.
THEOREM RequestsAreKept == Spec => RequestIsKept
<1> DEFINE dueIn(i, c) == /\ IsScheduled(schList'[i])
                          /\ sh4_sched_remaining(schList'[i], Now') \in {c, c + 1}
           A == /\ \A id \in DOMAIN schList, c \in Delays : Request(id, c) => dueIn(id, c)
                /\ \A r \in Delays : cb_return(r) /\ r > jitter => dueIn(pos, r - jitter)
<1>1. ASSUME IInv, NEW id \in DOMAIN schList, NEW c \in 0..MainClock,
             sh4_sched_request(schList, id, c)
      PROVE  dueIn(id, c)
  <2> DEFINE slot == schList[id]
             new == [slot EXCEPT !.start = Now, !.end = EndAfter(c)]
  <2>1. EndAfter(c) # None /\ (EndAfter(c) - Now) % Word \in {c, c + 1} /\ EndAfter(c) \in Words
    BY Facts, EndAfterOK, <1>1
  <2>2. schList' = [schList EXCEPT ![id] = new] /\ Now' = Now
    <3>1. c \in (0..MainClock) \cup {-1} /\ c # -1
      BY ConstFacts
    <3>2. Now' = Now
      BY <1>1, <3>1, RequestOK DEF IInv
    <3> QED
      BY <1>1, <3>1, <3>2 DEF sh4_sched_request
  <2>3. slot \in Slots
    BY <1>1, Facts
  <2> HIDE DEF slot
  <2>4. new.end = EndAfter(c)
    BY <2>3 DEF Slots
  <2> HIDE DEF new
  <2>5. schList'[id].end = EndAfter(c)
    BY <1>1, <2>2, <2>4, Facts
  <2> QED
    BY <2>1, <2>2, <2>5 DEF IsScheduled, sh4_sched_remaining
<1>2. ASSUME IInv, NEW id \in DOMAIN schList, NEW c \in Delays, Request(id, c)
      PROVE  dueIn(id, c)
  BY <1>1, <1>2, BoundAssumption DEF Request
<1>3. ASSUME IInv, NEW r \in Delays, cb_return(r), r > jitter
      PROVE  dueIn(pos, r - jitter)
  <2>1. r - jitter \in 0..MainClock /\ r > 0 /\ pos \in DOMAIN schList
    BY <1>3, BoundAssumption, ConstFacts DEF IInv, TypeOK, cb_return
  <2>2. sh4_sched_request(schList, pos, r - jitter)
    BY <1>3, <2>1, BoundAssumption DEF cb_return
  <2> QED
    BY <1>1, <1>3, <2>1, <2>2
<1>4. IInv => A
  BY <1>2, <1>3
<1> QED
  BY <1>4, Invariance, PTL DEF Spec, RequestIsKept
=============================================================================
