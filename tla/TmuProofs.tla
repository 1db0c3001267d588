----------------------------- MODULE TmuProofs -----------------------------
(***************************************************************************)
(* Proofs about Tmu, for any number of channels, any prescalers, and any   *)
(* length of a time slice: the timers that only compute their counters are *)
(* timers that count (Timer), and no underflow is missed.                  *)
(*                                                                         *)
(* The inductive invariant ties the event a channel has asked for to the   *)
(* time at which its counter goes below zero (ChanOK).  It holds although  *)
(* a delay is measured from the start of the slice, limited to MainClock   *)
(* and perhaps lengthened by a cycle.                                      *)
(***************************************************************************)
EXTENDS Tmu, TLAPS

Chan == [base : Int, on : BOOLEAN, mode : Modes, tcor : Counts, unf : BOOLEAN,
         pend : BOOLEAN, due : (0 .. MainClock + 1) \cup {None}]

\* The moment at which the counter of a running channel goes below zero.
Underflows(s) == (s.base + 1) * Scale(s)

\* In the slice that starts at k: the event of a running channel comes in this
\* slice, or not after the underflow.
ChanOK(s, k) == s.on => s.due # None /\ (s.due <= 1 \/ k + s.due <= Underflows(s))

IInv ==
    /\ TypeOK
    /\ clk % Timeslice = 0
    /\ \A c \in Channels : ChanOK(ch[c], clk) /\ ch[c].pend = ch[c].unf
-----------------------------------------------------------------------------
(* Arithmetic. *)

\* Quotient and remainder.
LEMMA DivMod ==
    ASSUME NEW c \in Nat \ {0}, NEW a \in Int
    PROVE  /\ a \div c \in Int /\ a % c \in 0 .. c - 1
           /\ a = c * (a \div c) + (a % c)
  OBVIOUS

\* They are unique.
LEMMA DivModUnique ==
    ASSUME NEW c \in Nat \ {0}, NEW q \in Int, NEW r \in 0 .. c - 1
    PROVE  (c * q + r) \div c = q /\ (c * q + r) % c = r
  OBVIOUS

\* Products grow with a factor.
LEMMA MulMono ==
    ASSUME NEW c \in Nat \ {0}, NEW x \in Int, NEW y \in Int, x <= y
    PROVE  c * x <= c * y
  OBVIOUS

\* Whole multiples of the divisor pass through a division and a remainder.
LEMMA DivShift ==
    ASSUME NEW c \in Nat \ {0}, NEW a \in Int, NEW k \in Int
    PROVE  /\ (a + c * k) \div c = (a \div c) + k
           /\ (a + c * k) % c = a % c
<1> DEFINE q == a \div c
           r == a % c
<1>1. q \in Int /\ r \in 0 .. c - 1 /\ a = c * q + r
  BY DivMod
<1> HIDE DEF q, r
<1>2. a + c * k = c * (q + k) + r
  BY <1>1
<1>3. (c * (q + k) + r) \div c = q + k /\ (c * (q + k) + r) % c = r
  BY <1>1, DivModUnique
<1>4. QED
  BY <1>2, <1>3 DEF q, r

\* A prescaled clock has passed b when the clock has reached the next edge.
LEMMA DivBound ==
    ASSUME NEW c \in Nat \ {0}, NEW t \in Int, NEW b \in Int
    PROVE  (t \div c <= b) <=> (t < (b + 1) * c)
<1> DEFINE q == t \div c
           r == t % c
<1>1. q \in Int /\ r \in 0 .. c - 1 /\ t = c * q + r
  BY DivMod
<1> HIDE DEF q, r
<1>2. (b + 1) * c = c * b + c
  OBVIOUS
<1>3. ASSUME q <= b PROVE t < (b + 1) * c
  BY <1>1, <1>2, <1>3, MulMono
<1>4. ASSUME ~ (q <= b) PROVE ~ (t < (b + 1) * c)
  <2>1. c * (b + 1) <= c * q
    BY <1>1, <1>4, MulMono
  <2>2. QED
    BY <1>1, <1>2, <2>1
<1>5. QED
  BY <1>3, <1>4 DEF q

\* A delay of no more than v whole counts, and another cycle, ends before a
\* counter that stands at v at time k + o goes below zero.
LEMMA DelayBound ==
    ASSUME NEW c \in Nat \ {0}, NEW k \in Int, NEW o \in Nat, NEW v \in Int,
           NEW d \in Int, d <= v * c
    PROVE  k + d + 1 <= (v + ((k + o) \div c) + 1) * c
<1> DEFINE t == k + o
           q == t \div c
           r == t % c
<1>2. k <= t /\ t \in Int
  OBVIOUS
<1> HIDE DEF t
<1>1. t \in Int /\ q \in Int /\ r \in 0 .. c - 1 /\ t = c * q + r
  BY <1>2, DivMod
<1> HIDE DEF q, r
<1>3. (v + q + 1) * c = v * c + c * q + c
  BY <1>1
<1>4. v * c \in Int /\ c * q \in Int
  BY <1>1
<1> DEFINE vc == v * c
           cq == c * q
<1>5. vc \in Int /\ cq \in Int /\ d <= vc /\ t = cq + r /\ (v + q + 1) * c = vc + cq + c
  BY <1>1, <1>3, <1>4
<1> HIDE DEF vc, cq
<1>6. k + d + 1 <= vc + cq + c
  BY <1>1, <1>2, <1>5
<1>7. QED
  BY <1>5, <1>6 DEF q, t

\* Multiples of a divisor of c.
LEMMA Multiple ==
    ASSUME NEW c \in Nat \ {0}, NEW a \in Int, a % c = 0
    PROVE  a \div c \in Int /\ a = c * (a \div c)
<1> DEFINE q == a \div c
<1>1. q \in Int /\ a = c * q + 0
  BY DivMod
<1> HIDE DEF q
<1>2. QED
  BY <1>1 DEF q

\* What the constants are.
LEMMA Constants ==
    /\ Timeslice \in Nat \ {0} /\ Period \in Nat \ {0} /\ MainClock \in Nat
    /\ Period % Timeslice = 0 /\ Timeslice <= Period
    /\ Counts \subseteq Nat /\ FullCount \in Counts /\ 0 \in Modes
    /\ None \notin Nat /\ Costs \subseteq 1 .. Timeslice
<1>1. Timeslice \in Nat \ {0} /\ Period \in Nat \ {0} /\ Period % Timeslice = 0
  BY TmuAssumption
<1>2. Timeslice <= Period
  <2> DEFINE q == Period \div Timeslice
  <2>1. q \in Int /\ Period = Timeslice * q
    BY <1>1, Multiple
  <2> HIDE DEF q
  <2>2. 1 <= q
    BY <1>1, <2>1
  <2>3. Timeslice * 1 <= Timeslice * q
    BY <1>1, <2>1, <2>2, MulMono
  <2>4. QED
    BY <1>1, <2>1, <2>3
<1>3. QED
  BY <1>1, <1>2, TmuAssumption

\* The prescaler of a channel divides the period of the clock.
LEMMA ScaleOK ==
    ASSUME NEW s \in Chan
    PROVE  Scale(s) \in Nat \ {0} /\ Period % Scale(s) = 0
  BY TmuAssumption DEF Chan, Scale

-----------------------------------------------------------------------------
(* One channel. *)

\* Counters are integers.
LEMMA ReadType ==
    ASSUME NEW s \in Chan, NEW t \in Nat
    PROVE  Counted(s, t) \in Int /\ read_TMU_TCNTch(s, t) \in Int
<1>1. t \div Scale(s) \in Int
  BY ScaleOK, DivMod
<1>2. Counted(s, t) \in Int
  BY <1>1 DEF Counted
<1>3. QED
  BY <1>2 DEF read_TMU_TCNTch, Chan

\* So are reload values.
LEMMA TcorType == ASSUME NEW s \in Chan PROVE s.tcor \in Int
<1>1. s.tcor \in Counts
  BY DEF Chan
<1>2. \A x \in Counts : x \in Int
  BY TmuAssumption
<1>3. QED
  BY <1>1, <1>2

\* A running counter is below zero from Underflows(s) on.
LEMMA UnderflowTime ==
    ASSUME NEW s \in Chan, s.on, NEW t \in Nat
    PROVE  read_TMU_TCNTch(s, t) >= 0 <=> t < Underflows(s)
<1>1. Scale(s) \in Nat \ {0} /\ s.base \in Int /\ t \div Scale(s) \in Int
  BY ScaleOK, DivMod DEF Chan
<1>2. (t \div Scale(s) <= s.base) <=> (t < Underflows(s))
  BY <1>1, DivBound DEF Underflows
<1>3. read_TMU_TCNTch(s, t) = s.base - (t \div Scale(s))
  BY DEF read_TMU_TCNTch, Counted
<1>4. QED
  BY <1>1, <1>2, <1>3

\* The delay is a number the scheduler takes, and no longer than the counter.
LEMMA DelayOK ==
    ASSUME NEW s \in Chan, NEW t \in Nat
    PROVE  /\ delay(s, t) \in 0 .. MainClock
           /\ delay(s, t) = 0 \/ delay(s, t) <= read_TMU_TCNTch(s, t) * Scale(s)
<1> DEFINE cycles == read_TMU_TCNTch(s, t) * Scale(s)
<1>1. cycles \in Int
  BY ReadType, ScaleOK
<1>2. delay(s, t) = IF cycles < 0 THEN 0 ELSE IF cycles > MainClock THEN MainClock ELSE cycles
  BY DEF delay
<1> HIDE DEF cycles
<1>3. delay(s, t) \in 0 .. MainClock /\ (delay(s, t) = 0 \/ delay(s, t) <= cycles)
  BY <1>1, <1>2, Constants
<1>4. QED
  BY <1>3 DEF cycles

\* A write of TCNT: the counter reads what was written, and the event fits it.
LEMMA WriteOK ==
    ASSUME NEW s \in Chan, NEW data \in Int, NEW k \in Nat, NEW o \in Nat, NEW skip \in Skips
    PROVE  LET r == write_TMU_TCNTch(s, data, k + o, skip) IN
           /\ r \in Chan
           /\ r.on = s.on /\ r.mode = s.mode /\ r.tcor = s.tcor
           /\ r.unf = s.unf /\ r.pend = s.pend
           /\ read_TMU_TCNTch(r, k + o) = data
           /\ ChanOK(r, k)
<1> DEFINE t == k + o
           u == [s EXCEPT !.base = data + Counted(s, t)]
           r == write_TMU_TCNTch(s, data, t, skip)
<1>1. t \in Nat /\ Counted(s, t) \in Int
  BY ReadType
<1>2. /\ u \in Chan /\ u.on = s.on /\ u.mode = s.mode /\ u.tcor = s.tcor
      /\ u.unf = s.unf /\ u.pend = s.pend /\ u.base = data + Counted(s, t)
  BY <1>1 DEF Chan
<1>3. r = [u EXCEPT !.due = IF u.on THEN delay(u, t) + skip ELSE None]
  BY DEF write_TMU_TCNTch, sched_chan_tick
<1>4. Scale(u) = Scale(s) /\ Counted(u, t) = Counted(s, t)
  BY <1>2 DEF Scale, Counted
<1> HIDE DEF u, r, t
<1>5. delay(u, t) \in 0 .. MainClock /\ skip \in {0, 1}
  BY <1>1, <1>2, DelayOK DEF Skips
<1>6. /\ r \in Chan
      /\ r.on = s.on /\ r.mode = s.mode /\ r.tcor = s.tcor
      /\ r.unf = s.unf /\ r.pend = s.pend /\ r.base = u.base
      /\ r.on => r.due = delay(u, t) + skip /\ r.due # None
  <2>1. delay(u, t) + skip \in 0 .. MainClock + 1
    BY <1>5, Constants
  <2>2. delay(u, t) + skip # None
    BY <2>1, Constants
  <2>3. QED
    BY <1>2, <1>3, <2>1, <2>2 DEF Chan
<1>7. Scale(r) = Scale(s) /\ Counted(r, t) = Counted(s, t)
  BY <1>6 DEF Scale, Counted
<1>8. read_TMU_TCNTch(r, t) = data /\ read_TMU_TCNTch(u, t) = data
  BY <1>1, <1>2, <1>4, <1>6, <1>7 DEF read_TMU_TCNTch
<1>9. ChanOK(r, k)
  <2> SUFFICES ASSUME r.on PROVE r.due # None /\ (r.due <= 1 \/ k + r.due <= Underflows(r))
    BY DEF ChanOK
  <2>1. r.due = delay(u, t) + skip /\ r.due # None
    BY <1>6
  <2>2. CASE delay(u, t) = 0
    BY <1>5, <2>1, <2>2
  <2>3. CASE delay(u, t) <= data * Scale(s)
    <3>1. Scale(s) \in Nat \ {0} /\ delay(u, t) \in Int
      BY <1>5, ScaleOK, Constants
    <3>2. k + delay(u, t) + 1 <= (data + ((k + o) \div Scale(s)) + 1) * Scale(s)
      BY <2>3, <3>1, DelayBound
    <3>3. Counted(s, t) = (k + o) \div Scale(s)
      BY <1>6 DEF Counted, t
    <3>4. Underflows(r) = (data + ((k + o) \div Scale(s)) + 1) * Scale(s)
      BY <1>2, <1>6, <1>7, <3>3 DEF Underflows
    <3> DEFINE U == (data + ((k + o) \div Scale(s)) + 1) * Scale(s)
    <3>5. U \in Int
      <4>1. (k + o) \div Scale(s) \in Int
        BY <3>1, DivMod
      <4>2. QED
        BY <3>1, <4>1
    <3> HIDE DEF U
    <3>6. k + delay(u, t) + 1 <= U /\ Underflows(r) = U
      BY <3>2, <3>4 DEF U
    <3>7. QED
      BY <1>5, <2>1, <3>1, <3>5, <3>6
  <2>4. QED
    BY <1>1, <1>2, <1>4, <1>8, <2>1, <2>2, <2>3, DelayOK
<1>10. QED
  BY <1>6, <1>8, <1>9 DEF r, t

\* A reload adds the period, but does not count it twice, and flags it.
LEMMA ReloadOK ==
    ASSUME NEW s \in Chan, NEW k \in Nat, NEW o \in Nat, NEW skip \in Skips
    PROVE  LET r == reloadCounter(s, k + o, skip)
               v == s.tcor + read_TMU_TCNTch(s, k + o)
           IN
           /\ r \in Chan
           /\ r.on = s.on /\ r.mode = s.mode /\ r.tcor = s.tcor
           /\ r.unf = TRUE /\ r.pend = TRUE
           /\ read_TMU_TCNTch(r, k + o) = IF v < 0 THEN 0 ELSE v
           /\ ChanOK(r, k)
<1> DEFINE v == s.tcor + read_TMU_TCNTch(s, k + o)
           w == IF v < 0 THEN 0 ELSE v
           u == [s EXCEPT !.unf = TRUE, !.pend = TRUE]
<1>1. k + o \in Nat
  OBVIOUS
<1>2. w \in Int
  <2>1. s.tcor \in Int
    BY TcorType
  <2>2. QED
    BY <1>1, <2>1, ReadType
<1>3. /\ u \in Chan /\ u.on = s.on /\ u.mode = s.mode /\ u.tcor = s.tcor
      /\ u.unf = TRUE /\ u.pend = TRUE
  BY DEF Chan
<1>4. reloadCounter(s, k + o, skip) = write_TMU_TCNTch(u, w, k + o, skip)
  BY DEF reloadCounter
<1> HIDE DEF u, w
<1> DEFINE r == write_TMU_TCNTch(u, w, k + o, skip)
<1>5. /\ r \in Chan
      /\ r.on = u.on /\ r.mode = u.mode /\ r.tcor = u.tcor
      /\ r.unf = u.unf /\ r.pend = u.pend
      /\ read_TMU_TCNTch(r, k + o) = w
      /\ ChanOK(r, k)
  BY <1>2, <1>3, WriteOK
<1> HIDE DEF r
<1>6. QED
  BY <1>3, <1>4, <1>5 DEF r, w

\* Starting and stopping keep the counter.
LEMMA TurnOK ==
    ASSUME NEW s \in Chan, NEW b \in BOOLEAN, NEW k \in Nat, NEW o \in Nat, NEW skip \in Skips
    PROVE  LET r == turn_on_off_ch(s, b, k + o, skip) IN
           /\ r \in Chan
           /\ r.on = b /\ r.mode = s.mode /\ r.tcor = s.tcor
           /\ r.unf = s.unf /\ r.pend = s.pend
           /\ read_TMU_TCNTch(r, k + o) = read_TMU_TCNTch(s, k + o)
           /\ ChanOK(r, k)
<1> DEFINE v == read_TMU_TCNTch(s, k + o)
           u == [s EXCEPT !.on = b]
<1>1. v \in Int
  BY ReadType
<1>2. /\ u \in Chan /\ u.on = b /\ u.mode = s.mode /\ u.tcor = s.tcor
      /\ u.unf = s.unf /\ u.pend = s.pend
  BY DEF Chan
<1>3. turn_on_off_ch(s, b, k + o, skip) = write_TMU_TCNTch(u, v, k + o, skip)
  BY DEF turn_on_off_ch
<1> HIDE DEF u, v
<1> DEFINE r == write_TMU_TCNTch(u, v, k + o, skip)
<1>4. /\ r \in Chan
      /\ r.on = u.on /\ r.mode = u.mode /\ r.tcor = u.tcor
      /\ r.unf = u.unf /\ r.pend = u.pend
      /\ read_TMU_TCNTch(r, k + o) = v
      /\ ChanOK(r, k)
  BY <1>1, <1>2, WriteOK
<1> HIDE DEF r
<1>5. QED
  BY <1>2, <1>3, <1>4 DEF r, v

\* A write of TCR changes prescaler and flag, not the counter.
LEMMA ControlOK ==
    ASSUME NEW s \in Chan, NEW m \in Modes, NEW f \in BOOLEAN,
           NEW k \in Nat, NEW o \in Nat, NEW skip \in Skips, ChanOK(s, k)
    PROVE  LET r == UpdateTMUCounts(s, m, f, k + o, skip) IN
           /\ r \in Chan
           /\ r.on = s.on /\ r.mode = m /\ r.tcor = s.tcor
           /\ r.unf = f /\ r.pend = f
           /\ read_TMU_TCNTch(r, k + o) = read_TMU_TCNTch(s, k + o)
           /\ ChanOK(r, k)
<1> DEFINE v == read_TMU_TCNTch(s, k + o)
           w == [s EXCEPT !.unf = f, !.pend = f]
           u == [w EXCEPT !.mode = m]
<1>1. v \in Int
  BY ReadType
<1>2. /\ w \in Chan /\ w.on = s.on /\ w.mode = s.mode /\ w.tcor = s.tcor
      /\ w.unf = f /\ w.pend = f /\ w.base = s.base /\ w.due = s.due
  BY DEF Chan
<1>3. /\ u \in Chan /\ u.on = s.on /\ u.mode = m /\ u.tcor = s.tcor
      /\ u.unf = f /\ u.pend = f
  BY DEF Chan
<1>4. CASE m = s.mode
  <2>1. UpdateTMUCounts(s, m, f, k + o, skip) = w
    BY <1>4 DEF UpdateTMUCounts
  <2> HIDE DEF w, u
  <2>2. Scale(w) = Scale(s)
    BY <1>2 DEF Scale
  <2>3. read_TMU_TCNTch(w, k + o) = v
    BY <1>2, <2>2 DEF read_TMU_TCNTch, Counted
  <2>4. ChanOK(w, k)
    BY <1>2, <2>2 DEF ChanOK, Underflows
  <2>5. QED
    BY <1>2, <1>4, <2>1, <2>3, <2>4
<1>5. CASE m # s.mode
  <2> DEFINE r == write_TMU_TCNTch(u, v, k + o, skip)
  <2>1. UpdateTMUCounts(s, m, f, k + o, skip) = r
    BY <1>5 DEF UpdateTMUCounts
  <2> HIDE DEF w, u, v
  <2>2. /\ r \in Chan
        /\ r.on = u.on /\ r.mode = u.mode /\ r.tcor = u.tcor
        /\ r.unf = u.unf /\ r.pend = u.pend
        /\ read_TMU_TCNTch(r, k + o) = v
        /\ ChanOK(r, k)
    BY <1>1, <1>3, WriteOK
  <2> HIDE DEF r
  <2>3. QED
    BY <1>3, <2>1, <2>2 DEF v
<1>6. QED
  BY <1>4, <1>5
\* The callback: a counter below zero is reloaded, any other asks for another
\* event; the counter is not below zero then.
LEMMA CallbackOK ==
    ASSUME NEW s \in Chan, NEW k \in Nat, NEW o \in Nat, NEW skip \in Skips
    PROVE  LET r == sched_tmu_cb(s, k + o, skip)
               v == read_TMU_TCNTch(s, k + o)
           IN
           /\ r \in Chan
           /\ r.on = s.on /\ r.mode = s.mode /\ r.tcor = s.tcor
           /\ IF s.on /\ v < 0
              THEN /\ r.unf = TRUE /\ r.pend = TRUE
                   /\ read_TMU_TCNTch(r, k + o) = IF s.tcor + v < 0 THEN 0 ELSE s.tcor + v
              ELSE /\ r.unf = s.unf /\ r.pend = s.pend
                   /\ read_TMU_TCNTch(r, k + o) = v
           /\ ChanOK(r, k)
           /\ r.on => read_TMU_TCNTch(r, k + o) >= 0
<1> DEFINE u == [s EXCEPT !.due = None]
           v == read_TMU_TCNTch(s, k + o)
<1>1. /\ u \in Chan /\ u.on = s.on /\ u.mode = s.mode /\ u.tcor = s.tcor
      /\ u.unf = s.unf /\ u.pend = s.pend /\ u.base = s.base
  BY DEF Chan
<1>2. sched_tmu_cb(s, k + o, skip) =
         IF ~u.on THEN u
         ELSE IF read_TMU_TCNTch(u, k + o) < 0 THEN reloadCounter(u, k + o, skip)
         ELSE write_TMU_TCNTch(u, read_TMU_TCNTch(u, k + o), k + o, skip)
  BY DEF sched_tmu_cb
<1> HIDE DEF u
<1>3. Scale(u) = Scale(s)
  BY <1>1 DEF Scale
<1>4. read_TMU_TCNTch(u, k + o) = v
  BY <1>1, <1>3 DEF read_TMU_TCNTch, Counted
<1>5. v \in Int /\ s.tcor \in Int
  <2>1. v \in Int
    BY ReadType
  <2>2. QED
    BY <2>1, TcorType
<1> HIDE DEF v
<1>6. CASE ~ s.on
  <2>1. ChanOK(u, k)
    BY <1>1, <1>6 DEF ChanOK
  <2>2. QED
    BY <1>1, <1>2, <1>4, <1>6, <2>1 DEF v
<1>7. CASE s.on /\ v < 0
  <2> DEFINE r == reloadCounter(u, k + o, skip)
             w == u.tcor + read_TMU_TCNTch(u, k + o)
  <2>1. sched_tmu_cb(s, k + o, skip) = r
    BY <1>1, <1>2, <1>4, <1>7
  <2>2. /\ r \in Chan
        /\ r.on = u.on /\ r.mode = u.mode /\ r.tcor = u.tcor
        /\ r.unf = TRUE /\ r.pend = TRUE
        /\ read_TMU_TCNTch(r, k + o) = IF w < 0 THEN 0 ELSE w
        /\ ChanOK(r, k)
    BY <1>1, ReloadOK
  <2>3. w = s.tcor + v
    BY <1>1, <1>4
  <2> HIDE DEF r, w
  <2>4. read_TMU_TCNTch(r, k + o) >= 0
    BY <1>5, <2>2, <2>3
  <2>5. QED
    BY <1>1, <1>7, <2>1, <2>2, <2>3, <2>4 DEF v
<1>8. CASE s.on /\ ~ (v < 0)
  <2> DEFINE r == write_TMU_TCNTch(u, v, k + o, skip)
  <2>1. sched_tmu_cb(s, k + o, skip) = r
    BY <1>1, <1>2, <1>4, <1>8
  <2>2. /\ r \in Chan
        /\ r.on = u.on /\ r.mode = u.mode /\ r.tcor = u.tcor
        /\ r.unf = u.unf /\ r.pend = u.pend
        /\ read_TMU_TCNTch(r, k + o) = v
        /\ ChanOK(r, k)
    BY <1>1, <1>5, WriteOK
  <2> HIDE DEF r
  <2>3. v >= 0
    BY <1>5, <1>8
  <2>4. QED
    BY <1>1, <1>8, <2>1, <2>2, <2>3 DEF v
<1>9. QED
  BY <1>6, <1>7, <1>8

\* A counter that was not below zero at a moment was not below zero before.
LEMMA ReadEarlier ==
    ASSUME NEW s \in Chan, NEW k \in Nat, NEW o \in Nat, s.on,
           read_TMU_TCNTch(s, k + o) >= 0
    PROVE  read_TMU_TCNTch(s, k) >= 0
<1>1. k + o \in Nat /\ k <= k + o
  OBVIOUS
<1>2. k + o < Underflows(s)
  BY <1>1, UnderflowTime
<1>3. Underflows(s) \in Int
  BY ScaleOK DEF Underflows, Chan
<1>4. k < Underflows(s)
  BY <1>1, <1>2, <1>3
<1>5. QED
  BY <1>4, UnderflowTime

\* Turning the clock back by a period changes no counter and no distance.
LEMMA TurnBackOK ==
    ASSUME NEW s \in Chan, s.on, NEW t \in Nat, t - Period \in Nat,
           NEW k \in Int
    PROVE  LET r == [s EXCEPT !.base = @ - Period \div Scale(s)] IN
           /\ r \in Chan
           /\ r.on = s.on /\ r.mode = s.mode /\ r.tcor = s.tcor
           /\ r.unf = s.unf /\ r.pend = s.pend /\ r.due = s.due
           /\ read_TMU_TCNTch(r, t - Period) = read_TMU_TCNTch(s, t)
           /\ ChanOK(s, k) => ChanOK(r, k - Period)
<1> DEFINE c == Scale(s)
           p == Period \div c
           r == [s EXCEPT !.base = @ - p]
<1>1. c \in Nat \ {0} /\ Period % c = 0 /\ Period \in Nat
  BY ScaleOK, Constants
<1>2. p \in Int /\ Period = c * p
  BY <1>1, Multiple
<1>3. /\ r \in Chan /\ r.on = s.on /\ r.mode = s.mode /\ r.tcor = s.tcor
      /\ r.unf = s.unf /\ r.pend = s.pend /\ r.due = s.due /\ r.base = s.base - p
  <2> HIDE DEF p
  <2>1. s.base - p \in Int
    BY <1>2 DEF Chan
  <2>2. QED
    BY <2>1 DEF Chan
<1> HIDE DEF p, r
<1>4. Scale(r) = c
  BY <1>3 DEF Scale
<1>5. s.base \in Int
  BY DEF Chan
<1> HIDE DEF c
<1>6. (t - Period) \div c = (t \div c) - p
  <2>1. -p \in Int /\ t + c * (-p) = t - Period /\ (t \div c) \in Int
    BY <1>1, <1>2, DivMod
  <2>2. (t + c * (-p)) \div c = (t \div c) + (-p)
    BY <1>1, <2>1, DivShift
  <2>3. QED
    BY <1>2, <2>1, <2>2
<1>7. read_TMU_TCNTch(r, t - Period) = read_TMU_TCNTch(s, t)
  <2>1. t \div c \in Int
    BY <1>1, DivMod
  <2>2. QED
    BY <1>2, <1>3, <1>4, <1>5, <1>6, <2>1 DEF read_TMU_TCNTch, Counted, c
<1>8. Underflows(r) = Underflows(s) - Period /\ Underflows(s) \in Int
  <2>1. Underflows(s) = (s.base + 1) * c /\ Underflows(r) = (s.base - p + 1) * c
    BY <1>3, <1>4 DEF Underflows, c
  <2>2. (s.base - p + 1) * c = (s.base + 1) * c - c * p
    BY <1>1, <1>2, <1>5
  <2>3. QED
    BY <1>1, <1>2, <1>5, <2>1, <2>2
<1>9. ASSUME ChanOK(s, k) PROVE ChanOK(r, k - Period)
  <2>1. s.due # None /\ (s.due <= 1 \/ k + s.due <= Underflows(s)) /\ s.due \in Int
    BY <1>9, Constants DEF ChanOK, Chan
  <2>2. QED
    BY <1>1, <1>3, <1>8, <2>1 DEF ChanOK
<1>10. QED
  BY <1>3, <1>7, <1>9 DEF r, p, c
-----------------------------------------------------------------------------
(* The end of a slice. *)

\* The clock is a multiple of the slice, and so meets the period exactly.
LEMMA ClockStep ==
    ASSUME TypeOK, clk % Timeslice = 0
    PROVE  LET k == (clk + Timeslice) % Period IN
           /\ k = IF clk + Timeslice = Period THEN 0 ELSE clk + Timeslice
           /\ k \in 0 .. Period - 1 /\ k % Timeslice = 0
           /\ clk + Timeslice <= Period
<1> DEFINE a == clk \div Timeslice
           b == Period \div Timeslice
<1>1. /\ Timeslice \in Nat \ {0} /\ Period \in Nat \ {0} /\ Period % Timeslice = 0
      /\ clk \in Nat /\ clk < Period
  BY Constants DEF TypeOK
<1>2. a \in Int /\ b \in Int /\ clk = Timeslice * a /\ Period = Timeslice * b
  BY <1>1, Multiple
<1> HIDE DEF a, b
<1>3. a < b
  <2> SUFFICES ASSUME b <= a PROVE FALSE
    BY <1>2
  <2>1. Timeslice * b <= Timeslice * a
    BY <1>1, <1>2, MulMono
  <2>2. QED
    BY <1>1, <1>2, <2>1
<1>4. clk + Timeslice <= Period
  <2>1. Timeslice * (a + 1) <= Timeslice * b
    BY <1>1, <1>2, <1>3, MulMono
  <2>2. Timeslice * (a + 1) = clk + Timeslice
    BY <1>1, <1>2
  <2>3. QED
    BY <1>1, <1>2, <2>1, <2>2
<1>5. CASE clk + Timeslice = Period
  <2>1. Period % Period = 0 /\ 0 % Timeslice = 0
    BY <1>1
  <2>2. QED
    BY <1>1, <1>4, <1>5, <2>1
<1>6. CASE clk + Timeslice # Period
  <2> DEFINE k == clk + Timeslice
  <2>1. k \in 0 .. Period - 1
    BY <1>1, <1>4, <1>6
  <2>2. k % Timeslice = 0
    <3>1. k = Timeslice * (a + 1) + 0 /\ a + 1 \in Int /\ 0 \in 0 .. Timeslice - 1
      BY <1>1, <1>2
    <3>2. QED
      BY <1>1, <3>1, DivModUnique
  <2>3. k % Period = k
    <3>1. k = Period * 0 + k
      BY <1>1
    <3> HIDE DEF k
    <3>2. (Period * 0 + k) % Period = k
      BY <1>1, <2>1, DivModUnique
    <3>3. QED
      BY <3>1, <3>2
  <2>4. QED
    BY <1>4, <1>6, <2>1, <2>2, <2>3
<1>7. QED
  BY <1>5, <1>6

\* The channels that UpdateSystem_INTC reloads.
Fires(s) ==
    s.due # None /\ s.due <= Timeslice /\ s.on /\ read_TMU_TCNTch(s, now) < 0

\* The scheduler's part: what was due is called, and the counter is not below
\* zero at the end of the slice.
LEMMA SlicedOK ==
    ASSUME TypeOK, off >= Timeslice, NEW s \in Chan, ChanOK(s, clk), NEW skip \in Skips
    PROVE  LET q == Sliced(s, skip)
               v == read_TMU_TCNTch(s, now)
           IN
           /\ q \in Chan
           /\ q.on = s.on /\ q.mode = s.mode /\ q.tcor = s.tcor
           /\ IF Fires(s)
              THEN /\ q.unf = TRUE /\ q.pend = TRUE
                   /\ read_TMU_TCNTch(q, now) = IF s.tcor + v < 0 THEN 0 ELSE s.tcor + v
              ELSE /\ q.unf = s.unf /\ q.pend = s.pend
                   /\ read_TMU_TCNTch(q, now) = v
           /\ ChanOK(q, clk + Timeslice)
           /\ q.on => read_TMU_TCNTch(q, clk + Timeslice) >= 0
<1> DEFINE k == clk + Timeslice
           o == off - Timeslice
<1>1. k \in Nat /\ o \in Nat /\ now = k + o /\ clk \in Nat /\ Timeslice \in Nat \ {0}
  BY Constants DEF TypeOK, now
<1>2. CASE s.due = None
  <2>1. Sliced(s, skip) = s /\ ~ s.on
    BY <1>2 DEF Sliced, ChanOK
  <2>2. QED
    BY <1>2, <2>1 DEF Fires, ChanOK
<1>3. CASE s.due # None /\ s.due <= Timeslice
  <2> DEFINE q == sched_tmu_cb(s, k + o, skip)
             v == read_TMU_TCNTch(s, k + o)
  <2>1. Sliced(s, skip) = q
    BY <1>1, <1>3 DEF Sliced
  <2> HIDE DEF k, o
  <2>2. /\ q \in Chan
        /\ q.on = s.on /\ q.mode = s.mode /\ q.tcor = s.tcor
        /\ IF s.on /\ v < 0
           THEN /\ q.unf = TRUE /\ q.pend = TRUE
                /\ read_TMU_TCNTch(q, k + o) = IF s.tcor + v < 0 THEN 0 ELSE s.tcor + v
           ELSE /\ q.unf = s.unf /\ q.pend = s.pend
                /\ read_TMU_TCNTch(q, k + o) = v
        /\ ChanOK(q, k)
        /\ q.on => read_TMU_TCNTch(q, k + o) >= 0
    BY <1>1, CallbackOK
  <2>3. Fires(s) <=> s.on /\ v < 0
    BY <1>1, <1>3 DEF Fires
  <2> HIDE DEF q
  <2>4. q.on => read_TMU_TCNTch(q, k) >= 0
    BY <1>1, <2>2, ReadEarlier
  <2>5. QED
    BY <1>1, <2>1, <2>2, <2>3, <2>4 DEF k
<1>4. CASE s.due # None /\ ~ (s.due <= Timeslice)
  <2> DEFINE q == [s EXCEPT !.due = @ - Timeslice]
  <2>1. Sliced(s, skip) = q
    BY <1>4 DEF Sliced
  <2>2. s.due \in 0 .. MainClock + 1 /\ s.due > Timeslice
    BY <1>1, <1>4, Constants DEF Chan
  <2>3. s.due - Timeslice \in 0 .. MainClock + 1 /\ s.due - Timeslice # None
    BY <1>1, <2>2, Constants
  <2>4. /\ q \in Chan /\ q.on = s.on /\ q.mode = s.mode /\ q.tcor = s.tcor
        /\ q.unf = s.unf /\ q.pend = s.pend /\ q.base = s.base
        /\ q.due = s.due - Timeslice
    BY <2>3 DEF Chan
  <2> HIDE DEF q
  <2>5. Scale(q) = Scale(s)
    BY <2>4 DEF Scale
  <2>6. Underflows(q) = Underflows(s) /\ Underflows(s) \in Int
    BY <2>4, <2>5, ScaleOK DEF Underflows, Chan
  <2>7. read_TMU_TCNTch(q, now) = read_TMU_TCNTch(s, now) /\ ~ Fires(s)
    BY <1>4, <2>4, <2>5 DEF read_TMU_TCNTch, Counted, Fires
  <2>8. s.on => clk + s.due <= Underflows(s)
    BY <1>1, <2>2, Constants DEF ChanOK
  <2>9. ChanOK(q, k)
    BY <1>1, <2>2, <2>3, <2>4, <2>6, <2>8 DEF ChanOK
  <2>10. q.on => read_TMU_TCNTch(q, k) >= 0
    <3> SUFFICES ASSUME q.on PROVE read_TMU_TCNTch(q, k) >= 0
      OBVIOUS
    <3>1. k < Underflows(q)
      BY <1>1, <2>2, <2>4, <2>6, <2>8
    <3> HIDE DEF k
    <3>2. QED
      BY <1>1, <2>4, <3>1, UnderflowTime
  <2>11. QED
    BY <2>1, <2>4, <2>7, <2>9, <2>10
<1>5. QED
  BY <1>2, <1>3, <1>4

\* The whole step of a channel, with the clock turned back when it is time.
LEMMA SliceOK ==
    ASSUME IInv, off >= Timeslice, NEW s \in Chan, ChanOK(s, clk), NEW skip \in Skips,
           NEW k, k = (clk + Timeslice) % Period
    PROVE  LET r == Rebased(Sliced(s, skip))
               v == read_TMU_TCNTch(s, now)
           IN
           /\ r \in Chan
           /\ r.on = s.on /\ r.mode = s.mode /\ r.tcor = s.tcor
           /\ IF Fires(s)
              THEN /\ r.unf = TRUE /\ r.pend = TRUE
                   /\ read_TMU_TCNTch(r, k + (off - Timeslice)) =
                         IF s.tcor + v < 0 THEN 0 ELSE s.tcor + v
              ELSE /\ r.unf = s.unf /\ r.pend = s.pend
                   /\ read_TMU_TCNTch(r, k + (off - Timeslice)) = v
           /\ ChanOK(r, k)
           /\ r.on => read_TMU_TCNTch(r, k) >= 0
<1> DEFINE q == Sliced(s, skip)
           v == read_TMU_TCNTch(s, now)
           e == clk + Timeslice
<1>1. /\ q \in Chan
      /\ q.on = s.on /\ q.mode = s.mode /\ q.tcor = s.tcor
      /\ IF Fires(s)
         THEN /\ q.unf = TRUE /\ q.pend = TRUE
              /\ read_TMU_TCNTch(q, now) = IF s.tcor + v < 0 THEN 0 ELSE s.tcor + v
         ELSE /\ q.unf = s.unf /\ q.pend = s.pend
              /\ read_TMU_TCNTch(q, now) = v
      /\ ChanOK(q, e)
      /\ q.on => read_TMU_TCNTch(q, e) >= 0
  BY SlicedOK DEF IInv
<1>2. /\ k = IF e = Period THEN 0 ELSE e
      /\ e \in Nat /\ Period \in Nat \ {0} /\ off \in Nat /\ Timeslice \in Nat
      /\ now \in Nat /\ now = e + (off - Timeslice)
  <2>1. k = IF e = Period THEN 0 ELSE e
    BY ClockStep DEF IInv
  <2>2. QED
    BY <2>1, Constants DEF IInv, TypeOK, now
<1> HIDE DEF q, v
<1>3. Rebased(q) = IF q.on /\ e = Period THEN [q EXCEPT !.base = @ - Period \div Scale(q)] ELSE q
  BY DEF Rebased
<1> HIDE DEF e
<1>4. CASE e # Period
  <2>1. Rebased(q) = q /\ k = e /\ k + (off - Timeslice) = now
    BY <1>2, <1>3, <1>4
  <2>2. QED
    BY <1>1, <2>1 DEF q, v
<1>5. CASE e = Period /\ ~ q.on
  <2>1. Rebased(q) = q
    BY <1>3, <1>5
  <2>2. \A t1, t2 \in Nat : read_TMU_TCNTch(q, t1) = read_TMU_TCNTch(q, t2)
    BY <1>5 DEF read_TMU_TCNTch, Counted
  <2>3. k + (off - Timeslice) \in Nat
    BY <1>2, <1>5
  <2>4. read_TMU_TCNTch(q, k + (off - Timeslice)) = read_TMU_TCNTch(q, now)
    BY <1>2, <2>2, <2>3
  <2>5. ChanOK(q, k)
    BY <1>5 DEF ChanOK
  <2>6. QED
    BY <1>1, <1>5, <2>1, <2>4, <2>5 DEF q, v
<1>6. CASE e = Period /\ q.on
  <2> DEFINE r == [q EXCEPT !.base = @ - Period \div Scale(q)]
  <2>1. Rebased(q) = r
    BY <1>3, <1>6
  <2>2. /\ k = 0 /\ e - Period = 0 /\ e - Period \in Nat
        /\ now - Period = k + (off - Timeslice) /\ now - Period \in Nat
    BY <1>2, <1>6
  <2>3. q \in Chan /\ q.on /\ now \in Nat /\ now - Period \in Nat /\ e \in Int /\ e \in Nat
    BY <1>1, <1>2, <1>6, <2>2
  <2>4. /\ r \in Chan
        /\ r.on = q.on /\ r.mode = q.mode /\ r.tcor = q.tcor
        /\ r.unf = q.unf /\ r.pend = q.pend
        /\ read_TMU_TCNTch(r, now - Period) = read_TMU_TCNTch(q, now)
        /\ ChanOK(q, e) => ChanOK(r, e - Period)
    <3>1. \A t \in Nat, x \in Int : t - Period \in Nat =>
            /\ r \in Chan
            /\ r.on = q.on /\ r.mode = q.mode /\ r.tcor = q.tcor
            /\ r.unf = q.unf /\ r.pend = q.pend
            /\ read_TMU_TCNTch(r, t - Period) = read_TMU_TCNTch(q, t)
            /\ ChanOK(q, x) => ChanOK(r, x - Period)
      BY <2>3, TurnBackOK, Zenon
    <3> HIDE DEF r
    <3>2. QED
      BY <2>3, <3>1
  <2>5. read_TMU_TCNTch(r, e - Period) = read_TMU_TCNTch(q, e)
    BY <1>1, <1>2, <1>6, <2>2, TurnBackOK
  <2> HIDE DEF r
  <2>6. QED
    BY <1>1, <1>6, <2>1, <2>2, <2>4, <2>5 DEF q, v
<1>7. QED
  BY <1>4, <1>5, <1>6
-----------------------------------------------------------------------------
(* The invariant. *)

\* The channels, and the time that is read.
LEMMA State ==
    ASSUME IInv
    PROVE  /\ clk \in Nat /\ off \in Nat /\ now = clk + off /\ now \in Nat
           /\ ch \in [Channels -> Chan]
           /\ \A c \in Channels : ch[c] \in Chan /\ ChanOK(ch[c], clk) /\ ch[c].pend = ch[c].unf
<1>1. clk \in Nat /\ off \in Nat
  BY Constants DEF IInv, TypeOK
<1>2. ch \in [Channels -> Chan]
  BY DEF IInv, TypeOK, Chan
<1>3. QED
  BY <1>1, <1>2 DEF IInv, now

\* A reset channel.
LEMMA StoppedOK ==
    /\ Stopped \in Chan /\ Stopped.pend = Stopped.unf
    /\ \A k : ChanOK(Stopped, k)
    /\ \A t : read_TMU_TCNTch(Stopped, t) = FullCount
<1>1. FullCount \in Counts /\ FullCount \in Int /\ 0 \in Modes
  BY Constants
<1>2. Stopped \in Chan
  BY <1>1 DEF Stopped, Chan
<1>3. QED
  BY <1>1, <1>2 DEF Stopped, ChanOK, read_TMU_TCNTch, Counted

\* A step that changes one channel.
LEMMA OneChannel ==
    ASSUME IInv, NEW c \in Channels, NEW r \in Chan, ChanOK(r, clk), r.pend = r.unf,
           ch' = [ch EXCEPT ![c] = r], UNCHANGED <<clk, off>>
    PROVE  IInv'
<1>1. clk' \in 0 .. Period - 1 /\ off' \in 0 .. 2 * Timeslice /\ clk' % Timeslice = 0
  BY DEF IInv, TypeOK
<1>2. ch' \in [Channels -> Chan]
  BY State
<1>3. \A d \in Channels : ChanOK(ch'[d], clk') /\ ch'[d].pend = ch'[d].unf
  BY State
<1>4. QED
  BY <1>1, <1>2, <1>3 DEF IInv, TypeOK, Chan

\* The initial state.
LEMMA InitOK == Init => IInv
<1> SUFFICES ASSUME Init PROVE IInv
  OBVIOUS
<1>1. clk \in 0 .. Period - 1 /\ off \in 0 .. 2 * Timeslice /\ clk % Timeslice = 0
  BY Constants DEF Init
<1>2. ch \in [Channels -> Chan]
  BY StoppedOK DEF Init
<1>3. \A c \in Channels : ChanOK(ch[c], clk) /\ ch[c].pend = ch[c].unf
  BY StoppedOK DEF Init
<1>4. QED
  BY <1>1, <1>2, <1>3 DEF IInv, TypeOK, Chan

\* An instruction or a block.
LEMMA RunOK == IInv /\ Run => IInv'
<1> SUFFICES ASSUME IInv, Run PROVE IInv'
  OBVIOUS
<1>1. clk' \in 0 .. Period - 1 /\ clk' % Timeslice = 0
  BY DEF IInv, TypeOK, Run
<1>2. off' \in 0 .. 2 * Timeslice
  <2>1. PICK k \in Costs : off < Timeslice /\ off' = off + k
    BY DEF Run
  <2>2. QED
    BY <2>1, State, Constants
<1>3. /\ ch' \in [Channels -> Chan]
      /\ \A c \in Channels : ChanOK(ch'[c], clk') /\ ch'[c].pend = ch'[c].unf
  BY State DEF Run
<1>4. QED
  BY <1>1, <1>2, <1>3 DEF IInv, TypeOK, Chan

\* The end of a slice.
LEMMA UpdateSystemOK == IInv /\ UpdateSystem_INTC => IInv'
<1> SUFFICES ASSUME IInv, UpdateSystem_INTC PROVE IInv'
  OBVIOUS
<1>1. PICK skip \in [Channels -> Skips] :
        ch' = [c \in Channels |-> Rebased(Sliced(ch[c], skip[c]))]
  BY DEF UpdateSystem_INTC
<1>2. clk' = (clk + Timeslice) % Period /\ off' = off - Timeslice /\ off >= Timeslice
  BY DEF UpdateSystem_INTC
<1>3. clk' \in 0 .. Period - 1 /\ clk' % Timeslice = 0
  BY <1>2, ClockStep DEF IInv
<1>4. off' \in 0 .. 2 * Timeslice
  BY <1>2, Constants DEF IInv, TypeOK
<1>5. \A c \in Channels : /\ ch'[c] \in Chan /\ ChanOK(ch'[c], clk')
                          /\ ch'[c].pend = ch'[c].unf
  <2> TAKE c \in Channels
  <2> DEFINE s == ch[c]
             r == Rebased(Sliced(s, skip[c]))
  <2>1. s \in Chan /\ ChanOK(s, clk) /\ s.pend = s.unf /\ skip[c] \in Skips
    BY State
  <2>2. ch'[c] = r
    BY <1>1
  <2> HIDE DEF s
  <2>3. /\ r \in Chan /\ ChanOK(r, clk')
        /\ (r.unf = TRUE /\ r.pend = TRUE) \/ (r.unf = s.unf /\ r.pend = s.pend)
    BY <1>2, <2>1, SliceOK
  <2> HIDE DEF r
  <2>4. QED
    BY <2>1, <2>2, <2>3
<1>6. ch' \in [Channels -> Chan]
  BY <1>1, <1>5
<1>7. QED
  BY <1>3, <1>4, <1>5, <1>6 DEF IInv, TypeOK, Chan

\* Reads and writes of the registers of a channel.
LEMMA RegistersOK ==
    ASSUME NEW c \in Channels
    PROVE  IInv /\ (\/ read_TMU_TCNT(c) \/ write_TMU_TCNT(c) \/ write_TMU_TCOR(c)
                    \/ TMU_TCR_write(c)) => IInv'
<1> SUFFICES ASSUME IInv,
                    read_TMU_TCNT(c) \/ write_TMU_TCNT(c) \/ write_TMU_TCOR(c) \/ TMU_TCR_write(c)
             PROVE  IInv'
  OBVIOUS
<1> DEFINE s == ch[c]
<1>1. /\ clk \in Nat /\ off \in Nat /\ now = clk + off
      /\ s \in Chan /\ ChanOK(s, clk) /\ s.pend = s.unf
  BY State
<1>2. CASE read_TMU_TCNT(c)
  <2>1. PICK skip \in Skips :
          ch' = [ch EXCEPT ![c] = reloadCounter(s, now, skip)] /\ UNCHANGED <<clk, off>>
    BY <1>2 DEF read_TMU_TCNT
  <2> DEFINE r == reloadCounter(s, now, skip)
  <2> HIDE DEF s
  <2>2. r \in Chan /\ ChanOK(r, clk) /\ r.unf = TRUE /\ r.pend = TRUE
    BY <1>1, ReloadOK
  <2>3. ch' = [ch EXCEPT ![c] = r]
    BY <2>1
  <2> HIDE DEF r
  <2>4. QED
    BY <2>1, <2>2, <2>3, OneChannel
<1>3. CASE write_TMU_TCNT(c)
  <2>1. PICK v \in Counts, skip \in Skips :
          ch' = [ch EXCEPT ![c] = write_TMU_TCNTch(s, v, now, skip)] /\ UNCHANGED <<clk, off>>
    BY <1>3 DEF write_TMU_TCNT
  <2> DEFINE r == write_TMU_TCNTch(s, v, clk + off, skip)
  <2>2. ch' = [ch EXCEPT ![c] = r]
    BY <1>1, <2>1
  <2> HIDE DEF s
  <2>3. v \in Int
    BY Constants
  <2>4. r \in Chan /\ ChanOK(r, clk) /\ r.unf = s.unf /\ r.pend = s.pend
    BY <1>1, <2>3, WriteOK
  <2> HIDE DEF r
  <2>5. QED
    BY <1>1, <2>1, <2>2, <2>4, OneChannel
<1>4. CASE write_TMU_TCOR(c)
  <2>1. PICK v \in Counts :
          ch' = [ch EXCEPT ![c] = [s EXCEPT !.tcor = v]] /\ UNCHANGED <<clk, off>>
    BY <1>1, <1>4, State DEF write_TMU_TCOR
  <2> DEFINE r == [s EXCEPT !.tcor = v]
  <2> HIDE DEF s
  <2>2. /\ r \in Chan /\ r.unf = s.unf /\ r.pend = s.pend
        /\ r.on = s.on /\ r.due = s.due /\ r.base = s.base /\ r.mode = s.mode
    BY <1>1 DEF Chan
  <2>3. ch' = [ch EXCEPT ![c] = r]
    BY <2>1
  <2> HIDE DEF r
  <2>4. ChanOK(r, clk)
    BY <1>1, <2>2 DEF ChanOK, Underflows, Scale
  <2>5. QED
    BY <1>1, <2>1, <2>2, <2>3, <2>4, OneChannel
<1>5. CASE TMU_TCR_write(c)
  <2>1. PICK m \in Modes, f \in BOOLEAN, skip \in Skips :
          /\ ch' = [ch EXCEPT ![c] = UpdateTMUCounts(s, m, f, now, skip)]
          /\ UNCHANGED <<clk, off>>
    BY <1>5 DEF TMU_TCR_write
  <2> DEFINE r == UpdateTMUCounts(s, m, f, now, skip)
  <2> HIDE DEF s
  <2>2. r \in Chan /\ ChanOK(r, clk) /\ r.unf = f /\ r.pend = f
    BY <1>1, ControlOK
  <2>3. ch' = [ch EXCEPT ![c] = r]
    BY <2>1
  <2> HIDE DEF r
  <2>4. QED
    BY <2>1, <2>2, <2>3, OneChannel
<1>6. QED
  BY <1>2, <1>3, <1>4, <1>5

\* Channels are started and stopped.
LEMMA StartStopOK == IInv /\ write_TMU_TSTR => IInv'
<1> SUFFICES ASSUME IInv, write_TMU_TSTR PROVE IInv'
  OBVIOUS
<1>1. PICK on \in [Channels -> BOOLEAN], skip \in [Channels -> Skips] :
        ch' = [c \in Channels |-> turn_on_off_ch(ch[c], on[c], now, skip[c])]
  BY DEF write_TMU_TSTR
<1>2. UNCHANGED <<clk, off>>
  BY DEF write_TMU_TSTR
<1>3. clk' \in 0 .. Period - 1 /\ off' \in 0 .. 2 * Timeslice /\ clk' % Timeslice = 0
  BY <1>2 DEF IInv, TypeOK
<1>4. \A c \in Channels : /\ ch'[c] \in Chan /\ ChanOK(ch'[c], clk')
                          /\ ch'[c].pend = ch'[c].unf
  <2> TAKE c \in Channels
  <2> DEFINE s == ch[c]
             r == turn_on_off_ch(s, on[c], now, skip[c])
  <2>1. /\ s \in Chan /\ s.pend = s.unf /\ skip[c] \in Skips /\ on[c] \in BOOLEAN
        /\ clk \in Nat /\ off \in Nat /\ now = clk + off
    BY State
  <2>2. ch'[c] = r
    BY <1>1
  <2> HIDE DEF s
  <2>3. r \in Chan /\ ChanOK(r, clk) /\ r.unf = s.unf /\ r.pend = s.pend
    BY <2>1, TurnOK
  <2> HIDE DEF r
  <2>4. QED
    BY <1>2, <2>1, <2>2, <2>3
<1>5. ch' \in [Channels -> Chan]
  BY <1>1, <1>4
<1>6. QED
  BY <1>3, <1>4, <1>5 DEF IInv, TypeOK, Chan

\* A reset.
LEMMA ResetOK == ASSUME NEW hard \in BOOLEAN PROVE IInv /\ dc_reset(hard) => IInv'
<1> SUFFICES ASSUME IInv, dc_reset(hard) PROVE IInv'
  OBVIOUS
<1>1. clk' \in 0 .. Period - 1 /\ off' \in 0 .. 2 * Timeslice /\ clk' % Timeslice = 0
  <2>1. 0 \in 0 .. Period - 1 /\ 0 \in 0 .. 2 * Timeslice /\ 0 % Timeslice = 0
    BY Constants
  <2>2. QED
    BY <2>1 DEF dc_reset, IInv, TypeOK
<1>2. ch' \in [Channels -> Chan]
  BY StoppedOK DEF dc_reset
<1>3. \A c \in Channels : ChanOK(ch'[c], clk') /\ ch'[c].pend = ch'[c].unf
  BY StoppedOK DEF dc_reset
<1>4. QED
  BY <1>1, <1>2, <1>3 DEF IInv, TypeOK, Chan

\* Every step keeps the invariant.
LEMMA StepOK == IInv /\ [Next]_vars => IInv'
<1>1. ASSUME IInv, UNCHANGED vars PROVE IInv'
  <2>1. clk' = clk /\ off' = off /\ ch' = ch
    BY <1>1 DEF vars
  <2>2. QED
    BY <1>1, <2>1 DEF IInv, TypeOK
<1>2. QED
  BY <1>1, RunOK, UpdateSystemOK, RegistersOK, StartStopOK, ResetOK DEF Next

\* The invariant holds in every behaviour.
THEOREM Invariant == Spec => []IInv
  BY InitOK, StepOK, PTL DEF Spec

\* Type correctness: the counters stay numbers, and a request to the scheduler
\* is at most MainClock, or one cycle more (tmu.cpp, sched_chan_tick()).
THEOREM TypeCorrect == Spec => []TypeOK
<1>1. IInv => TypeOK
  BY DEF IInv
<1>2. QED
  BY <1>1, Invariant, PTL

\* No underflow is missed: at the end of a slice no counter of a running channel
\* was below zero (tmu.cpp, sched_chan_tick() and sched_tmu_cb()).
THEOREM Timely == Spec => UnderflowIsTimely
<1>1. ASSUME IInv, UpdateSystem_INTC
      PROVE  \A c \in Channels : ch'[c].on => read_TMU_TCNTch(ch'[c], clk') >= 0
  <2>1. PICK skip \in [Channels -> Skips] :
          ch' = [c \in Channels |-> Rebased(Sliced(ch[c], skip[c]))]
    BY <1>1 DEF UpdateSystem_INTC
  <2>2. clk' = (clk + Timeslice) % Period /\ off >= Timeslice
    BY <1>1 DEF UpdateSystem_INTC
  <2> TAKE c \in Channels
  <2> DEFINE s == ch[c]
             r == Rebased(Sliced(s, skip[c]))
  <2>3. s \in Chan /\ ChanOK(s, clk) /\ skip[c] \in Skips
    BY <1>1, State
  <2>4. ch'[c] = r
    BY <2>1
  <2> HIDE DEF s
  <2>5. r.on => read_TMU_TCNTch(r, clk') >= 0
    BY <1>1, <2>2, <2>3, SliceOK
  <2>6. QED
    BY <2>4, <2>5
<1>2. IInv => [UpdateSystem_INTC =>
         \A c \in Channels : ch'[c].on => read_TMU_TCNTch(ch'[c], clk') >= 0]_vars
  BY <1>1
<1>3. QED
  BY <1>2, Invariant, PTL DEF UnderflowIsTimely
-----------------------------------------------------------------------------
(* The refinement. *)

\* The variables of Timer, under the mapping.
Clock == now % Period
Count == [c \in Channels |-> read_TMU_TCNTch(ch[c], now)]
On == [c \in Channels |-> ch[c].on]
ScaleOf == [c \in Channels |-> Scale(ch[c])]
PeriodOf == [c \in Channels |-> ch[c].tcor]
Flag == [c \in Channels |-> ch[c].unf]
Irq == [c \in Channels |-> ch[c].pend]

Scales == {2 ^ Shift[m] : m \in Modes}

\* The prescalers are those of Timer.
LEMMA ScaleIn == ASSUME NEW s \in Chan PROVE Scale(s) \in Scales
  BY DEF Chan, Scale, Scales

\* Edges of a prescaler counted on the clock modulo Period are those of the clock.
LEMMA Edges ==
    ASSUME NEW c \in Nat \ {0}, Period % c = 0, NEW t \in Nat, NEW k \in Nat
    PROVE  /\ (t + k) \div c - t \div c = ((t % Period) + k) \div c - (t % Period) \div c
           /\ ((t % Period) + k) % Period = (t + k) % Period
           /\ (t + k) \div c \in Int /\ t \div c \in Int
<1> DEFINE m == t % Period
           q == t \div Period
           p == Period \div c
           z == p * q
<1>1. /\ Period \in Nat \ {0} /\ m \in Nat /\ q \in Int /\ p \in Int
      /\ t = Period * q + m /\ Period = c * p
  BY Constants, DivMod, Multiple
<1> HIDE DEF m, q, p
<1>2. z \in Int /\ t = m + c * z /\ t + k = m + k + c * z
  <2>1. Period * q = c * (p * q)
    BY <1>1
  <2>2. QED
    BY <1>1, <2>1
<1> HIDE DEF z
<1>3. t \div c = m \div c + z /\ m \div c \in Int
  <2>1. (m + c * z) \div c = m \div c + z
    BY <1>1, <1>2, DivShift
  <2>2. m \div c \in Int
    BY <1>1, DivMod
  <2>3. QED
    BY <1>2, <2>1, <2>2
<1> DEFINE n == m + k
<1>4. n \in Int /\ t + k = n + c * z /\ t + k = n + Period * q
  BY <1>1, <1>2
<1> HIDE DEF n
<1>5. (t + k) \div c = n \div c + z /\ n \div c \in Int
  <2>1. (n + c * z) \div c = n \div c + z
    BY <1>2, <1>4, DivShift
  <2>2. n \div c \in Int
    BY <1>4, DivMod
  <2>3. QED
    BY <1>4, <2>1, <2>2
<1>6. (t + k) % Period = n % Period
  <2>1. (n + Period * q) % Period = n % Period
    BY <1>1, <1>4, DivShift
  <2>2. QED
    BY <1>4, <2>1
<1> DEFINE a == t \div c
           b == (t + k) \div c
           d == m \div c
           e == n \div c
<1>7. a = d + z /\ b = e + z /\ d \in Int /\ e \in Int
  BY <1>3, <1>5
<1> HIDE DEF a, b, d, e
<1>8. b - a = e - d /\ a \in Int /\ b \in Int
  BY <1>2, <1>7
<1>9. QED
  BY <1>6, <1>8 DEF m, n, a, b, d, e

\* A function changed at one channel.
LEMMA Except ==
    ASSUME NEW f, f = [d \in Channels |-> f[d]], NEW c \in Channels, NEW x
    PROVE  [f EXCEPT ![c] = x] = [d \in Channels |-> IF d = c THEN x ELSE f[d]]
  OBVIOUS

\* The mapping of a step that changes one channel.
LEMMA OneMapped ==
    ASSUME IInv, NEW c \in Channels, NEW r \in Chan,
           ch' = [ch EXCEPT ![c] = r], UNCHANGED <<clk, off>>
    PROVE  /\ Clock' = Clock
           /\ Count' = [Count EXCEPT ![c] = read_TMU_TCNTch(r, now)]
           /\ On' = [On EXCEPT ![c] = r.on]
           /\ ScaleOf' = [ScaleOf EXCEPT ![c] = Scale(r)]
           /\ PeriodOf' = [PeriodOf EXCEPT ![c] = r.tcor]
           /\ Flag' = [Flag EXCEPT ![c] = r.unf]
<1>1. now' = now
  BY DEF now
<1>2. ch \in [Channels -> Chan]
  BY State
<1>3. \A d \in Channels : ch'[d] = IF d = c THEN r ELSE ch[d]
  BY <1>2
<1>4. Clock' = Clock
  BY <1>1 DEF Clock
<1>5. Count' = [Count EXCEPT ![c] = read_TMU_TCNTch(r, now)]
  <2>1. Count = [d \in Channels |-> Count[d]]
    BY DEF Count
  <2>2. Count' = [d \in Channels |-> IF d = c THEN read_TMU_TCNTch(r, now) ELSE Count[d]]
    BY <1>1, <1>3 DEF Count
  <2>3. QED
    BY <2>1, <2>2, Except
<1>6. On' = [On EXCEPT ![c] = r.on]
  <2>1. On = [d \in Channels |-> On[d]]
    BY DEF On
  <2>2. On' = [d \in Channels |-> IF d = c THEN r.on ELSE On[d]]
    BY <1>3 DEF On
  <2>3. QED
    BY <2>1, <2>2, Except
<1>7. ScaleOf' = [ScaleOf EXCEPT ![c] = Scale(r)]
  <2>1. ScaleOf = [d \in Channels |-> ScaleOf[d]]
    BY DEF ScaleOf
  <2>2. ScaleOf' = [d \in Channels |-> IF d = c THEN Scale(r) ELSE ScaleOf[d]]
    BY <1>3 DEF ScaleOf
  <2>3. QED
    BY <2>1, <2>2, Except
<1>8. PeriodOf' = [PeriodOf EXCEPT ![c] = r.tcor]
  <2>1. PeriodOf = [d \in Channels |-> PeriodOf[d]]
    BY DEF PeriodOf
  <2>2. PeriodOf' = [d \in Channels |-> IF d = c THEN r.tcor ELSE PeriodOf[d]]
    BY <1>3 DEF PeriodOf
  <2>3. QED
    BY <2>1, <2>2, Except
<1>9. Flag' = [Flag EXCEPT ![c] = r.unf]
  <2>1. Flag = [d \in Channels |-> Flag[d]]
    BY DEF Flag
  <2>2. Flag' = [d \in Channels |-> IF d = c THEN r.unf ELSE Flag[d]]
    BY <1>3 DEF Flag
  <2>3. QED
    BY <2>1, <2>2, Except
<1>10. QED
  BY <1>4, <1>5, <1>6, <1>7, <1>8, <1>9

\* A field that a step does not change.
LEMMA Same ==
    ASSUME IInv, NEW c \in Channels
    PROVE  /\ [Count EXCEPT ![c] = read_TMU_TCNTch(ch[c], now)] = Count
           /\ [On EXCEPT ![c] = ch[c].on] = On
           /\ [ScaleOf EXCEPT ![c] = Scale(ch[c])] = ScaleOf
           /\ [PeriodOf EXCEPT ![c] = ch[c].tcor] = PeriodOf
           /\ [Flag EXCEPT ![c] = ch[c].unf] = Flag
  BY DEF Count, On, ScaleOf, PeriodOf, Flag

\* The steps of Timer, in terms of the mapping.
LEMMA Steps ==
    ASSUME Irq' = Flag'
    PROVE  /\ (\E k \in 1 .. Period :
                 /\ Clock' = (Clock + k) % Period
                 /\ Count' = [c \in Channels |->
                       IF On[c] THEN Count[c] - ((Clock + k) \div ScaleOf[c] - Clock \div ScaleOf[c])
                       ELSE Count[c]]
                 /\ UNCHANGED <<On, ScaleOf, PeriodOf, Flag>>) => Abstract!Next
           /\ (\E S \in SUBSET Channels :
                 /\ \A c \in S : Count[c] < 0
                 /\ Count' = [c \in Channels |->
                       IF c \notin S THEN Count[c]
                       ELSE IF Count[c] + PeriodOf[c] < 0 THEN 0 ELSE Count[c] + PeriodOf[c]]
                 /\ Flag' = [c \in Channels |-> Flag[c] \/ c \in S]
                 /\ UNCHANGED <<Clock, On, ScaleOf, PeriodOf>>) => Abstract!Next
           /\ (\E c \in Channels, v \in Counts :
                 /\ Count' = [Count EXCEPT ![c] = v]
                 /\ UNCHANGED <<Clock, On, ScaleOf, PeriodOf, Flag>>) => Abstract!Next
           /\ (\E c \in Channels, v \in Counts :
                 /\ PeriodOf' = [PeriodOf EXCEPT ![c] = v]
                 /\ UNCHANGED <<Clock, Count, On, ScaleOf, Flag>>) => Abstract!Next
           /\ (\E c \in Channels, s \in Scales, f \in BOOLEAN :
                 /\ ScaleOf' = [ScaleOf EXCEPT ![c] = s]
                 /\ Flag' = [Flag EXCEPT ![c] = f]
                 /\ UNCHANGED <<Clock, Count, On, PeriodOf>>) => Abstract!Next
           /\ (/\ On' \in [Channels -> BOOLEAN]
               /\ UNCHANGED <<Clock, Count, ScaleOf, PeriodOf, Flag>>) => Abstract!Next
<1> USE DEF Clock, Count, On, ScaleOf, PeriodOf, Flag, Irq, Scales
<1> QED
  BY DEF Abstract!Next, Abstract!Advance, Abstract!Underflow, Abstract!Write,
         Abstract!SetPeriod, Abstract!SetControl, Abstract!StartStop

\* Cycles pass.
LEMMA RunMaps == IInv /\ IInv' /\ Run => Abstract!Next
<1> SUFFICES ASSUME IInv, IInv', Run PROVE Abstract!Next
  OBVIOUS
<1>1. PICK k \in Costs : off' = off + k /\ UNCHANGED <<clk, ch>>
  BY DEF Run
<1>2. /\ k \in Nat /\ k \in 1 .. Period /\ now \in Nat /\ now' = now + k
      /\ Period \in Nat \ {0}
  <2>1. k \in 1 .. Timeslice /\ Timeslice <= Period /\ Timeslice \in Nat /\ Period \in Nat \ {0}
    BY Constants
  <2>2. now' = clk' + off' /\ now = clk + off /\ clk \in Nat /\ off \in Nat
    BY State DEF now
  <2>3. QED
    BY <1>1, <2>1, <2>2
<1>3. Clock' = (Clock + k) % Period
  <2>1. 1 \in Nat \ {0} /\ Period % 1 = 0
    BY <1>2
  <2>2. ((now % Period) + k) % Period = (now + k) % Period
    BY <1>2, <2>1, Edges
  <2>3. QED
    BY <1>2, <2>2 DEF Clock
<1>4. Count' = [c \in Channels |->
          IF On[c] THEN Count[c] - ((Clock + k) \div ScaleOf[c] - Clock \div ScaleOf[c])
          ELSE Count[c]]
  <2>1. ASSUME NEW c \in Channels
        PROVE  read_TMU_TCNTch(ch[c], now + k) =
               IF ch[c].on
               THEN read_TMU_TCNTch(ch[c], now)
                      - ((Clock + k) \div Scale(ch[c]) - Clock \div Scale(ch[c]))
               ELSE read_TMU_TCNTch(ch[c], now)
    <3> DEFINE s == ch[c]
               x == Scale(s)
               a == now \div x
               b == (now + k) \div x
               d == (Clock + k) \div x - Clock \div x
    <3>1. s \in Chan /\ s.base \in Int
      BY State DEF Chan
    <3> HIDE DEF s
    <3>2. x \in Nat \ {0} /\ Period % x = 0
      BY <3>1, ScaleOK
    <3>3. b - a = d /\ a \in Int /\ b \in Int
      <4> HIDE DEF x
      <4>1. QED
        BY <1>2, <3>2, Edges DEF Clock
    <3>4. /\ read_TMU_TCNTch(s, now) = s.base - (IF s.on THEN a ELSE 0)
          /\ read_TMU_TCNTch(s, now + k) = s.base - (IF s.on THEN b ELSE 0)
      BY DEF read_TMU_TCNTch, Counted
    <3> HIDE DEF a, b, d
    <3>5. read_TMU_TCNTch(s, now + k) =
             IF s.on THEN read_TMU_TCNTch(s, now) - d ELSE read_TMU_TCNTch(s, now)
      BY <3>1, <3>3, <3>4
    <3>6. QED
      BY <3>5 DEF d, x, s
  <2>2. \A c \in Channels : Count[c] = read_TMU_TCNTch(ch[c], now) /\ On[c] = ch[c].on
                            /\ ScaleOf[c] = Scale(ch[c])
    BY DEF Count, On, ScaleOf
  <2>3. Count' = [c \in Channels |-> read_TMU_TCNTch(ch[c], now + k)]
    BY <1>1, <1>2 DEF Count
  <2>4. QED
    BY <2>1, <2>2, <2>3
<1>5. UNCHANGED <<On, ScaleOf, PeriodOf, Flag>>
  BY <1>1 DEF On, ScaleOf, PeriodOf, Flag
<1>6. Irq' = Flag'
  BY DEF IInv, Irq, Flag
<1>7. QED
  BY <1>2, <1>3, <1>4, <1>5, <1>6, Steps

\* Counters below zero are reloaded at the end of a slice.
LEMMA UpdateSystemMaps == IInv /\ IInv' /\ UpdateSystem_INTC => Abstract!Next
<1> SUFFICES ASSUME IInv, IInv', UpdateSystem_INTC PROVE Abstract!Next
  OBVIOUS
<1>1. PICK skip \in [Channels -> Skips] :
        ch' = [c \in Channels |-> Rebased(Sliced(ch[c], skip[c]))]
  BY DEF UpdateSystem_INTC
<1>2. clk' = (clk + Timeslice) % Period /\ off' = off - Timeslice /\ off >= Timeslice
  BY DEF UpdateSystem_INTC
<1>3. now' = clk' + (off - Timeslice)
  BY <1>2 DEF now
<1> DEFINE S == {c \in Channels : Fires(ch[c])}
<1>4. ASSUME NEW c \in Channels
      PROVE  /\ ch'[c].on = ch[c].on /\ ch'[c].mode = ch[c].mode /\ ch'[c].tcor = ch[c].tcor
             /\ c \in S => ch'[c].unf = TRUE
             /\ c \notin S => ch'[c].unf = ch[c].unf
             /\ read_TMU_TCNTch(ch'[c], now') =
                  IF c \notin S THEN read_TMU_TCNTch(ch[c], now)
                  ELSE IF read_TMU_TCNTch(ch[c], now) + ch[c].tcor < 0 THEN 0
                  ELSE read_TMU_TCNTch(ch[c], now) + ch[c].tcor
  <2> DEFINE s == ch[c]
             r == Rebased(Sliced(s, skip[c]))
             v == read_TMU_TCNTch(s, now)
  <2>1. s \in Chan /\ ChanOK(s, clk) /\ skip[c] \in Skips /\ now \in Nat
    BY State
  <2>2. ch'[c] = r /\ (c \in S <=> Fires(s))
    BY <1>1
  <2> HIDE DEF s, S
  <2>3. /\ r.on = s.on /\ r.mode = s.mode /\ r.tcor = s.tcor
        /\ IF Fires(s)
           THEN /\ r.unf = TRUE
                /\ read_TMU_TCNTch(r, now') = IF s.tcor + v < 0 THEN 0 ELSE s.tcor + v
           ELSE /\ r.unf = s.unf
                /\ read_TMU_TCNTch(r, now') = v
    <3>1. ASSUME NEW k, k = (clk + Timeslice) % Period
          PROVE  /\ r.on = s.on /\ r.mode = s.mode /\ r.tcor = s.tcor
                 /\ Fires(s) => r.unf = TRUE
                 /\ ~ Fires(s) => r.unf = s.unf
      BY <1>2, <2>1, <3>1, SliceOK
    <3>2. ASSUME NEW k, k = (clk + Timeslice) % Period, Fires(s)
          PROVE  read_TMU_TCNTch(r, k + (off - Timeslice)) =
                    IF s.tcor + v < 0 THEN 0 ELSE s.tcor + v
      BY <1>2, <2>1, <3>2, SliceOK
    <3>3. ASSUME NEW k, k = (clk + Timeslice) % Period, ~ Fires(s)
          PROVE  read_TMU_TCNTch(r, k + (off - Timeslice)) = v
      BY <1>2, <2>1, <3>3, SliceOK
    <3> HIDE DEF r, v
    <3>4. QED
      BY <1>2, <1>3, <3>1, <3>2, <3>3
  <2>4. s.tcor \in Int /\ v \in Int
    BY <2>1, TcorType, ReadType
  <2> HIDE DEF r, v
  <2>5. s.tcor + v = v + s.tcor
    BY <2>4
  <2>6. QED
    BY <1>3, <2>2, <2>3, <2>5 DEF s, v
<1>5. \A c \in S : Count[c] < 0
  BY DEF Fires, Count
<1>6. Count' = [c \in Channels |->
          IF c \notin S THEN Count[c]
          ELSE IF Count[c] + PeriodOf[c] < 0 THEN 0 ELSE Count[c] + PeriodOf[c]]
  <2> HIDE DEF S
  <2>1. QED
    BY <1>4 DEF Count, PeriodOf
<1>7. Flag' = [c \in Channels |-> Flag[c] \/ c \in S]
  <2>1. \A c \in Channels : ch[c].unf \in BOOLEAN
    BY State DEF Chan
  <2> HIDE DEF S
  <2>2. ASSUME NEW c \in Channels PROVE ch'[c].unf = (ch[c].unf \/ c \in S)
    BY <1>4, <2>1, Zenon
  <2>3. QED
    BY <2>2, Zenon DEF Flag
<1>8. UNCHANGED <<On, ScaleOf, PeriodOf>>
  BY <1>4 DEF On, ScaleOf, PeriodOf, Scale
<1>9. Clock' = Clock
  <2> DEFINE e == clk + Timeslice
  <2>1. /\ clk' = IF e = Period THEN 0 ELSE e
        /\ e \in Nat /\ now \in Nat /\ now = e + (off - Timeslice) /\ off - Timeslice \in Nat
        /\ Period \in Nat \ {0}
    <3>1. clk' = IF e = Period THEN 0 ELSE e
      BY <1>2, ClockStep DEF IInv
    <3>2. QED
      BY <1>2, <3>1, State, Constants
  <2> HIDE DEF e
  <2> DEFINE back == -1
  <2>2. (now' = now \/ now' = now + Period * back) /\ back \in Int
    BY <1>3, <2>1
  <2> HIDE DEF back
  <2>3. (now + Period * back) % Period = now % Period
    <3>1. now \in Int /\ Period \in Nat \ {0}
      BY <2>1
    <3>2. QED
      BY <2>2, <3>1, DivShift
  <2>4. QED
    BY <2>2, <2>3 DEF Clock
<1>10. Irq' = Flag'
  BY DEF IInv, Irq, Flag
<1>11. QED
  <2>1. S \in SUBSET Channels
    OBVIOUS
  <2> HIDE DEF S
  <2>2. QED
    BY <2>1, <1>5, <1>6, <1>7, <1>8, <1>9, <1>10, Steps

\* The registers of a channel.
LEMMA RegistersMap ==
    ASSUME NEW c \in Channels
    PROVE  IInv /\ IInv' /\ (\/ read_TMU_TCNT(c) \/ write_TMU_TCNT(c) \/ write_TMU_TCOR(c)
                             \/ TMU_TCR_write(c)) => Abstract!Next
<1> SUFFICES ASSUME IInv, IInv',
                    read_TMU_TCNT(c) \/ write_TMU_TCNT(c) \/ write_TMU_TCOR(c) \/ TMU_TCR_write(c)
             PROVE  Abstract!Next
  OBVIOUS
<1> DEFINE s == ch[c]
<1>1. /\ clk \in Nat /\ off \in Nat /\ now = clk + off /\ now \in Nat
      /\ s \in Chan /\ ChanOK(s, clk)
  BY State
<1>2. Irq' = Flag'
  BY DEF IInv, Irq, Flag
<1>3. /\ [Count EXCEPT ![c] = read_TMU_TCNTch(s, now)] = Count
      /\ [On EXCEPT ![c] = s.on] = On
      /\ [ScaleOf EXCEPT ![c] = Scale(s)] = ScaleOf
      /\ [PeriodOf EXCEPT ![c] = s.tcor] = PeriodOf
      /\ [Flag EXCEPT ![c] = s.unf] = Flag
  BY Same
<1>4. CASE read_TMU_TCNT(c)
  <2>1. PICK skip \in Skips :
          ch' = [ch EXCEPT ![c] = reloadCounter(s, now, skip)] /\ UNCHANGED <<clk, off>>
    BY <1>4 DEF read_TMU_TCNT
  <2> DEFINE r == reloadCounter(s, clk + off, skip)
             v == read_TMU_TCNTch(s, clk + off)
  <2>2. Count[c] = v /\ PeriodOf[c] = s.tcor /\ Count[c] < 0
    BY <1>1, <1>4 DEF read_TMU_TCNT, Count, PeriodOf
  <2>3. ch' = [ch EXCEPT ![c] = r]
    BY <1>1, <2>1
  <2> HIDE DEF s
  <2>4. /\ r \in Chan
        /\ r.on = s.on /\ r.mode = s.mode /\ r.tcor = s.tcor
        /\ r.unf = TRUE /\ r.pend = TRUE
        /\ read_TMU_TCNTch(r, clk + off) = IF s.tcor + v < 0 THEN 0 ELSE s.tcor + v
        /\ ChanOK(r, clk)
    BY <1>1, ReloadOK
  <2>5. s.tcor + v = v + s.tcor
    BY <1>1, TcorType, ReadType
  <2> HIDE DEF r, v
  <2>6. Scale(r) = Scale(s)
    BY <2>4 DEF Scale
  <2>7. /\ Clock' = Clock
        /\ Count' = [Count EXCEPT ![c] = read_TMU_TCNTch(r, now)]
        /\ On' = [On EXCEPT ![c] = r.on]
        /\ ScaleOf' = [ScaleOf EXCEPT ![c] = Scale(r)]
        /\ PeriodOf' = [PeriodOf EXCEPT ![c] = r.tcor]
        /\ Flag' = [Flag EXCEPT ![c] = r.unf]
    BY <2>1, <2>4, <2>3, OneMapped
  <2>8. /\ Clock' = Clock
        /\ Count' = [Count EXCEPT ![c] = read_TMU_TCNTch(r, now)]
        /\ On' = On /\ ScaleOf' = ScaleOf /\ PeriodOf' = PeriodOf
        /\ Flag' = [Flag EXCEPT ![c] = TRUE]
    BY <1>3, <2>4, <2>6, <2>7
  <2>9. Count' = [d \in Channels |->
            IF d \notin {c} THEN Count[d]
            ELSE IF Count[d] + PeriodOf[d] < 0 THEN 0 ELSE Count[d] + PeriodOf[d]]
    <3> DEFINE w == read_TMU_TCNTch(r, now)
    <3>1. w = IF Count[c] + PeriodOf[c] < 0 THEN 0 ELSE Count[c] + PeriodOf[c]
      BY <1>1, <2>2, <2>4, <2>5
    <3>2. Count = [d \in Channels |-> Count[d]]
      BY DEF Count
    <3> HIDE DEF w
    <3>3. Count' = [d \in Channels |-> IF d = c THEN w ELSE Count[d]]
      BY <2>8, <3>2, Except DEF w
    <3>4. QED
      BY <3>1, <3>3
  <2>10. Flag' = [d \in Channels |-> Flag[d] \/ d \in {c}]
    <3>1. Flag = [d \in Channels |-> Flag[d]] /\ \A d \in Channels : Flag[d] \in BOOLEAN
      BY State DEF Flag, Chan
    <3>2. Flag' = [d \in Channels |-> IF d = c THEN TRUE ELSE Flag[d]]
      BY <2>8, <3>1, Except
    <3>3. \A d \in Channels : (IF d = c THEN TRUE ELSE Flag[d]) = (Flag[d] \/ d \in {c})
      BY <3>1, Zenon
    <3>4. QED
      BY <3>2, <3>3, Zenon
  <2>11. {c} \in SUBSET Channels /\ \A d \in {c} : Count[d] < 0
    BY <2>2
  <2>12. QED
    BY <1>2, <2>8, <2>9, <2>10, <2>11, Steps
<1>5. CASE write_TMU_TCNT(c)
  <2>1. PICK v \in Counts, skip \in Skips :
          ch' = [ch EXCEPT ![c] = write_TMU_TCNTch(s, v, now, skip)] /\ UNCHANGED <<clk, off>>
    BY <1>5 DEF write_TMU_TCNT
  <2> DEFINE r == write_TMU_TCNTch(s, v, clk + off, skip)
  <2>2. ch' = [ch EXCEPT ![c] = r]
    BY <1>1, <2>1
  <2> HIDE DEF s
  <2>3. v \in Int
    BY Constants
  <2>4. /\ r \in Chan /\ r.on = s.on /\ r.mode = s.mode /\ r.tcor = s.tcor /\ r.unf = s.unf
        /\ read_TMU_TCNTch(r, clk + off) = v
    BY <1>1, <2>3, WriteOK
  <2> HIDE DEF r
  <2>5. Scale(r) = Scale(s)
    BY <2>4 DEF Scale
  <2>6. /\ Clock' = Clock
        /\ Count' = [Count EXCEPT ![c] = read_TMU_TCNTch(r, now)]
        /\ On' = [On EXCEPT ![c] = r.on]
        /\ ScaleOf' = [ScaleOf EXCEPT ![c] = Scale(r)]
        /\ PeriodOf' = [PeriodOf EXCEPT ![c] = r.tcor]
        /\ Flag' = [Flag EXCEPT ![c] = r.unf]
    BY <2>1, <2>2, <2>4, OneMapped
  <2>7. /\ Clock' = Clock /\ Count' = [Count EXCEPT ![c] = v]
        /\ On' = On /\ ScaleOf' = ScaleOf /\ PeriodOf' = PeriodOf /\ Flag' = Flag
    BY <1>1, <1>3, <2>4, <2>5, <2>6
  <2>8. QED
    BY <1>2, <2>7, Steps
<1>6. CASE write_TMU_TCOR(c)
  <2>1. PICK v \in Counts :
          ch' = [ch EXCEPT ![c] = [s EXCEPT !.tcor = v]] /\ UNCHANGED <<clk, off>>
    BY <1>1, <1>6, State DEF write_TMU_TCOR
  <2> DEFINE r == [s EXCEPT !.tcor = v]
  <2> HIDE DEF s
  <2>2. /\ r \in Chan /\ r.unf = s.unf /\ r.tcor = v
        /\ r.on = s.on /\ r.base = s.base /\ r.mode = s.mode
    BY <1>1 DEF Chan
  <2>3. ch' = [ch EXCEPT ![c] = r]
    BY <2>1
  <2> HIDE DEF r
  <2>4. Scale(r) = Scale(s) /\ read_TMU_TCNTch(r, now) = read_TMU_TCNTch(s, now)
    BY <2>2 DEF Scale, read_TMU_TCNTch, Counted
  <2>5. /\ Clock' = Clock
        /\ Count' = [Count EXCEPT ![c] = read_TMU_TCNTch(r, now)]
        /\ On' = [On EXCEPT ![c] = r.on]
        /\ ScaleOf' = [ScaleOf EXCEPT ![c] = Scale(r)]
        /\ PeriodOf' = [PeriodOf EXCEPT ![c] = r.tcor]
        /\ Flag' = [Flag EXCEPT ![c] = r.unf]
    BY <2>1, <2>2, <2>3, OneMapped
  <2>6. /\ Clock' = Clock /\ PeriodOf' = [PeriodOf EXCEPT ![c] = v]
        /\ On' = On /\ ScaleOf' = ScaleOf /\ Count' = Count /\ Flag' = Flag
    BY <1>3, <2>2, <2>4, <2>5
  <2>7. QED
    BY <1>2, <2>6, Steps
<1>7. CASE TMU_TCR_write(c)
  <2>1. PICK m \in Modes, f \in BOOLEAN, skip \in Skips :
          /\ ch' = [ch EXCEPT ![c] = UpdateTMUCounts(s, m, f, now, skip)]
          /\ UNCHANGED <<clk, off>>
    BY <1>7 DEF TMU_TCR_write
  <2> DEFINE r == UpdateTMUCounts(s, m, f, clk + off, skip)
  <2>2. ch' = [ch EXCEPT ![c] = r]
    BY <1>1, <2>1
  <2> HIDE DEF s
  <2>3. /\ r \in Chan
        /\ r.on = s.on /\ r.mode = m /\ r.tcor = s.tcor
        /\ r.unf = f /\ r.pend = f
        /\ read_TMU_TCNTch(r, clk + off) = read_TMU_TCNTch(s, clk + off)
        /\ ChanOK(r, clk)
    BY <1>1, ControlOK
  <2> HIDE DEF r
  <2>4. /\ Clock' = Clock
        /\ Count' = [Count EXCEPT ![c] = read_TMU_TCNTch(r, now)]
        /\ On' = [On EXCEPT ![c] = r.on]
        /\ ScaleOf' = [ScaleOf EXCEPT ![c] = Scale(r)]
        /\ PeriodOf' = [PeriodOf EXCEPT ![c] = r.tcor]
        /\ Flag' = [Flag EXCEPT ![c] = r.unf]
    BY <2>1, <2>2, <2>3, OneMapped
  <2>5. /\ Clock' = Clock /\ ScaleOf' = [ScaleOf EXCEPT ![c] = Scale(r)]
        /\ Flag' = [Flag EXCEPT ![c] = f]
        /\ On' = On /\ PeriodOf' = PeriodOf /\ Count' = Count
    BY <1>1, <1>3, <2>3, <2>4
  <2>6. Scale(r) \in Scales
    BY <2>3, ScaleIn
  <2>7. QED
    BY <1>2, <2>5, <2>6, Steps
<1>8. QED
  BY <1>4, <1>5, <1>6, <1>7

\* Starts and stops.
LEMMA StartStopMaps == IInv /\ IInv' /\ write_TMU_TSTR => Abstract!Next
<1> SUFFICES ASSUME IInv, IInv', write_TMU_TSTR PROVE Abstract!Next
  OBVIOUS
<1>1. PICK on \in [Channels -> BOOLEAN], skip \in [Channels -> Skips] :
        ch' = [c \in Channels |-> turn_on_off_ch(ch[c], on[c], now, skip[c])]
  BY DEF write_TMU_TSTR
<1>2. UNCHANGED <<clk, off>> /\ now' = now
  BY DEF write_TMU_TSTR, now
<1>3. ASSUME NEW c \in Channels
      PROVE  /\ ch'[c].on \in BOOLEAN /\ ch'[c].mode = ch[c].mode
             /\ ch'[c].tcor = ch[c].tcor /\ ch'[c].unf = ch[c].unf
             /\ read_TMU_TCNTch(ch'[c], now) = read_TMU_TCNTch(ch[c], now)
  <2> DEFINE s == ch[c]
             r == turn_on_off_ch(s, on[c], clk + off, skip[c])
  <2>1. /\ s \in Chan /\ skip[c] \in Skips /\ on[c] \in BOOLEAN
        /\ clk \in Nat /\ off \in Nat /\ now = clk + off
    BY State
  <2>2. ch'[c] = r
    BY <1>1, <2>1
  <2> HIDE DEF s
  <2>3. /\ r \in Chan
        /\ r.on = on[c] /\ r.mode = s.mode /\ r.tcor = s.tcor
        /\ r.unf = s.unf /\ r.pend = s.pend
        /\ read_TMU_TCNTch(r, clk + off) = read_TMU_TCNTch(s, clk + off)
        /\ ChanOK(r, clk)
    BY <2>1, TurnOK
  <2> HIDE DEF r
  <2>4. QED
    BY <2>1, <2>2, <2>3 DEF s
<1>4. On' \in [Channels -> BOOLEAN]
  BY <1>3 DEF On
<1>5. UNCHANGED <<Clock, Count, ScaleOf, PeriodOf, Flag>>
  BY <1>2, <1>3 DEF Clock, Count, ScaleOf, PeriodOf, Flag, Scale
<1>6. Irq' = Flag'
  BY DEF IInv, Irq, Flag
<1>7. QED
  BY <1>4, <1>5, <1>6, Steps

\* All channels are stopped: the start, and after a reset.
AllStopped == now \in Nat /\ ch = [c \in Channels |-> Stopped]

\* That is how the timers of Timer start.
LEMMA AllStoppedMaps == AllStopped => Abstract!Init
<1> SUFFICES ASSUME AllStopped PROVE Abstract!Init
  OBVIOUS
<1> USE DEF AllStopped
<1>1. now % Period \in 0 .. Period - 1
  BY Constants, DivMod
<1>2. FullCount \in Counts /\ Scale(Stopped) \in Scales
  BY StoppedOK, ScaleIn, Constants
<1>3. /\ [c \in Channels |-> read_TMU_TCNTch(ch[c], now)] \in [Channels -> Counts]
      /\ [c \in Channels |-> Scale(ch[c])] \in [Channels -> Scales]
  BY <1>2, StoppedOK
<1>4. /\ [c \in Channels |-> ch[c].on] = [c \in Channels |-> FALSE]
      /\ [c \in Channels |-> ch[c].tcor] \in [Channels -> Counts]
      /\ [c \in Channels |-> ch[c].unf] = [c \in Channels |-> FALSE]
      /\ [c \in Channels |-> ch[c].pend] = [c \in Channels |-> ch[c].unf]
  BY <1>2 DEF Stopped
<1>5. QED
  BY <1>1, <1>3, <1>4 DEF Abstract!Init, Scales

\* The counters that are computed are counters that count: Tmu implements Timer
\* (tmu.cpp, every function that moves tmu_ch_base).
THEOREM Refines == Spec => ImplementsTimer
<1>1. Init => Abstract!Init
  <2>1. Init => AllStopped
    BY DEF Init, AllStopped, now
  <2>2. QED
    BY <2>1, AllStoppedMaps
<1>2. ASSUME IInv, IInv', NEW hard \in BOOLEAN, dc_reset(hard) PROVE Abstract!Next
  <2>1. AllStopped'
    BY <1>2, State DEF dc_reset, AllStopped, now
  <2>2. Abstract!Init'
    BY <2>1, AllStoppedMaps, PTL
  <2>3. Irq' = Flag'
    BY <1>2 DEF IInv, Irq, Flag
  <2>4. QED
    BY <2>2, <2>3 DEF Abstract!Next, Abstract!Reset, Irq, Flag
<1>3. ASSUME UNCHANGED vars PROVE UNCHANGED Abstract!vars
  BY <1>3 DEF vars, Abstract!vars, now
<1>4. IInv /\ IInv' /\ [Next]_vars => [Abstract!Next]_(Abstract!vars)
  BY <1>2, <1>3, RunMaps, UpdateSystemMaps, RegistersMap, StartStopMaps DEF Next
<1>5. QED
  BY <1>1, <1>4, Invariant, PTL DEF Spec, ImplementsTimer
=============================================================================
