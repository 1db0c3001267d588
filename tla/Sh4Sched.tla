------------------------------ MODULE Sh4Sched ------------------------------
(***************************************************************************)
(* The SH4 event scheduler (core/hw/sh4/sh4_sched.cpp) and the time-slice  *)
(* loop that drives it (UpdateSystem_INTC in interpr/sh4_interpreter.cpp). *)
(*                                                                         *)
(* Every emulated device (video raster, audio, timers, disc, controllers)  *)
(* keeps time through this list of single-shot events.  Deadlines are      *)
(* 32-bit words that wrap, the word -1 stands for "not scheduled", and an  *)
(* event that is overdue when sh4_sched_ffts() runs is taken for one that  *)
(* is almost a full word in the future: it would be lost for 21 seconds.   *)
(*                                                                         *)
(* The clock is kept to its low word: the high word of sh4_sched_ffb only  *)
(* feeds sh4_sched_now64(), which the scheduler itself never reads.        *)
(***************************************************************************)
EXTENDS Integers, Sequences

CONSTANTS
    Word,       \* 2^32: modulus of u32 arithmetic
    Timeslice,  \* SH4_TIMESLICE, cycles between two calls of UpdateSystem_INTC
    MainClock,  \* SH4_MAIN_CLOCK, the longest delay that may be requested
    MaxSlots,   \* bound: number of slots the list may grow to
    Delays,     \* bound: the delays devices ask for
    SaveAt      \* bound: clock values at which a state may be saved

ASSUME ClockAssumption ==
    /\ Word \in Nat /\ Timeslice \in Nat \ {0} /\ MainClock \in Nat
    /\ 2 * (Timeslice + MainClock + 2) <= Word

ASSUME BoundAssumption ==
    /\ MaxSlots \in Nat
    /\ Delays \subseteq 0..MainClock
    /\ SaveAt \subseteq 0..(Word - 1)

VARIABLES
    ffb,        \* sh4_sched_ffb, low word
    schedNext,  \* Sh4cntx.sh4_sched_next (signed)
    nextId,     \* sh4_sched_next_id, -1 when nothing is scheduled
    schList,    \* sch_list: [cb, start, end]; cb is FALSE in an unregistered slot
    pc,         \* "run": executing code; "tick": in the loop of sh4_sched_tick;
                \* "cb": in a device callback
    pos,        \* slot the tick loop is at
    jitter,     \* local of handle_cb, live while pc = "cb"
    left,       \* history: true number of cycles to each deadline, never wraps
    saved       \* a save state, or << >>

vars == <<ffb, schedNext, nextId, schList, pc, pos, jitter, left, saved>>

-----------------------------------------------------------------------------
None == Word - 1    \* -1 as a u32

\* Mutant of Signed: the u32 is not converted back to int.
Signed_Unsigned(w) == w

Signed(w) == IF 2 * w < Word THEN w ELSE w - Word

\* sh4_sched_now()
Now == (ffb - schedNext) % Word

IsScheduled(s) == s.end # None

sh4_sched_remaining(s, reference) ==
    IF IsScheduled(s) THEN (s.end - reference) % Word ELSE None

\* Slot i is the one the scan of sh4_sched_ffts() ends on: its strict < keeps
\* the first of several equal minima, and never takes a remaining time of -1.
IsEarliest(list, now, i) ==
    LET rem(j) == sh4_sched_remaining(list[j], now) IN
    /\ rem(i) < None
    /\ \A j \in DOMAIN list : rem(i) <= rem(j) /\ (j < i => rem(i) < rem(j))

\* sh4_sched_ffts(), on list `list' at time `now', which it leaves unchanged.
sh4_sched_ffts(list, now) ==
    /\ \/ \E i \in DOMAIN list :
             /\ IsEarliest(list, now, i)
             /\ nextId' = i
             /\ schedNext' = Signed(sh4_sched_remaining(list[i], now))
       \/ /\ \A i \in DOMAIN list : ~ (sh4_sched_remaining(list[i], now) < None)
          /\ nextId' = -1
          /\ schedNext' = MainClock
    /\ ffb' = (now + schedNext') % Word

\* Mutant of EndAfter: -1 is not skipped.
EndAfter_NoSkip(cycles) == (Now + cycles) % Word

\* The end of an event requested `cycles' from now: -1 is skipped.
EndAfter(cycles) ==
    LET e == (Now + cycles) % Word IN IF e = None THEN 0 ELSE e

LeftAfter(cycles) == IF (Now + cycles) % Word = None THEN cycles + 1 ELSE cycles

\* The two effects of sh4_sched_request(id, cycles); -1 cancels the event.
sh4_sched_request(list, id, cycles) ==
    LET end == IF cycles = -1 THEN None ELSE EndAfter(cycles)
        new == [list EXCEPT ![id] = [@ EXCEPT !.start = Now, !.end = end]]
    IN  /\ schList' = new
        /\ left' = [left EXCEPT ![id] = IF cycles = -1 THEN 0 ELSE LeftAfter(cycles)]
        /\ sh4_sched_ffts(new, Now)

-----------------------------------------------------------------------------
Init ==
    /\ ffb = 0 /\ schedNext = 0 /\ nextId = -1
    /\ schList = << >> /\ left = << >>
    /\ pc = "run" /\ pos = 1 /\ jitter = 0
    /\ saved = << >>

\* A device registers: the first free slot is reused, else the list grows.
sh4_sched_register ==
    /\ pc = "run"
    /\ LET free == {i \in DOMAIN schList : ~ schList[i].cb}
           new == [cb |-> TRUE, start |-> None, end |-> None]
       IN \/ \E i \in free :
                /\ \A j \in free : i <= j
                /\ schList' = [schList EXCEPT ![i] = new]
                /\ left' = [left EXCEPT ![i] = 0]
          \/ /\ free = {} /\ Len(schList) < MaxSlots
             /\ schList' = Append(schList, new)
             /\ left' = Append(left, 0)
    /\ UNCHANGED <<ffb, schedNext, nextId, pc, pos, jitter, saved>>

\* A device unregisters: the last slot is removed, another one is freed.
sh4_sched_unregister(id) ==
    /\ pc = "run"
    /\ schList[id].cb
    /\ LET n == Len(schList)
           new == IF id = n THEN SubSeq(schList, 1, n - 1)
                  ELSE [schList EXCEPT ![id] = [@ EXCEPT !.cb = FALSE, !.end = None]]
       IN /\ schList' = new
          /\ left' = IF id = n THEN SubSeq(left, 1, n - 1)
                     ELSE [left EXCEPT ![id] = 0]
          /\ sh4_sched_ffts(new, Now)
    /\ UNCHANGED <<pc, pos, jitter, saved>>

\* A device (re)schedules or cancels an event, from an instruction or from a
\* callback of any device.
Request(id, cycles) ==
    /\ pc \in {"run", "cb"}
    /\ schList[id].cb
    /\ sh4_sched_request(schList, id, cycles)
    /\ UNCHANGED <<pc, pos, jitter, saved>>

\* UpdateSystem_INTC(), at the end of a time slice: time advances by a slice,
\* and sh4_sched_tick() starts when the earliest deadline is past.
UpdateSystem_INTC ==
    /\ pc = "run"
    /\ LET next == schedNext - Timeslice
           now == (Now + Timeslice) % Word
       IN \/ /\ next >= 0
             /\ schedNext' = next
             /\ UNCHANGED <<ffb, nextId, pc, pos>>
          \/ /\ next < 0 /\ nextId # -1
             /\ schedNext' = next
             /\ pc' = "tick" /\ pos' = 1
             /\ UNCHANGED <<ffb, nextId>>
          \/ /\ next < 0 /\ nextId = -1
             /\ sh4_sched_ffts(schList, now)
             /\ UNCHANGED <<pc, pos>>
    /\ left' = [i \in DOMAIN left |->
                  IF IsScheduled(schList[i]) THEN left[i] - Timeslice ELSE 0]
    /\ UNCHANGED <<schList, jitter, saved>>

\* Mutants of DueInSlice: the slice is open at its start; it has no end.
DueInSlice_OpenStart(i) ==
    LET remaining == Signed(sh4_sched_remaining(schList[i], (Now - Timeslice) % Word))
    IN  remaining > 0 /\ remaining <= Timeslice

DueInSlice_NoEnd(i) ==
    Signed(sh4_sched_remaining(schList[i], (Now - Timeslice) % Word)) >= 0

\* sh4_sched_tick() calls handle_cb() for slot i: its deadline is in the slice.
DueInSlice(i) ==
    LET fztime == (Now - Timeslice) % Word
        remaining == Signed(sh4_sched_remaining(schList[i], fztime))
    IN  remaining >= 0 /\ remaining <= Timeslice

tick_skip ==
    /\ pc = "tick" /\ pos \in DOMAIN schList
    /\ ~ DueInSlice(pos)
    /\ pos' = pos + 1
    /\ UNCHANGED <<ffb, schedNext, nextId, schList, pc, jitter, left, saved>>

\* handle_cb(), up to the call of the device's callback.
handle_cb ==
    /\ pc = "tick" /\ pos \in DOMAIN schList
    /\ DueInSlice(pos)
    /\ LET s == schList[pos]
           remain == Signed((s.end - s.start) % Word)
           elapsed == Signed((Now - s.start) % Word)
       IN jitter' = elapsed - remain
    /\ schList' = [schList EXCEPT ![pos] = [@ EXCEPT !.start = Now, !.end = None]]
    /\ left' = [left EXCEPT ![pos] = 0]
    /\ pc' = "cb"
    /\ UNCHANGED <<ffb, schedNext, nextId, pos, saved>>

\* The callback returns re_sch: a positive value schedules the next period,
\* counted from the deadline that just fired rather than from now.
cb_return(re_sch) ==
    /\ pc = "cb"
    /\ \/ /\ re_sch > 0
          /\ sh4_sched_request(schList, pos,
                IF re_sch > jitter THEN re_sch - jitter ELSE 0)
       \/ /\ re_sch <= 0
          /\ UNCHANGED <<ffb, schedNext, nextId, schList, left>>
    /\ pc' = "tick" /\ pos' = pos + 1 /\ jitter' = 0
    /\ UNCHANGED saved

\* The loop of sh4_sched_tick() is over.
tick_end ==
    /\ pc = "tick" /\ pos \notin DOMAIN schList
    /\ sh4_sched_ffts(schList, Now)
    /\ pc' = "run" /\ pos' = 1
    /\ UNCHANGED <<schList, jitter, left, saved>>

\* sh4_sched_reset(true), on the way into or out of a game.
sh4_sched_reset ==
    /\ pc = "run"
    /\ ffb' = 0 /\ schedNext' = 0 /\ nextId' = -1
    /\ schList' = [i \in DOMAIN schList |->
                     [schList[i] EXCEPT !.start = None, !.end = None]]
    /\ left' = [i \in DOMAIN left |-> 0]
    /\ UNCHANGED <<pc, pos, jitter, saved>>

\* dc_serialize(): the clock, sh4_sched_next (in Sh4cntx) and every slot.  (The
\* slots of network devices are not saved, but no state is saved while online.)
sh4_sched_serialize ==
    /\ pc = "run" /\ Now \in SaveAt
    /\ saved' = [ffb |-> ffb, next |-> schedNext, list |-> schList, left |-> left]
    /\ UNCHANGED <<ffb, schedNext, nextId, schList, pc, pos, jitter, left>>

\* Mutant of sh4_sched_deserialize: sh4_sched_ffts() is not called at the end.
sh4_sched_deserialize_NoFfts ==
    /\ pc = "run" /\ saved # << >>
    /\ DOMAIN saved.list = DOMAIN schList
    /\ \A i \in DOMAIN schList : schList[i].cb = saved.list[i].cb
    /\ schList' = saved.list /\ left' = saved.left
    /\ ffb' = saved.ffb /\ schedNext' = saved.next
    /\ UNCHANGED <<nextId, pc, pos, jitter, saved>>

\* dc_deserialize(): into a machine with the same devices; ends in ffts.
sh4_sched_deserialize ==
    /\ pc = "run" /\ saved # << >>
    /\ DOMAIN saved.list = DOMAIN schList
    /\ \A i \in DOMAIN schList : schList[i].cb = saved.list[i].cb
    /\ schList' = saved.list /\ left' = saved.left
    /\ sh4_sched_ffts(saved.list, (saved.ffb - saved.next) % Word)
    /\ UNCHANGED <<pc, pos, jitter, saved>>

Next ==
    \/ sh4_sched_register
    \/ \E id \in DOMAIN schList : sh4_sched_unregister(id)
    \/ \E id \in DOMAIN schList, c \in Delays \cup {-1} : Request(id, c)
    \/ UpdateSystem_INTC
    \/ tick_skip \/ handle_cb \/ tick_end
    \/ \E r \in Delays : cb_return(r)
    \/ sh4_sched_reset
    \/ sh4_sched_serialize \/ sh4_sched_deserialize

Spec == Init /\ [][Next]_vars
-----------------------------------------------------------------------------
(* Properties *)

Words == 0..(Word - 1)

\* Types; sh4_sched_next and the jitter stay in the ranges the code relies on.
TypeOK ==
    /\ ffb \in Words
    /\ schedNext \in (- Timeslice)..(MainClock + 1)
    /\ nextId \in Nat \cup {-1}
    /\ schList \in Seq([cb : BOOLEAN, start : Words, end : Words])
    /\ left \in Seq((- Timeslice)..(MainClock + 1))
    /\ pc \in {"run", "tick", "cb"} /\ pos \in Nat \ {0}
    /\ jitter \in 0..Timeslice

\* No event is lost: outside sh4_sched_tick() every scheduled event is still
\* ahead, the wrapped arithmetic of sh4_sched_remaining() gives its true
\* distance, sh4_sched_next does not reach past it and sh4_sched_next_id lets
\* the next tick look at it, whatever the callbacks did to the list meanwhile.
NoEventLost ==
    pc = "run" =>
        \A i \in DOMAIN schList : IsScheduled(schList[i]) =>
            /\ left[i] \in schedNext..(MainClock + 1) /\ schedNext >= 0
            /\ sh4_sched_remaining(schList[i], Now) = left[i]
            /\ nextId # -1

\* sh4_sched.h: "jitter, the number of cycles that the callback was delayed,
\* [0... 448]".  The jitter handle_cb() computes from wrapped words is the true
\* lateness of the event, and lies within one time slice.
JitterIsLateness ==
    [][pc = "tick" /\ pc' = "cb" =>
         jitter' = - left[pos] /\ jitter' \in 0..Timeslice]_vars

\* An event requested `cycles' from now is scheduled, due then or (when that
\* would read as "not scheduled") one cycle later; a callback that asks for its
\* next period gets it counted from its deadline, so periods do not drift.
RequestIsKept ==
    [][LET dueIn(i, c) == /\ IsScheduled(schList'[i])
                          /\ sh4_sched_remaining(schList'[i], Now') \in {c, c + 1}
       IN /\ \A id \in DOMAIN schList, c \in Delays : Request(id, c) => dueIn(id, c)
          /\ \A r \in Delays : cb_return(r) /\ r > jitter => dueIn(pos, r - jitter)]_vars
=============================================================================
