-------------------------------- MODULE Tmu --------------------------------
(***************************************************************************)
(* The timer unit of the SH4 (core/hw/sh4/modules/tmu.cpp) on top of the    *)
(* event scheduler.                                                         *)
(*                                                                         *)
(* A channel does not count.  It keeps base, from which the counter is      *)
(* computed when somebody looks: base minus the prescaled clock while it    *)
(* runs, base while it is stopped.  Every change of what the value depends  *)
(* on (start, stop, prescaler, reload) has to move base so that the counter *)
(* stays the same, and every change of the value has to ask the scheduler   *)
(* for the next underflow.                                                  *)
(*                                                                         *)
(* Two clocks are involved: the counter uses now(), exact within a slice;   *)
(* the scheduler counts a requested delay from the start of the slice and   *)
(* calls back at the end of the slice in which it expires, or of the next   *)
(* one if the delay was lengthened by the cycle that avoids -1 (RequestIsKept, *)
(* NoEventLost and JitterIsLateness of Sh4Sched).                           *)
(*                                                                         *)
(* The 64-bit clock never wraps.  The model reads it modulo Period: when    *)
(* the clock is turned back by Period the bases of running channels go down *)
(* with it, which leaves every difference the code computes as it was.      *)
(***************************************************************************)
EXTENDS Integers

CONSTANTS
    Channels,
    Timeslice,  \* SH4_TIMESLICE
    MainClock,  \* SH4_MAIN_CLOCK, the longest delay the scheduler takes
    Shift,      \* Shift[m]: what mode m of TCR shifts the clock by (4, 6, .. 12)
    Costs,      \* bound: cycles an instruction or block may take
    Counts,     \* bound: values written to TCNT and TCOR
    FullCount,  \* 0xffffffff
    MaxLag,     \* bound: how far below zero a channel that is started may be
    Period,     \* bound: the clock is kept modulo this
    None        \* no event scheduled

Modes == DOMAIN Shift

ASSUME TmuAssumption ==
    /\ {Timeslice, Period} \subseteq Nat \ {0} /\ MainClock \in Nat
    /\ 0 \in Modes
    /\ \A m \in Modes : /\ Shift[m] \in Nat \ {0} /\ 2 ^ Shift[m] \in Nat \ {0}
                        /\ Period % 2 ^ Shift[m] = 0
    /\ Period % Timeslice = 0
    /\ Costs \subseteq 1 .. Timeslice
    /\ MaxLag \in Nat /\ FullCount \in Counts /\ Counts \subseteq Nat
    /\ None \notin Nat

VARIABLES
    clk,    \* sh4_sched_now64(), start of the slice
    off,    \* SH4_TIMESLICE - cycle_counter, cycles since then
    ch      \* ch[c]: [base, on, mode, tcor, unf, pend, due]: tmu_ch_base, tmu_mask,
            \* old_mode (the mode in TCR), TCOR, TCR.UNF, InterruptPend, and the
            \* cycles from clk to the deadline of the slot

vars == <<clk, off, ch>>

TypeOK ==
    /\ clk \in 0 .. Period - 1
    /\ off \in 0 .. 2 * Timeslice
    /\ ch \in [Channels ->
                 [base : Int, on : BOOLEAN, mode : Modes, tcor : Counts, unf : BOOLEAN,
                  pend : BOOLEAN, due : (0 .. MainClock + 1) \cup {None}]]

now == clk + off

\* sh4_sched_request() lengthens a delay by a cycle if it would end at -1.
Skips == {0, 1}

-----------------------------------------------------------------------------
(* A channel s at time t. *)

Scale(s) == 2 ^ Shift[s.mode]
Counted(s, t) == IF s.on THEN t \div Scale(s) ELSE 0

read_TMU_TCNTch(s, t) == s.base - Counted(s, t)

\* Mutant of delay: the event is due when the counter wraps.
delay_Wrap(s, t) ==
    LET cycles == (read_TMU_TCNTch(s, t) + 1) * Scale(s) IN
    IF cycles < 0 THEN 0 ELSE IF cycles > MainClock THEN MainClock ELSE cycles

\* cycles of sched_chan_tick.
delay(s, t) ==
    LET cycles == read_TMU_TCNTch(s, t) * Scale(s) IN
    IF cycles < 0 THEN 0 ELSE IF cycles > MainClock THEN MainClock ELSE cycles

sched_chan_tick(s, t, skip) ==
    [s EXCEPT !.due = IF s.on THEN delay(s, t) + skip ELSE None]

write_TMU_TCNTch(s, data, t, skip) ==
    sched_chan_tick([s EXCEPT !.base = data + Counted(s, t)], t, skip)

reloadCounter(s, t, skip) ==
    LET v == s.tcor + read_TMU_TCNTch(s, t) IN
    write_TMU_TCNTch([s EXCEPT !.unf = TRUE, !.pend = TRUE],
                     IF v < 0 THEN 0 ELSE v, t, skip)

\* Mutant of turn_on_off_ch: the counter is read after the channel was switched.
turn_on_off_ch_Late(s, b, t, skip) ==
    LET r == [s EXCEPT !.on = b] IN
    write_TMU_TCNTch(r, read_TMU_TCNTch(r, t), t, skip)

turn_on_off_ch(s, b, t, skip) ==
    write_TMU_TCNTch([s EXCEPT !.on = b], read_TMU_TCNTch(s, t), t, skip)

\* Mutant of UpdateTMUCounts: an unchanged mode returns before InterruptPend.
UpdateTMUCounts_Early(s, m, f, t, skip) ==
    IF m = s.mode THEN [s EXCEPT !.unf = f]
    ELSE write_TMU_TCNTch([s EXCEPT !.mode = m, !.unf = f, !.pend = f],
                          read_TMU_TCNTch(s, t), t, skip)

\* TCR is written with mode m and underflow flag f.
UpdateTMUCounts(s, m, f, t, skip) ==
    LET r == [s EXCEPT !.unf = f, !.pend = f] IN
    IF m = s.mode THEN r
    ELSE write_TMU_TCNTch([r EXCEPT !.mode = m], read_TMU_TCNTch(s, t), t, skip)

\* The callback; handle_cb has marked the slot as not scheduled.
sched_tmu_cb(s, t, skip) ==
    LET r == [s EXCEPT !.due = None] IN
    IF ~r.on THEN r
    ELSE IF read_TMU_TCNTch(r, t) < 0 THEN reloadCounter(r, t, skip)
    ELSE write_TMU_TCNTch(r, read_TMU_TCNTch(r, t), t, skip)

-----------------------------------------------------------------------------
(* Actions. *)

\* The CPU executes an instruction or a block.
Run ==
    /\ off < Timeslice
    /\ \E k \in Costs : off' = off + k
    /\ UNCHANGED <<clk, ch>>

Sliced(s, skip) ==
    IF s.due = None THEN s
    ELSE IF s.due <= Timeslice THEN sched_tmu_cb(s, now, skip)
    ELSE [s EXCEPT !.due = @ - Timeslice]

Rebased(s) ==
    IF s.on /\ clk + Timeslice = Period THEN [s EXCEPT !.base = @ - Period \div Scale(s)] ELSE s

\* UpdateSystem_INTC and sh4_sched_tick: the events of the slice.
UpdateSystem_INTC ==
    /\ off >= Timeslice
    /\ clk' = (clk + Timeslice) % Period
    /\ off' = off - Timeslice
    /\ \E skip \in [Channels -> Skips] :
          ch' = [c \in Channels |-> Rebased(Sliced(ch[c], skip[c]))]

\* TCNT is read after the counter wrapped; otherwise a read changes nothing.
read_TMU_TCNT(c) ==
    /\ read_TMU_TCNTch(ch[c], now) < 0
    /\ \E skip \in Skips : ch' = [ch EXCEPT ![c] = reloadCounter(@, now, skip)]
    /\ UNCHANGED <<clk, off>>

write_TMU_TCNT(c) ==
    /\ \E v \in Counts, skip \in Skips :
          ch' = [ch EXCEPT ![c] = write_TMU_TCNTch(@, v, now, skip)]
    /\ UNCHANGED <<clk, off>>

write_TMU_TCOR(c) ==
    /\ \E v \in Counts : ch' = [ch EXCEPT ![c].tcor = v]
    /\ UNCHANGED <<clk, off>>

TMU_TCR_write(c) ==
    /\ \E m \in Modes, f \in BOOLEAN, skip \in Skips :
          ch' = [ch EXCEPT ![c] = UpdateTMUCounts(@, m, f, now, skip)]
    /\ UNCHANGED <<clk, off>>

\* A channel that is stopped before the end of the slice in which it wraps is
\* not reloaded; MaxLag bounds how often the guest does that.
write_TMU_TSTR ==
    /\ \E on \in [Channels -> BOOLEAN], skip \in [Channels -> Skips] :
       /\ \A c \in Channels :
             on[c] => ch[c].on \/ read_TMU_TCNTch(ch[c], now) >= - MaxLag
       /\ ch' = [c \in Channels |-> turn_on_off_ch(ch[c], on[c], now, skip[c])]
    /\ UNCHANGED <<clk, off>>

Stopped == [base |-> FullCount, on |-> FALSE, mode |-> 0, tcor |-> FullCount,
            unf |-> FALSE, pend |-> FALSE, due |-> None]

\* Emulator::dc_reset; a hard one resets the scheduler's clock.
dc_reset(hard) ==
    /\ ch' = [c \in Channels |-> Stopped]
    /\ clk' = IF hard THEN 0 ELSE clk
    /\ off' = 0

Init ==
    /\ clk = 0 /\ off = 0
    /\ ch = [c \in Channels |-> Stopped]

Next ==
    \/ Run \/ UpdateSystem_INTC
    \/ \E c \in Channels :
          \/ read_TMU_TCNT(c) \/ write_TMU_TCNT(c) \/ write_TMU_TCOR(c)
          \/ TMU_TCR_write(c)
    \/ write_TMU_TSTR
    \/ \E hard \in BOOLEAN : dc_reset(hard)

Spec == Init /\ [][Next]_vars

-----------------------------------------------------------------------------
(* Properties. *)

Abstract == INSTANCE Timer WITH
    Scales <- {2 ^ Shift[m] : m \in Modes},
    Periods <- Counts,
    clock <- now % Period,
    count <- [c \in Channels |-> read_TMU_TCNTch(ch[c], now)],
    on <- [c \in Channels |-> ch[c].on],
    scale <- [c \in Channels |-> Scale(ch[c])],
    period <- [c \in Channels |-> ch[c].tcor],
    flag <- [c \in Channels |-> ch[c].unf],
    irq <- [c \in Channels |-> ch[c].pend]

\* The computed counters are those of timers that count: starts, stops, changes
\* of the prescaler, rescheduling and late callbacks neither lose nor add a
\* count, a period is added exactly when an underflow is flagged, and the
\* interrupt controller always sees the flag that the guest reads in TCR.
ImplementsTimer == Abstract!Init /\ [][Abstract!Next]_(Abstract!vars)

\* No underflow is missed: when a slice is over, no counter of a running channel
\* was below zero at its end, so an underflow is flagged in the slice in which
\* it happens.  Callbacks that come early, are late by the cycle that avoids -1,
\* or are limited to MainClock ask for another one in time.
UnderflowIsTimely ==
    [][UpdateSystem_INTC =>
         \A c \in Channels : ch'[c].on => read_TMU_TCNTch(ch'[c], clk') >= 0]_vars
=============================================================================
