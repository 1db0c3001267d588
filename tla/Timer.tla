------------------------------- MODULE Timer -------------------------------
(***************************************************************************)
(* What the timer unit of the SH4 promises: down-counters driven by a free- *)
(* running clock through a prescaler.  A counter that has gone below zero   *)
(* is reloaded at some later moment, by adding its period, and flags an     *)
(* underflow; nothing else changes what it has counted.                     *)
(***************************************************************************)
EXTENDS Integers

CONSTANTS
    Channels,
    Scales,     \* divisors of the prescalers
    Period,     \* the clock is read modulo a multiple of all of them
    Periods     \* reload values

VARIABLES clock, count, on, scale, period, flag,
          irq     \* interrupt requests: the flags

vars == <<clock, count, on, scale, period, flag, irq>>

Init ==
    /\ clock \in 0 .. Period - 1
    /\ count \in [Channels -> Periods] /\ on = [c \in Channels |-> FALSE]
    /\ scale \in [Channels -> Scales] /\ period \in [Channels -> Periods]
    /\ flag = [c \in Channels |-> FALSE] /\ irq = flag

\* k cycles pass: a running counter goes down at every edge of its prescaler.
Advance(k) ==
    /\ clock' = (clock + k) % Period
    /\ count' = [c \in Channels |->
                   IF on[c] THEN count[c] - ((clock + k) \div scale[c] - clock \div scale[c])
                   ELSE count[c]]
    /\ UNCHANGED <<on, scale, period, flag>>

\* The counters of S are reloaded; one whose period has passed already is not
\* made to count it twice.
Underflow(S) ==
    /\ \A c \in S : count[c] < 0
    /\ count' = [c \in Channels |->
                   IF c \notin S THEN count[c]
                   ELSE IF count[c] + period[c] < 0 THEN 0 ELSE count[c] + period[c]]
    /\ flag' = [c \in Channels |-> flag[c] \/ c \in S]
    /\ UNCHANGED <<clock, on, scale, period>>

Write(c) ==
    /\ \E v \in Periods : count' = [count EXCEPT ![c] = v]
    /\ UNCHANGED <<clock, on, scale, period, flag>>

SetPeriod(c) ==
    /\ \E v \in Periods : period' = [period EXCEPT ![c] = v]
    /\ UNCHANGED <<clock, count, on, scale, flag>>

\* The flag is software's to set and clear.
SetControl(c) ==
    /\ \E s \in Scales : scale' = [scale EXCEPT ![c] = s]
    /\ \E f \in BOOLEAN : flag' = [flag EXCEPT ![c] = f]
    /\ UNCHANGED <<clock, count, on, period>>

StartStop ==
    /\ on' \in [Channels -> BOOLEAN]
    /\ UNCHANGED <<clock, count, scale, period, flag>>

Reset == Init'

Next ==
    /\ \/ \E k \in 1 .. Period : Advance(k)
       \/ \E S \in SUBSET Channels : Underflow(S)
       \/ \E c \in Channels : Write(c) \/ SetPeriod(c) \/ SetControl(c)
       \/ StartStop \/ Reset
    /\ irq' = flag'

Spec == Init /\ [][Next]_vars
=============================================================================
