-------------------------------- MODULE Intc --------------------------------
(***************************************************************************)
(* What the interrupt controller of the SH4 promises: of the sources that  *)
(* are raised, enabled and above the level masked by SR, the one with the  *)
(* highest level is taken, and among equals the one with the highest       *)
(* number.  Nothing is cached.  Sh4Intc implements it with sorted bits.    *)
(***************************************************************************)
EXTENDS Naturals

CONSTANTS
    Sources,    \* InterruptID, numbers
    Highest,    \* the highest priority level
    ResetLevel,     \* priorities after a reset
    ResetEnabled    \* sources enabled after a reset

VARIABLES
    raised, enabled,    \* sets of sources
    level,              \* priority of each source
    bl, imask,          \* SR.BL, SR.IMASK
    slot,               \* in the delay slot of RTE
    intevt              \* source taken last, {} if none

vars == <<raised, enabled, level, bl, imask, slot, intevt>>

Levels == 0..Highest

\* What the CPU may take when SR holds b and m.
Wanted(b, m) == {s \in raised \cap enabled : ~ b /\ level[s] > m}

Outranks(s, t) == level[s] > level[t] \/ (level[s] = level[t] /\ s > t)

\* The CPU takes the top interrupt of a set: INTEVT is set, others are blocked.
Take(set) ==
    /\ \E s \in set : intevt' = {s} /\ \A t \in set \ {s} : Outranks(s, t)
    /\ bl' = TRUE

Init ==
    /\ raised = {} /\ enabled = ResetEnabled /\ level = ResetLevel
    /\ bl = TRUE /\ imask = Highest /\ slot = FALSE /\ intevt = {}

\* Devices raise and withdraw their interrupts, enable or disable one.
Device ==
    /\ raised' \subseteq Sources
    /\ \E s \in Sources : enabled' \in {enabled, enabled \cup {s}, enabled \ {s}}
    /\ UNCHANGED <<level, bl, imask, slot, intevt>>

Priority ==
    /\ level' \in [Sources -> Levels]
    /\ UNCHANGED <<raised, enabled, bl, imask, slot, intevt>>

\* The end of a time slice.
Accept ==
    /\ ~ slot /\ Take(Wanted(bl, imask))
    /\ UNCHANGED <<raised, enabled, level, imask, slot>>

\* SR is loaded; an interrupt that it lets through is taken at once.
LoadSR ==
    /\ \E b \in BOOLEAN, m \in Levels :
          /\ slot => b = bl /\ m = imask
          /\ imask' = m
          /\ \/ Take(Wanted(b, m))
             \/ Wanted(b, m) = {} /\ bl' = b /\ UNCHANGED intevt
    /\ slot' = FALSE
    /\ UNCHANGED <<raised, enabled, level>>

\* RTE restores SR before its delay slot; no interrupt is taken in the slot.
EnterSlot ==
    /\ ~ slot /\ slot' = TRUE /\ bl' \in BOOLEAN /\ imask' \in Levels
    /\ UNCHANGED <<raised, enabled, level, intevt>>

Exception == bl' = TRUE /\ UNCHANGED <<raised, enabled, level, imask, slot, intevt>>

Reset ==
    /\ raised' = {} /\ enabled' = ResetEnabled /\ level' = ResetLevel
    /\ bl' = TRUE /\ imask' = Highest /\ slot' = FALSE
    /\ intevt' = {}

Next ==
    \/ Device \/ Priority \/ Accept \/ LoadSR \/ EnterSlot \/ Exception \/ Reset

Spec == Init /\ [][Next]_vars
=============================================================================
