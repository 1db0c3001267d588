------------------------------ MODULE HollyIntc ------------------------------
(***************************************************************************)
(* The interrupt controller of the Holly chip (core/hw/holly/holly_intc.cpp)*)
(* in front of that of the SH4.  Its status words (normal, external, error *)
(* and, on a Naomi 2, normal of the second CLX) are masked for each of the *)
(* three IRL levels; each function that changes a word has to tell the SH4.*)
(***************************************************************************)
EXTENDS Sh4Intc

CONSTANTS
    Bits,       \* bits of a status word
    Naomi2,     \* settings.platform.isNaomi2()
    Raisable    \* bound: the types of interrupt that devices raise

VARIABLES
    ist,        \* SB_ISTNRM, SB_ISTEXT, SB_ISTERR, SB_ISTNRM1: sets of bits
    iml,        \* SB_IML6NRM ... SB_IML2ERR, by IRL source and type
    lost        \* history: IRL sources not updated since a soft reset

hollyVars == <<ist, iml, lost>>
vars == <<intcVars, hollyVars>>

Types == {"NRM", "EXT", "ERR"}
Irl == 0..(Irls - 1)

ASSUME HollyAssumption == Naomi2 \in BOOLEAN /\ Raisable \subseteq Types

\* The condition that asic_RL6Pending(), RL4 and RL2 compute, for IRL source i.
Active(i, status, mask) ==
    \/ \E t \in Types : status[t] \cap mask[i][t] # {}
    \/ status["NRM1"] \cap mask[i]["NRM"] # {}

\* asic_RLxPending() for the IRL sources of a set, once ist and iml are changed.
RLPending(set) ==
    /\ UNCHANGED <<tables, vmask, srimask, sr>>
    /\ Pend(set, {i \in set : Active(i, ist', iml')})
    /\ lost' = lost \ set

-----------------------------------------------------------------------------
asic_RaiseInterrupt(type, bit) ==
    /\ ist' = [ist EXCEPT ![type] = @ \cup {bit}] /\ UNCHANGED iml
    /\ RLPending(Irl)

\* A normal interrupt is set in both CLX.
asic_RaiseInterruptBothCLX(type, bit) ==
    /\ Naomi2
    /\ ist' = [t \in DOMAIN ist |->
                 IF t = type \/ (type = "NRM" /\ t = "NRM1") THEN ist[t] \cup {bit}
                 ELSE ist[t]]
    /\ UNCHANGED iml
    /\ RLPending(Irl)

asic_CancelInterrupt(type, bit) ==
    /\ ist' = [ist EXCEPT ![type] = @ \ {bit}] /\ UNCHANGED iml
    /\ RLPending(Irl)

\* Writing a 1 clears the interrupt, of the CLX the address belongs to.
Write_SB_ISTNRM(clxb, data) ==
    /\ ist' = [ist EXCEPT ![IF Naomi2 /\ clxb THEN "NRM1" ELSE "NRM"] = @ \ data]
    /\ UNCHANGED iml
    /\ RLPending(Irl)

Write_SB_ISTERR(data) ==
    /\ ist' = [ist EXCEPT !["ERR"] = @ \ data] /\ UNCHANGED iml
    /\ RLPending(Irl)

\* Mutant of Write_SB_IML: the level that is masked is not updated.
Write_SB_IML_Silent(i, type, data) ==
    /\ iml' = [iml EXCEPT ![i][type] = data]
    /\ UNCHANGED <<intcVars, ist, lost>>

\* Write_SB_IML6NRM() ... Write_SB_IML2ERR(): writes through the second CLX are
\* ignored; only the level of the register is updated.
Write_SB_IML(i, type, data) ==
    /\ iml' = [iml EXCEPT ![i][type] = data] /\ UNCHANGED ist
    /\ RLPending({i})

Clear == [t \in Types \cup {"NRM1"} |-> {}]
ClearMasks == [i \in Irl |-> [t \in Types |-> {}]]

\* dc_reset(true): all registers of Holly are cleared.
hard_reset ==
    /\ interrupts_reset
    /\ ist' = Clear /\ iml' = ClearMasks /\ lost' = {}

\* dc_reset(false): sb_Reset() clears only the two normal words, then
\* interrupts_reset() forgets every pending bit.
soft_reset ==
    /\ interrupts_reset
    /\ ist' = [ist EXCEPT !["NRM"] = {}, !["NRM1"] = {}] /\ UNCHANGED iml
    /\ lost' = Irl

HollyInit == Init /\ ist = Clear /\ iml = ClearMasks /\ lost = {}

HollyNext ==
    \/ \E t \in Raisable, b \in Bits :
          \/ asic_RaiseInterrupt(t, b) \/ asic_CancelInterrupt(t, b)
          \/ asic_RaiseInterruptBothCLX(t, b)
    \/ \E clxb \in BOOLEAN, data \in SUBSET Bits : Write_SB_ISTNRM(clxb, data)
    \/ \E data \in SUBSET Bits : Write_SB_ISTERR(data)
    \/ \E i \in Irl, t \in Raisable, data \in SUBSET Bits : Write_SB_IML(i, t, data)
    \/ hard_reset \/ soft_reset
    \/ (CpuNext \/ DeviceNext(Internal)) /\ UNCHANGED hollyVars

HollySpec == HollyInit /\ [][HollyNext]_vars

-----------------------------------------------------------------------------
(* Properties *)

\* The IRL bits of the SH4 follow Holly through every change of a status word,
\* of a mask and of the order of the bits: a source is raised exactly when one
\* of its interrupts is set and unmasked.  The one exception is what a soft reset
\* leaves in the external and error words: the SH4 does not know of it until
\* Holly updates the level again.
IrlIsCurrent ==
    \A i \in Irl :
        /\ i \in Raised => Active(i, ist, iml)
        /\ Active(i, ist, iml) => i \in Raised \/ i \in lost

\* An interrupt of Holly is taken only while it is set and unmasked at the level
\* that is taken, and when none of a higher unmasked level, or of the SH4, is due.
TakenIsDue ==
    [][\A i \in Irl : intevt' = {i} =>
         /\ Active(i, ist, iml)
         /\ \A j \in Irl \ lost : Active(j, ist, iml) => IrlLevel[j] <= IrlLevel[i]
         /\ \A s \in Internal \cap Raised \cap Enabled :
               Level(ipr, s) <= IrlLevel[i]]_intevt
=============================================================================
