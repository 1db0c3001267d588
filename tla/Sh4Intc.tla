------------------------------- MODULE Sh4Intc -------------------------------
(***************************************************************************)
(* The interrupt controller of the SH4 (core/hw/sh4/sh4_interrupts.cpp,    *)
(* modules/intc.cpp) and where the interpreter takes interrupts.           *)
(*                                                                         *)
(* Sources are kept in words whose bits are sorted by priority: the bit of *)
(* a source moves whenever a priority register is written, pending and     *)
(* mask words move with it, and the masked word interrupt_pend that the    *)
(* CPU tests is a cache of four other variables.  A word is the set of its *)
(* bit numbers.                                                            *)
(***************************************************************************)
EXTENDS Naturals, FiniteSets

CONSTANTS
    Irls,       \* number of IRL sources, the first ones (3)
    Count,      \* sh4_INT_ID_COUNT
    Highest,    \* the highest level (15)
    IrlLevel,   \* IRLPriority: the fixed levels of the IRL sources
    Regs,       \* IPRA, IPRB, IPRC: each the set of its priority fields
    Field,      \* the field that holds the priority of each other source
    Timers      \* the sources that TMURegisters::reset() disables

Sources == 0..(Count - 1)
Internal == Irls..(Count - 1)
Levels == 0..Highest
Fields == UNION Regs

ASSUME SourceAssumption ==
    /\ Count \in Nat \ {0} /\ Irls \in 0..Count /\ Highest \in Nat
    /\ IrlLevel \in [0..(Irls - 1) -> Levels]
    /\ Field \in [Internal -> Fields]
    /\ Timers \subseteq Internal

VARIABLES
    ipr,            \* INTC_IPRA, INTC_IPRB and INTC_IPRC
    InterruptEnvId, InterruptBit, InterruptLevelBit,
    vpend, vmask,   \* interrupt_vpend, interrupt_vmask (a bit set: enabled)
    srimask,        \* decoded_srimask
    pend,           \* Sh4cntx.interrupt_pend
    bl, imask,      \* SR.BL, SR.IMASK
    slot,           \* in the delay slot of RTE: SR is restored, not decoded
    intevt          \* CCN_INTEVT: the source taken last, {} if none

tables == <<ipr, InterruptEnvId, InterruptBit, InterruptLevelBit>>
sr == <<bl, imask, slot, intevt>>
intcVars == <<tables, vpend, vmask, srimask, pend, sr>>

-----------------------------------------------------------------------------
\* GetPrLvl(), with the priority registers at p.
Level(p, s) == IF s < Irls THEN IrlLevel[s] ELSE p[Field[s]]

\* The loops of SIIDRebuild() number t before s.
Before(p, t, s) == Level(p, t) < Level(p, s) \/ (Level(p, t) = Level(p, s) /\ t < s)

\* Mutant of Rank: cnt starts at 1.
Rank_FromOne(p, s) == 1 + Cardinality({t \in Sources : Before(p, t, s)})

\* Mutant of Rank: sources of one level are numbered downwards.
Rank_Down(p, s) ==
    Cardinality({t \in Sources : Level(p, t) < Level(p, s)
                                   \/ (Level(p, t) = Level(p, s) /\ t > s)})

\* The value of cnt when SIIDRebuild() comes to source s.
Rank(p, s) == Cardinality({t \in Sources : Before(p, t, s)})

Ranks(p) == [s \in Sources |-> Rank(p, s)]

\* The word with the bits of a set of sources.
Word(bit, set) == {bit[s] : s \in set}

\* The tables SIIDRebuild() fills: source of a bit, and the first
\* cnt bits, those of the sources of all levels up to one.
EnvIds(bit) == [n \in Word(bit, Sources) |-> CHOOSE s \in Sources : bit[s] = n]
LevelBits(p) ==
    [l \in Levels |-> 0..(Cardinality({s \in Sources : Level(p, s) <= l}) - 1)]

\* SRdecode(): the bits that SR lets through, with the level words at lb.
Decoded(lb, b, m) == IF b THEN {} ELSE Sources \ lb[m]

\* Mutant of SIIDRebuild: the pending word is not sorted again.
SIIDRebuild_KeepPend(p, bit, vp, vm, b, m) ==
    /\ ipr' = p
    /\ InterruptBit' = Ranks(p)
    /\ InterruptEnvId' = EnvIds(InterruptBit')
    /\ InterruptLevelBit' = LevelBits(p)
    /\ vpend' = vp
    /\ vmask' = Word(InterruptBit', {s \in Sources : bit[s] \in vm})
    /\ srimask' = Decoded(InterruptLevelBit', b, m)
    /\ pend' = vpend' \cap vmask' \cap srimask'

\* Mutant of SIIDRebuild: SRdecode() is not called at the end.
SIIDRebuild_NoDecode(p, bit, vp, vm, b, m) ==
    /\ ipr' = p
    /\ InterruptBit' = Ranks(p)
    /\ InterruptEnvId' = EnvIds(InterruptBit')
    /\ InterruptLevelBit' = LevelBits(p)
    /\ vpend' = Word(InterruptBit', {s \in Sources : bit[s] \in vp})
    /\ vmask' = Word(InterruptBit', {s \in Sources : bit[s] \in vm})
    /\ UNCHANGED srimask
    /\ pend' = vpend' \cap vmask' \cap srimask

\* SIIDRebuild() when the priorities are p, from the bits, pending and mask
\* words bit, vp and vm; it ends in SRdecode(), with SR at b and m.
SIIDRebuild(p, bit, vp, vm, b, m) ==
    /\ ipr' = p
    /\ InterruptBit' = Ranks(p)
    /\ InterruptEnvId' = EnvIds(InterruptBit')
    /\ InterruptLevelBit' = LevelBits(p)
    /\ vpend' = Word(InterruptBit', {s \in Sources : bit[s] \in vp})
    /\ vmask' = Word(InterruptBit', {s \in Sources : bit[s] \in vm})
    /\ srimask' = Decoded(InterruptLevelBit', b, m)
    /\ pend' = vpend' \cap vmask' \cap srimask'

\* InterruptPend() on the sources of `of': those of `on' are set.
Pend(of, on) ==
    /\ vpend' = (vpend \ Word(InterruptBit, of)) \cup Word(InterruptBit, on)
    /\ pend' = vpend' \cap vmask' \cap srimask

\* Mutant of TopBit: the word is searched from the other end.
TopBit_Lowest(word) == CHOOSE n \in word : \A k \in word : n <= k

\* The bit that bitscanrev() finds.
TopBit(word) == CHOOSE n \in word : \A k \in word : k <= n

\* UpdateSR() with SR at b and m, then UpdateINTC() if something is pending:
\* Do_Interrupt() sets BL and updates SR again.
UpdateSR(b, m) ==
    LET mask == Decoded(InterruptLevelBit, b, m)
        word == vpend \cap vmask \cap mask
    IN  /\ imask' = m
        /\ \/ /\ word = {}
              /\ bl' = b /\ srimask' = mask /\ pend' = {} /\ UNCHANGED intevt
           \/ /\ word # {}
              /\ intevt' = {InterruptEnvId[TopBit(word)]}
              /\ bl' = TRUE /\ srimask' = {} /\ pend' = {}

-----------------------------------------------------------------------------
(* Actions *)

ResetIpr == [f \in Fields |-> 0]

\* The state interrupts_reset() and the resets after it leave behind; SR is
\* 0x700000F0.
Init ==
    /\ ipr = ResetIpr
    /\ InterruptBit = Ranks(ResetIpr)
    /\ InterruptEnvId = EnvIds(InterruptBit)
    /\ InterruptLevelBit = LevelBits(ResetIpr)
    /\ vpend = {} /\ vmask = Word(InterruptBit, Sources \ Timers)
    /\ srimask = {} /\ pend = {}
    /\ bl = TRUE /\ imask = Highest /\ slot = FALSE /\ intevt = {}

\* interrupts_reset() gives every source the bit of its number and rebuilds the
\* tables; the timers then disable their interrupts.  The CPU is stopped.
interrupts_reset ==
    /\ ~ slot
    /\ bl' = TRUE /\ imask' = Highest /\ slot' = FALSE /\ intevt' = {}
    /\ SIIDRebuild(ResetIpr, [s \in Sources |-> s], {}, Sources \ Timers,
                   TRUE, Highest)

\* write_INTC_IPRA(), IPRB, IPRC: tables are only rebuilt when the value changes.
write_INTC_IPR(reg, data) ==
    LET new == [f \in Fields |-> IF f \in reg THEN data[f] ELSE ipr[f]] IN
    /\ ipr # new
    /\ SIIDRebuild(new, InterruptBit, vpend, vmask, bl, imask)
    /\ UNCHANGED sr

\* A device sets or resets the pending bit of its source ...
InterruptPend(s, v) ==
    /\ UNCHANGED <<tables, vmask, srimask, sr>>
    /\ Pend({s}, IF v THEN {s} ELSE {})

\* ... or its pending and its mask bit, from its control register.
InterruptMask(s, v, e) ==
    /\ vmask' = IF e THEN vmask \cup {InterruptBit[s]} ELSE vmask \ {InterruptBit[s]}
    /\ Pend({s}, IF v THEN {s} ELSE {})
    /\ UNCHANGED <<tables, srimask, sr>>

\* UpdateSystem_INTC() at the end of a slice, or in a sleep instruction, takes
\* an interrupt when interrupt_pend is not 0.
UpdateINTC ==
    /\ ~ slot /\ pend # {}
    /\ intevt' = {InterruptEnvId[TopBit(pend)]}
    /\ bl' = TRUE /\ srimask' = {} /\ pend' = {}
    /\ UNCHANGED <<tables, vpend, vmask, imask, slot>>

\* LDC and LDC.L to SR.
ldc_SR(b, m) ==
    /\ ~ slot
    /\ UpdateSR(b, m)
    /\ UNCHANGED <<tables, vpend, vmask, slot>>

\* RTE: SR is restored from SSR, which the guest may have set to anything, its
\* delay slot is executed, and then SR is decoded.
rte_slot(b, m) ==
    /\ ~ slot
    /\ slot' = TRUE /\ bl' = b /\ imask' = m
    /\ UNCHANGED <<tables, vpend, vmask, srimask, pend, intevt>>

rte_end ==
    /\ slot /\ slot' = FALSE
    /\ UpdateSR(bl, imask)
    /\ UNCHANGED <<tables, vpend, vmask>>

\* Do_Exception(): fatal when SR.BL is set.
Do_Exception ==
    /\ ~ slot /\ ~ bl
    /\ bl' = TRUE /\ srimask' = {} /\ pend' = {}
    /\ UNCHANGED <<tables, vpend, vmask, imask, slot, intevt>>

\* What the CPU and the guest do.
CpuNext ==
    \/ \E reg \in Regs : \E data \in [reg -> Levels] : write_INTC_IPR(reg, data)
    \/ UpdateINTC \/ rte_end \/ Do_Exception
    \/ \E b \in BOOLEAN, m \in Levels : ldc_SR(b, m) \/ rte_slot(b, m)

\* What the devices on the SH4 do.
DeviceNext(set) ==
    \/ \E s \in set, v \in BOOLEAN : InterruptPend(s, v)
    \/ \E s \in set, v, e \in BOOLEAN : InterruptMask(s, v, e)

Next == CpuNext \/ DeviceNext(Sources) \/ interrupts_reset

Spec == Init /\ [][Next]_intcVars

-----------------------------------------------------------------------------
(* Properties *)

\* Types; the sorted bits are a numbering of the sources.
TypeOK ==
    /\ ipr \in [Fields -> Levels]
    /\ InterruptBit \in [Sources -> Sources]
    /\ InterruptEnvId \in [Sources -> Sources]
    /\ InterruptLevelBit \in [Levels -> SUBSET Sources]
    /\ {vpend, vmask, srimask, pend, intevt} \subseteq SUBSET Sources
    /\ {bl, slot} \subseteq BOOLEAN /\ imask \in Levels

Raised == {s \in Sources : InterruptBit[s] \in vpend}
Enabled == {s \in Sources : InterruptBit[s] \in vmask}

\* interrupt_pend, the word the CPU tests instead of looking at the sources, is
\* never stale: it holds exactly the sources that are raised, enabled, and above
\* the level of SR, except between RTE's delay slot and the decoding of SR.
PendIsExact ==
    ~ slot => {s \in Sources : InterruptBit[s] \in pend}
                 = {s \in Raised \cap Enabled : ~ bl /\ Level(ipr, s) > imask}

\* "Higher priorities get allocated into higher bits": the order of the bits is
\* the order of the levels, no two sources share a bit, and the event number
\* that goes with a bit is the one of its source.
TablesSorted ==
    \A s, t \in Sources :
        /\ Level(ipr, s) < Level(ipr, t) => InterruptBit[s] < InterruptBit[t]
        /\ s < t /\ Level(ipr, s) = Level(ipr, t) => InterruptBit[s] < InterruptBit[t]
        /\ InterruptEnvId[InterruptBit[s]] = s

Abstract == INSTANCE Intc WITH
    raised <- Raised, enabled <- Enabled,
    level <- [s \in Sources |-> Level(ipr, s)],
    ResetLevel <- [s \in Sources |-> Level(ResetIpr, s)],
    ResetEnabled <- Sources \ Timers

\* The sorted words take, at every point where the CPU looks at them, the
\* interrupt that the plain controller would take, and no other change of
\* priorities, masks or SR raises, loses or moves one.
ImplementsIntc == Abstract!Spec
=============================================================================
