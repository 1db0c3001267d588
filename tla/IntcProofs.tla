----------------------------- MODULE IntcProofs -----------------------------
(***************************************************************************)
(* Proofs about Sh4Intc and HollyIntc, for any number of sources, levels,  *)
(* registers and status bits.                                              *)
(*                                                                         *)
(* The tables are functions of the priority registers, the pending word is *)
(* the conjunction of three others, and the SR mask is the decoded SR      *)
(* outside RTE's delay slot: that is the inductive invariant.  What makes  *)
(* it useful is that the ranks number the sources without gaps, in the     *)
(* order of their levels.                                                  *)
(*                                                                         *)
(* Holly's updates keep this invariant as well; in addition the IRL        *)
(* sources are always enabled, since no device of the SH4 has them.        *)
(***************************************************************************)
EXTENDS HollyIntc, FiniteSetTheorems, TLAPS

TablesInv ==
    /\ ipr \in [Fields -> Levels]
    /\ InterruptBit = Ranks(ipr)
    /\ InterruptEnvId = EnvIds(InterruptBit)
    /\ InterruptLevelBit = LevelBits(ipr)

WordsInv ==
    /\ vpend \subseteq Sources /\ vmask \subseteq Sources
    /\ srimask \subseteq Sources /\ intevt \subseteq Sources
    /\ pend = vpend \cap vmask \cap srimask

SrInv ==
    /\ bl \in BOOLEAN /\ slot \in BOOLEAN /\ imask \in Levels
    /\ ~ slot => srimask = Decoded(InterruptLevelBit, bl, imask)

IInv == TablesInv /\ WordsInv /\ SrInv

-----------------------------------------------------------------------------
(* The ranks of the sources *)

\* GetPrLvl() is a level, for every source and every value of the registers.
LEMMA LevelType ==
  ASSUME NEW p \in [Fields -> Levels], NEW s \in Sources
  PROVE  Level(p, s) \in Levels /\ Level(p, s) \in Nat
<1>1. CASE s < Irls
  <2>1. s \in 0..(Irls - 1)  BY <1>1, SourceAssumption DEF Sources
  <2> QED  BY <1>1, <2>1, SourceAssumption DEF Level, Levels
<1>2. CASE ~ (s < Irls)
  <2>1. s \in Internal  BY <1>2, SourceAssumption DEF Sources, Internal
  <2>2. Field[s] \in Fields  BY <2>1, SourceAssumption
  <2> QED  BY <1>2, <2>2, SourceAssumption DEF Level, Levels
<1> QED  BY <1>1, <1>2

\* There are Count sources.
LEMMA SourcesFinite == IsFiniteSet(Sources) /\ Cardinality(Sources) = Count
BY FS_Interval, SourceAssumption DEF Sources

\* The order in which SIIDRebuild() numbers the sources is total.
LEMMA BeforeTotal ==
  ASSUME NEW p \in [Fields -> Levels], NEW s \in Sources, NEW t \in Sources, s # t
  PROVE  Before(p, s, t) \/ Before(p, t, s)
BY LevelType, SourceAssumption DEF Before, Sources

\* Two sources never come before each other.
LEMMA BeforeAsymmetric ==
  ASSUME NEW p \in [Fields -> Levels], NEW s \in Sources, NEW t \in Sources,
         Before(p, s, t)
  PROVE  ~ Before(p, t, s) /\ s # t
BY LevelType, SourceAssumption DEF Before, Sources

\* A set of sources has a cardinality, and a larger set a larger one.
LEMMA SmallerSet ==
  ASSUME NEW A, NEW B, A \subseteq B, B \subseteq Sources
  PROVE  /\ Cardinality(A) \in Nat /\ Cardinality(B) \in Nat
         /\ Cardinality(A) <= Cardinality(B)
         /\ A # B => Cardinality(A) < Cardinality(B)
<1>1. IsFiniteSet(B) /\ Cardinality(B) \in Nat  BY FS_Subset, FS_CardinalityType, SourcesFinite
<1>2. IsFiniteSet(A) /\ Cardinality(A) <= Cardinality(B)
      /\ (Cardinality(B) = Cardinality(A) => B = A)
  BY <1>1, FS_Subset
<1>3. Cardinality(A) \in Nat  BY <1>2, FS_CardinalityType
<1> QED  BY <1>1, <1>2, <1>3

\* The bit of a source is smaller than that of any source numbered after it.
LEMMA RankBefore ==
  ASSUME NEW p \in [Fields -> Levels], NEW s \in Sources, NEW t \in Sources,
         Before(p, s, t)
  PROVE  Rank(p, s) < Rank(p, t)
<1> DEFINE A == {u \in Sources : Before(p, u, s)}
           B == {u \in Sources : Before(p, u, t)}
<1>1. A \subseteq B
  <2> SUFFICES ASSUME NEW u \in Sources, Before(p, u, s)  PROVE Before(p, u, t)
    OBVIOUS
  <2>1. Level(p, u) \in Nat /\ Level(p, s) \in Nat /\ Level(p, t) \in Nat  BY LevelType
  <2> QED  BY <2>1, SourceAssumption DEF Before, Sources
<1>2. s \in B /\ s \notin A  BY BeforeAsymmetric
<1>3. B \subseteq Sources  OBVIOUS
<1> HIDE DEF A, B
<1>4. Cardinality(A) < Cardinality(B)  BY <1>1, <1>2, <1>3, SmallerSet
<1> QED  BY <1>4 DEF Rank, A, B

\* cnt stays below the number of sources.
LEMMA RankType ==
  ASSUME NEW p \in [Fields -> Levels], NEW s \in Sources
  PROVE  Rank(p, s) \in Sources
<1> DEFINE A == {u \in Sources : Before(p, u, s)}
<1>1. A \subseteq Sources /\ s \notin A  BY BeforeAsymmetric
<1> HIDE DEF A
<1>2. Cardinality(A) \in Nat /\ Cardinality(A) < Cardinality(Sources)
  BY <1>1, SmallerSet
<1> QED  BY <1>2, SourcesFinite, SourceAssumption DEF Rank, A, Sources

\* No two sources share a bit.
LEMMA RankInjective ==
  ASSUME NEW p \in [Fields -> Levels], NEW s \in Sources, NEW t \in Sources, s # t
  PROVE  Rank(p, s) # Rank(p, t)
<1>1. Rank(p, s) \in Nat /\ Rank(p, t) \in Nat  BY RankType, SourceAssumption DEF Sources
<1>2. Rank(p, s) < Rank(p, t) \/ Rank(p, t) < Rank(p, s)  BY BeforeTotal, RankBefore
<1> QED  BY <1>1, <1>2

\* No bit is left without a source.
LEMMA RankSurjective ==
  ASSUME NEW p \in [Fields -> Levels]
  PROVE  /\ Ranks(p) \in [Sources -> Sources]
         /\ Word(Ranks(p), Sources) = Sources
<1>1. Ranks(p) \in [Sources -> Sources]  BY RankType DEF Ranks
<1>2. \A s, t \in Sources : Ranks(p)[s] = Ranks(p)[t] => s = t  BY RankInjective DEF Ranks
<1>3. Ranks(p) \in Injection(Sources, Sources)
  BY <1>1, <1>2 DEF Injection, IsInjective
<1>4. Ranks(p) \in Surjection(Sources, Sources)  BY <1>3, FS_Injection, SourcesFinite
<1> QED  BY <1>1, <1>4 DEF Surjection, Word

\* The first bits, up to the number of sources of low level, are their bits.
LEMMA RankLevel ==
  ASSUME NEW p \in [Fields -> Levels], NEW s \in Sources, NEW l \in Levels
  PROVE  Rank(p, s) \in LevelBits(p)[l] <=> Level(p, s) <= l
<1> DEFINE A == {u \in Sources : Before(p, u, s)}
           B == {u \in Sources : Level(p, u) <= l}
<1>1. LevelBits(p)[l] = 0..(Cardinality(B) - 1)  BY DEF LevelBits
<1>2. Rank(p, s) = Cardinality(A)  BY DEF Rank
<1>3. A \subseteq Sources /\ B \subseteq Sources  OBVIOUS
<1>4. Level(p, s) \in Nat /\ l \in Nat  BY LevelType, SourceAssumption DEF Levels
<1>5. Cardinality(A) \in Nat /\ Cardinality(B) \in Nat
  <2> HIDE DEF A, B
  <2> QED  BY <1>3, SmallerSet
<1>6. ASSUME Level(p, s) <= l  PROVE Cardinality(A) < Cardinality(B)
  <2>1. A \subseteq B
    <3> SUFFICES ASSUME NEW u \in Sources, Before(p, u, s)  PROVE Level(p, u) <= l
      OBVIOUS
    <3>1. Level(p, u) \in Nat  BY LevelType
    <3> QED  BY <3>1, <1>4, <1>6 DEF Before
  <2>2. s \in B /\ s \notin A  BY <1>6, BeforeAsymmetric
  <2> HIDE DEF A, B
  <2> QED  BY <2>1, <2>2, <1>3, SmallerSet
<1>7. ASSUME ~ (Level(p, s) <= l)  PROVE Cardinality(B) <= Cardinality(A)
  <2>1. B \subseteq A
    <3> SUFFICES ASSUME NEW u \in Sources, Level(p, u) <= l  PROVE Before(p, u, s)
      OBVIOUS
    <3>1. Level(p, u) \in Nat  BY LevelType
    <3> QED  BY <3>1, <1>4, <1>7 DEF Before
  <2> HIDE DEF A, B
  <2> QED  BY <2>1, <1>3, SmallerSet
<1> HIDE DEF A, B
<1> QED  BY <1>1, <1>2, <1>4, <1>5, <1>6, <1>7

\* The level words are words of source bits.
LEMMA LevelBitsType ==
  ASSUME NEW p \in [Fields -> Levels]
  PROVE  LevelBits(p) \in [Levels -> SUBSET Sources]
<1> SUFFICES ASSUME NEW l \in Levels
             PROVE 0..(Cardinality({s \in Sources : Level(p, s) <= l}) - 1) \subseteq Sources
  BY DEF LevelBits
<1> DEFINE B == {s \in Sources : Level(p, s) <= l}
<1>1. B \subseteq Sources  OBVIOUS
<1> HIDE DEF B
<1>2. Cardinality(B) \in Nat /\ Cardinality(B) <= Cardinality(Sources)  BY <1>1, SmallerSet
<1>3. 0..(Cardinality(B) - 1) \subseteq 0..(Count - 1)
  BY <1>2, SourcesFinite, SourceAssumption
<1> QED  BY <1>3 DEF B, Sources

\* InterruptEnvId inverts InterruptBit.
LEMMA EnvIdsInvert ==
  ASSUME NEW p \in [Fields -> Levels]
  PROVE  /\ EnvIds(Ranks(p)) \in [Sources -> Sources]
         /\ \A s \in Sources : EnvIds(Ranks(p))[Ranks(p)[s]] = s
<1> DEFINE bit == Ranks(p)
<1>1. bit \in [Sources -> Sources] /\ Word(bit, Sources) = Sources  BY RankSurjective
<1>2. \A s, t \in Sources : bit[s] = bit[t] => s = t  BY RankInjective DEF Ranks
<1>3. \A n \in Sources : \E s \in Sources : bit[s] = n  BY <1>1 DEF Word
<1> HIDE DEF bit
<1>4. EnvIds(bit) = [n \in Sources |-> CHOOSE s \in Sources : bit[s] = n]
  BY <1>1 DEF EnvIds
<1>5. \A n \in Sources : EnvIds(bit)[n] \in Sources /\ bit[EnvIds(bit)[n]] = n
  BY <1>3, <1>4
<1>6. EnvIds(bit) \in [Sources -> Sources]  BY <1>4, <1>5
<1>7. \A s \in Sources : EnvIds(bit)[bit[s]] = s  BY <1>1, <1>2, <1>5
<1> QED  BY <1>6, <1>7 DEF bit

\* bitscanrev() finds the highest bit of a word that is not 0.
LEMMA TopBitIsTop ==
  ASSUME NEW W, W \subseteq Sources, W # {}
  PROVE  TopBit(W) \in W /\ \A k \in W : k <= TopBit(W)
<1> DEFINE T == {Count - k : k \in W}
<1>1. T \subseteq Nat /\ T # {}
  <2>1. \A k \in W : Count - k \in Nat  BY SourceAssumption DEF Sources
  <2>2. T \subseteq Nat  BY <2>1
  <2>3. PICK k \in W : TRUE  OBVIOUS
  <2>4. Count - k \in T  OBVIOUS
  <2> QED  BY <2>2, <2>4
<1>2. \E x \in T : \A y \in T : ~ (<<y, x>> \in OpToRel(<, Nat))
  BY <1>1, NatLessThanWellFounded, WFMin
<1>3. PICK x \in T : \A y \in T : ~ (<<y, x>> \in OpToRel(<, Nat))  BY <1>2
<1>4. \A y \in T : ~ (y < x)  BY <1>1, <1>3 DEF OpToRel
<1>5. PICK n \in W : x = Count - n  OBVIOUS
<1>6. \A k \in W : k <= n
  <2> SUFFICES ASSUME NEW k \in W  PROVE k <= n  OBVIOUS
  <2>1. ~ (Count - k < Count - n)  BY <1>4, <1>5
  <2>2. k \in Nat /\ n \in Nat  BY SourceAssumption DEF Sources
  <2> QED  BY <2>1, <2>2, SourceAssumption
<1> QED  BY <1>5, <1>6 DEF TopBit

-----------------------------------------------------------------------------
(* The inductive invariant *)

\* A word of the bits of some sources holds the bits of those and no others.
LEMMA WordMember ==
  ASSUME NEW p \in [Fields -> Levels], NEW set, set \subseteq Sources
  PROVE  /\ Word(Ranks(p), set) \subseteq Sources
         /\ \A s \in Sources : Ranks(p)[s] \in Word(Ranks(p), set) <=> s \in set
<1> DEFINE bit == Ranks(p)
<1>1. bit \in [Sources -> Sources]  BY RankSurjective
<1>2. \A s, t \in Sources : bit[s] = bit[t] => s = t  BY RankInjective DEF Ranks
<1> HIDE DEF bit
<1>3. Word(bit, set) \subseteq Sources  BY <1>1 DEF Word
<1>4. \A s \in Sources : bit[s] \in Word(bit, set) <=> s \in set  BY <1>1, <1>2 DEF Word
<1> QED  BY <1>3, <1>4 DEF bit

\* SRdecode() lets through exactly the sources above the level of SR.
LEMMA DecodedMember ==
  ASSUME NEW p \in [Fields -> Levels], NEW b \in BOOLEAN, NEW m \in Levels
  PROVE  /\ Decoded(LevelBits(p), b, m) \subseteq Sources
         /\ \A s \in Sources :
               Ranks(p)[s] \in Decoded(LevelBits(p), b, m) <=> ~ b /\ Level(p, s) > m
<1>1. Decoded(LevelBits(p), b, m) \subseteq Sources  BY DEF Decoded
<1>2. ASSUME NEW s \in Sources
      PROVE Ranks(p)[s] \in Decoded(LevelBits(p), b, m) <=> ~ b /\ Level(p, s) > m
  <2>1. Ranks(p)[s] = Rank(p, s) /\ Rank(p, s) \in Sources  BY RankType DEF Ranks
  <2>2. Rank(p, s) \in LevelBits(p)[m] <=> Level(p, s) <= m  BY RankLevel
  <2>3. Level(p, s) \in Nat /\ m \in Nat  BY LevelType, SourceAssumption DEF Levels
  <2>4. Level(p, s) > m <=> ~ (Level(p, s) <= m)  BY <2>3
  <2> QED  BY <2>1, <2>2, <2>4 DEF Decoded
<1> QED  BY <1>1, <1>2

\* After a reset every priority is 0.
LEMMA ResetIprType == ResetIpr \in [Fields -> Levels]
BY SourceAssumption DEF ResetIpr, Levels

\* SIIDRebuild() leaves consistent tables and words, whatever it starts from.
LEMMA RebuildInv ==
  ASSUME NEW p \in [Fields -> Levels], NEW bit, NEW vp, NEW vm,
         NEW b \in BOOLEAN, NEW m \in Levels, SIIDRebuild(p, bit, vp, vm, b, m)
  PROVE  /\ TablesInv'
         /\ vpend' \subseteq Sources /\ vmask' \subseteq Sources /\ srimask' \subseteq Sources
         /\ pend' = vpend' \cap vmask' \cap srimask'
         /\ srimask' = Decoded(InterruptLevelBit', b, m)
<1>1. TablesInv'  BY DEF SIIDRebuild, TablesInv
<1>2. vpend' \subseteq Sources
  <2> DEFINE set == {s \in Sources : bit[s] \in vp}
  <2>1. set \subseteq Sources /\ vpend' = Word(Ranks(p), set)  BY DEF SIIDRebuild
  <2> QED  BY <2>1, WordMember
<1>3. vmask' \subseteq Sources
  <2> DEFINE set == {s \in Sources : bit[s] \in vm}
  <2>1. set \subseteq Sources /\ vmask' = Word(Ranks(p), set)  BY DEF SIIDRebuild
  <2> QED  BY <2>1, WordMember
<1>4. srimask' = Decoded(LevelBits(p), b, m) /\ InterruptLevelBit' = LevelBits(p)
  BY DEF SIIDRebuild
<1>5. srimask' \subseteq Sources  BY <1>4, DecodedMember
<1>6. pend' = vpend' \cap vmask' \cap srimask'  BY DEF SIIDRebuild
<1> QED  BY <1>1, <1>2, <1>3, <1>4, <1>5, <1>6

\* UpdateSR() decodes SR; what it takes is a source.
LEMMA UpdateSRInv ==
  ASSUME IInv, UNCHANGED <<tables, vpend, vmask>>, ~ slot',
         NEW b \in BOOLEAN, NEW m \in Levels, UpdateSR(b, m)
  PROVE  WordsInv' /\ bl' \in BOOLEAN /\ imask' \in Levels
         /\ srimask' = Decoded(InterruptLevelBit', bl', imask')
<1> DEFINE mask == Decoded(InterruptLevelBit, b, m)
           word == vpend \cap vmask \cap mask
<1>1. InterruptLevelBit' = InterruptLevelBit /\ vpend' = vpend /\ vmask' = vmask
  BY DEF tables
<1>2. imask' = m  BY DEF UpdateSR
<1>3. vpend \subseteq Sources /\ vmask \subseteq Sources /\ intevt \subseteq Sources
  BY DEF IInv, WordsInv
<1>4. mask \subseteq Sources  BY DecodedMember DEF IInv, TablesInv
<1>5. CASE word = {}
  <2>1. bl' = b /\ srimask' = mask /\ pend' = {} /\ intevt' = intevt
    BY <1>5 DEF UpdateSR
  <2> QED  BY <1>1, <1>2, <1>3, <1>4, <1>5, <2>1 DEF WordsInv
<1>6. CASE word # {}
  <2>1. bl' = TRUE /\ srimask' = {} /\ pend' = {}
        /\ intevt' = {InterruptEnvId[TopBit(word)]}
    BY <1>6 DEF UpdateSR
  <2>2. word \subseteq Sources  BY <1>3
  <2> HIDE DEF word
  <2>3. TopBit(word) \in Sources  BY <1>6, <2>2, TopBitIsTop
  <2>4. InterruptEnvId \in [Sources -> Sources]  BY EnvIdsInvert DEF IInv, TablesInv
  <2>5. intevt' \subseteq Sources  BY <2>1, <2>3, <2>4
  <2>6. Decoded(InterruptLevelBit', bl', imask') = {}  BY <2>1 DEF Decoded
  <2> QED  BY <1>1, <1>2, <1>3, <2>1, <2>5, <2>6 DEF WordsInv
<1> QED  BY <1>5, <1>6

\* A reset leaves consistent tables and words.
LEMMA InitInv == Init => IInv
<1> SUFFICES ASSUME Init PROVE IInv  OBVIOUS
<1>1. TablesInv  BY ResetIprType DEF Init, TablesInv
<1>2. WordsInv
  <2> DEFINE set == Sources \ Timers
  <2>1. set \subseteq Sources  OBVIOUS
  <2>2. vmask = Word(Ranks(ResetIpr), set)  BY DEF Init
  <2>3. vmask \subseteq Sources  BY <2>1, <2>2, WordMember, ResetIprType
  <2> QED  BY <2>3 DEF Init, WordsInv
<1>3. SrInv
  <2>1. Highest \in Levels  BY SourceAssumption DEF Levels
  <2>2. bl = TRUE /\ slot = FALSE /\ imask = Highest /\ srimask = {}  BY DEF Init
  <2>3. Decoded(InterruptLevelBit, bl, imask) = {}  BY <2>2 DEF Decoded
  <2> QED  BY <2>1, <2>2, <2>3 DEF SrInv
<1> QED  BY <1>1, <1>2, <1>3 DEF IInv

\* Every step, the rebuilding of the tables in the middle of anything included,
\* keeps the cached words in step with what they are computed from.
LEMMA NextInv == IInv /\ [Next]_intcVars => IInv'
<1> SUFFICES ASSUME IInv, [Next]_intcVars PROVE IInv'  OBVIOUS
<1>t. /\ bl \in BOOLEAN /\ slot \in BOOLEAN /\ imask \in Levels
      /\ vpend \subseteq Sources /\ vmask \subseteq Sources
      /\ srimask \subseteq Sources /\ intevt \subseteq Sources
      /\ pend = vpend \cap vmask \cap srimask
      /\ InterruptBit \in [Sources -> Sources] /\ InterruptEnvId \in [Sources -> Sources]
      /\ ipr \in [Fields -> Levels] /\ Highest \in Levels
  BY RankSurjective, EnvIdsInvert, SourceAssumption DEF IInv, TablesInv, WordsInv, SrInv, Levels
<1>1. ASSUME NEW reg \in Regs, NEW data \in [reg -> Levels], write_INTC_IPR(reg, data)
      PROVE IInv'
  <2> DEFINE new == [f \in Fields |-> IF f \in reg THEN data[f] ELSE ipr[f]]
  <2>1. new \in [Fields -> Levels]  BY <1>t
  <2>2. SIIDRebuild(new, InterruptBit, vpend, vmask, bl, imask) /\ UNCHANGED sr
    BY <1>1 DEF write_INTC_IPR
  <2> HIDE DEF new
  <2>3. /\ TablesInv'
        /\ vpend' \subseteq Sources /\ vmask' \subseteq Sources /\ srimask' \subseteq Sources
        /\ pend' = vpend' \cap vmask' \cap srimask'
        /\ srimask' = Decoded(InterruptLevelBit', bl, imask)
    BY <1>t, <2>1, <2>2, RebuildInv
  <2>4. bl' = bl /\ imask' = imask /\ slot' = slot /\ intevt' = intevt  BY <2>2 DEF sr
  <2> QED  BY <1>t, <2>3, <2>4 DEF IInv, WordsInv, SrInv
<1>2. CASE interrupts_reset
  <2>1. bl' = TRUE /\ imask' = Highest /\ slot' = FALSE /\ intevt' = {}
    BY <1>2 DEF interrupts_reset
  <2>2. SIIDRebuild(ResetIpr, [s \in Sources |-> s], {}, Sources \ Timers, TRUE, Highest)
    BY <1>2 DEF interrupts_reset
  <2>3. /\ TablesInv'
        /\ vpend' \subseteq Sources /\ vmask' \subseteq Sources /\ srimask' \subseteq Sources
        /\ pend' = vpend' \cap vmask' \cap srimask'
        /\ srimask' = Decoded(InterruptLevelBit', TRUE, Highest)
    BY <1>t, <2>2, ResetIprType, RebuildInv
  <2> QED  BY <1>t, <2>1, <2>3 DEF IInv, WordsInv, SrInv
<1>3. ASSUME NEW s \in Sources, NEW v \in BOOLEAN, InterruptPend(s, v)
      PROVE IInv'
  <2>1. UNCHANGED <<tables, vmask, srimask, sr>>  BY <1>3 DEF InterruptPend
  <2>2. vpend' \subseteq Sources /\ pend' = vpend' \cap vmask' \cap srimask'
    BY <1>t, <1>3, <2>1 DEF InterruptPend, Pend, Word
  <2>3. TablesInv' /\ SrInv'  BY <2>1 DEF IInv, TablesInv, SrInv, tables, sr
  <2>4. WordsInv'  BY <1>t, <2>1, <2>2 DEF WordsInv, sr
  <2> QED  BY <2>3, <2>4 DEF IInv
<1>4. ASSUME NEW s \in Sources, NEW v \in BOOLEAN, NEW e \in BOOLEAN,
             InterruptMask(s, v, e)
      PROVE IInv'
  <2>1. UNCHANGED <<tables, srimask, sr>>  BY <1>4 DEF InterruptMask
  <2>2. vpend' \subseteq Sources /\ pend' = vpend' \cap vmask' \cap srimask'
    BY <1>t, <1>4, <2>1 DEF InterruptMask, Pend, Word
  <2>3. vmask' \subseteq Sources  BY <1>t, <1>4 DEF InterruptMask
  <2>4. TablesInv' /\ SrInv'  BY <2>1 DEF IInv, TablesInv, SrInv, tables, sr
  <2>5. WordsInv'  BY <1>t, <2>1, <2>2, <2>3 DEF WordsInv, sr
  <2> QED  BY <2>4, <2>5 DEF IInv
<1>5. CASE UpdateINTC
  <2>1. UNCHANGED <<tables, vpend, vmask, imask, slot>>  BY <1>5 DEF UpdateINTC
  <2>2. bl' = TRUE /\ srimask' = {} /\ pend' = {} /\ pend # {}
        /\ intevt' = {InterruptEnvId[TopBit(pend)]}
    BY <1>5 DEF UpdateINTC
  <2>3. pend \subseteq Sources  BY <1>t
  <2>4. intevt' \subseteq Sources  BY <1>t, <2>2, <2>3, TopBitIsTop
  <2>5. TablesInv'  BY <2>1 DEF IInv, TablesInv, tables
  <2>6. WordsInv'  BY <1>t, <2>1, <2>2, <2>4 DEF WordsInv
  <2>7. SrInv'  BY <1>t, <2>1, <2>2 DEF SrInv, Decoded
  <2> QED  BY <2>5, <2>6, <2>7 DEF IInv
<1>6. ASSUME NEW b \in BOOLEAN, NEW m \in Levels, ldc_SR(b, m)
      PROVE IInv'
  <2>1. UNCHANGED <<tables, vpend, vmask, slot>> /\ ~ slot /\ UpdateSR(b, m)
    BY <1>6 DEF ldc_SR
  <2>2. WordsInv' /\ bl' \in BOOLEAN /\ imask' \in Levels
        /\ srimask' = Decoded(InterruptLevelBit', bl', imask')
    BY <2>1, UpdateSRInv
  <2>3. TablesInv'  BY <2>1 DEF IInv, TablesInv, tables
  <2> QED  BY <1>t, <2>1, <2>2, <2>3 DEF IInv, SrInv
<1>7. ASSUME NEW b \in BOOLEAN, NEW m \in Levels, rte_slot(b, m)
      PROVE IInv'
  <2>1. UNCHANGED <<tables, vpend, vmask, srimask, pend, intevt>>  BY <1>7 DEF rte_slot
  <2>2. slot' = TRUE /\ bl' = b /\ imask' = m  BY <1>7 DEF rte_slot
  <2>3. TablesInv' /\ WordsInv'  BY <2>1 DEF IInv, TablesInv, WordsInv, tables
  <2> QED  BY <2>2, <2>3 DEF IInv, SrInv
<1>8. CASE rte_end
  <2>1. UNCHANGED <<tables, vpend, vmask>> /\ slot' = FALSE /\ UpdateSR(bl, imask)
    BY <1>8 DEF rte_end
  <2>2. WordsInv' /\ bl' \in BOOLEAN /\ imask' \in Levels
        /\ srimask' = Decoded(InterruptLevelBit', bl', imask')
    BY <1>t, <2>1, UpdateSRInv
  <2>3. TablesInv'  BY <2>1 DEF IInv, TablesInv, tables
  <2> QED  BY <2>1, <2>2, <2>3 DEF IInv, SrInv
<1>9. CASE Do_Exception
  <2>1. UNCHANGED <<tables, vpend, vmask, imask, slot, intevt>>  BY <1>9 DEF Do_Exception
  <2>2. bl' = TRUE /\ srimask' = {} /\ pend' = {}  BY <1>9 DEF Do_Exception
  <2>3. TablesInv'  BY <2>1 DEF IInv, TablesInv, tables
  <2>4. WordsInv'  BY <1>t, <2>1, <2>2 DEF WordsInv
  <2>5. SrInv'  BY <1>t, <2>1, <2>2 DEF SrInv, Decoded
  <2> QED  BY <2>3, <2>4, <2>5 DEF IInv
<1>10. CASE UNCHANGED intcVars
  BY <1>10 DEF IInv, TablesInv, WordsInv, SrInv, intcVars, tables, sr
<1> QED
  BY <1>1, <1>2, <1>3, <1>4, <1>5, <1>6, <1>7, <1>8, <1>9, <1>10
  DEF Next, CpuNext, DeviceNext

\* The invariant holds in every reachable state.
THEOREM Invariance == Spec => []IInv
BY InitInv, NextInv, PTL DEF Spec

-----------------------------------------------------------------------------
(* Safety *)

\* TypeOK of Sh4Intc: in particular the bits stay a numbering of the sources.
THEOREM TypeCorrect == Spec => []TypeOK
<1>1. IInv => TypeOK
  <2> SUFFICES ASSUME IInv PROVE TypeOK  OBVIOUS
  <2>1. InterruptBit \in [Sources -> Sources] /\ InterruptEnvId \in [Sources -> Sources]
        /\ InterruptLevelBit \in [Levels -> SUBSET Sources] /\ ipr \in [Fields -> Levels]
    BY RankSurjective, EnvIdsInvert, LevelBitsType DEF IInv, TablesInv
  <2>2. vpend \in SUBSET Sources /\ vmask \in SUBSET Sources /\ srimask \in SUBSET Sources
        /\ pend \in SUBSET Sources /\ intevt \in SUBSET Sources
    BY DEF IInv, WordsInv
  <2>3. bl \in BOOLEAN /\ slot \in BOOLEAN /\ imask \in Levels  BY DEF IInv, SrInv
  <2>4. {bl, slot} \subseteq BOOLEAN  BY <2>3
  <2> QED  BY <2>1, <2>2, <2>3, <2>4 DEF TypeOK
<1> QED  BY <1>1, Invariance, PTL

\* What the state says of a source, in terms of its own bit.
LEMMA PendMember ==
  ASSUME IInv, NEW b \in BOOLEAN, NEW m \in Levels, NEW s \in Sources
  PROVE  InterruptBit[s] \in vpend \cap vmask \cap Decoded(InterruptLevelBit, b, m)
            <=> s \in Raised \cap Enabled /\ ~ b /\ Level(ipr, s) > m
<1>1. InterruptBit[s] \in Decoded(InterruptLevelBit, b, m) <=> ~ b /\ Level(ipr, s) > m
  BY DecodedMember DEF IInv, TablesInv
<1> QED  BY <1>1 DEF Raised, Enabled

\* PendIsExact: interrupt_pend is never stale when the CPU tests it.
THEOREM PendExact == Spec => []PendIsExact
<1>1. IInv => PendIsExact
  <2> SUFFICES ASSUME IInv, ~ slot
               PROVE {s \in Sources : InterruptBit[s] \in pend}
                       = {s \in Raised \cap Enabled : ~ bl /\ Level(ipr, s) > imask}
    BY DEF PendIsExact
  <2>1. pend = vpend \cap vmask \cap Decoded(InterruptLevelBit, bl, imask)
    BY DEF IInv, WordsInv, SrInv
  <2>2. bl \in BOOLEAN /\ imask \in Levels  BY DEF IInv, SrInv
  <2>3. \A s \in Sources : InterruptBit[s] \in pend
            <=> s \in Raised \cap Enabled /\ ~ bl /\ Level(ipr, s) > imask
    BY <2>1, <2>2, PendMember
  <2>4. Raised \cap Enabled \subseteq Sources  BY DEF Raised
  <2> QED  BY <2>3, <2>4
<1> QED  BY <1>1, Invariance, PTL

\* TablesSorted: higher priorities get higher bits, at any setting of IPRA to IPRC.
THEOREM Sorted == Spec => []TablesSorted
<1>1. IInv => TablesSorted
  <2> SUFFICES ASSUME IInv, NEW s \in Sources, NEW t \in Sources
               PROVE /\ Level(ipr, s) < Level(ipr, t) => InterruptBit[s] < InterruptBit[t]
                     /\ s < t /\ Level(ipr, s) = Level(ipr, t)
                           => InterruptBit[s] < InterruptBit[t]
                     /\ InterruptEnvId[InterruptBit[s]] = s
    BY DEF TablesSorted
  <2>1. ipr \in [Fields -> Levels] /\ InterruptBit = Ranks(ipr)  BY DEF IInv, TablesInv
  <2>2. InterruptBit[s] = Rank(ipr, s) /\ InterruptBit[t] = Rank(ipr, t)
    BY <2>1 DEF Ranks
  <2>3. Before(ipr, s, t) => Rank(ipr, s) < Rank(ipr, t)  BY <2>1, RankBefore
  <2>4. InterruptEnvId[InterruptBit[s]] = s  BY EnvIdsInvert DEF IInv, TablesInv
  <2> QED  BY <2>2, <2>3, <2>4 DEF Before
<1> QED  BY <1>1, Invariance, PTL

-----------------------------------------------------------------------------
(* Refinement *)

\* The highest bit of the pending word is the bit of the source that outranks
\* all others: a step of the code that takes it is a step of the plain controller.
LEMMA TopIsTaken ==
  ASSUME IInv, NEW b \in BOOLEAN, NEW m \in Levels,
         NEW word, word = vpend \cap vmask \cap Decoded(InterruptLevelBit, b, m),
         word # {}, intevt' = {InterruptEnvId[TopBit(word)]}, bl' = TRUE
  PROVE  Abstract!Take(Abstract!Wanted(b, m))
<1> DEFINE s == InterruptEnvId[TopBit(word)]
<1>1. ipr \in [Fields -> Levels] /\ InterruptBit = Ranks(ipr)
      /\ InterruptEnvId = EnvIds(Ranks(ipr))
  BY DEF IInv, TablesInv
<1>2. word \subseteq Sources  BY DEF IInv, WordsInv
<1>3. TopBit(word) \in word /\ \A k \in word : k <= TopBit(word)  BY <1>2, TopBitIsTop
<1>4. PICK r \in Sources : InterruptBit[r] = TopBit(word)
  BY <1>1, <1>2, <1>3, RankSurjective DEF Word
<1>5. s = r  BY <1>1, <1>4, EnvIdsInvert
<1>6. \A t \in Sources : InterruptBit[t] \in word <=> t \in Abstract!Wanted(b, m)
  <2> SUFFICES ASSUME NEW t \in Sources
               PROVE InterruptBit[t] \in word <=> t \in Abstract!Wanted(b, m)
    OBVIOUS
  <2>1. InterruptBit[t] \in word
           <=> t \in Raised \cap Enabled /\ ~ b /\ Level(ipr, t) > m
    BY PendMember
  <2> QED  BY <2>1 DEF Abstract!Wanted
<1>7. r \in Abstract!Wanted(b, m)  BY <1>3, <1>4, <1>6
<1>8. ASSUME NEW t \in Abstract!Wanted(b, m) \ {r}  PROVE Abstract!Outranks(r, t)
  <2>1. t \in Sources  BY DEF Abstract!Wanted, Raised
  <2>2. InterruptBit[t] <= InterruptBit[r]  BY <1>3, <1>4, <1>6, <2>1
  <2>3. InterruptBit[t] = Rank(ipr, t) /\ InterruptBit[r] = Rank(ipr, r)
        /\ Rank(ipr, t) \in Nat /\ Rank(ipr, r) \in Nat
    <3>1. InterruptBit[t] = Rank(ipr, t) /\ InterruptBit[r] = Rank(ipr, r)
      BY <1>1, <2>1 DEF Ranks
    <3>2. Rank(ipr, t) \in Sources /\ Rank(ipr, r) \in Sources
      BY <1>1, <2>1, RankType
    <3> QED  BY <3>1, <3>2, SourceAssumption DEF Sources
  <2>4. ~ Before(ipr, r, t)  BY <1>1, <2>1, <2>2, <2>3, RankBefore
  <2>5. Before(ipr, t, r)  BY <1>1, <2>1, <2>4, BeforeTotal
  <2>6. Level(ipr, t) \in Nat /\ Level(ipr, r) \in Nat /\ t \in Nat /\ r \in Nat
    BY <1>1, <2>1, LevelType, SourceAssumption DEF Sources
  <2> QED  BY <2>1, <2>5, <2>6 DEF Before, Abstract!Outranks
<1>9. intevt' = {r}  BY <1>5
<1> QED  BY <1>7, <1>8, <1>9 DEF Abstract!Take

\* The plain controller does not see a step that leaves tables and words alone.
LEMMA Framed ==
  ASSUME UNCHANGED <<tables, vpend, vmask>>
  PROVE  /\ Raised' = Raised /\ Enabled' = Enabled
         /\ [s \in Sources |-> Level(ipr, s)]' = [s \in Sources |-> Level(ipr, s)]
BY DEF tables, Raised, Enabled, Level

\* Setting and clearing the bit of a source raises and withdraws that source.
LEMMA BitOfSource ==
  ASSUME IInv, NEW s \in Sources, NEW w
  PROVE  /\ {t \in Sources : InterruptBit[t] \in w \cup {InterruptBit[s]}}
              = {t \in Sources : InterruptBit[t] \in w} \cup {s}
         /\ {t \in Sources : InterruptBit[t] \in w \ {InterruptBit[s]}}
              = {t \in Sources : InterruptBit[t] \in w} \ {s}
<1>1. \A t \in Sources : InterruptBit[t] = InterruptBit[s] => t = s
  BY RankInjective DEF IInv, TablesInv, Ranks
<1> QED  BY <1>1

\* Sorting the bits again does not raise, withdraw, enable or disable a source.
LEMMA RebuildKeeps ==
  ASSUME NEW p \in [Fields -> Levels], NEW bit, NEW vp, NEW vm,
         NEW b \in BOOLEAN, NEW m, SIIDRebuild(p, bit, vp, vm, b, m)
  PROVE  /\ Raised' \subseteq Sources /\ Enabled' \subseteq Sources
         /\ \A s \in Sources : s \in Raised' <=> bit[s] \in vp
         /\ \A s \in Sources : s \in Enabled' <=> bit[s] \in vm
<1> DEFINE P == {s \in Sources : bit[s] \in vp}
           E == {s \in Sources : bit[s] \in vm}
<1>1. P \subseteq Sources /\ E \subseteq Sources  OBVIOUS
<1>2. InterruptBit' = Ranks(p) /\ vpend' = Word(Ranks(p), P) /\ vmask' = Word(Ranks(p), E)
  BY DEF SIIDRebuild
<1> HIDE DEF P, E
<1>3. \A s \in Sources : Ranks(p)[s] \in Word(Ranks(p), P) <=> s \in P
  BY <1>1, WordMember
<1>4. \A s \in Sources : Ranks(p)[s] \in Word(Ranks(p), E) <=> s \in E
  BY <1>1, WordMember
<1>5. Raised' = {s \in Sources : Ranks(p)[s] \in Word(Ranks(p), P)}  BY <1>2 DEF Raised
<1>6. Enabled' = {s \in Sources : Ranks(p)[s] \in Word(Ranks(p), E)}  BY <1>2 DEF Enabled
<1> QED  BY <1>1, <1>3, <1>4, <1>5, <1>6 DEF P, E

\* Loading SR in the code is loading SR in the plain controller.
LEMMA LoadRefines ==
  ASSUME IInv, UNCHANGED <<tables, vpend, vmask>>, slot' = FALSE,
         NEW b \in BOOLEAN, NEW m \in Levels, slot => b = bl /\ m = imask, UpdateSR(b, m)
  PROVE  Abstract!LoadSR
<1> DEFINE word == vpend \cap vmask \cap Decoded(InterruptLevelBit, b, m)
<1>1. m \in 0..Highest /\ imask' = m  BY DEF UpdateSR, Levels
<1>2. Raised' = Raised /\ Enabled' = Enabled
      /\ [s \in Sources |-> Level(ipr, s)]' = [s \in Sources |-> Level(ipr, s)]
  BY Framed
<1>3. \/ Abstract!Take(Abstract!Wanted(b, m))
      \/ Abstract!Wanted(b, m) = {} /\ bl' = b /\ intevt' = intevt
  <2>1. CASE word # {}
    <3>1. intevt' = {InterruptEnvId[TopBit(word)]} /\ bl' = TRUE  BY <2>1 DEF UpdateSR
    <3> QED  BY <2>1, <3>1, TopIsTaken
  <2>2. CASE word = {}
    <3>1. bl' = b /\ intevt' = intevt  BY <2>2 DEF UpdateSR
    <3>2. \A s \in Sources : ~ (s \in Raised \cap Enabled /\ ~ b /\ Level(ipr, s) > m)
      BY <2>2, PendMember
    <3>3. Abstract!Wanted(b, m) = {}  BY <3>2 DEF Abstract!Wanted, Raised
    <3> QED  BY <3>1, <3>3
  <2> QED  BY <2>1, <2>2
<1> QED  BY <1>1, <1>2, <1>3 DEF Abstract!LoadSR, Abstract!Levels

\* The controller is reset into a state of the plain controller.
LEMMA InitRefines == Init => Abstract!Init
<1> SUFFICES ASSUME Init PROVE Abstract!Init  OBVIOUS
<1> DEFINE set == Sources \ Timers
<1>1. set \subseteq Sources  OBVIOUS
<1>2. ipr = ResetIpr /\ InterruptBit = Ranks(ResetIpr) /\ vpend = {}
      /\ vmask = Word(Ranks(ResetIpr), set)
  BY DEF Init
<1> HIDE DEF set
<1>3. \A s \in Sources : Ranks(ResetIpr)[s] \in Word(Ranks(ResetIpr), set) <=> s \in set
  BY <1>1, ResetIprType, WordMember
<1>4. Enabled = set  BY <1>1, <1>2, <1>3 DEF Enabled
<1>5. Raised = {}  BY <1>2 DEF Raised
<1> QED  BY <1>2, <1>4, <1>5 DEF set, Init, Abstract!Init

\* A write to a priority register changes levels, and nothing else.
LEMMA PriorityRefines ==
  ASSUME IInv, NEW reg \in Regs, NEW data \in [reg -> Levels], write_INTC_IPR(reg, data)
  PROVE  Abstract!Priority
<1>t. bl \in BOOLEAN /\ ipr \in [Fields -> Levels]  BY DEF IInv, TablesInv, SrInv
<1> DEFINE new == [f \in Fields |-> IF f \in reg THEN data[f] ELSE ipr[f]]
<1>1. new \in [Fields -> Levels]  BY <1>t
<1>2. SIIDRebuild(new, InterruptBit, vpend, vmask, bl, imask) /\ UNCHANGED sr
  BY DEF write_INTC_IPR
<1> HIDE DEF new
<1>3. Raised' = Raised /\ Enabled' = Enabled
  <2>1. /\ Raised' \subseteq Sources /\ Enabled' \subseteq Sources
        /\ \A s \in Sources : s \in Raised' <=> InterruptBit[s] \in vpend
        /\ \A s \in Sources : s \in Enabled' <=> InterruptBit[s] \in vmask
    BY <1>t, <1>1, <1>2, RebuildKeeps
  <2>2. /\ Raised \subseteq Sources /\ Enabled \subseteq Sources
        /\ \A s \in Sources : s \in Raised <=> InterruptBit[s] \in vpend
        /\ \A s \in Sources : s \in Enabled <=> InterruptBit[s] \in vmask
    BY DEF Raised, Enabled
  <2> QED  BY <2>1, <2>2
<1>4. ipr' = new  BY <1>2 DEF SIIDRebuild
<1>5. [s \in Sources |-> Level(ipr, s)]' = [s \in Sources |-> Level(new, s)]
  BY <1>4 DEF Level
<1>6. \A s \in Sources : Level(new, s) \in 0..Highest  BY <1>1, LevelType DEF Levels
<1> QED  BY <1>2, <1>3, <1>5, <1>6 DEF Abstract!Priority, Abstract!Levels, sr

\* interrupts_reset() forgets what was raised, and enables all but the timers.
LEMMA ResetRefines ==
  ASSUME interrupts_reset
  PROVE  Abstract!Reset
<1>1. bl' = TRUE /\ imask' = Highest /\ slot' = FALSE /\ intevt' = {}
  BY DEF interrupts_reset
<1> DEFINE bit == [s \in Sources |-> s]
           none == {}
           set == Sources \ Timers
<1>2. SIIDRebuild(ResetIpr, bit, none, set, TRUE, Highest)
  BY DEF interrupts_reset
<1> HIDE DEF bit, none, set
<1>3. /\ Raised' \subseteq Sources /\ Enabled' \subseteq Sources
      /\ \A s \in Sources : s \in Raised' <=> bit[s] \in none
      /\ \A s \in Sources : s \in Enabled' <=> bit[s] \in set
  BY <1>2, ResetIprType, RebuildKeeps
<1>4. Raised' = {} /\ Enabled' = Sources \ Timers  BY <1>3 DEF bit, none, set
<1>5. ipr' = ResetIpr  BY <1>2 DEF SIIDRebuild
<1>6. [s \in Sources |-> Level(ipr, s)]' = [s \in Sources |-> Level(ResetIpr, s)]
  BY <1>5 DEF Level
<1> QED  BY <1>1, <1>4, <1>6 DEF Abstract!Reset

\* A device that sets or resets a pending bit raises or withdraws its source.
LEMMA PendRefines ==
  ASSUME IInv, NEW s \in Sources, NEW v \in BOOLEAN, InterruptPend(s, v)
  PROVE  /\ Abstract!Device
         /\ Raised' = Raised \cup {s} \/ Raised' = Raised \ {s}
         /\ Enabled' = Enabled \/ Enabled' = Enabled \cup {s} \/ Enabled' = Enabled \ {s}
<1>1. UNCHANGED <<tables, vmask, srimask, sr>>  BY DEF InterruptPend
<1>2. vpend' = (vpend \ {InterruptBit[s]}) \cup (IF v THEN {InterruptBit[s]} ELSE {})
  BY DEF InterruptPend, Pend, Word
<1>3. vpend' = vpend \cup {InterruptBit[s]} \/ vpend' = vpend \ {InterruptBit[s]}
  BY <1>2
<1>4. Raised' = {t \in Sources : InterruptBit[t] \in vpend'}
  BY <1>1 DEF Raised, tables
<1>5. Raised' = Raised \cup {s} \/ Raised' = Raised \ {s}
  BY <1>3, <1>4, BitOfSource DEF Raised
<1>6. Enabled' = Enabled
      /\ [t \in Sources |-> Level(ipr, t)]' = [t \in Sources |-> Level(ipr, t)]
  BY <1>1 DEF tables, Enabled, Level
<1> QED  BY <1>1, <1>4, <1>5, <1>6 DEF Abstract!Device, sr

\* The same for a device that also sets or resets a mask bit.
LEMMA MaskRefines ==
  ASSUME IInv, NEW s \in Sources, NEW v \in BOOLEAN, NEW e \in BOOLEAN,
         InterruptMask(s, v, e)
  PROVE  /\ Abstract!Device
         /\ Raised' = Raised \cup {s} \/ Raised' = Raised \ {s}
         /\ Enabled' = Enabled \/ Enabled' = Enabled \cup {s} \/ Enabled' = Enabled \ {s}
<1>1. UNCHANGED <<tables, srimask, sr>>  BY DEF InterruptMask
<1>2. vpend' = (vpend \ {InterruptBit[s]}) \cup (IF v THEN {InterruptBit[s]} ELSE {})
  BY DEF InterruptMask, Pend, Word
<1>3. vpend' = vpend \cup {InterruptBit[s]} \/ vpend' = vpend \ {InterruptBit[s]}
  BY <1>2
<1>4. vmask' = vmask \cup {InterruptBit[s]} \/ vmask' = vmask \ {InterruptBit[s]}
  BY DEF InterruptMask
<1>5. Raised' = {t \in Sources : InterruptBit[t] \in vpend'}
      /\ Enabled' = {t \in Sources : InterruptBit[t] \in vmask'}
  BY <1>1 DEF Raised, Enabled, tables
<1>6. Raised' = Raised \cup {s} \/ Raised' = Raised \ {s}
  BY <1>3, <1>5, BitOfSource DEF Raised
<1>7. Enabled' = Enabled \cup {s} \/ Enabled' = Enabled \ {s}
  BY <1>4, <1>5, BitOfSource DEF Enabled
<1>8. [t \in Sources |-> Level(ipr, t)]' = [t \in Sources |-> Level(ipr, t)]
  BY <1>1 DEF tables, Level
<1> QED  BY <1>1, <1>5, <1>6, <1>7, <1>8 DEF Abstract!Device, sr

\* Every step of the code is a step of the plain controller, or none.
LEMMA StepRefines == IInv /\ [Next]_intcVars => [Abstract!Next]_Abstract!vars
<1> SUFFICES ASSUME IInv, [Next]_intcVars PROVE [Abstract!Next]_Abstract!vars  OBVIOUS
<1>t. bl \in BOOLEAN /\ slot \in BOOLEAN /\ imask \in Levels /\ ipr \in [Fields -> Levels]
  BY DEF IInv, TablesInv, SrInv
<1>1. ASSUME NEW reg \in Regs, NEW data \in [reg -> Levels], write_INTC_IPR(reg, data)
      PROVE Abstract!Priority
  BY <1>1, PriorityRefines
<1>2. CASE interrupts_reset
  BY <1>2, ResetRefines DEF Abstract!Next
<1>3. ASSUME NEW s \in Sources, NEW v \in BOOLEAN, InterruptPend(s, v)
      PROVE Abstract!Device
  BY <1>3, PendRefines
<1>4. ASSUME NEW s \in Sources, NEW v \in BOOLEAN, NEW e \in BOOLEAN,
             InterruptMask(s, v, e)
      PROVE Abstract!Device
  BY <1>4, MaskRefines
<1>5. CASE UpdateINTC
  <2>1. UNCHANGED <<tables, vpend, vmask, imask, slot>>  BY <1>5 DEF UpdateINTC
  <2>2. ~ slot /\ pend # {} /\ intevt' = {InterruptEnvId[TopBit(pend)]} /\ bl' = TRUE
    BY <1>5 DEF UpdateINTC
  <2>3. pend = vpend \cap vmask \cap Decoded(InterruptLevelBit, bl, imask)
    BY <2>2 DEF IInv, WordsInv, SrInv
  <2>4. Abstract!Take(Abstract!Wanted(bl, imask))  BY <1>t, <2>2, <2>3, TopIsTaken
  <2>5. Raised' = Raised /\ Enabled' = Enabled
        /\ [s \in Sources |-> Level(ipr, s)]' = [s \in Sources |-> Level(ipr, s)]
    BY <2>1, Framed
  <2>6. Abstract!Accept  BY <2>1, <2>2, <2>4, <2>5 DEF Abstract!Accept
  <2> QED  BY <2>6 DEF Abstract!Next
<1>6. ASSUME NEW b \in BOOLEAN, NEW m \in Levels, ldc_SR(b, m)
      PROVE Abstract!LoadSR
  <2>1. ~ slot /\ UpdateSR(b, m) /\ UNCHANGED <<tables, vpend, vmask, slot>>
    BY <1>6 DEF ldc_SR
  <2>2. slot' = FALSE  BY <1>t, <2>1
  <2> QED  BY <2>1, <2>2, LoadRefines
<1>7. ASSUME NEW b \in BOOLEAN, NEW m \in Levels, rte_slot(b, m)
      PROVE Abstract!EnterSlot
  <2>1. UNCHANGED <<tables, vpend, vmask, srimask, pend, intevt>>  BY <1>7 DEF rte_slot
  <2>2. Raised' = Raised /\ Enabled' = Enabled
        /\ [s \in Sources |-> Level(ipr, s)]' = [s \in Sources |-> Level(ipr, s)]
    BY <2>1, Framed
  <2>3. ~ slot /\ slot' = TRUE /\ bl' = b /\ imask' = m  BY <1>7 DEF rte_slot
  <2> QED  BY <2>1, <2>2, <2>3 DEF Abstract!EnterSlot, Abstract!Levels, Levels
<1>8. CASE rte_end
  <2>1. slot' = FALSE /\ UpdateSR(bl, imask) /\ UNCHANGED <<tables, vpend, vmask>>
    BY <1>8 DEF rte_end
  <2>2. Abstract!LoadSR  BY <1>t, <2>1, LoadRefines
  <2> QED  BY <2>2 DEF Abstract!Next
<1>9. CASE Do_Exception
  <2>1. UNCHANGED <<tables, vpend, vmask, imask, slot, intevt>> /\ bl' = TRUE
    BY <1>9 DEF Do_Exception
  <2>2. Raised' = Raised /\ Enabled' = Enabled
        /\ [s \in Sources |-> Level(ipr, s)]' = [s \in Sources |-> Level(ipr, s)]
    BY <2>1, Framed
  <2>3. Abstract!Exception  BY <2>1, <2>2 DEF Abstract!Exception
  <2> QED  BY <2>3 DEF Abstract!Next
<1>10. CASE UNCHANGED intcVars
  <2>1. UNCHANGED <<tables, vpend, vmask>> /\ UNCHANGED sr  BY <1>10 DEF intcVars
  <2>2. Raised' = Raised /\ Enabled' = Enabled
        /\ [s \in Sources |-> Level(ipr, s)]' = [s \in Sources |-> Level(ipr, s)]
    BY <2>1, Framed
  <2> QED  BY <2>1, <2>2 DEF sr, Abstract!vars
<1>11. Abstract!Priority \/ Abstract!Device \/ Abstract!LoadSR \/ Abstract!EnterSlot
         => Abstract!Next
  BY DEF Abstract!Next
<1> QED
  BY <1>1, <1>2, <1>3, <1>4, <1>5, <1>6, <1>7, <1>8, <1>9, <1>10, <1>11
  DEF Next, CpuNext, DeviceNext

\* ImplementsIntc: the sorted and cached words implement the plain controller.
THEOREM Implements == Spec => ImplementsIntc
BY InitRefines, StepRefines, Invariance, PTL DEF Spec, ImplementsIntc, Abstract!Spec

-----------------------------------------------------------------------------
(* Holly. *)

HollyInv ==
    /\ IInv
    /\ iml \in [Irl -> [Types -> SUBSET Bits]]
    /\ ist \in [Types \cup {"NRM1"} -> SUBSET Bits]
    /\ Irl \subseteq Enabled
    /\ IrlIsCurrent

\* The IRL sources are sources, and no others are.
LEMMA IrlSources == Irl \subseteq Sources /\ Irl \cap Internal = {}
BY SourceAssumption DEF Irl, Sources, Internal

\* Setting the pending bits of a set of sources changes those sources only.
LEMMA PendSet ==
  ASSUME IInv, NEW of, NEW on, of \subseteq Sources, on \subseteq of,
         UNCHANGED <<tables, vmask, srimask, sr>>, Pend(of, on)
  PROVE  /\ IInv'
         /\ Enabled' = Enabled
         /\ \A s \in Sources : s \in Raised' <=> IF s \in of THEN s \in on ELSE s \in Raised
<1>1. ipr \in [Fields -> Levels] /\ InterruptBit = Ranks(ipr)  BY DEF IInv, TablesInv
<1>2. vpend' = (vpend \ Word(InterruptBit, of)) \cup Word(InterruptBit, on)
      /\ pend' = vpend' \cap vmask' \cap srimask
  BY DEF Pend
<1>3. InterruptBit' = InterruptBit /\ vmask' = vmask /\ srimask' = srimask
      /\ intevt' = intevt
  BY DEF tables, sr
<1>4. Word(InterruptBit, of) \subseteq Sources /\ Word(InterruptBit, on) \subseteq Sources
      /\ (\A s \in Sources : InterruptBit[s] \in Word(InterruptBit, of) <=> s \in of)
      /\ (\A s \in Sources : InterruptBit[s] \in Word(InterruptBit, on) <=> s \in on)
  BY <1>1, WordMember
<1>5. WordsInv'  BY <1>2, <1>3, <1>4 DEF IInv, WordsInv
<1>6. TablesInv' /\ SrInv'  BY DEF IInv, TablesInv, SrInv, tables, sr
<1>7. Enabled' = Enabled  BY <1>3 DEF Enabled
<1>8. \A s \in Sources : s \in Raised' <=> InterruptBit[s] \in vpend'  BY <1>3 DEF Raised
<1>9. \A s \in Sources : s \in Raised <=> InterruptBit[s] \in vpend  BY DEF Raised
<1>10. \A s \in Sources : s \in Raised' <=> IF s \in of THEN s \in on ELSE s \in Raised
  BY <1>2, <1>4, <1>8, <1>9
<1> QED  BY <1>5, <1>6, <1>7, <1>10 DEF IInv

\* asic_RL6Pending(), RL4 and RL2 bring their levels up to date; the others
\* must not have changed.
LEMMA RLPendingInv ==
  ASSUME HollyInv, NEW set, set \subseteq Irl, RLPending(set),
         \A i \in Irl \ set : Active(i, ist', iml') <=> Active(i, ist, iml)
  PROVE  IInv' /\ (Irl \subseteq Enabled)' /\ IrlIsCurrent'
<1> DEFINE on == {i \in set : Active(i, ist', iml')}
<1>1. IInv /\ set \subseteq Sources /\ on \subseteq set /\ Pend(set, on)
      /\ UNCHANGED <<tables, vmask, srimask, sr>> /\ lost' = lost \ set
  BY IrlSources DEF HollyInv, RLPending
<1> HIDE DEF on
<1>2. /\ IInv' /\ Enabled' = Enabled
      /\ \A s \in Sources : s \in Raised' <=> IF s \in set THEN s \in on ELSE s \in Raised
  BY <1>1, PendSet
<1>3. (Irl \subseteq Enabled)'  BY <1>2 DEF HollyInv
<1>4. ASSUME NEW i \in Irl
      PROVE /\ i \in Raised' => Active(i, ist', iml')
            /\ Active(i, ist', iml') => i \in Raised' \/ i \in lost'
  <2>1. i \in Sources  BY IrlSources
  <2>2. CASE i \in set
    <3>1. i \in on <=> Active(i, ist', iml')  BY <2>2 DEF on
    <3> QED  BY <1>2, <2>1, <2>2, <3>1
  <2>3. CASE i \notin set
    <3>1. /\ i \in Raised => Active(i, ist, iml)
          /\ Active(i, ist, iml) => i \in Raised \/ i \in lost
      BY DEF HollyInv, IrlIsCurrent
    <3> QED  BY <1>1, <1>2, <2>1, <2>3, <3>1
  <2> QED  BY <2>2, <2>3
<1>5. IrlIsCurrent'  BY <1>4 DEF IrlIsCurrent
<1> QED  BY <1>2, <1>3, <1>5

\* The controllers start consistent: nothing is set.
LEMMA HollyInitInv == HollyInit => HollyInv
<1> SUFFICES ASSUME HollyInit PROVE HollyInv  OBVIOUS
<1>1. Init /\ ist = Clear /\ iml = ClearMasks /\ lost = {}  BY DEF HollyInit
<1>2. IInv  BY <1>1, InitInv
<1>3. iml \in [Irl -> [Types -> SUBSET Bits]]  BY <1>1 DEF ClearMasks
<1>4. ist \in [Types \cup {"NRM1"} -> SUBSET Bits]  BY <1>1 DEF Clear
<1>5. Raised = {} /\ Enabled = Sources \ Timers
  BY <1>1, InitRefines DEF Abstract!Init
<1>6. Irl \subseteq Enabled  BY <1>5, IrlSources, SourceAssumption
<1>7. \A i \in Irl : ~ Active(i, ist, iml)
  BY <1>1 DEF Active, Clear, ClearMasks, Types
<1>8. IrlIsCurrent  BY <1>5, <1>7 DEF IrlIsCurrent
<1> QED  BY <1>2, <1>3, <1>4, <1>6, <1>8 DEF HollyInv

\* The CPU and the devices of the SH4 neither raise nor disable an IRL source.
LEMMA IrlFramed ==
  ASSUME IInv, CpuNext \/ DeviceNext(Internal), NEW i \in Irl
  PROVE  (i \in Raised' <=> i \in Raised) /\ (i \in Enabled' <=> i \in Enabled)
<1>i. i \in Sources /\ i \notin Internal  BY IrlSources
<1>1. ASSUME NEW reg \in Regs, NEW data \in [reg -> Levels], write_INTC_IPR(reg, data)
      PROVE Raised' = Raised /\ Enabled' = Enabled
  BY <1>1, PriorityRefines DEF Abstract!Priority
<1>2. ASSUME NEW s \in Internal, NEW v \in BOOLEAN, InterruptPend(s, v)
      PROVE (i \in Raised' <=> i \in Raised) /\ (i \in Enabled' <=> i \in Enabled)
  <2>1. s \in Sources /\ s # i  BY <1>i, SourceAssumption DEF Internal, Sources
  <2>2. /\ Raised' = Raised \cup {s} \/ Raised' = Raised \ {s}
        /\ Enabled' = Enabled \/ Enabled' = Enabled \cup {s} \/ Enabled' = Enabled \ {s}
    BY <1>2, <2>1, PendRefines
  <2> QED  BY <2>1, <2>2
<1>3. ASSUME NEW s \in Internal, NEW v \in BOOLEAN, NEW e \in BOOLEAN,
             InterruptMask(s, v, e)
      PROVE (i \in Raised' <=> i \in Raised) /\ (i \in Enabled' <=> i \in Enabled)
  <2>1. s \in Sources /\ s # i  BY <1>i, SourceAssumption DEF Internal, Sources
  <2>2. /\ Raised' = Raised \cup {s} \/ Raised' = Raised \ {s}
        /\ Enabled' = Enabled \/ Enabled' = Enabled \cup {s} \/ Enabled' = Enabled \ {s}
    BY <1>3, <2>1, MaskRefines
  <2> QED  BY <2>1, <2>2
<1>4. ASSUME UpdateINTC \/ rte_end \/ Do_Exception
             \/ \E b \in BOOLEAN, m \in Levels : ldc_SR(b, m) \/ rte_slot(b, m)
      PROVE Raised' = Raised /\ Enabled' = Enabled
  <2>1. UNCHANGED <<tables, vpend, vmask>>
    BY <1>4 DEF UpdateINTC, rte_end, Do_Exception, ldc_SR, rte_slot
  <2> QED  BY <2>1, Framed
<1> QED  BY <1>1, <1>2, <1>3, <1>4 DEF CpuNext, DeviceNext

\* Every step of Holly, of the CPU or of a device keeps the two in agreement.
LEMMA HollyNextInv == HollyInv /\ [HollyNext]_vars => HollyInv'
<1> SUFFICES ASSUME HollyInv, [HollyNext]_vars PROVE HollyInv'  OBVIOUS
<1>t. IInv /\ ist \in [Types \cup {"NRM1"} -> SUBSET Bits]
      /\ iml \in [Irl -> [Types -> SUBSET Bits]] /\ Irl \subseteq Enabled /\ IrlIsCurrent
  BY DEF HollyInv
\* A change of the status words that is followed by an update of all levels.
<1>u. ASSUME ist' \in [Types \cup {"NRM1"} -> SUBSET Bits], iml' = iml, RLPending(Irl)
      PROVE HollyInv'
  <2>1. IInv' /\ (Irl \subseteq Enabled)' /\ IrlIsCurrent'  BY <1>u, RLPendingInv
  <2> QED  BY <1>t, <1>u, <2>1 DEF HollyInv
<1>1. ASSUME NEW t \in Raisable, NEW bit \in Bits, asic_RaiseInterrupt(t, bit)
      PROVE HollyInv'
  <2>1. t \in Types  BY HollyAssumption
  <2>2. ist' \in [Types \cup {"NRM1"} -> SUBSET Bits]
    BY <1>t, <1>1, <2>1 DEF asic_RaiseInterrupt
  <2> QED  BY <1>u, <1>1, <2>2 DEF asic_RaiseInterrupt
<1>2. ASSUME NEW t \in Raisable, NEW bit \in Bits, asic_CancelInterrupt(t, bit)
      PROVE HollyInv'
  <2>1. t \in Types  BY HollyAssumption
  <2>2. ist' \in [Types \cup {"NRM1"} -> SUBSET Bits]
    BY <1>t, <1>2, <2>1 DEF asic_CancelInterrupt
  <2> QED  BY <1>u, <1>2, <2>2 DEF asic_CancelInterrupt
<1>3. ASSUME NEW t \in Raisable, NEW bit \in Bits, asic_RaiseInterruptBothCLX(t, bit)
      PROVE HollyInv'
  <2>1. ist' \in [Types \cup {"NRM1"} -> SUBSET Bits]
    BY <1>t, <1>3 DEF asic_RaiseInterruptBothCLX, Types
  <2> QED  BY <1>u, <1>3, <2>1 DEF asic_RaiseInterruptBothCLX
<1>4. ASSUME NEW clxb \in BOOLEAN, NEW data \in SUBSET Bits, Write_SB_ISTNRM(clxb, data)
      PROVE HollyInv'
  <2>1. ist' \in [Types \cup {"NRM1"} -> SUBSET Bits]
    BY <1>t, <1>4 DEF Write_SB_ISTNRM, Types
  <2> QED  BY <1>u, <1>4, <2>1 DEF Write_SB_ISTNRM
<1>5. ASSUME NEW data \in SUBSET Bits, Write_SB_ISTERR(data)  PROVE HollyInv'
  <2>1. ist' \in [Types \cup {"NRM1"} -> SUBSET Bits]
    BY <1>t, <1>5 DEF Write_SB_ISTERR, Types
  <2> QED  BY <1>u, <1>5, <2>1 DEF Write_SB_ISTERR
<1>6. ASSUME NEW i \in Irl, NEW t \in Raisable, NEW data \in SUBSET Bits,
             Write_SB_IML(i, t, data)
      PROVE HollyInv'
  <2>1. t \in Types  BY HollyAssumption
  <2>2. iml' = [iml EXCEPT ![i][t] = data] /\ ist' = ist /\ RLPending({i})
    BY <1>6 DEF Write_SB_IML
  <2>3. iml' \in [Irl -> [Types -> SUBSET Bits]]  BY <1>t, <2>1, <2>2
  <2>4. \A j \in Irl \ {i} : iml'[j] = iml[j]  BY <1>t, <2>2
  <2>5. \A j \in Irl \ {i} : Active(j, ist', iml') <=> Active(j, ist, iml)
    BY <2>2, <2>4 DEF Active
  <2>6. IInv' /\ (Irl \subseteq Enabled)' /\ IrlIsCurrent'  BY <2>2, <2>5, RLPendingInv
  <2> QED  BY <1>t, <2>2, <2>3, <2>6 DEF HollyInv
\* Both resets: the tables are rebuilt, nothing is raised, the timers are disabled.
<1>r. ASSUME interrupts_reset
      PROVE IInv' /\ Raised' = {} /\ (Irl \subseteq Enabled)'
  <2>1. IInv'  BY <1>t, <1>r, NextInv DEF Next
  <2>2. Raised' = {} /\ Enabled' = Sources \ Timers  BY <1>r, ResetRefines DEF Abstract!Reset
  <2>3. (Irl \subseteq Enabled)'  BY <2>2, IrlSources, SourceAssumption
  <2> QED  BY <2>1, <2>2, <2>3
<1>7. CASE hard_reset
  <2>1. interrupts_reset /\ ist' = Clear /\ iml' = ClearMasks  BY <1>7 DEF hard_reset
  <2>2. IInv' /\ Raised' = {} /\ (Irl \subseteq Enabled)'  BY <1>r, <2>1
  <2>3. iml' \in [Irl -> [Types -> SUBSET Bits]]  BY <2>1 DEF ClearMasks
  <2>4. ist' \in [Types \cup {"NRM1"} -> SUBSET Bits]  BY <2>1 DEF Clear
  <2>5. \A i \in Irl : ~ Active(i, ist', iml')
    BY <2>1 DEF Active, Clear, ClearMasks, Types
  <2>6. IrlIsCurrent'  BY <2>2, <2>5 DEF IrlIsCurrent
  <2> QED  BY <2>2, <2>3, <2>4, <2>6 DEF HollyInv
<1>8. CASE soft_reset
  <2>1. interrupts_reset /\ ist' = [ist EXCEPT !["NRM"] = {}, !["NRM1"] = {}]
        /\ iml' = iml /\ lost' = Irl
    BY <1>8 DEF soft_reset
  <2>2. IInv' /\ Raised' = {} /\ (Irl \subseteq Enabled)'  BY <1>r, <2>1
  <2>3. ist' \in [Types \cup {"NRM1"} -> SUBSET Bits]  BY <1>t, <2>1 DEF Types
  <2>4. IrlIsCurrent'  BY <2>1, <2>2 DEF IrlIsCurrent
  <2> QED  BY <1>t, <2>1, <2>2, <2>3, <2>4 DEF HollyInv
<1>9. ASSUME CpuNext \/ DeviceNext(Internal), UNCHANGED hollyVars
      PROVE HollyInv'
  <2>1. IInv'
    <3>1. Internal \subseteq Sources  BY SourceAssumption DEF Internal, Sources
    <3>2. Next  BY <1>9, <3>1 DEF Next, DeviceNext
    <3> QED  BY <1>t, <3>2, NextInv
  <2>2. ist' = ist /\ iml' = iml /\ lost' = lost  BY <1>9 DEF hollyVars
  <2>3. \A i \in Irl : (i \in Raised' <=> i \in Raised) /\ (i \in Enabled' <=> i \in Enabled)
    BY <1>t, <1>9, IrlFramed
  <2>4. (Irl \subseteq Enabled)'  BY <1>t, <2>3
  <2>5. IrlIsCurrent'  BY <1>t, <2>2, <2>3 DEF IrlIsCurrent
  <2> QED  BY <1>t, <2>1, <2>2, <2>4, <2>5 DEF HollyInv
<1>10. CASE UNCHANGED vars
  <2>1. UNCHANGED intcVars /\ ist' = ist /\ iml' = iml /\ lost' = lost
    BY <1>10 DEF vars, hollyVars
  <2>2. IInv'  BY <1>t, <2>1, NextInv
  <2>3. Raised' = Raised /\ Enabled' = Enabled  BY <2>1, Framed DEF intcVars
  <2>4. IrlIsCurrent'  BY <1>t, <2>1, <2>3 DEF IrlIsCurrent
  <2> QED  BY <1>t, <2>1, <2>2, <2>3, <2>4 DEF HollyInv
<1> QED
  BY <1>1, <1>2, <1>3, <1>4, <1>5, <1>6, <1>7, <1>8, <1>9, <1>10 DEF HollyNext

\* The invariant holds in every reachable state.
LEMMA HollyInvariance == HollySpec => []HollyInv
BY HollyInitInv, HollyNextInv, PTL DEF HollySpec

\* IrlIsCurrent: the SH4 sees exactly the interrupts of Holly that are set and
\* unmasked, but for those that a soft reset left in the external and error words.
THEOREM IrlCurrent == HollySpec => []IrlIsCurrent
<1>1. HollyInv => IrlIsCurrent  BY DEF HollyInv
<1> QED  BY <1>1, HollyInvariance, PTL

-----------------------------------------------------------------------------
(* Interrupts are taken in order *)

Due(i) ==
    /\ Active(i, ist, iml)
    /\ \A j \in Irl \ lost : Active(j, ist, iml) => IrlLevel[j] <= IrlLevel[i]
    /\ \A s \in Internal \cap Raised \cap Enabled : Level(ipr, s) <= IrlLevel[i]

\* The top source of the plain controller, if it is an IRL source, is due.
LEMMA TopIsDue ==
  ASSUME HollyInv, NEW b \in BOOLEAN, NEW m \in Levels, NEW i \in Irl,
         Abstract!Take(Abstract!Wanted(b, m)), intevt' = {i}
  PROVE  Due(i)
<1>1. /\ i \in Abstract!Wanted(b, m)
      /\ \A t \in Abstract!Wanted(b, m) \ {i} : Abstract!Outranks(i, t)
  <2>1. PICK s \in Abstract!Wanted(b, m) :
           intevt' = {s} /\ \A t \in Abstract!Wanted(b, m) \ {s} : Abstract!Outranks(s, t)
    BY DEF Abstract!Take
  <2> QED  BY <2>1
<1>2. i \in Sources /\ i \in Raised /\ ~ b /\ Level(ipr, i) > m
  BY <1>1, IrlSources DEF Abstract!Wanted
<1>3. Active(i, ist, iml)  BY <1>2 DEF HollyInv, IrlIsCurrent
<1>4. \A j \in Irl : Level(ipr, j) = IrlLevel[j]
  BY SourceAssumption DEF Level, Irl
<1>5. ASSUME NEW t \in Sources, t \in Raised \cap Enabled  PROVE Level(ipr, t) <= Level(ipr, i)
  <2>1. Level(ipr, t) \in Nat /\ Level(ipr, i) \in Nat /\ m \in Nat
    BY <1>2, LevelType, SourceAssumption DEF HollyInv, IInv, TablesInv, Levels
  <2>2. CASE Level(ipr, t) > m
    <3>1. t \in Abstract!Wanted(b, m)  BY <1>2, <1>5, <2>2 DEF Abstract!Wanted
    <3>2. t = i \/ Abstract!Outranks(i, t)  BY <1>1, <3>1
    <3> QED  BY <1>2, <2>1, <3>2 DEF Abstract!Outranks
  <2>3. CASE ~ (Level(ipr, t) > m)  BY <1>2, <2>1, <2>3
  <2> QED  BY <2>2, <2>3
<1>6. ASSUME NEW j \in Irl \ lost, Active(j, ist, iml)  PROVE IrlLevel[j] <= IrlLevel[i]
  <2>1. j \in Raised /\ j \in Enabled /\ j \in Sources
    BY <1>6, IrlSources DEF HollyInv, IrlIsCurrent
  <2> QED  BY <1>4, <1>5, <2>1
<1>7. ASSUME NEW s \in Internal \cap Raised \cap Enabled
      PROVE Level(ipr, s) <= IrlLevel[i]
  <2>1. s \in Sources  BY DEF Raised
  <2> QED  BY <1>4, <1>5, <2>1
<1> QED  BY <1>3, <1>6, <1>7 DEF Due

\* TakenIsDue: Holly's interrupts are taken in the order of their levels, and
\* only while they are set and unmasked.
THEOREM TakenInOrder == HollySpec => TakenIsDue
<1>1. HollyInv /\ [HollyNext]_vars => [\A i \in Irl : intevt' = {i} => Due(i)]_intevt
  <2> SUFFICES ASSUME HollyInv, [HollyNext]_vars, intevt' # intevt,
                      NEW i \in Irl, intevt' = {i}
               PROVE  Due(i)
    OBVIOUS
  <2>i. IInv /\ bl \in BOOLEAN /\ slot \in BOOLEAN /\ imask \in Levels
    BY DEF HollyInv, IInv, SrInv
  <2>1. ~ interrupts_reset  BY DEF interrupts_reset
  <2>2. ~ UNCHANGED vars  BY DEF vars, intcVars, sr
  <2>3. ~ UNCHANGED sr  BY DEF sr
  <2>4. CpuNext \/ DeviceNext(Internal)
    BY <2>1, <2>2, <2>3
    DEF HollyNext, hard_reset, soft_reset, asic_RaiseInterrupt, asic_CancelInterrupt,
        asic_RaiseInterruptBothCLX, Write_SB_ISTNRM, Write_SB_ISTERR, Write_SB_IML, RLPending
  <2>5. UpdateINTC \/ rte_end \/ \E b \in BOOLEAN, m \in Levels : ldc_SR(b, m)
    BY <2>3, <2>4
    DEF CpuNext, DeviceNext, write_INTC_IPR, InterruptPend, InterruptMask,
        Do_Exception, rte_slot
  <2>6. CASE UpdateINTC
    <3>1. ~ slot /\ pend # {} /\ bl' = TRUE /\ intevt' = {InterruptEnvId[TopBit(pend)]}
      BY <2>6 DEF UpdateINTC
    <3>2. pend = vpend \cap vmask \cap Decoded(InterruptLevelBit, bl, imask)
      BY <2>i, <3>1 DEF IInv, WordsInv, SrInv
    <3>3. Abstract!Take(Abstract!Wanted(bl, imask))  BY <2>i, <3>1, <3>2, TopIsTaken
    <3> QED  BY <2>i, <3>3, TopIsDue
  <2>7. ASSUME NEW b \in BOOLEAN, NEW m \in Levels, UpdateSR(b, m)  PROVE Due(i)
    <3> DEFINE word == vpend \cap vmask \cap Decoded(InterruptLevelBit, b, m)
    <3>1. word # {} /\ bl' = TRUE /\ intevt' = {InterruptEnvId[TopBit(word)]}
      BY <2>7 DEF UpdateSR
    <3>2. Abstract!Take(Abstract!Wanted(b, m))  BY <2>i, <3>1, TopIsTaken
    <3> QED  BY <3>2, TopIsDue
  <2>8. CASE rte_end  BY <2>i, <2>7, <2>8 DEF rte_end
  <2>9. ASSUME NEW b \in BOOLEAN, NEW m \in Levels, ldc_SR(b, m)  PROVE Due(i)
    BY <2>7, <2>9 DEF ldc_SR
  <2> QED  BY <2>5, <2>6, <2>8, <2>9
<1>2. [\A i \in Irl : intevt' = {i} => Due(i)]_intevt
        => [\A i \in Irl : intevt' = {i} =>
              /\ Active(i, ist, iml)
              /\ \A j \in Irl \ lost : Active(j, ist, iml) => IrlLevel[j] <= IrlLevel[i]
              /\ \A s \in Internal \cap Raised \cap Enabled :
                    Level(ipr, s) <= IrlLevel[i]]_intevt
  BY DEF Due
<1> QED  BY <1>1, <1>2, HollyInvariance, PTL DEF HollySpec, TakenIsDue
=============================================================================
