-------------------------- MODULE BlockCacheProofs --------------------------
(***************************************************************************)
(* Proofs about BlockCache, for any guest code, any number of pages,       *)
(* addresses and block objects, and any size of the code buffer.           *)
(*                                                                         *)
(* The inductive invariant IInv says how page protection stands in for the *)
(* check that unprotected blocks carry: every page of such a block lists   *)
(* the block, and a page with a list is locked (PagesOK).  It also says    *)
(* what each place of the control flow knows about the block it holds      *)
(* (ControlOK): at its start a block is live, from the DMA slots on it may *)
(* have been discarded.                                                    *)
(***************************************************************************)
EXTENDS BlockCache, TLAPS

\* Places in which a block is being executed.
Inside == {"vblank", "rtc", "dma", "body"}

Executing == IF cpu.at \in Inside THEN {cpu.blk} ELSE {}

\* The patched jumps of b.
LinksOf(b) ==
    \A a \in Addrs : link[b][a] # None =>
        /\ link[b][a] \in blkmap
        /\ info[link[b][a]].addr = a
        /\ b \in preRefs[link[b][a]]

LinksOK == \A b \in blkmap \cup Executing : LinksOf(b)

TablesOK ==
    /\ \A b \in blkmap : fpcb[info[b].addr] = b
    /\ \A a \in Addrs : fpcb[a] # None => fpcb[a] \in blkmap /\ info[fpcb[a]].addr = a
    /\ \A p \in Pages : pageBlocks[p] \subseteq blkmap

\* A page in the list of which there is a block is locked; a block that is not
\* checked is in the lists of all of its pages, which have not changed.
PagesOK ==
    /\ locked \cap unprotected = {}
    /\ \A p \in Pages : pageBlocks[p] # {} => p \in locked
    /\ \A b \in blkmap : info[b].read_only =>
          \A p \in info[b].code.pages : b \in pageBlocks[p] /\ snap[b][p] = ram[p]

\* What the CPU holds at each place.
ControlOK ==
    /\ cpu.at \in {"dispatch", "compile", "setup", "link"} => cpu.blk = None
    /\ cpu.at \in {"dispatch", "check"} \cup Inside => cpu.rbi = None
    /\ cpu.at \in {"compile", "setup"} => fpcb[cpu.pc] = None
    /\ cpu.at = "setup" => lastAddr < Slots
    /\ cpu.at = "link" => cpu.rbi # None /\ fpcb[cpu.pc] # None
    /\ cpu.at \in {"check", "vblank", "rtc"} => cpu.blk \in blkmap
    /\ cpu.at \in {"dma", "body"} => cpu.blk \in blkmap \cup delBlocks

IInv ==
    /\ TypeOK
    /\ TablesOK
    /\ PagesOK
    /\ LinksOK
    /\ ControlOK

-----------------------------------------------------------------------------
(* Constants. *)

\* The defaults that Init and Collect use exist.
LEMMA Defaults ==
    /\ AnyAddr \in Addrs /\ AnyValue \in Values
    /\ Blank \in [addr : Addrs, code : Code, read_only : BOOLEAN]
    /\ NoLinks \in [Addrs -> BlockOrNone]
<1>1. AnyAddr \in Addrs /\ AnyValue \in Values
  BY BlockAssumption DEF AnyAddr, AnyValue
<1>2. QED
  BY <1>1 DEF Blank, Code, NoLinks, BlockOrNone

\* Null is no block.
LEMMA NoneIsNoBlock == \A b \in Blocks : b # None
  BY BlockAssumption

-----------------------------------------------------------------------------
(* The initial state. *)

\* The emulator starts with an empty cache and nothing protected.
LEMMA InitOK == Init => IInv
<1> SUFFICES ASSUME Init PROVE IInv
  OBVIOUS
<1>1. PICK a \in Addrs : cpu = MainLoop(a)
  BY DEF Init
<1>2. TypeOK
  BY <1>1, Defaults, BlockAssumption DEF Init, TypeOK, MainLoop, Ats, BlockOrNone
<1>3. TablesOK /\ PagesOK
  BY DEF Init, TablesOK, PagesOK
<1>4. LinksOK
  BY <1>1 DEF Init, LinksOK, LinksOf, Executing, Inside, MainLoop, NoLinks
<1>5. ControlOK
  BY <1>1 DEF Init, ControlOK, MainLoop, Inside
<1>6. QED
  BY <1>2, <1>3, <1>4, <1>5 DEF IInv

-----------------------------------------------------------------------------
(* Steps that leave memory and cache alone. *)

\* Control may move as long as it does not get hold of a dead block.
LEMMA OnlyControl ==
    ASSUME IInv, UNCHANGED <<memVars, cacheVars>>,
           cpu' \in [at : Ats, pc : Addrs, blk : BlockOrNone, rbi : BlockOrNone],
           Executing' \subseteq blkmap \cup Executing,
           ControlOK'
    PROVE  IInv'
<1>1. TypeOK'
  BY DEF IInv, TypeOK, memVars, cacheVars
<1>2. TablesOK' /\ PagesOK'
  BY DEF IInv, TablesOK, PagesOK, memVars, cacheVars
<1>3. LinksOK'
  BY DEF IInv, LinksOK, LinksOf, memVars, cacheVars
<1>4. QED
  BY <1>1, <1>2, <1>3 DEF IInv

\* no_update: the jump table leads to a live block or to the compiler.
LEMMA DispatchOK == ASSUME IInv, Dispatch PROVE IInv'
<1> USE DEF IInv
<1>1. UNCHANGED <<memVars, cacheVars>>
  BY DEF Dispatch
<1>2. CASE fpcb[cpu.pc] = None
  <2>1. cpu' = [cpu EXCEPT !.at = "compile"]
    BY <1>2 DEF Dispatch
  <2>2. ControlOK'
    BY <1>1, <1>2, <2>1 DEF Dispatch, ControlOK, TypeOK, Inside, memVars, cacheVars
  <2>3. Executing' = {}
    BY <2>1 DEF Executing, Inside, TypeOK
  <2>4. QED
    BY <1>1, <2>1, <2>2, <2>3, OnlyControl DEF TypeOK, Ats
<1>3. CASE fpcb[cpu.pc] # None
  <2>1. cpu' = Enter(cpu.pc, fpcb[cpu.pc])
    BY <1>3 DEF Dispatch
  <2>2. ControlOK'
    BY <1>1, <1>3, <2>1 DEF Dispatch, ControlOK, TablesOK, TypeOK, Inside, Enter, memVars, cacheVars
  <2>3. Executing' = {}
    BY <2>1 DEF Executing, Inside, Enter
  <2>4. QED
    BY <1>1, <2>1, <2>2, <2>3, OnlyControl DEF TypeOK, Ats, Enter, BlockOrNone
<1>4. QED
  BY <1>2, <1>3

\* The vertical-blank slot and the end of the tick.
LEMMA TickVblankOK == ASSUME IInv, TickVblank PROVE IInv'
<1> USE DEF IInv
<1>1. UNCHANGED <<memVars, cacheVars>> /\ cpu' = [cpu EXCEPT !.at = "rtc"]
  BY DEF TickVblank, AfterSlot
<1>2. ControlOK'
  BY <1>1 DEF TickVblank, ControlOK, TypeOK, Inside, memVars, cacheVars
<1>3. Executing' = Executing
  BY <1>1 DEF TickVblank, Executing, Inside, TypeOK
<1>4. QED
  BY <1>1, <1>2, <1>3, OnlyControl DEF TypeOK, Ats

\* Control returns to the main loop, at any address.
LEMMA ToMainLoop ==
    ASSUME IInv, UNCHANGED <<memVars, cacheVars>>, NEW a \in Addrs, cpu' = MainLoop(a)
    PROVE  IInv'
<1> USE DEF IInv
<1>1. ControlOK'
  BY DEF ControlOK, MainLoop, Inside
<1>2. Executing' = {}
  BY DEF Executing, Inside, MainLoop
<1>3. QED
  BY <1>1, <1>2, OnlyControl DEF MainLoop, Ats, BlockOrNone

\* intc_sched returns to the block, or an interrupt leaves it.
LEMMA TickEndOK == ASSUME IInv, TickEnd PROVE IInv'
<1> USE DEF IInv
<1>1. UNCHANGED <<memVars, cacheVars>> /\ cpu.at = "dma"
  BY DEF TickEnd
<1>2. CASE cpu' = [cpu EXCEPT !.at = "body"]
  <2>1. ControlOK'
    BY <1>1, <1>2 DEF ControlOK, TypeOK, Inside, memVars, cacheVars
  <2>2. Executing' = Executing
    BY <1>1, <1>2 DEF Executing, Inside, TypeOK
  <2>3. QED
    BY <1>1, <1>2, <2>1, <2>2, OnlyControl DEF TypeOK, Ats
<1>3. CASE \E a \in Addrs : cpu' = MainLoop(a)
  BY <1>1, <1>3, ToMainLoop
<1>4. QED
  BY <1>2, <1>3 DEF TickEnd, AfterSlot

\* A computed jump or an exception: back to the main loop.
LEMMA ExitDynamicOK == ASSUME IInv, ExitDynamic PROVE IInv'
  BY ToMainLoop DEF ExitDynamic

\* A patched jump of the running block leads to a live block.
LEMMA ExitLinkedOK == ASSUME IInv, NEW a \in Addrs, ExitLinked(a) PROVE IInv'
<1> USE DEF IInv
<1>1. /\ UNCHANGED <<memVars, cacheVars>> /\ cpu.at = "body"
      /\ cpu' = Enter(a, link[cpu.blk][a])
  BY DEF ExitLinked
<1>2. link[cpu.blk][a] \in blkmap
  BY <1>1 DEF ExitLinked, LinksOK, LinksOf, Executing, Inside
<1>3. ControlOK'
  BY <1>1, <1>2 DEF ControlOK, Enter, Inside, memVars, cacheVars
<1>4. Executing' = {}
  BY <1>1 DEF Executing, Inside, Enter
<1>5. QED
  BY <1>1, <1>2, <1>3, <1>4, OnlyControl DEF TypeOK, Ats, Enter, BlockOrNone

\* rdv_LinkBlock before findOrCompile().
LEMMA LinkBlockOK == ASSUME IInv, NEW a \in Addrs, rdv_LinkBlock(a) PROVE IInv'
<1> USE DEF IInv
<1> DEFINE rbi == IF cpu.blk \in blkmap THEN cpu.blk ELSE None
           hit == fpcb[a]
<1>1. /\ UNCHANGED <<memVars, cacheVars>>
      /\ cpu' = [at |-> IF hit = None THEN "compile" ELSE IF rbi = None THEN "check" ELSE "link",
                 pc |-> a, blk |-> IF hit # None /\ rbi = None THEN hit ELSE None, rbi |-> rbi]
  BY DEF rdv_LinkBlock
<1>2. hit \in BlockOrNone /\ (hit # None => hit \in blkmap) /\ rbi \in BlockOrNone
  BY DEF TypeOK, TablesOK, BlockOrNone
<1> HIDE DEF rbi
<1>3. ControlOK'
  BY <1>1, <1>2 DEF ControlOK, Inside, memVars, cacheVars
<1>4. Executing' = {}
  BY <1>1 DEF Executing, Inside
<1>5. QED
  BY <1>1, <1>2, <1>3, <1>4, OnlyControl DEF Ats, BlockOrNone

-----------------------------------------------------------------------------
(* Flushing and collecting. *)

\* An empty cache satisfies the invariant, whatever memory holds.
LEMMA Flushed ==
    ASSUME IInv, FlushTables, locked' \subseteq Pages, ram' \in [Pages -> Values],
           delBlocks' \subseteq Blocks,
           cpu' \in [at : Ats, pc : Addrs, blk : BlockOrNone, rbi : BlockOrNone],
           cpu'.at \notin Inside, ControlOK'
    PROVE  IInv'
<1> USE DEF IInv
<1>1. TypeOK'
  BY Defaults, BlockAssumption DEF FlushTables, TypeOK, BlockOrNone
<1>2. TablesOK' /\ PagesOK'
  BY DEF FlushTables, TablesOK, PagesOK
<1>3. LinksOK'
  BY DEF FlushTables, LinksOK, Executing
<1>4. QED
  BY <1>1, <1>2, <1>3

\* compilePC flushes the cache when the code buffer is full: there is room.
LEMMA CompilePCOK == ASSUME IInv, CompilePC PROVE IInv'
<1> USE DEF IInv
<1>1. cpu.at = "compile" /\ cpu' = [cpu EXCEPT !.at = "setup"]
  BY DEF CompilePC
<1>2. /\ cpu' \in [at : Ats, pc : Addrs, blk : BlockOrNone, rbi : BlockOrNone]
      /\ cpu'.at = "setup" /\ cpu'.pc = cpu.pc /\ cpu'.blk = cpu.blk /\ cpu.pc \in Addrs
  BY <1>1 DEF TypeOK, Ats
<1>3. CASE NeedsReset /\ ResetCache
  <2>1. ControlOK'
    BY <1>1, <1>2, <1>3, BlockAssumption DEF ControlOK, ResetCache, FlushTables, Inside
  <2>2. QED
    BY <1>2, <1>3, <2>1, Flushed DEF ResetCache, TypeOK, Inside
<1>4. CASE ~NeedsReset /\ UNCHANGED <<memVars, cacheVars>>
  <2>1. lastAddr < Slots
    <3>1. lastAddr \in 0 .. Slots /\ Slots \in Nat
      BY BlockAssumption DEF TypeOK
    <3>2. lastAddr # Slots
      BY <1>4 DEF NeedsReset
    <3>3. QED
      BY <3>1, <3>2
  <2>2. ControlOK'
    BY <1>1, <1>2, <1>4, <2>1 DEF ControlOK, Inside, memVars, cacheVars
  <2>3. Executing' = {}
    BY <1>2 DEF Executing, Inside
  <2>4. QED
    BY <1>2, <1>4, <2>2, <2>3, OnlyControl
<1>5. QED
  BY <1>3, <1>4 DEF CompilePC

\* A check that fails flushes the cache; one that succeeds starts the block.
LEMMA CheckBlockOK == ASSUME IInv, CheckBlock PROVE IInv'
<1> USE DEF IInv
<1>1. cpu.at = "check" /\ cpu.blk \in blkmap /\ cpu.blk \in Blocks /\ cpu.rbi = None
  BY DEF CheckBlock, ControlOK, TypeOK
<1>2. CASE /\ CheckFails(cpu.blk) /\ ResetCache
           /\ cpu' = [cpu EXCEPT !.at = "compile", !.pc = info[cpu.blk].addr, !.blk = None]
  <2>1. /\ cpu' \in [at : Ats, pc : Addrs, blk : BlockOrNone, rbi : BlockOrNone]
        /\ cpu'.at = "compile" /\ cpu'.blk = None /\ cpu'.pc \in Addrs
    BY <1>1, <1>2 DEF TypeOK, Ats, BlockOrNone
  <2>2. ControlOK'
    BY <1>2, <2>1 DEF ControlOK, ResetCache, FlushTables, Inside
  <2>3. QED
    BY <1>2, <2>1, <2>2, Flushed DEF ResetCache, TypeOK, Inside
<1>3. CASE /\ \E at \in {"body", "vblank"} : cpu' = [cpu EXCEPT !.at = at]
           /\ Collect
           /\ UNCHANGED <<memVars, blkmap, fpcb, pageBlocks, lastAddr>>
  <2>1. /\ cpu' \in [at : Ats, pc : Addrs, blk : BlockOrNone, rbi : BlockOrNone]
        /\ cpu'.at \in {"body", "vblank"} /\ cpu'.blk = cpu.blk /\ cpu'.rbi = None
    BY <1>1, <1>3 DEF TypeOK, Ats
  <2>2. TypeOK'
    BY <1>3, <2>1, Defaults DEF TypeOK, Collect, memVars
  <2>3. \A b \in blkmap : info'[b] = info[b] /\ snap'[b] = snap[b] /\ link'[b] = link[b]
    BY <1>3 DEF Collect, TypeOK
  <2>4. TablesOK'
    BY <1>3, <2>3 DEF TablesOK, memVars
  <2>5. PagesOK'
    BY <1>3, <2>3 DEF PagesOK, memVars
  <2>6. LinksOK'
    <3>1. Executing' \subseteq blkmap
      BY <1>1, <2>1 DEF Executing
    <3>2. SUFFICES ASSUME NEW b \in blkmap, NEW a \in Addrs, link[b][a] # None
                   PROVE  /\ link[b][a] \in blkmap
                          /\ info'[link[b][a]].addr = a
                          /\ b \in preRefs'[link[b][a]]
      BY <1>3, <2>3, <3>1 DEF LinksOK, LinksOf
    <3>3. /\ link[b][a] \in blkmap /\ info[link[b][a]].addr = a
          /\ b \in preRefs[link[b][a]]
      BY <3>2 DEF LinksOK, LinksOf
    <3>4. QED
      BY <1>3, <2>3, <3>3 DEF Collect, TypeOK
  <2>7. ControlOK'
    BY <1>1, <1>3, <2>1 DEF ControlOK, Inside
  <2>8. QED
    BY <2>2, <2>4, <2>5, <2>6, <2>7
<1>4. QED
  BY <1>2, <1>3 DEF CheckBlock

\* The RTC slot frees discarded blocks; the running block is still live.
LEMMA TickRtcOK == ASSUME IInv, TickRtc PROVE IInv'
<1> USE DEF IInv
<1>1. /\ cpu.at = "rtc" /\ cpu' = [cpu EXCEPT !.at = "dma"] /\ delBlocks' \subseteq delBlocks
      /\ UNCHANGED <<ram, locked, unprotected, info, snap, link, preRefs, blkmap, fpcb,
                     pageBlocks, lastAddr>>
  BY DEF TickRtc, AfterSlot, memVars
<1>2. TypeOK'
  BY <1>1 DEF TypeOK, Ats
<1>3. TablesOK' /\ PagesOK'
  BY <1>1 DEF TablesOK, PagesOK
<1>4. LinksOK'
  BY <1>1 DEF LinksOK, LinksOf, Executing, Inside, TypeOK
<1>5. ControlOK'
  BY <1>1 DEF ControlOK, Inside, TypeOK
<1>6. QED
  BY <1>2, <1>3, <1>4, <1>5

\* A state is loaded, or the machine reset.
LEMMA LoadStateOK == ASSUME IInv, LoadState PROVE IInv'
<1> USE DEF IInv
<1>1. ControlOK'
  BY DEF LoadState, ControlOK, Inside
<1>2. QED
  BY <1>1, Flushed DEF LoadState, TypeOK, Inside

\* Emulator::dc_reset flushes the cache.
LEMMA ResetOK == ASSUME IInv, NEW hard \in BOOLEAN, Reset(hard) PROVE IInv'
<1> USE DEF IInv
<1>1. PICK a \in Addrs : cpu' = MainLoop(a)
  BY DEF Reset
<1>2. ControlOK' /\ cpu'.at \notin Inside
  BY <1>1 DEF ControlOK, Inside, MainLoop
<1>3. cpu' \in [at : Ats, pc : Addrs, blk : BlockOrNone, rbi : BlockOrNone]
  BY <1>1 DEF MainLoop, Ats, BlockOrNone
<1>4. ram' \in [Pages -> Values]
  BY Defaults DEF Reset, TypeOK
<1>5. QED
  BY <1>2, <1>3, <1>4, Flushed DEF Reset

-----------------------------------------------------------------------------
(* Discarding. *)

\* A store to RAM, with the fault and the discards it may cause, by the running
\* block or by a DMA in its tick.
LEMMA StoreOK ==
    ASSUME IInv, NEW view \in Views, NEW p \in Pages, NEW v \in Values,
           Store(view, p, v), cpu.at \in {"dma", "body"},
           cpu' \in {cpu, [cpu EXCEPT !.at = "fault"]}
    PROVE  IInv'
<1> USE DEF IInv
<1>0. cpu' \in [at : Ats, pc : Addrs, blk : BlockOrNone, rbi : BlockOrNone]
  BY DEF TypeOK, Ats
<1>1. CASE ~ Faults(view, p) /\ UNCHANGED <<locked, unprotected, cacheVars>>
  <2>1. ram' = [ram EXCEPT ![p] = v] /\ p \notin locked
    BY <1>1 DEF Store, Faults
  <2>2. TypeOK'
    BY <1>0, <1>1, <2>1 DEF TypeOK, cacheVars
  <2>3. TablesOK' /\ LinksOK' /\ ControlOK'
    BY <1>1 DEF TablesOK, LinksOK, LinksOf, Executing, ControlOK, cacheVars, TypeOK, Inside
  <2>4. PagesOK'
    <3>1. pageBlocks[p] = {}
      BY <2>1 DEF PagesOK
    <3>2. \A q \in Pages : q # p => ram'[q] = ram[q]
      BY <2>1 DEF TypeOK
    <3>3. \A b \in blkmap : info[b].code.pages \subseteq Pages
      BY DEF TypeOK, Code
    <3>4. QED
      BY <1>1, <3>1, <3>2, <3>3 DEF PagesOK, cacheVars
  <2>5. QED
    BY <2>2, <2>3, <2>4
<1>2. CASE Faults(view, p) /\ bm_RamWriteAccess(p)
  <2> DEFINE D == IF p \in unprotected THEN {} ELSE pageBlocks[p]
  <2>1. pageBlocks[p] \subseteq D /\ D \subseteq pageBlocks[p]
    BY DEF PagesOK
  <2>2. /\ unprotected' = unprotected \cup {p} /\ locked' = locked \ {p}
        /\ bm_DiscardBlocks(D) /\ UNCHANGED <<info, snap, lastAddr>>
    BY <1>2 DEF bm_RamWriteAccess, PagesOK
  <2>3. ram' \in {ram, [ram EXCEPT ![p] = v]}
    BY DEF Store
  <2>4. D \subseteq blkmap /\ D \subseteq Blocks
    BY DEF TablesOK, TypeOK
  <2>5. LinksWithout(D) \in [Blocks -> [Addrs -> BlockOrNone]]
    BY Defaults DEF LinksWithout, TypeOK, BlockOrNone
  <2>6. TypeOK'
    <3>1. /\ ram' \in [Pages -> Values] /\ locked' \subseteq Pages /\ unprotected' \subseteq Pages
          /\ info' = info /\ snap' = snap /\ lastAddr' = lastAddr
      BY <2>2, <2>3 DEF TypeOK
    <3>2. /\ link' \in [Blocks -> [Addrs -> BlockOrNone]]
          /\ blkmap' \subseteq Blocks /\ delBlocks' \subseteq Blocks
      BY <2>2, <2>4, <2>5 DEF TypeOK, bm_DiscardBlocks
    <3>3. preRefs' \in [Blocks -> SUBSET Blocks] /\ pageBlocks' \in [Pages -> SUBSET Blocks]
      BY <2>2 DEF TypeOK, bm_DiscardBlocks
    <3>4. fpcb' \in [Addrs -> BlockOrNone]
      BY <2>2 DEF TypeOK, bm_DiscardBlocks, BlockOrNone
    <3>5. QED
      BY <1>0, <3>1, <3>2, <3>3, <3>4 DEF TypeOK
  <2>7. TablesOK'
    <3>1. \A b \in blkmap' : fpcb'[info'[b].addr] = b
      <4> SUFFICES ASSUME NEW b \in blkmap \ D PROVE fpcb'[info[b].addr] = b
        BY <2>2 DEF bm_DiscardBlocks
      <4>1. info[b].addr \in Addrs /\ fpcb[info[b].addr] = b
        BY DEF TypeOK, TablesOK
      <4>2. \A c \in D : info[c].addr # info[b].addr
        BY <2>4 DEF TablesOK
      <4>3. QED
        BY <2>2, <4>1, <4>2 DEF bm_DiscardBlocks
    <3>2. \A a \in Addrs : fpcb'[a] # None => fpcb'[a] \in blkmap' /\ info'[fpcb'[a]].addr = a
      <4> SUFFICES ASSUME NEW a \in Addrs, fpcb'[a] # None
                   PROVE  fpcb'[a] \in blkmap' /\ info'[fpcb'[a]].addr = a
        OBVIOUS
      <4>1. fpcb'[a] = fpcb[a] /\ ~ \E b \in D : info[b].addr = a
        BY <2>2 DEF bm_DiscardBlocks
      <4>2. fpcb[a] \in blkmap /\ info[fpcb[a]].addr = a
        BY <4>1 DEF TablesOK
      <4>3. QED
        BY <2>2, <4>1, <4>2 DEF bm_DiscardBlocks
    <3>3. \A q \in Pages : pageBlocks'[q] \subseteq blkmap'
      BY <2>2 DEF bm_DiscardBlocks, TablesOK
    <3>4. QED
      BY <3>1, <3>2, <3>3 DEF TablesOK
  <2>8. PagesOK'
    <3>1. locked' \cap unprotected' = {}
      BY <2>2 DEF PagesOK
    <3>2. \A q \in Pages : pageBlocks'[q] = pageBlocks[q] \ D
      BY <2>2 DEF bm_DiscardBlocks
    <3>3. \A q \in Pages : pageBlocks'[q] # {} => q \in locked'
      BY <2>1, <2>2, <3>2 DEF PagesOK
    <3>4. ASSUME NEW b \in blkmap', info'[b].read_only, NEW q \in info'[b].code.pages
          PROVE  b \in pageBlocks'[q] /\ snap'[b][q] = ram'[q]
      <4>1. b \in blkmap /\ b \notin D /\ info'[b] = info[b] /\ snap'[b] = snap[b]
        BY <2>2 DEF bm_DiscardBlocks
      <4>2. q \in Pages /\ b \in pageBlocks[q] /\ snap[b][q] = ram[q]
        BY <3>4, <4>1 DEF PagesOK, TypeOK, Code
      <4>3. q # p
        BY <2>1, <4>1, <4>2
      <4>4. ram'[q] = ram[q]
        BY <2>3, <4>2, <4>3 DEF TypeOK
      <4>5. QED
        BY <3>2, <4>1, <4>2, <4>4
    <3>5. QED
      BY <3>1, <3>3, <3>4 DEF PagesOK
  <2>9. LinksOK'
    <3>1. Executing' \subseteq Executing /\ Executing \subseteq Blocks
      BY <2>6, BlockAssumption DEF Executing, TypeOK, ControlOK, Inside
    <3>2. SUFFICES ASSUME NEW b \in (blkmap \ D) \cup Executing, NEW a \in Addrs,
                          link'[b][a] # None
                   PROVE  /\ link'[b][a] \in blkmap \ D
                          /\ info[link'[b][a]].addr = a
                          /\ b \in preRefs'[link'[b][a]]
      BY <2>2, <3>1 DEF LinksOK, LinksOf, bm_DiscardBlocks
    <3>3. b \in Blocks
      BY <3>1 DEF TypeOK
    <3>4. link' = LinksWithout(D)
      BY <2>2 DEF bm_DiscardBlocks
    <3>5. b \notin D
      BY <3>2, <3>3, <3>4 DEF LinksWithout, NoLinks
    <3>6. link'[b][a] = link[b][a] /\ ~ (link[b][a] \in D /\ b \in preRefs[link[b][a]])
      BY <3>2, <3>3, <3>4, <3>5 DEF LinksWithout
    <3>7. /\ link[b][a] \in blkmap /\ info[link[b][a]].addr = a
          /\ b \in preRefs[link[b][a]]
      BY <3>2, <3>6 DEF LinksOK, LinksOf
    <3>8. preRefs'[link[b][a]] = preRefs[link[b][a]]
      BY <2>2, <3>6, <3>7 DEF bm_DiscardBlocks, TypeOK
    <3>9. QED
      BY <3>6, <3>7, <3>8
  <2>10. ControlOK'
    BY <2>2 DEF ControlOK, Inside, bm_DiscardBlocks, TypeOK
  <2>11. QED
    BY <2>6, <2>7, <2>8, <2>9, <2>10
<1>3. QED
  BY <1>1, <1>2 DEF Store

-----------------------------------------------------------------------------
(* Compiling and linking. *)

\* A block is compiled: its pages are listed and locked, or it is checked.
LEMMA SetupOK ==
    ASSUME IInv, NEW b \in Fresh, NEW d \in Decode[cpu.pc], Setup(b, d)
    PROVE  IInv'
<1> USE DEF IInv
<1> DEFINE ro == ReadOnly(cpu.pc, d)
<1>1. /\ cpu.at = "setup" /\ cpu.pc \in Addrs /\ b \in Blocks \ blkmap /\ b # cpu.rbi
      /\ d \in Code /\ fpcb[cpu.pc] = None /\ lastAddr < Slots /\ b # None
  BY BlockAssumption DEF Setup, Fresh, ControlOK, TypeOK
<1>2. /\ info' = [info EXCEPT ![b] = [addr |-> cpu.pc, code |-> d, read_only |-> ro]]
      /\ snap' = [snap EXCEPT ![b] = [p \in Pages |-> IF p \in d.pages THEN ram[p] ELSE AnyValue]]
      /\ link' = [link EXCEPT ![b] = NoLinks] /\ preRefs' = [preRefs EXCEPT ![b] = {}]
      /\ blkmap' = blkmap \cup {b} /\ fpcb' = [fpcb EXCEPT ![cpu.pc] = b]
      /\ delBlocks' = delBlocks \ {b} /\ lastAddr' = lastAddr + 1
      /\ UNCHANGED <<ram, unprotected>>
  BY DEF Setup
<1>3. ro \in BOOLEAN /\ (ro => d.pages \cap unprotected = {})
  BY DEF ReadOnly
<1>4. /\ locked' = IF ro THEN locked \cup {p \in d.pages : pageBlocks[p] = {}} ELSE locked
      /\ pageBlocks' = [p \in Pages |->
                          pageBlocks[p] \cup (IF ro /\ p \in d.pages THEN {b} ELSE {})]
  BY DEF Setup, Protect, TypeOK
<1> HIDE DEF ro
<1>5. d.pages \subseteq Pages
  BY <1>1 DEF Code
<1>6. /\ cpu'.at \in {"check", "link"} /\ cpu'.pc = cpu.pc
      /\ cpu'.at = "check" => cpu'.blk = b /\ cpu'.rbi = None
      /\ cpu'.at = "link" => cpu'.blk = None /\ cpu'.rbi # None
      /\ cpu' \in [at : Ats, pc : Addrs, blk : BlockOrNone, rbi : BlockOrNone]
  BY <1>1 DEF Setup, Compiled, Enter, TypeOK, ControlOK, Ats, BlockOrNone
<1>7. TypeOK'
  <2>1. info' \in [Blocks -> [addr : Addrs, code : Code, read_only : BOOLEAN]]
    BY <1>1, <1>2, <1>3 DEF TypeOK
  <2>2. snap' \in [Blocks -> [Pages -> Values]]
    BY <1>1, <1>2, Defaults DEF TypeOK
  <2>3. link' \in [Blocks -> [Addrs -> BlockOrNone]] /\ preRefs' \in [Blocks -> SUBSET Blocks]
    BY <1>1, <1>2, Defaults DEF TypeOK
  <2>4. pageBlocks' \in [Pages -> SUBSET Blocks] /\ locked' \subseteq Pages
    BY <1>1, <1>4, <1>5 DEF TypeOK
  <2>5. /\ blkmap' \subseteq Blocks /\ delBlocks' \subseteq Blocks /\ fpcb' \in [Addrs -> BlockOrNone]
        /\ lastAddr' \in 0 .. Slots
    BY <1>1, <1>2, BlockAssumption DEF TypeOK, BlockOrNone
  <2>6. QED
    BY <1>2, <1>6, <2>1, <2>2, <2>3, <2>4, <2>5 DEF TypeOK
<1>8. \A c \in blkmap : c # b /\ info'[c] = info[c] /\ snap'[c] = snap[c] /\ link'[c] = link[c]
                        /\ preRefs'[c] = preRefs[c] /\ info[c].addr # cpu.pc
  BY <1>1, <1>2, NoneIsNoBlock DEF TypeOK, TablesOK
<1>9. TablesOK'
  <2>1. \A c \in blkmap' : fpcb'[info'[c].addr] = c
    <3>1. fpcb'[info'[b].addr] = b
      BY <1>1, <1>2 DEF TypeOK
    <3>2. \A c \in blkmap : fpcb'[info'[c].addr] = c
      BY <1>1, <1>2, <1>8 DEF TypeOK, TablesOK
    <3>3. QED
      BY <1>2, <3>1, <3>2
  <2>2. \A a \in Addrs : fpcb'[a] # None => fpcb'[a] \in blkmap' /\ info'[fpcb'[a]].addr = a
    <3> SUFFICES ASSUME NEW a \in Addrs, fpcb'[a] # None
                 PROVE  fpcb'[a] \in blkmap' /\ info'[fpcb'[a]].addr = a
      OBVIOUS
    <3>1. CASE a = cpu.pc
      BY <1>1, <1>2, <3>1 DEF TypeOK
    <3>2. CASE a # cpu.pc
      BY <1>1, <1>2, <1>8, <3>2 DEF TypeOK, TablesOK
    <3>3. QED
      BY <3>1, <3>2
  <2>3. \A p \in Pages : pageBlocks'[p] \subseteq blkmap'
    BY <1>2, <1>4 DEF TablesOK
  <2>4. QED
    BY <2>1, <2>2, <2>3 DEF TablesOK
<1>10. PagesOK'
  <2>1. locked' \cap unprotected' = {}
    BY <1>2, <1>3, <1>4 DEF PagesOK
  <2>2. \A p \in Pages : pageBlocks'[p] # {} => p \in locked'
    BY <1>4 DEF PagesOK
  <2>3. ASSUME NEW c \in blkmap', info'[c].read_only, NEW p \in info'[c].code.pages
        PROVE  c \in pageBlocks'[p] /\ snap'[c][p] = ram'[p]
    <3>1. CASE c = b
      <4>1. info'[c].read_only = ro /\ info'[c].code = d
        BY <1>1, <1>2, <3>1 DEF TypeOK
      <4>2. ro /\ p \in d.pages /\ p \in Pages
        BY <1>5, <2>3, <4>1
      <4>3. snap'[c][p] = ram[p]
        BY <1>1, <1>2, <3>1, <4>2 DEF TypeOK
      <4>4. QED
        BY <1>2, <1>4, <3>1, <4>2, <4>3
    <3>2. CASE c # b
      <4>1. c \in blkmap /\ info'[c] = info[c] /\ snap'[c] = snap[c]
        BY <1>2, <1>8, <3>2
      <4>2. p \in Pages /\ c \in pageBlocks[p] /\ snap[c][p] = ram[p]
        BY <2>3, <4>1 DEF PagesOK, TypeOK, Code
      <4>3. QED
        BY <1>2, <1>4, <4>1, <4>2
    <3>3. QED
      BY <3>1, <3>2
  <2>4. QED
    BY <2>1, <2>2, <2>3 DEF PagesOK
<1>11. LinksOK'
  <2>1. Executing' = {}
    BY <1>6 DEF Executing, Inside
  <2>2. LinksOf(b)'
    BY <1>1, <1>2 DEF LinksOf, NoLinks, TypeOK
  <2>3. \A c \in blkmap : LinksOf(c)'
    <3> SUFFICES ASSUME NEW c \in blkmap, NEW a \in Addrs, link'[c][a] # None
                 PROVE  /\ link'[c][a] \in blkmap' /\ info'[link'[c][a]].addr = a
                        /\ c \in preRefs'[link'[c][a]]
      BY DEF LinksOf
    <3> DEFINE t == link[c][a]
    <3>1. link'[c][a] = t
      BY <1>8
    <3>2. t \in blkmap /\ info[t].addr = a /\ c \in preRefs[t]
      BY <3>1 DEF LinksOK, LinksOf
    <3> HIDE DEF t
    <3>3. info'[t] = info[t] /\ preRefs'[t] = preRefs[t] /\ t \in blkmap'
      BY <1>2, <1>8, <3>2
    <3>4. QED
      BY <3>1, <3>2, <3>3
  <2>4. QED
    BY <1>2, <2>1, <2>2, <2>3 DEF LinksOK
<1>12. ControlOK'
  <2>1. fpcb'[cpu.pc] = b
    BY <1>1, <1>2 DEF TypeOK
  <2>2. QED
    BY <1>1, <1>2, <1>6, <2>1 DEF ControlOK, Inside
<1>13. QED
  BY <1>7, <1>9, <1>10, <1>11, <1>12

\* rdv_LinkBlock patches the jump and enters the target in pre_refs.
LEMMA LinkOK == ASSUME IInv, Link PROVE IInv'
<1> USE DEF IInv
<1> DEFINE nxt == fpcb[cpu.pc]
<1>1. /\ cpu.at = "link" /\ cpu.pc \in Addrs /\ cpu.rbi \in Blocks
      /\ nxt \in blkmap /\ nxt \in Blocks /\ info[nxt].addr = cpu.pc
  BY DEF Link, ControlOK, TypeOK, TablesOK, BlockOrNone
<1>2. /\ link' = [link EXCEPT ![cpu.rbi][cpu.pc] = nxt]
      /\ preRefs' = [preRefs EXCEPT ![nxt] = @ \cup {cpu.rbi}]
      /\ cpu' = Enter(cpu.pc, nxt)
      /\ UNCHANGED <<ram, locked, unprotected, info, snap, blkmap, fpcb, pageBlocks,
                     delBlocks, lastAddr>>
  BY DEF Link, memVars
<1> HIDE DEF nxt
<1>3. TypeOK'
  <2>1. link' \in [Blocks -> [Addrs -> BlockOrNone]] /\ preRefs' \in [Blocks -> SUBSET Blocks]
    BY <1>1, <1>2 DEF TypeOK, BlockOrNone
  <2>2. cpu' \in [at : Ats, pc : Addrs, blk : BlockOrNone, rbi : BlockOrNone]
    BY <1>1, <1>2 DEF Enter, Ats, BlockOrNone
  <2>3. QED
    BY <1>2, <2>1, <2>2 DEF TypeOK
<1>4. TablesOK' /\ PagesOK'
  BY <1>2 DEF TablesOK, PagesOK
<1>5. LinksOK'
  <2>1. Executing' = {}
    BY <1>2 DEF Executing, Inside, Enter
  <2>2. \A t \in blkmap : preRefs[t] \subseteq preRefs'[t]
    BY <1>1, <1>2 DEF TypeOK
  <2>3. SUFFICES ASSUME NEW b \in blkmap, NEW a \in Addrs, link'[b][a] # None
                 PROVE  /\ link'[b][a] \in blkmap
                        /\ info[link'[b][a]].addr = a
                        /\ b \in preRefs'[link'[b][a]]
    BY <1>2, <2>1 DEF LinksOK, LinksOf
  <2>4. CASE b = cpu.rbi /\ a = cpu.pc
    BY <1>1, <1>2, <2>4 DEF TypeOK
  <2>5. CASE ~ (b = cpu.rbi /\ a = cpu.pc)
    <3>1. link'[b][a] = link[b][a]
      BY <1>1, <1>2, <2>5 DEF TypeOK
    <3>2. QED
      BY <2>2, <2>3, <3>1 DEF LinksOK, LinksOf
  <2>6. QED
    BY <2>4, <2>5
<1>6. ControlOK'
  BY <1>1, <1>2 DEF ControlOK, Enter, Inside
<1>7. QED
  BY <1>3, <1>4, <1>5, <1>6

-----------------------------------------------------------------------------
(* Theorems. *)

\* Every step keeps the invariant.
LEMMA NextOK == IInv /\ [Next]_vars => IInv'
<1> SUFFICES ASSUME IInv, [Next]_vars PROVE IInv'
  OBVIOUS
<1>1. CASE Dispatch \/ CompilePC \/ CheckBlock \/ Link
  BY <1>1, DispatchOK, CompilePCOK, CheckBlockOK, LinkOK
<1>2. CASE \E b \in Fresh, d \in Decode[cpu.pc] : Setup(b, d)
  BY <1>2, SetupOK
<1>3. CASE TickVblank \/ TickRtc \/ TickEnd
  BY <1>3, TickVblankOK, TickRtcOK, TickEndOK
<1>4. CASE TickDma
  BY <1>4, StoreOK DEF TickDma, Views
<1>5. CASE GuestStore
  BY <1>5, StoreOK DEF GuestStore
<1>6. CASE ExitDynamic
  BY <1>6, ExitDynamicOK
<1>7. CASE \E a \in Addrs : ExitLinked(a) \/ rdv_LinkBlock(a)
  BY <1>7, ExitLinkedOK, LinkBlockOK
<1>8. CASE LoadState
  BY <1>8, LoadStateOK
<1>9. CASE \E hard \in BOOLEAN : Reset(hard)
  BY <1>9, ResetOK
<1>10. CASE FaultAgain \/ UNCHANGED vars
  BY <1>10 DEF FaultAgain, vars, IInv, TypeOK, TablesOK, PagesOK, LinksOK, LinksOf, Executing, ControlOK
<1>11. QED
  BY <1>1, <1>2, <1>3, <1>4, <1>5, <1>6, <1>7, <1>8, <1>9, <1>10 DEF Next

\* The invariant holds in every state of the cache.
LEMMA Invariant == Spec => []IInv
  BY InitOK, NextOK, PTL DEF Spec

\* The tables of blockmanager.cpp and the control state keep their types; in
\* particular the code buffer never overflows.
THEOREM TypeCorrect == Spec => []TypeOK
<1>1. IInv => TypeOK
  BY DEF IInv
<1>2. QED
  BY <1>1, Invariant, PTL

\* No patched jump leads to freed code, and every one will be undone when its
\* target is discarded.
THEOREM LinksLive == Spec => []LinksAreLive
<1>1. IInv => LinksAreLive
  BY DEF IInv, LinksAreLive, LinksOK, LinksOf, Executing, Inside
<1>2. QED
  BY <1>1, Invariant, PTL

\* The verify()s about the tables never fail.
THEOREM TablesConsistent == Spec => []TablesAgree
<1>1. IInv => TablesAgree
  BY DEF IInv, TablesAgree, TablesOK, ControlOK
<1>2. QED
  BY <1>1, Invariant, PTL

\* A page that bm_RamWriteAccess has unlocked is not locked again.
THEOREM FaultsEnd == Spec => []NoLoopInFirstView
<1>1. IInv => NoLoopInFirstView
  BY DEF IInv, NoLoopInFirstView, PagesOK
<1>2. QED
  BY <1>1, Invariant, PTL

\* Therefore a store through the first view of RAM, of a block or a DMA, is
\* carried out at the latest when the fault handler has it repeated.  Nothing
\* of the kind holds for the mirrors.
THEOREM FirstViewStores ==
    Spec => [][\A p \in Pages, v \in Values :
                  Store("ram", p, v) => ram' = [ram EXCEPT ![p] = v]]_vars
<1>1. ASSUME IInv, NEW p \in Pages, NEW v \in Values, Store("ram", p, v)
      PROVE  ram' = [ram EXCEPT ![p] = v]
  <2>1. locked \cap unprotected = {}
    BY <1>1 DEF IInv, PagesOK
  <2>2. p \notin locked'
    BY <1>1, <2>1 DEF Store, Faults, bm_RamWriteAccess
  <2>3. QED
    BY <1>1, <2>2 DEF Store, Faults
<1>2. IInv => [\A p \in Pages, v \in Values :
                  Store("ram", p, v) => ram' = [ram EXCEPT ![p] = v]]_vars
  BY <1>1
<1>3. QED
  BY <1>2, Invariant, PTL

\* verify(rbi != NULL) in rdv_LinkBlock never fails.
THEOREM LinkerFound == Spec => []LinkerFindsBlock
<1>1. IInv => LinkerFindsBlock
  BY DEF IInv, LinkerFindsBlock, LinkerFinds, ControlOK
<1>2. QED
  BY <1>1, Invariant, PTL

\* A block starts to run only on the guest code it was compiled from.
THEOREM EntriesFresh == Spec => EntryIsFresh
<1>1. ASSUME IInv, [Next]_vars, cpu.at = "check", cpu'.at \in {"body", "vblank"}
      PROVE  ~ CodeChanged(cpu.blk)
  <2>1. cpu.blk \in blkmap
    BY <1>1 DEF IInv, ControlOK
  <2>2. ~ CheckFails(cpu.blk)
    <3>1. cpu' # cpu
      BY <1>1
    <3>2. CASE CheckBlock
      BY <1>1, <3>2, <2>1 DEF CheckBlock, IInv, TypeOK
    <3>3. CASE Dispatch \/ CompilePC \/ Link \/ TickVblank \/ TickRtc \/ TickDma \/ TickEnd
               \/ GuestStore \/ FaultAgain \/ ExitDynamic \/ LoadState
      BY <1>1, <3>3 DEF Dispatch, CompilePC, Link, TickVblank, TickRtc, TickDma, TickEnd,
                        GuestStore, FaultAgain, ExitDynamic, LoadState
    <3>4. CASE \/ \E b \in Fresh, d \in Decode[cpu.pc] : Setup(b, d)
               \/ \E a \in Addrs : ExitLinked(a) \/ rdv_LinkBlock(a)
               \/ \E hard \in BOOLEAN : Reset(hard)
      BY <1>1, <3>4 DEF Setup, ExitLinked, rdv_LinkBlock, Reset
    <3>5. QED
      BY <1>1, <3>1, <3>2, <3>3, <3>4 DEF Next, vars
  <2>3. QED
    BY <1>1, <2>1, <2>2 DEF IInv, PagesOK, CheckFails, CodeChanged
<1>2. IInv /\ [Next]_vars =>
        [cpu.at = "check" /\ cpu'.at \in {"body", "vblank"} => ~ CodeChanged(cpu.blk)]_vars
  BY <1>1
<1>3. QED
  BY <1>2, Invariant, PTL DEF Spec, EntryIsFresh
=============================================================================
