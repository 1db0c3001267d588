----------------------------- MODULE BlockCache -----------------------------
(***************************************************************************)
(* The block cache of the SH4 recompiler (core/hw/sh4/dyna/blockmanager.cpp *)
(* and driver.cpp) under the x86 back end of the Xbox build (rec-x86), MMU  *)
(* off.                                                                    *)
(*                                                                         *)
(* Guest code is compiled block by block.  The jump table fpcb maps a guest *)
(* address to compiled code; a block that ends in a static or conditional  *)
(* jump is patched ("linked") to jump straight to its successor.  A block  *)
(* compiled from RAM pages that are still write-protected carries no check *)
(* of its own: the first write to such a page faults, and the fault handler *)
(* discards every block of the page.  Blocks of a page that has been       *)
(* written once compare the guest code with memory each time they start.   *)
(*                                                                         *)
(* Everything runs in one thread.  What makes it hard is that a block can  *)
(* be discarded, and the whole cache flushed, while that block is running: *)
(* by its own stores, by a DMA of the scheduler tick it starts with, or by *)
(* the compilation of its successor.                                       *)
(*                                                                         *)
(* The guest sees RAM at 0x0C000000 and in three mirrors above it.  The    *)
(* fastmem window of the Xbox has memory in the first view only: an access *)
(* of a block to a mirror always faults.                                   *)
(*                                                                         *)
(* Light guns, whose answer reaches RAM during vertical blank, and code    *)
(* that runs with SR.FD set are left out.                                  *)
(***************************************************************************)
EXTENDS Naturals, FiniteSets

CONSTANTS
    Addrs,      \* guest addresses at which blocks start (entries of fpcb)
    Pages,      \* RAM pages
    Values,     \* what a page may contain
    Decode,     \* Decode[a]: the results dec_DecodeBlock may have at a, records
                \* [pages, exits, dyn]: the pages the block spans, the addresses
                \* of its linkable exits, whether it ends in a computed jump
    OpenAddrs,  \* addresses outside RAM or in the first 64 KB: never protected
    ResetPcs,   \* addresses at which compilePC always flushes the cache
    Slots,      \* size of the code buffer, in blocks
    Blocks,     \* bound: RuntimeBlockInfo objects alive at a time
    None        \* null pointer, and ngen_FailedToFindBlock in fpcb

Code == [pages : SUBSET Pages, exits : SUBSET Addrs, dyn : BOOLEAN]

ASSUME BlockAssumption ==
    /\ Addrs # {} /\ Values # {}
    /\ None \notin Blocks
    /\ OpenAddrs \subseteq Addrs /\ ResetPcs \subseteq Addrs
    /\ Slots \in Nat \ {0}
    /\ \A a \in Addrs : Decode[a] \subseteq Code

VARIABLES
    ram,        \* contents of the pages
    locked,     \* pages under host write protection (region_lock)
    unprotected,\* unprotected_pages
    info,       \* what a block was compiled from: [addr, code, read_only]
    snap,       \* guest code the block was compiled from, by page
    link,       \* link[b][a]: block that b's exit to a is patched to, or None
    preRefs,    \* pre_refs: blocks that were linked to this one
    blkmap,     \* live blocks
    fpcb,       \* jump table
    pageBlocks, \* blocks_per_page
    delBlocks,  \* del_blocks: discarded blocks kept for bm_GetStaleBlock
    lastAddr,   \* Sh4CodeBuffer.lastAddr, in blocks
    cpu         \* control state: [at, pc, blk, rbi]

vars == <<ram, locked, unprotected, info, snap, link, preRefs, blkmap, fpcb,
          pageBlocks, delBlocks, lastAddr, cpu>>
cacheVars == <<info, snap, link, preRefs, blkmap, fpcb, pageBlocks, delBlocks,
               lastAddr>>
memVars == <<ram, locked, unprotected>>

BlockOrNone == Blocks \cup {None}
NoLinks == [a \in Addrs |-> None]
AnyAddr == CHOOSE a \in Addrs : TRUE
AnyValue == CHOOSE v \in Values : TRUE
Blank == [addr |-> AnyAddr, read_only |-> FALSE,
          code |-> [pages |-> {}, exits |-> {}, dyn |-> FALSE]]

\* cpu.at: "dispatch" at no_update in the main loop; "compile", "setup" in
\* compilePC; "link" in rdv_LinkBlock after findOrCompile; "check" at a block's
\* first instruction; "vblank", "rtc", "dma" in the scheduler tick of its
\* prologue; "body" in its guest code; "fault" at an access of the body that
\* faulted again after the fault handler had it repeated.  cpu.rbi: the block
\* rdv_LinkBlock will patch, None if it found it stale.
Ats == {"dispatch", "compile", "setup", "link", "check",
        "vblank", "rtc", "dma", "body", "fault"}

TypeOK ==
    /\ ram \in [Pages -> Values]
    /\ locked \subseteq Pages /\ unprotected \subseteq Pages
    /\ info \in [Blocks -> [addr : Addrs, code : Code, read_only : BOOLEAN]]
    /\ snap \in [Blocks -> [Pages -> Values]]
    /\ link \in [Blocks -> [Addrs -> BlockOrNone]]
    /\ preRefs \in [Blocks -> SUBSET Blocks]
    /\ blkmap \subseteq Blocks /\ delBlocks \subseteq Blocks
    /\ fpcb \in [Addrs -> BlockOrNone]
    /\ pageBlocks \in [Pages -> SUBSET Blocks]
    /\ lastAddr \in 0 .. Slots
    /\ cpu \in [at : Ats, pc : Addrs, blk : BlockOrNone, rbi : BlockOrNone]

-----------------------------------------------------------------------------
(* Discarding blocks. *)

\* Mutant of LinksWithout: Discard() does not visit pre_refs.
LinksWithout_KeepRefs(D) == [b \in Blocks |-> IF b \in D THEN NoLinks ELSE link[b]]

\* Links after the blocks of D went through bm_DiscardBlock: their own are
\* cleared, and Discard() clears those of the blocks in their pre_refs.
LinksWithout(D) ==
    [b \in Blocks |->
        IF b \in D THEN NoLinks
        ELSE [a \in Addrs |->
                LET t == link[b][a] IN
                IF t \in D /\ b \in preRefs[t] THEN None ELSE link[b][a]]]

\* Mutant of bm_DiscardBlocks: the entries of fpcb are left in place.
bm_DiscardBlocks_KeepCode(D) ==
    /\ blkmap' = blkmap \ D
    /\ link' = LinksWithout(D)
    /\ delBlocks' = delBlocks \cup D
    /\ preRefs' = [b \in Blocks |-> IF b \in D THEN {} ELSE preRefs[b]]
    /\ pageBlocks' = [p \in Pages |-> pageBlocks[p] \ D]
    /\ UNCHANGED fpcb

\* bm_DiscardBlock for every block of D.
bm_DiscardBlocks(D) ==
    /\ blkmap' = blkmap \ D
    /\ link' = LinksWithout(D)
    /\ fpcb' = [a \in Addrs |-> IF \E b \in D : info[b].addr = a THEN None ELSE fpcb[a]]
    /\ delBlocks' = delBlocks \cup D
    /\ preRefs' = [b \in Blocks |-> IF b \in D THEN {} ELSE preRefs[b]]
    /\ pageBlocks' = [p \in Pages |-> pageBlocks[p] \ D]

\* Mutant of bm_RamWriteAccess: the page is unlocked but its blocks stay.
bm_RamWriteAccess_Keep(p) ==
    /\ unprotected' = unprotected \cup {p}
    /\ locked' = locked \ {p}
    /\ UNCHANGED cacheVars

\* bm_RamWriteAccess, from the fault handler: it returns at once for a page
\* that was written before.
bm_RamWriteAccess(p) ==
    /\ unprotected' = unprotected \cup {p}
    /\ locked' = IF p \in unprotected THEN locked ELSE locked \ {p}
    /\ bm_DiscardBlocks(IF p \in unprotected THEN {} ELSE pageBlocks[p])
    /\ UNCHANGED <<info, snap, lastAddr>>

\* The views of RAM: the one at 0x0C000000, through which the emulator's own
\* code also writes, and the mirrors.
Views == {"ram", "mirror"}

\* What faults in the fastmem window: create_mappings commits the first view,
\* and bm_LockPage protects pages of it.
Faults(view, p) == view = "mirror" \/ p \in locked

\* A store to page p.  If it faults, bm_getRamOffset accepts an address in any
\* view, and the fault handler has the store repeated: it is carried out unless
\* it faults again.
Store(view, p, v) ==
    /\ \/ Faults(view, p) /\ bm_RamWriteAccess(p)
       \/ ~ Faults(view, p) /\ UNCHANGED <<locked, unprotected, cacheVars>>
    /\ ram' = IF Faults(view, p)' THEN ram ELSE [ram EXCEPT ![p] = v]

-----------------------------------------------------------------------------
(* Flushing the cache. *)

\* bm_ResetCache but for del_blocks.  Pages stay locked: the next write to one
\* finds no block to discard.
FlushTables ==
    /\ lastAddr' = 0
    /\ fpcb' = [a \in Addrs |-> None]
    /\ link' = [b \in Blocks |-> IF b \in blkmap THEN NoLinks ELSE link[b]]
    /\ preRefs' = [b \in Blocks |-> IF b \in blkmap THEN {} ELSE preRefs[b]]
    /\ blkmap' = {}
    /\ pageBlocks' = [p \in Pages |-> {}]
    /\ unprotected' = {}
    /\ UNCHANGED <<info, snap>>

\* Sh4Recompiler::ResetCache.
ResetCache ==
    /\ FlushTables
    /\ delBlocks' = delBlocks \cup blkmap
    /\ UNCHANGED <<ram, locked>>

-----------------------------------------------------------------------------
(* Compiling. *)

\* Mutant of NeedsReset: compilePC does not look at the free space.
NeedsReset_Never == FALSE

NeedsReset == lastAddr = Slots \/ cpu.pc \in ResetPcs

\* compilePC, before Setup().
CompilePC ==
    /\ cpu.at = "compile"
    /\ cpu' = [cpu EXCEPT !.at = "setup"]
    /\ \/ NeedsReset /\ ResetCache
       \/ ~ NeedsReset /\ UNCHANGED <<memVars, cacheVars>>

\* Unused RuntimeBlockInfo objects.
Fresh == Blocks \ (blkmap \cup {cpu.blk, cpu.rbi})

\* Mutant of ReadOnly: one page that was not written is enough.
ReadOnly_OnePage(a, d) ==
    a \notin OpenAddrs /\ \E p \in d.pages : p \notin unprotected

\* SetProtectedFlags: a block may go unchecked if no page of it was written.
ReadOnly(a, d) == a \notin OpenAddrs /\ d.pages \cap unprotected = {}

\* SetProtectedFlags locks a page when it gets its first block.
Protect(b, d) ==
    /\ locked' = locked \cup {p \in d.pages : pageBlocks[p] = {}}
    /\ pageBlocks' = [p \in Pages |->
                        pageBlocks[p] \cup (IF p \in d.pages THEN {b} ELSE {})]

\* Where the control state goes: to a block, to the main loop.
Enter(a, b) == [at |-> "check", pc |-> a, blk |-> b, rbi |-> None]
MainLoop(a) == [at |-> "dispatch", pc |-> a, blk |-> None, rbi |-> None]

\* Where compilePC returns to: into the block, or to rdv_LinkBlock.
Compiled(b) ==
    cpu' = IF cpu.rbi = None THEN Enter(cpu.pc, b) ELSE [cpu EXCEPT !.at = "link"]

\* compilePC: Setup(), compile(), bm_AddBlock().
Setup(b, d) ==
    /\ cpu.at = "setup"
    /\ info' = [info EXCEPT ![b] = [addr |-> cpu.pc, code |-> d,
                                    read_only |-> ReadOnly(cpu.pc, d)]]
    /\ snap' = [snap EXCEPT ![b] = [p \in Pages |-> IF p \in d.pages THEN ram[p] ELSE AnyValue]]
    /\ link' = [link EXCEPT ![b] = NoLinks]
    /\ preRefs' = [preRefs EXCEPT ![b] = {}]
    /\ blkmap' = blkmap \cup {b}
    /\ fpcb' = [fpcb EXCEPT ![cpu.pc] = b]
    /\ delBlocks' = delBlocks \ {b}
    /\ lastAddr' = lastAddr + 1
    /\ IF ReadOnly(cpu.pc, d) THEN Protect(b, d) ELSE UNCHANGED <<locked, pageBlocks>>
    /\ Compiled(b)
    /\ UNCHANGED <<ram, unprotected>>

-----------------------------------------------------------------------------
(* Running. *)

\* no_update in the main loop: jump through fpcb, or ngen_FailedToFindBlock.
Dispatch ==
    /\ cpu.at = "dispatch"
    /\ cpu' = IF fpcb[cpu.pc] = None THEN [cpu EXCEPT !.at = "compile"]
              ELSE Enter(cpu.pc, fpcb[cpu.pc])
    /\ UNCHANGED <<memVars, cacheVars>>

CodeChanged(b) == \E p \in info[b].code.pages : snap[b][p] # ram[p]

CheckFails(b) == ~ info[b].read_only /\ CodeChanged(b)

\* When a block starts nobody can ask for a block that was discarded before:
\* del_blocks is searched for the running block only, and a discarded block in
\* pre_refs has no link that could lead anywhere.  Their data is forgotten.
Collect ==
    /\ info' = [b \in Blocks |-> IF b \in blkmap THEN info[b] ELSE Blank]
    /\ snap' = [b \in Blocks |-> IF b \in blkmap THEN snap[b] ELSE [p \in Pages |-> AnyValue]]
    /\ link' = [b \in Blocks |-> IF b \in blkmap THEN link[b] ELSE NoLinks]
    /\ preRefs' = [b \in Blocks |-> preRefs[b] \cap blkmap]
    /\ delBlocks' = {}

\* The check emitted by checkBlock; rdv_BlockCheckFail flushes the cache.
CheckBlock ==
    /\ cpu.at = "check"
    /\ \/ /\ CheckFails(cpu.blk)
          /\ ResetCache
          /\ cpu' = [cpu EXCEPT !.at = "compile",
                                !.pc = info[cpu.blk].addr, !.blk = None]
       \/ /\ ~ CheckFails(cpu.blk)
          /\ \E at \in {"body", "vblank"} : cpu' = [cpu EXCEPT !.at = at]
          /\ Collect
          /\ UNCHANGED <<memVars, blkmap, fpcb, pageBlocks, lastAddr>>

\* Mutant of AfterSlot: the RTC slot comes after the DMA slots.
AfterSlot_RtcLast(at) ==
    CASE at = "vblank" -> "dma" [] at = "dma" -> "rtc" [] at = "rtc" -> "body"

\* sh4_sched_tick runs the callbacks in the order their slots were registered.
AfterSlot(at) == CASE at = "vblank" -> "rtc" [] at = "rtc" -> "dma" [] at = "dma" -> "body"

\* spg_line_sched.
TickVblank ==
    /\ cpu.at = "vblank"
    /\ cpu' = [cpu EXCEPT !.at = AfterSlot("vblank")]
    /\ UNCHANGED <<memVars, cacheVars>>

\* DreamcastSecond, once in a second: bm_Periodical_1s().
TickRtc ==
    /\ cpu.at = "rtc"
    /\ cpu' = [cpu EXCEPT !.at = AfterSlot("rtc")]
    /\ delBlocks' \in {delBlocks, {}}
    /\ UNCHANGED <<memVars, info, snap, link, preRefs, blkmap, fpcb, pageBlocks, lastAddr>>

\* The slots registered later (disc, maple, AICA DMA): any number of writes, to
\* the host's pointer to RAM whichever view the DMA names.
TickDma ==
    /\ cpu.at = "dma"
    /\ \E p \in Pages, v \in Values : Store("ram", p, v)
    /\ UNCHANGED cpu

\* intc_sched returns to the block, or an accepted interrupt leaves it.
TickEnd ==
    /\ cpu.at = "dma"
    /\ \/ cpu' = [cpu EXCEPT !.at = AfterSlot("dma")]
       \/ \E a \in Addrs : cpu' = MainLoop(a)
    /\ UNCHANGED <<memVars, cacheVars>>

\* A store of the running block, or of a DMA that one of its stores starts.  (A
\* load from a mirror does what a store there does.)
GuestStore ==
    /\ cpu.at = "body"
    /\ \E view \in Views, p \in Pages, v \in Values :
          /\ Store(view, p, v)
          /\ cpu' = IF Faults(view, p)' THEN [cpu EXCEPT !.at = "fault"] ELSE cpu

\* The access faults once more: bm_RamWriteAccess has seen the page before and
\* does nothing, and the fault handler has the access repeated again.
FaultAgain ==
    /\ cpu.at = "fault"
    /\ UNCHANGED vars

\* The block ends in a computed jump or an exception: back to the main loop.
ExitDynamic ==
    /\ cpu.at = "body" /\ info[cpu.blk].code.dyn
    /\ \E a \in Addrs : cpu' = MainLoop(a)
    /\ UNCHANGED <<memVars, cacheVars>>

\* The exit to a is linked: a direct jump.
ExitLinked(a) ==
    /\ cpu.at = "body" /\ a \in info[cpu.blk].code.exits
    /\ link[cpu.blk][a] # None
    /\ cpu' = Enter(a, link[cpu.blk][a])
    /\ UNCHANGED <<memVars, cacheVars>>

\* bm_GetBlock finds a live block by code address, bm_GetStaleBlock one of
\* del_blocks; verify(rbi != NULL) fails if neither does.
LinkerFinds(b) == b \in blkmap \cup delBlocks

\* The exit to a is not linked: rdv_LinkBlock up to findOrCompile().  rbi is
\* None when the running block was found to be stale.
rdv_LinkBlock(a) ==
    /\ cpu.at = "body" /\ a \in info[cpu.blk].code.exits
    /\ link[cpu.blk][a] = None
    /\ LinkerFinds(cpu.blk)
    /\ LET rbi == IF cpu.blk \in blkmap THEN cpu.blk ELSE None
           hit == fpcb[a]
       IN  cpu' = [at |-> IF hit = None THEN "compile" ELSE IF rbi = None THEN "check" ELSE "link",
                   pc |-> a,
                   blk |-> IF hit # None /\ rbi = None THEN hit ELSE None,
                   rbi |-> rbi]
    /\ UNCHANGED <<memVars, cacheVars>>

\* rdv_LinkBlock after findOrCompile(): whatever happened in it, rbi is linked.
Link ==
    /\ cpu.at = "link"
    /\ LET nxt == fpcb[cpu.pc] IN
       /\ link' = [link EXCEPT ![cpu.rbi][cpu.pc] = nxt]
       /\ preRefs' = [preRefs EXCEPT ![nxt] = @ \cup {cpu.rbi}]
       /\ cpu' = Enter(cpu.pc, nxt)
    /\ UNCHANGED <<memVars, info, snap, blkmap, fpcb, pageBlocks, delBlocks, lastAddr>>

-----------------------------------------------------------------------------
(* The emulator resets the machine or loads a state while the CPU is stopped. *)

\* bm_Reset: the stale blocks are dropped and all RAM is unlocked.  What is
\* written to RAM after it (a state, or zeroes) meets no protected page.
LoadState ==
    /\ cpu.at = "dispatch"
    /\ FlushTables
    /\ delBlocks' = blkmap
    /\ locked' = {}
    /\ ram' \in [Pages -> Values]
    /\ UNCHANGED cpu

\* Emulator::dc_reset: Sh4Recompiler::Reset, always as a hard reset, drops the
\* stale blocks and unlocks RAM; mem_Reset then zeroes RAM after a hard one.
Reset(hard) ==
    /\ cpu.at = "dispatch"
    /\ FlushTables
    /\ delBlocks' = {} /\ locked' = {}
    /\ ram' = IF hard THEN [p \in Pages |-> AnyValue] ELSE ram
    /\ \E a \in Addrs : cpu' = MainLoop(a)

-----------------------------------------------------------------------------
Init ==
    /\ ram \in [Pages -> Values]
    /\ locked = {} /\ unprotected = {}
    /\ info = [b \in Blocks |-> Blank]
    /\ snap = [b \in Blocks |-> [p \in Pages |-> AnyValue]]
    /\ link = [b \in Blocks |-> NoLinks]
    /\ preRefs = [b \in Blocks |-> {}]
    /\ blkmap = {} /\ delBlocks = {}
    /\ fpcb = [a \in Addrs |-> None]
    /\ pageBlocks = [p \in Pages |-> {}]
    /\ lastAddr = 0
    /\ \E a \in Addrs : cpu = MainLoop(a)

Next ==
    \/ Dispatch \/ CompilePC \/ CheckBlock \/ Link
    \/ \E b \in Fresh, d \in Decode[cpu.pc] : Setup(b, d)
    \/ TickVblank \/ TickRtc \/ TickDma \/ TickEnd
    \/ GuestStore \/ FaultAgain \/ ExitDynamic
    \/ \E a \in Addrs : ExitLinked(a) \/ rdv_LinkBlock(a)
    \/ LoadState
    \/ \E hard \in BOOLEAN : Reset(hard)

Spec == Init /\ [][Next]_vars

-----------------------------------------------------------------------------
(* Properties. *)

\* A block only starts to run when memory holds the guest code it was compiled
\* from, however it is reached: through fpcb, by a patched jump, or just
\* compiled, and whether it carries a check or relies on page protection.
EntryIsFresh ==
    [][cpu.at = "check" /\ cpu'.at \in {"body", "vblank"} => ~ CodeChanged(cpu.blk)]_vars

\* A patched jump of a block that is live or running leads to a live block for
\* that address, and the target knows the block (pre_refs), so that discarding
\* the target will undo the patch: no jump into freed code.
LinksAreLive ==
    \A b \in blkmap \cup (IF cpu.at = "body" THEN {cpu.blk} ELSE {}), a \in Addrs :
        link[b][a] # None =>
            /\ link[b][a] \in blkmap
            /\ info[link[b][a]].addr = a
            /\ b \in preRefs[link[b][a]]

\* fpcb and blkmap hold the same blocks, and the page lists only live ones:
\* the verify()s of bm_AddBlock, bm_DiscardBlock and bm_RamWriteAccess.
TablesAgree ==
    /\ \A b \in blkmap : fpcb[info[b].addr] = b
    /\ \A a \in Addrs : fpcb[a] # None => fpcb[a] \in blkmap /\ info[fpcb[a]].addr = a
    /\ \A p \in Pages : pageBlocks[p] \subseteq blkmap
    /\ cpu.at = "setup" => fpcb[cpu.pc] = None

\* A page that was written, or touched through a mirror, is not write-protected
\* again, whatever is compiled from it later.  The fault handler only unlocks a
\* page the first time, so a store through the first view would be repeated for
\* ever.  (A store through a mirror is: see FaultAgain.)
NoLoopInFirstView == locked \cap unprotected = {}

\* When a running block calls the linker, the block is still known, live or in
\* del_blocks: verify(rbi != NULL) in rdv_LinkBlock.
LinkerFindsBlock ==
    cpu.at = "body" => LinkerFinds(cpu.blk)

=============================================================================
