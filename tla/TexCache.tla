------------------------------ MODULE TexCache ------------------------------
(***************************************************************************)
(* The texture cache (core/rend/TexCache.cpp, TexCache.h) and the write     *)
(* protection of video memory that keeps it coherent.                       *)
(*                                                                         *)
(* The render thread converts a texture from VRAM, write-protects its       *)
(* pages, and uploads it.  A later store of the CPU thread to such a page   *)
(* faults; the fault handler marks the textures of the page dirty, drops    *)
(* their locks, unprotects the page, and the store is executed again.       *)
(*                                                                         *)
(* The lists and the protection are changed under the mutex vramlist_lock,  *)
(* so each critical section is one step here; the conversion, the check of  *)
(* a texture's dirty mark and the stores themselves run without it.         *)
(*                                                                         *)
(* Two builds share this code.  The desktop renderers run in a thread of    *)
(* their own and clean the cache before they parse a frame, and VRAM is     *)
(* mapped several times in the fastmem window, once where it is never       *)
(* write-protected.  The Xbox renderer runs in the emulation thread and     *)
(* cleans the cache after parsing, and there all mappings but the first are *)
(* reserved address space.                                                  *)
(***************************************************************************)
EXTENDS Naturals, Sequences, FiniteSets

CONSTANTS
    Pages,        \* pages of VRAM
    Values,       \* what a page may contain
    Textures,     \* keys of the cache
    Span,         \* Span[t]: pages between startAddress and the end of t
    Invalid,      \* textures that do not fit in VRAM
    Paletted,     \* textures converted through the palette
    Age,          \* frames after which a dirty texture is deleted (120)
    CleanupMax,   \* textures a frame deletes at most (6)
    MaxDrawn,     \* bound: textures in a frame
    None,
    Threaded,     \* the renderer has a thread of its own
    CleanupFirst, \* Process() cleans the cache before it parses the frame
    MirrorsMapped \* VRAM is mapped again, at 0x04800000 and 0x06000000

ASSUME TexAssumption ==
    /\ Pages # {} /\ Values # {} /\ None \notin Values \cup Textures
    /\ Span \in [Textures -> (SUBSET Pages) \ {{}}]
    /\ Invalid \subseteq Textures /\ Paletted \subseteq Textures
    /\ {Age, MaxDrawn, CleanupMax} \subseteq Nat
    /\ {Threaded, CleanupFirst, MirrorsMapped} \subseteq BOOLEAN

VARIABLES
    vram,
    protected,  \* pages the host write-protects (protectVram)
    VramLocks,  \* textures with a vram_block in the page's list
    locked,     \* textures with a lock_block
    cached,     \* textures in the cache
    dirty,      \* 0: clean; 1 + frames since it was overwritten, up to Age + 2
    palOld,     \* textures whose palette_hash does not match any more
    loaded,     \* loaded[t][p]: what the GPU's copy shows of page p
    unseen,     \* textures overwritten where no fault tells of it
    reset,      \* resetTextureCache
    lists,      \* VramLocks is allocated, by the first texture
    cpu,        \* [at, page, val, view]
    rt          \* [at, tex, left, buf, todo]

vars == <<vram, protected, VramLocks, locked, cached, dirty, palOld, loaded,
          unseen, reset, lists, cpu, rt>>
lockVars == <<protected, VramLocks, locked>>

\* Where the fastmem window shows VRAM: at 0x04000000, which the emulator uses
\* itself, behind that at 0x04800000, and at 0x06000000.
Views == {"first", "wrap", "mirror"}

\* cpu.at: "run"; "store" at a store to VRAM; "fault" in the exception handler.
\* rt.at: "idle"; "queued" with a frame in rqueue; "parse", "convert" and
\* "upload" in ta_parse and Update(); "cleanup"; "render".
TypeOK ==
    /\ vram \in [Pages -> Values]
    /\ protected \subseteq Pages
    /\ VramLocks \in [Pages -> SUBSET Textures]
    /\ locked \subseteq Textures /\ cached \subseteq Textures
    /\ dirty \in [Textures -> 0 .. Age + 2]
    /\ palOld \subseteq Textures /\ unseen \subseteq Textures
    /\ loaded \in [Textures -> [Pages -> Values \cup {None}]]
    /\ reset \in BOOLEAN /\ lists \in BOOLEAN
    /\ cpu \in [at : {"run", "store", "fault"}, page : Pages, val : Values, view : Views]
    /\ rt \in [at : {"idle", "queued", "parse", "convert", "upload", "cleanup", "render"},
               tex : Textures \cup {None}, left : SUBSET Pages,
               buf : [Pages -> Values \cup {None}], todo : SUBSET Textures]

Nothing == [p \in Pages |-> None]
Running == [at |-> "run", page |-> CHOOSE p \in Pages : TRUE,
            val |-> CHOOSE v \in Values : TRUE, view |-> "first"]

-----------------------------------------------------------------------------
(* Locks. *)

\* Mutant of vramlock_list_remove: only the first page of the block is visited.
vramlock_list_remove_First(D) ==
    [p \in Pages |->
        VramLocks[p] \ {t \in D : \A q \in Span[t] : p <= q}]

\* vramlock_list_remove for the blocks of D.
vramlock_list_remove(D) == [p \in Pages |-> VramLocks[p] \ D]

\* unprotectVRam for the textures of D; the pages stay protected.
unprotectVRam(D) ==
    /\ VramLocks' = vramlock_list_remove(D \cap locked)
    /\ locked' = locked \ D
    /\ UNCHANGED protected

\* Mutant of vramlock_list_add: the page is taken to be protected while another
\* texture uses it or the texture starts on an earlier page.
vramlock_list_add_FirstPage(t) ==
    /\ protected' = protected \cup
          {p \in Span[t] : VramLocks[p] = {} /\ \A q \in Span[t] : p <= q}
    /\ VramLocks' = [p \in Pages |-> IF p \in Span[t] THEN VramLocks[p] \cup {t}
                                     ELSE VramLocks[p]]

\* Mutant of vramlock_list_add: the page after the last one is included.
vramlock_list_add_PastEnd(t) ==
    LET S == Span[t] \cup {p + 1 : p \in Span[t]} IN
    /\ protected' = protected \cup S
    /\ VramLocks' = [p \in Pages \cup S |->
                       (IF p \in Pages THEN VramLocks[p] ELSE {})
                       \cup (IF p \in S THEN {t} ELSE {})]

\* A page is protected when the first lock enters its list.
vramlock_list_add(t) ==
    /\ protected' = protected \cup {p \in Span[t] : VramLocks[p] = {}}
    /\ VramLocks' = [p \in Pages |-> IF p \in Span[t] THEN VramLocks[p] \cup {t}
                                     ELSE VramLocks[p]]

-----------------------------------------------------------------------------
(* The CPU thread. *)

\* Without a renderer thread the CPU runs only between frames.
CpuRuns == Threaded \/ rt.at = "idle"

\* The guest, a DMA or a restored state writes to VRAM, through one of its views.
\* Where the second one is mapped it is locked and written like the first.
StartStore(p, v, w) ==
    /\ cpu.at = "run" /\ CpuRuns
    /\ cpu' = [at |-> "store", page |-> p, val |-> v,
               view |-> IF w = "wrap" /\ MirrorsMapped THEN "first" ELSE w]
    /\ UNCHANGED <<vram, lockVars, cached, dirty, palOld, loaded, unseen, reset, lists, rt>>

\* protectVram locks the two views at 0x04000000 and leaves the third writable;
\* a view that is not mapped faults always.
Faults ==
    \/ cpu.view # "mirror" /\ cpu.page \in protected
    \/ cpu.view # "first" /\ ~ MirrorsMapped

\* The store is executed.  It goes unseen if the texture that is being converted
\* is not locked yet, or if the view is not protected with the page.
StoreDone ==
    /\ cpu.at = "store" /\ CpuRuns /\ ~Faults
    /\ vram' = [vram EXCEPT ![cpu.page] = cpu.val]
    /\ unseen' = unseen \cup
          {t \in Textures :
              /\ vram[cpu.page] # cpu.val
              /\ \/ rt.at = "convert" /\ rt.tex = t /\ cpu.page \in Span[t] \ rt.left
                 \/ cpu.view = "mirror" /\ t \in VramLocks[cpu.page]}
    /\ cpu' = Running
    /\ UNCHANGED <<lockVars, cached, dirty, palOld, loaded, reset, lists, rt>>

StoreFaults ==
    /\ cpu.at = "store" /\ CpuRuns /\ Faults
    /\ cpu' = [cpu EXCEPT !.at = "fault"]
    /\ UNCHANGED <<vram, lockVars, cached, dirty, palOld, loaded, unseen, reset, lists, rt>>

\* Mutant of VramLockedWriteOffset: nothing is done for an empty list.
VramLockedWriteOffset_SkipEmpty(p) ==
    LET D == VramLocks[p] IN
    /\ dirty' = [t \in Textures |-> IF t \in D THEN 1 ELSE dirty[t]]
    /\ VramLocks' = vramlock_list_remove(D)
    /\ locked' = locked \ D
    /\ protected' = IF D = {} THEN protected ELSE protected \ {p}

\* Under the mutex: the textures of the page are invalidated, the page is
\* unprotected.  The other pages of these textures stay protected.
VramLockedWriteOffset(p) ==
    LET D == VramLocks[p] IN
    /\ dirty' = [t \in Textures |-> IF t \in D THEN 1 ELSE dirty[t]]
    /\ VramLocks' = vramlock_list_remove(D)
    /\ locked' = locked \ D
    /\ protected' = protected \ {p}

\* The exception handler.  getVramOffset maps the two views at 0x04000000 to the
\* page, so VramLockedWrite returns true and the store is executed again; for the
\* third view and before the first texture it returns false, and the access is
\* rewritten to call the slow handler, which stores through the first view.
FaultHandler ==
    /\ cpu.at = "fault"
    /\ \/ /\ lists /\ cpu.view # "mirror"
          /\ VramLockedWriteOffset(cpu.page)
          /\ cpu' = [cpu EXCEPT !.at = "store"]
       \/ /\ ~ lists \/ cpu.view = "mirror"
          /\ cpu' = [cpu EXCEPT !.at = "store", !.view = "first"]
          /\ UNCHANGED <<lockVars, dirty>>
    /\ UNCHANGED <<vram, cached, palOld, loaded, unseen, reset, lists, rt>>

\* rend_start_render queues a frame that draws the textures of S; the palette
\* may have changed since the last one.
StartRender(S, pal) ==
    /\ cpu.at = "run" /\ rt.at = "idle" /\ Cardinality(S) \in 1 .. MaxDrawn
    /\ rt' = [rt EXCEPT !.at = "queued", !.todo = S]
    /\ palOld' = IF pal THEN palOld \cup (Paletted \cap cached) ELSE palOld
    /\ UNCHANGED <<vram, lockVars, cached, dirty, loaded, unseen, reset, lists, cpu>>

\* Event::LoadState, after the state's stores to VRAM.
LoadState ==
    /\ cpu.at = "run" /\ rt.at = "idle" /\ ~reset
    /\ reset' = TRUE
    /\ UNCHANGED <<vram, lockVars, cached, dirty, palOld, loaded, unseen, lists, cpu, rt>>

-----------------------------------------------------------------------------
(* The render thread. *)

\* What Process() and then Render() do.
Order == IF CleanupFirst THEN <<"cleanup", "parse", "render">>
         ELSE <<"parse", "cleanup", "render">>

After(at) == Order[(CHOOSE i \in 1 .. 2 : Order[i] = at) + 1]

\* Textures leave the cache: unprotectVRam and erase.
Delete(D) ==
    /\ unprotectVRam(D)
    /\ cached' = cached \ D
    /\ loaded' = [t \in Textures |-> IF t \in D THEN Nothing ELSE loaded[t]]
    /\ palOld' = palOld \ D
    /\ unseen' = unseen \ D

\* DequeueRender counts the frame.  The desktop renderers then clear the cache
\* if a state was loaded.
DequeueRender ==
    /\ rt.at = "queued"
    /\ LET D == IF reset /\ CleanupFirst THEN cached ELSE {} IN
       /\ Delete(D)
       /\ dirty' = [t \in Textures |->
                       IF dirty[t] = 0 \/ t \in D THEN 0
                       ELSE IF dirty[t] = Age + 2 THEN Age + 2 ELSE dirty[t] + 1]
    /\ reset' = (reset /\ ~CleanupFirst)
    /\ rt' = [rt EXCEPT !.at = Order[1]]
    /\ UNCHANGED <<vram, lists, cpu>>

\* CollectCleanup deletes what has been dirty for more than Age frames, up to
\* CleanupMax textures in the order of the hash table.
CollectCleanup ==
    /\ rt.at = "cleanup"
    /\ LET old == {t \in cached : dirty[t] = Age + 2} IN
       \E D \in SUBSET old :
       /\ \/ D = old /\ Cardinality(old) <= CleanupMax
          \/ Cardinality(D) = CleanupMax
       /\ Delete(D)
       /\ dirty' = [t \in Textures |-> IF t \in D THEN 0 ELSE dirty[t]]
    /\ rt' = [rt EXCEPT !.at = After("cleanup")]
    /\ UNCHANGED <<vram, reset, lists, cpu>>

\* GetTexture finds a texture that needs no update.
TextureFound(t) ==
    /\ rt.at = "parse" /\ t \in rt.todo \cap cached
    /\ dirty[t] = 0 /\ t \notin palOld
    /\ rt' = [rt EXCEPT !.todo = @ \ {t}]
    /\ UNCHANGED <<vram, lockVars, cached, dirty, palOld, loaded, unseen, reset, lists, cpu>>

\* GetTexture creates the texture, or finds that it needs an update: Update()
\* marks it clean and begins to convert; nothing uses the old copy any more.
UpdateBegins(t) ==
    /\ rt.at = "parse" /\ t \in rt.todo \ Invalid
    /\ t \notin cached \/ dirty[t] # 0 \/ t \in palOld
    /\ cached' = cached \cup {t} /\ lists' = TRUE
    /\ dirty' = [dirty EXCEPT ![t] = 0]
    /\ palOld' = palOld \ {t}
    /\ unseen' = unseen \ {t}
    /\ rt' = [rt EXCEPT !.at = "convert", !.tex = t, !.left = Span[t], !.buf = Nothing]
    /\ loaded' = [loaded EXCEPT ![t] = Nothing]
    /\ UNCHANGED <<vram, lockVars, reset, cpu>>

\* Update() of a texture that does not fit in VRAM fails: dirty = 1, the oldest
\* frame.
UpdateFails(t) ==
    /\ rt.at = "parse" /\ t \in rt.todo \cap Invalid
    /\ cached' = cached \cup {t} /\ lists' = TRUE
    /\ dirty' = [dirty EXCEPT ![t] = Age + 2]
    /\ unprotectVRam({t})
    /\ rt' = [rt EXCEPT !.todo = @ \ {t}]
    /\ UNCHANGED <<vram, palOld, loaded, unseen, reset, cpu>>

\* texconv reads a page of VRAM.
ConvertPage(p) ==
    /\ rt.at = "convert" /\ p \in rt.left
    /\ rt' = [rt EXCEPT !.left = @ \ {p}, !.buf[p] = vram[p]]
    /\ UNCHANGED <<vram, lockVars, cached, dirty, palOld, loaded, unseen, reset, lists, cpu>>

\* "lock the texture to detect changes in it": under the mutex, unless it is
\* locked already.
protectVRam ==
    /\ rt.at = "convert" /\ rt.left = {}
    /\ IF rt.tex \in locked THEN UNCHANGED lockVars
       ELSE vramlock_list_add(rt.tex) /\ locked' = locked \cup {rt.tex}
    /\ rt' = [rt EXCEPT !.at = "upload"]
    /\ UNCHANGED <<vram, cached, dirty, palOld, loaded, unseen, reset, lists, cpu>>

UploadToGPU ==
    /\ rt.at = "upload"
    /\ loaded' = [loaded EXCEPT ![rt.tex] = rt.buf]
    /\ rt' = [rt EXCEPT !.at = "parse", !.tex = None, !.buf = Nothing,
                        !.todo = @ \ {rt.tex}]
    /\ UNCHANGED <<vram, lockVars, cached, dirty, palOld, unseen, reset, lists, cpu>>

EndParse ==
    /\ rt.at = "parse" /\ rt.todo = {}
    /\ rt' = [rt EXCEPT !.at = After("parse")]
    /\ UNCHANGED <<vram, lockVars, cached, dirty, palOld, loaded, unseen, reset, lists, cpu>>

\* Render() draws the frame.
Render ==
    /\ rt.at = "render"
    /\ rt' = [rt EXCEPT !.at = "idle"]
    /\ UNCHANGED <<vram, lockVars, cached, dirty, palOld, loaded, unseen, reset, lists, cpu>>

-----------------------------------------------------------------------------
Init ==
    /\ vram = [p \in Pages |-> CHOOSE v \in Values : TRUE]
    /\ protected = {} /\ VramLocks = [p \in Pages |-> {}] /\ locked = {}
    /\ cached = {} /\ dirty = [t \in Textures |-> 0]
    /\ palOld = {} /\ unseen = {} /\ reset = FALSE /\ lists = FALSE
    /\ loaded = [t \in Textures |-> Nothing]
    /\ cpu = Running
    /\ rt = [at |-> "idle", tex |-> None, left |-> {}, buf |-> Nothing,
             todo |-> {}]

CpuStep == StoreDone \/ StoreFaults \/ FaultHandler

RenderStep ==
    \/ DequeueRender \/ CollectCleanup \/ EndParse \/ Render
    \/ \E t \in Textures : TextureFound(t) \/ UpdateBegins(t) \/ UpdateFails(t)
    \/ \E p \in Pages : ConvertPage(p)
    \/ protectVRam \/ UploadToGPU

Next ==
    \/ \E p \in Pages, v \in Values, w \in Views : StartStore(p, v, w)
    \/ CpuStep
    \/ \E S \in SUBSET Textures, pal \in BOOLEAN : StartRender(S, pal)
    \/ LoadState
    \/ RenderStep

Spec == Init /\ [][Next]_vars

\* Both threads run: the CPU executes the instruction it is at, the render
\* thread goes on with its frame.
LiveSpec == Spec /\ WF_vars(CpuStep) /\ WF_vars(RenderStep)

-----------------------------------------------------------------------------
(* Properties. *)

\* The three records of a lock agree at every step of both threads: a texture
\* is in the lists of all of its pages or of none, exactly if it holds a
\* lock_block; a page with a texture in its list is protected; only textures
\* of the cache are locked.  Otherwise a write goes unnoticed, the handler
\* follows a dangling pointer, or its die("Invalid state") is reached.
LocksAgree ==
    /\ \A p \in Pages, t \in Textures :
          t \in VramLocks[p] <=> t \in locked /\ p \in Span[t]
    /\ \A p \in Pages : VramLocks[p] # {} => p \in protected
    /\ locked \subseteq cached

\* A clean texture shows what VRAM contains, through every interleaving of
\* stores, faults, conversions, palette changes and deletions, with two
\* exceptions: a page it had converted was overwritten before Update() locked
\* it, or it was overwritten through the view at 0x06000000, which protectVram
\* does not lock.
FreshUnlessUnseen ==
    \A t \in cached \ unseen :
        dirty[t] = 0 /\ rt.tex # t => \A p \in Span[t] : loaded[t][p] = vram[p]

\* A store to VRAM is executed in the end, however often its page is protected
\* again between the fault and the second try.
StoreCompletes == (cpu.at = "fault") ~> (cpu.at = "run")
=============================================================================
