--------------------------- MODULE TexCacheProofs ---------------------------
(***************************************************************************)
(* Proofs about TexCache, for any number of textures and pages, any        *)
(* overlap of textures, and every build (Threaded, CleanupFirst,           *)
(* MirrorsMapped).                                                         *)
(*                                                                         *)
(* FreshUnlessUnseen is not inductive: a store through a protected view    *)
(* only spares a clean texture because the texture is locked, and because  *)
(* its lock protects all of its pages.  The inductive invariant adds that  *)
(* clean textures are locked (CleanIsLocked), and what the buffer of a     *)
(* conversion holds while the texture is not locked yet (BufferOK).        *)
(***************************************************************************)
EXTENDS TexCache, TLAPS

Converting == {"convert", "upload"}

\* The render thread works on a texture of the cache, or on none; there is no
\* texture before VramLocks is allocated.
WorkOK ==
    /\ rt.at \in Converting => rt.tex \in cached
    /\ rt.at \notin Converting => rt.tex = None
    /\ cached # {} => lists

CleanIsLocked ==
    /\ \A t \in cached : dirty[t] = 0 /\ rt.tex # t => t \in locked
    /\ rt.at = "upload" /\ dirty[rt.tex] = 0 => rt.tex \in locked

\* What was converted is still in VRAM, unless a store came between.
BufferOK ==
    rt.at \in Converting /\ rt.tex \notin unseen =>
        \/ \A p \in Span[rt.tex] : p \notin rt.left => rt.buf[p] = vram[p]
        \/ rt.at = "upload" /\ dirty[rt.tex] # 0

\* Nothing is left to convert when a texture is uploaded.
LeftOK == rt.at = "upload" => rt.left = {}

IInv ==
    /\ TypeOK
    /\ LocksAgree
    /\ WorkOK
    /\ CleanIsLocked
    /\ BufferOK
    /\ LeftOK
    /\ FreshUnlessUnseen

-----------------------------------------------------------------------------
(* Constants and the initial state. *)

Contents == [Pages -> Values \cup {None}]

\* The defaults that Init and the actions use have their types.
LEMMA Defaults ==
    /\ Nothing \in Contents
    /\ Running \in [at : {"run", "store", "fault"}, page : Pages, val : Values, view : Views]
    /\ Running.at = "run"
<1>1. (CHOOSE p \in Pages : TRUE) \in Pages /\ (CHOOSE v \in Values : TRUE) \in Values
  BY TexAssumption
<1>2. QED
  BY <1>1 DEF Nothing, Contents, Running, Views

\* Null is no texture.
LEMMA NoneIsNoTexture == \A t \in Textures : t # None
  BY TexAssumption

\* The bounds are numbers.
LEMMA AgeIsNat == Age \in Nat
  BY TexAssumption

\* The order of a frame: nothing but parsing and cleaning comes first, each is
\* followed by the other or by the drawing.
LEMMA OrderOK ==
    /\ Order[1] \in {"parse", "cleanup"}
    /\ After("cleanup") \in {"parse", "render"}
    /\ After("parse") \in {"cleanup", "render"}
<1>1. CASE CleanupFirst
  <2>1. Order = <<"cleanup", "parse", "render">>
    BY <1>1 DEF Order
  <2>2. (CHOOSE i \in 1 .. 2 : Order[i] = "cleanup") = 1
    BY <2>1
  <2>3. (CHOOSE i \in 1 .. 2 : Order[i] = "parse") = 2
    BY <2>1
  <2>4. QED
    BY <2>1, <2>2, <2>3 DEF After
<1>2. CASE ~CleanupFirst
  <2>1. Order = <<"parse", "cleanup", "render">>
    BY <1>2 DEF Order
  <2>2. (CHOOSE i \in 1 .. 2 : Order[i] = "parse") = 1
    BY <2>1
  <2>3. (CHOOSE i \in 1 .. 2 : Order[i] = "cleanup") = 2
    BY <2>1
  <2>4. QED
    BY <1>2, <2>1, <2>2, <2>3 DEF After
<1>3. QED
  BY <1>1, <1>2

\* The emulator starts with an empty cache and nothing protected.
LEMMA InitOK == Init => IInv
<1> SUFFICES ASSUME Init PROVE IInv
  OBVIOUS
<1>1. TypeOK
  <2>1. vram \in [Pages -> Values]
    BY TexAssumption DEF Init
  <2>2. dirty \in [Textures -> 0 .. Age + 2]
    BY AgeIsNat DEF Init
  <2>3. loaded \in [Textures -> Contents] /\ rt.buf \in Contents
    BY Defaults DEF Init
  <2>4. QED
    BY <2>1, <2>2, <2>3, Defaults DEF Init, TypeOK, Contents
<1>2. LocksAgree /\ WorkOK /\ CleanIsLocked /\ BufferOK /\ LeftOK /\ FreshUnlessUnseen
  BY DEF Init, LocksAgree, WorkOK, CleanIsLocked, BufferOK, LeftOK, FreshUnlessUnseen,
         Converting
<1>3. QED
  BY <1>1, <1>2 DEF IInv

-----------------------------------------------------------------------------
(* The CPU thread. *)

\* Where the CPU is matters to no part of the invariant but its type.
LEMMA OnlyCpu ==
    ASSUME IInv,
           UNCHANGED <<vram, lockVars, cached, dirty, palOld, loaded, unseen, reset, lists, rt>>,
           cpu' \in [at : {"run", "store", "fault"}, page : Pages, val : Values, view : Views]
    PROVE  IInv'
<1>1. TypeOK'
  BY DEF IInv, TypeOK, lockVars
<1>2. (LocksAgree /\ WorkOK /\ CleanIsLocked)'
  BY DEF IInv, LocksAgree, WorkOK, CleanIsLocked, lockVars
<1>3. (BufferOK /\ LeftOK /\ FreshUnlessUnseen)'
  BY DEF IInv, BufferOK, LeftOK, FreshUnlessUnseen, lockVars
<1>4. QED
  BY <1>1, <1>2, <1>3 DEF IInv

\* A store begins.
LEMMA StartStoreOK ==
    ASSUME IInv, NEW p \in Pages, NEW v \in Values, NEW w \in Views, StartStore(p, v, w)
    PROVE  IInv'
<1>1. cpu' \in [at : {"run", "store", "fault"}, page : Pages, val : Values, view : Views]
  BY DEF StartStore, Views
<1>2. QED
  BY <1>1, OnlyCpu DEF StartStore

\* A store faults.
LEMMA StoreFaultsOK == ASSUME IInv, StoreFaults PROVE IInv'
  BY OnlyCpu DEF StoreFaults, IInv, TypeOK

\* A store that is executed hits no locked texture, for all of the pages of a
\* locked texture are protected, or it came through the view that is not, and
\* changes nothing or goes unseen.
LEMMA StoreMissesLocked ==
    ASSUME IInv, StoreDone, NEW t \in Textures, t \in locked, t \notin unseen',
           cpu.page \in Span[t]
    PROVE  vram[cpu.page] = cpu.val
<1>1. cpu.page \in Pages
  BY DEF IInv, TypeOK
<1>2. t \in VramLocks[cpu.page]
  BY <1>1 DEF IInv, LocksAgree
<1>3. cpu.page \in protected
  BY <1>1, <1>2 DEF IInv, LocksAgree
<1>4. cpu.view = "mirror"
  BY <1>3 DEF StoreDone, Faults
<1>5. QED
  BY <1>2, <1>4 DEF StoreDone

\* A store is executed: it can make only a texture stale that is being
\* converted or that is not protected where the store goes; it is then unseen.
LEMMA StoreDoneOK == ASSUME IInv, StoreDone PROVE IInv'
<1> USE DEF IInv
<1>1. /\ UNCHANGED <<protected, VramLocks, locked, cached, dirty, palOld, loaded, reset, lists, rt>>
      /\ cpu.page \in Pages /\ cpu.val \in Values
      /\ vram \in [Pages -> Values]
      /\ vram' = [vram EXCEPT ![cpu.page] = cpu.val]
      /\ cpu' = Running
  BY DEF StoreDone, TypeOK, lockVars
<1>2. /\ unseen \subseteq unseen' /\ unseen' \subseteq Textures
      /\ \A t \in Textures : rt.at = "convert" /\ rt.tex = t /\ t \notin unseen'
            /\ cpu.page \in Span[t] \ rt.left => vram[cpu.page] = cpu.val
  BY DEF StoreDone, TypeOK
<1>3. TypeOK'
  BY <1>1, <1>2, Defaults DEF TypeOK
<1>4. (LocksAgree /\ WorkOK /\ CleanIsLocked /\ LeftOK)'
  BY <1>1 DEF LocksAgree, WorkOK, CleanIsLocked, LeftOK
<1>5. BufferOK'
  <2> SUFFICES ASSUME rt.at \in Converting, rt.tex \notin unseen',
                      ~ (rt.at = "upload" /\ dirty[rt.tex] # 0),
                      NEW p \in Span[rt.tex], p \notin rt.left
               PROVE  rt.buf[p] = vram'[p]
    BY <1>1 DEF BufferOK
  <2>1. rt.tex \in Textures /\ Span[rt.tex] \subseteq Pages
    BY TexAssumption DEF WorkOK, TypeOK
  <2>2. rt.buf[p] = vram[p]
    BY <1>2, <2>1 DEF BufferOK
  <2>3. CASE p # cpu.page
    BY <1>1, <2>1, <2>2, <2>3
  <2>4. CASE p = cpu.page /\ rt.at = "convert"
    BY <1>1, <1>2, <2>1, <2>2, <2>4
  <2>5. CASE p = cpu.page /\ rt.at = "upload"
    <3>1. rt.tex \in locked
      BY <2>1, <2>5 DEF CleanIsLocked
    <3>2. QED
      BY <1>1, <2>1, <2>2, <2>5, <3>1, StoreMissesLocked
  <2>6. QED
    BY <2>3, <2>4, <2>5 DEF Converting
<1>6. FreshUnlessUnseen'
  <2> SUFFICES ASSUME NEW t \in cached, t \notin unseen', dirty[t] = 0, rt.tex # t,
                      NEW p \in Span[t]
               PROVE  loaded[t][p] = vram'[p]
    BY <1>1 DEF FreshUnlessUnseen
  <2>1. t \in locked /\ t \in Textures /\ p \in Pages
    BY TexAssumption DEF CleanIsLocked, TypeOK
  <2>2. loaded[t][p] = vram[p]
    BY <1>2 DEF FreshUnlessUnseen
  <2>3. p = cpu.page => vram[p] = cpu.val
    BY <2>1, StoreMissesLocked
  <2>4. QED
    BY <1>1, <2>1, <2>2, <2>3
<1>7. QED
  BY <1>3, <1>4, <1>5, <1>6

\* The fault handler: the textures of the page become dirty, so that it does
\* not matter that they lose their lock.
LEMMA FaultHandlerOK == ASSUME IInv, FaultHandler PROVE IInv'
<1> USE DEF IInv
<1>1. CASE lists /\ cpu.view # "mirror"
  <2> DEFINE D == VramLocks[cpu.page]
  <2>1. /\ UNCHANGED <<vram, cached, palOld, loaded, unseen, reset, lists, rt>>
        /\ cpu' = [cpu EXCEPT !.at = "store"]
        /\ dirty' = [t \in Textures |-> IF t \in D THEN 1 ELSE dirty[t]]
        /\ VramLocks' = [p \in Pages |-> VramLocks[p] \ D]
        /\ locked' = locked \ D
        /\ protected' = protected \ {cpu.page}
    BY <1>1 DEF FaultHandler, VramLockedWriteOffset, vramlock_list_remove
  <2>2. cpu.page \in Pages /\ D \subseteq Textures
    BY DEF TypeOK
  <2>3. TypeOK'
    BY <2>1, <2>2, AgeIsNat DEF TypeOK
  <2>4. LocksAgree'
    BY <2>1, <2>2, <2>3 DEF LocksAgree, TypeOK
  <2> HIDE DEF D
  <2>5. (WorkOK /\ LeftOK)'
    BY <2>1 DEF WorkOK, LeftOK
  <2>6. \A t \in Textures : dirty'[t] = 0 => dirty[t] = 0 /\ t \notin D
    BY <2>1
  <2>7. CleanIsLocked'
    BY <2>1, <2>2, <2>6 DEF CleanIsLocked, TypeOK, WorkOK, Converting
  <2>8. BufferOK'
    BY <2>1, <2>2, <2>6 DEF BufferOK, TypeOK, WorkOK, Converting
  <2>9. FreshUnlessUnseen'
    BY <2>1, <2>6 DEF FreshUnlessUnseen, TypeOK
  <2>10. QED
    BY <2>3, <2>4, <2>5, <2>7, <2>8, <2>9
<1>2. CASE ~ (lists /\ cpu.view # "mirror")
  <2>1. cpu' = [cpu EXCEPT !.at = "store", !.view = "first"] /\ UNCHANGED <<lockVars, dirty>>
    BY <1>2 DEF FaultHandler
  <2>2. cpu' \in [at : {"run", "store", "fault"}, page : Pages, val : Values, view : Views]
    BY <2>1 DEF TypeOK, Views
  <2>3. QED
    BY <2>1, <2>2, OnlyCpu DEF FaultHandler
<1>3. QED
  BY <1>1, <1>2

-----------------------------------------------------------------------------
(* Frames. *)

\* A frame is queued.
LEMMA StartRenderOK ==
    ASSUME IInv, NEW S \in SUBSET Textures, NEW pal \in BOOLEAN, StartRender(S, pal)
    PROVE  IInv'
<1> USE DEF IInv
<1>1. /\ UNCHANGED <<vram, protected, VramLocks, locked, cached, dirty, loaded, unseen, reset,
                     lists, cpu>>
      /\ rt.at = "idle" /\ rt' = [rt EXCEPT !.at = "queued", !.todo = S]
      /\ palOld' \subseteq Textures
  BY TexAssumption DEF StartRender, lockVars, TypeOK
<1>2. /\ rt'.at = "queued" /\ rt'.tex = rt.tex
  BY <1>1 DEF TypeOK
<1>3. TypeOK'
  BY <1>1 DEF TypeOK
<1>4. (LocksAgree /\ WorkOK /\ CleanIsLocked /\ LeftOK)'
  BY <1>1, <1>2 DEF LocksAgree, WorkOK, CleanIsLocked, LeftOK, Converting
<1>5. BufferOK' /\ FreshUnlessUnseen'
  BY <1>1, <1>2 DEF BufferOK, FreshUnlessUnseen, Converting
<1>6. QED
  BY <1>3, <1>4, <1>5

\* A state is loaded.
LEMMA LoadStateOK == ASSUME IInv, LoadState PROVE IInv'
<1>1. TypeOK'
  BY DEF IInv, TypeOK, LoadState, lockVars
<1>2. (LocksAgree /\ WorkOK /\ CleanIsLocked)'
  BY DEF IInv, LocksAgree, WorkOK, CleanIsLocked, LoadState, lockVars
<1>3. (BufferOK /\ LeftOK /\ FreshUnlessUnseen)'
  BY DEF IInv, BufferOK, LeftOK, FreshUnlessUnseen, LoadState, lockVars
<1>4. QED
  BY <1>1, <1>2, <1>3 DEF IInv

\* Textures are deleted between two parts of a frame, when none is being
\* converted.
LEMMA DeleteOK ==
    ASSUME IInv, NEW D \in SUBSET cached, Delete(D),
           rt.at \in {"queued", "cleanup"},
           NEW at \in {"parse", "cleanup", "render"}, rt' = [rt EXCEPT !.at = at],
           dirty' \in [Textures -> 0 .. Age + 2],
           \A t \in Textures \ D : dirty'[t] = 0 => dirty[t] = 0,
           reset' \in BOOLEAN,
           UNCHANGED <<vram, lists, cpu>>
    PROVE  IInv'
<1> USE DEF IInv
<1>1. /\ VramLocks' = [p \in Pages |-> VramLocks[p] \ (D \cap locked)]
      /\ locked' = locked \ D
      /\ protected' = protected
      /\ cached' = cached \ D
      /\ loaded' = [t \in Textures |-> IF t \in D THEN Nothing ELSE loaded[t]]
      /\ palOld' = palOld \ D
      /\ unseen' = unseen \ D
  BY DEF Delete, unprotectVRam, vramlock_list_remove
<1>2. /\ rt'.at = at /\ rt'.tex = rt.tex
      /\ rt.tex = None /\ at \notin Converting /\ rt.at \notin Converting
  BY DEF TypeOK, WorkOK, Converting
<1>3. TypeOK'
  BY <1>1, Defaults DEF TypeOK, Contents
<1>4. LocksAgree'
  BY <1>1, <1>3 DEF LocksAgree, TypeOK
<1>5. WorkOK' /\ LeftOK' /\ BufferOK'
  BY <1>1, <1>2 DEF WorkOK, LeftOK, BufferOK, Converting
<1>6. CleanIsLocked'
  BY <1>1, <1>2 DEF CleanIsLocked, TypeOK, Converting
<1>7. FreshUnlessUnseen'
  BY <1>1, <1>2 DEF FreshUnlessUnseen, TypeOK
<1>8. QED
  BY <1>3, <1>4, <1>5, <1>6, <1>7

\* The render thread takes the frame.
LEMMA DequeueRenderOK == ASSUME IInv, DequeueRender PROVE IInv'
<1> USE DEF IInv
<1> DEFINE D == IF reset /\ CleanupFirst THEN cached ELSE {}
<1>1. /\ rt.at = "queued" /\ Delete(D)
      /\ dirty' = [t \in Textures |->
                       IF dirty[t] = 0 \/ t \in D THEN 0
                       ELSE IF dirty[t] = Age + 2 THEN Age + 2 ELSE dirty[t] + 1]
      /\ reset' = (reset /\ ~CleanupFirst)
      /\ rt' = [rt EXCEPT !.at = Order[1]]
      /\ UNCHANGED <<vram, lists, cpu>>
  BY DEF DequeueRender
<1>2. D \in SUBSET cached
  OBVIOUS
<1> HIDE DEF D
<1>3. /\ dirty' \in [Textures -> 0 .. Age + 2]
      /\ \A t \in Textures \ D : dirty'[t] = 0 => dirty[t] = 0
  BY <1>1, AgeIsNat DEF TypeOK
<1>4. reset' \in BOOLEAN
  BY <1>1
<1>5. QED
  BY <1>1, <1>2, <1>3, <1>4, OrderOK, DeleteOK

\* Old textures are deleted.
LEMMA CollectCleanupOK == ASSUME IInv, CollectCleanup PROVE IInv'
<1> USE DEF IInv
<1>1. PICK D \in SUBSET {t \in cached : dirty[t] = Age + 2} :
        /\ Delete(D)
        /\ dirty' = [t \in Textures |-> IF t \in D THEN 0 ELSE dirty[t]]
  BY DEF CollectCleanup
<1>2. D \in SUBSET cached
  OBVIOUS
<1>3. /\ dirty' \in [Textures -> 0 .. Age + 2]
      /\ \A t \in Textures \ D : dirty'[t] = 0 => dirty[t] = 0
  BY <1>1, AgeIsNat DEF TypeOK
<1>4. /\ rt.at = "cleanup" /\ rt' = [rt EXCEPT !.at = After("cleanup")]
      /\ UNCHANGED <<vram, lists, cpu>> /\ reset' \in BOOLEAN
  BY DEF CollectCleanup, TypeOK
<1>5. QED
  BY <1>1, <1>2, <1>3, <1>4, OrderOK, DeleteOK
-----------------------------------------------------------------------------
(* Parsing a frame. *)

\* A polygon gets a texture that needs no update.
LEMMA TextureFoundOK == ASSUME IInv, NEW t \in Textures, TextureFound(t) PROVE IInv'
<1> USE DEF IInv
<1>1. /\ UNCHANGED <<vram, protected, VramLocks, locked, cached, dirty, palOld, loaded, unseen,
                     reset, lists, cpu>>
      /\ rt.at = "parse" /\ t \in cached
      /\ rt' = [rt EXCEPT !.todo = @ \ {t}]
  BY DEF TextureFound, lockVars
<1>2. /\ rt'.at = "parse" /\ rt'.tex = rt.tex
  BY <1>1 DEF TypeOK
<1>3. TypeOK'
  BY <1>1 DEF TypeOK
<1>4. (LocksAgree /\ WorkOK /\ CleanIsLocked /\ LeftOK)'
  BY <1>1, <1>2 DEF LocksAgree, WorkOK, CleanIsLocked, LeftOK, Converting
<1>5. BufferOK' /\ FreshUnlessUnseen'
  BY <1>1, <1>2 DEF BufferOK, FreshUnlessUnseen, Converting
<1>6. QED
  BY <1>3, <1>4, <1>5

\* Update() marks the texture clean before it has converted or locked it; until
\* then it is the texture the render thread works on.
LEMMA UpdateBeginsOK == ASSUME IInv, NEW t \in Textures, UpdateBegins(t) PROVE IInv'
<1> USE DEF IInv
<1>1. /\ UNCHANGED <<vram, protected, VramLocks, locked, reset, cpu>>
      /\ rt.at = "parse"
      /\ cached' = cached \cup {t} /\ lists' = TRUE
      /\ dirty' = [dirty EXCEPT ![t] = 0]
      /\ palOld' = palOld \ {t}
      /\ unseen' = unseen \ {t}
      /\ rt' = [rt EXCEPT !.at = "convert", !.tex = t, !.left = Span[t], !.buf = Nothing]
      /\ loaded' = [loaded EXCEPT ![t] = Nothing]
  BY DEF UpdateBegins, lockVars
<1>2. /\ rt'.at = "convert" /\ rt'.tex = t /\ rt'.left = Span[t]
      /\ rt.tex = None
  BY <1>1 DEF TypeOK, WorkOK, Converting
<1>3. TypeOK'
  <2>1. dirty' \in [Textures -> 0 .. Age + 2]
    BY <1>1, AgeIsNat DEF TypeOK
  <2>2. Span[t] \subseteq Pages
    BY TexAssumption
  <2>3. QED
    BY <1>1, <2>1, <2>2, Defaults DEF TypeOK, Contents
<1>4. (LocksAgree /\ WorkOK /\ LeftOK)'
  BY <1>1, <1>2 DEF LocksAgree, WorkOK, LeftOK, Converting
<1>5. CleanIsLocked'
  BY <1>1, <1>2, NoneIsNoTexture DEF CleanIsLocked, TypeOK
<1>6. BufferOK'
  BY <1>1, <1>2 DEF BufferOK, Converting
<1>7. FreshUnlessUnseen'
  BY <1>1, <1>2, NoneIsNoTexture DEF FreshUnlessUnseen, TypeOK
<1>8. QED
  BY <1>3, <1>4, <1>5, <1>6, <1>7

\* Update() of an impossible texture leaves it dirty and without a lock.
LEMMA UpdateFailsOK == ASSUME IInv, NEW t \in Textures, UpdateFails(t) PROVE IInv'
<1> USE DEF IInv
<1>1. /\ UNCHANGED <<vram, protected, palOld, loaded, unseen, reset, cpu>>
      /\ rt.at = "parse"
      /\ cached' = cached \cup {t} /\ lists' = TRUE
      /\ dirty' = [dirty EXCEPT ![t] = Age + 2]
      /\ VramLocks' = [p \in Pages |-> VramLocks[p] \ ({t} \cap locked)]
      /\ locked' = locked \ {t}
      /\ rt' = [rt EXCEPT !.todo = @ \ {t}]
  BY DEF UpdateFails, unprotectVRam, vramlock_list_remove
<1>2. /\ rt'.at = "parse" /\ rt'.tex = rt.tex
      /\ rt.tex = None
  BY <1>1 DEF TypeOK, WorkOK, Converting
<1>3. TypeOK'
  <2>1. dirty' \in [Textures -> 0 .. Age + 2]
    BY <1>1, AgeIsNat DEF TypeOK
  <2>2. QED
    BY <1>1, <2>1 DEF TypeOK
<1>4. LocksAgree'
  BY <1>1, <1>3 DEF LocksAgree, TypeOK
<1>5. (WorkOK /\ LeftOK /\ BufferOK)'
  BY <1>1, <1>2 DEF WorkOK, LeftOK, BufferOK, Converting
<1>6. dirty'[t] # 0 /\ \A u \in Textures \ {t} : dirty'[u] = dirty[u]
  BY <1>1, AgeIsNat DEF TypeOK
<1>7. CleanIsLocked'
  BY <1>1, <1>2, <1>6 DEF CleanIsLocked, TypeOK
<1>8. FreshUnlessUnseen'
  BY <1>1, <1>2, <1>6 DEF FreshUnlessUnseen, TypeOK
<1>9. QED
  BY <1>3, <1>4, <1>5, <1>7, <1>8

\* A page is read.
LEMMA ConvertPageOK == ASSUME IInv, NEW p \in Pages, ConvertPage(p) PROVE IInv'
<1> USE DEF IInv
<1>1. /\ UNCHANGED <<vram, protected, VramLocks, locked, cached, dirty, palOld, loaded, unseen,
                     reset, lists, cpu>>
      /\ rt.at = "convert" /\ p \in rt.left
      /\ rt' = [rt EXCEPT !.left = @ \ {p}, !.buf[p] = vram[p]]
  BY DEF ConvertPage, lockVars
<1>2. /\ rt'.at = "convert" /\ rt'.tex = rt.tex
      /\ rt'.left = rt.left \ {p} /\ rt'.buf = [rt.buf EXCEPT ![p] = vram[p]]
      /\ rt.buf \in Contents
  BY <1>1 DEF TypeOK, Contents
<1>3. TypeOK'
  <2>1. vram[p] \in Values
    BY DEF TypeOK
  <2>2. rt'.buf \in Contents
    BY <1>2, <2>1 DEF Contents
  <2>3. QED
    BY <1>1, <1>2, <2>2 DEF TypeOK, Contents
<1>4. (LocksAgree /\ WorkOK /\ CleanIsLocked /\ LeftOK)'
  BY <1>1, <1>2 DEF LocksAgree, WorkOK, CleanIsLocked, LeftOK, Converting
<1>5. FreshUnlessUnseen'
  BY <1>1, <1>2 DEF FreshUnlessUnseen
<1>6. BufferOK'
  <2>1. rt.tex \in Textures /\ Span[rt.tex] \subseteq Pages
    BY <1>1, TexAssumption DEF WorkOK, TypeOK, Converting
  <2>2. rt.tex \notin unseen => \A q \in Span[rt.tex] : q \notin rt.left => rt.buf[q] = vram[q]
    BY <1>1 DEF BufferOK, Converting
  <2>3. rt.tex \notin unseen => \A q \in Span[rt.tex] : q \notin rt'.left => rt'.buf[q] = vram[q]
    BY <1>2, <2>1, <2>2 DEF Contents
  <2>4. QED
    BY <1>1, <1>2, <2>3 DEF BufferOK
<1>7. QED
  BY <1>3, <1>4, <1>5, <1>6

\* The texture gets its lock: all of its pages are protected then, the ones
\* that were in use by another texture before.
LEMMA ProtectOK == ASSUME IInv, protectVRam PROVE IInv'
<1> USE DEF IInv
<1>1. /\ UNCHANGED <<vram, cached, dirty, palOld, loaded, unseen, reset, lists, cpu>>
      /\ rt.at = "convert" /\ rt.left = {} /\ rt.tex \in cached /\ rt.tex \in Textures
      /\ rt' = [rt EXCEPT !.at = "upload"]
  BY DEF protectVRam, WorkOK, Converting, TypeOK
<1>2. /\ rt'.at = "upload" /\ rt'.tex = rt.tex /\ rt'.left = rt.left
      /\ rt'.buf = rt.buf
  BY <1>1 DEF TypeOK
<1>3. /\ protected' \subseteq Pages /\ VramLocks' \in [Pages -> SUBSET Textures]
      /\ locked' = locked \cup {rt.tex}
      /\ LocksAgree'
  <2>1. CASE rt.tex \in locked
    <3>1. UNCHANGED <<protected, VramLocks, locked>>
      BY <2>1 DEF protectVRam, lockVars
    <3>2. QED
      BY <1>1, <2>1, <3>1 DEF LocksAgree, TypeOK
  <2>2. CASE rt.tex \notin locked
    <3>1. /\ protected' = protected \cup {p \in Span[rt.tex] : VramLocks[p] = {}}
          /\ VramLocks' = [p \in Pages |-> IF p \in Span[rt.tex] THEN VramLocks[p] \cup {rt.tex}
                                           ELSE VramLocks[p]]
          /\ locked' = locked \cup {rt.tex}
      BY <2>2 DEF protectVRam, vramlock_list_add
    <3>2. Span[rt.tex] \subseteq Pages
      BY <1>1, TexAssumption
    <3>3. protected' \subseteq Pages /\ VramLocks' \in [Pages -> SUBSET Textures]
      BY <1>1, <3>1, <3>2 DEF TypeOK
    <3>4. \A p \in Pages, t \in Textures : t \in VramLocks'[p] <=> t \in locked' /\ p \in Span[t]
      BY <1>1, <3>1 DEF LocksAgree
    <3>5. \A p \in Pages : VramLocks'[p] # {} => p \in protected'
      BY <3>1 DEF LocksAgree
    <3>6. locked' \subseteq cached'
      BY <1>1, <3>1 DEF LocksAgree
    <3>7. QED
      BY <3>1, <3>3, <3>4, <3>5, <3>6 DEF LocksAgree
  <2>3. QED
    BY <2>1, <2>2
<1>4. TypeOK'
  BY <1>1, <1>3 DEF TypeOK
<1>5. (WorkOK /\ CleanIsLocked /\ LeftOK)'
  BY <1>1, <1>2, <1>3 DEF WorkOK, CleanIsLocked, LeftOK, Converting
<1>6. BufferOK' /\ FreshUnlessUnseen'
  BY <1>1, <1>2 DEF BufferOK, FreshUnlessUnseen, Converting
<1>7. QED
  BY <1>3, <1>4, <1>5, <1>6

\* The copy is uploaded; either it shows VRAM, or the texture is unseen or dirty.
LEMMA UploadOK == ASSUME IInv, UploadToGPU PROVE IInv'
<1> USE DEF IInv
<1>1. /\ UNCHANGED <<vram, protected, VramLocks, locked, cached, dirty, palOld, unseen, reset,
                     lists, cpu>>
      /\ rt.at = "upload" /\ rt.tex \in cached /\ rt.tex \in Textures /\ rt.left = {}
      /\ loaded' = [loaded EXCEPT ![rt.tex] = rt.buf]
      /\ rt' = [rt EXCEPT !.at = "parse", !.tex = None, !.buf = Nothing,
                          !.todo = @ \ {rt.tex}]
  BY DEF UploadToGPU, lockVars, WorkOK, LeftOK, Converting, TypeOK
<1>2. /\ rt'.at = "parse" /\ rt'.tex = None
      /\ rt.buf \in Contents /\ loaded \in [Textures -> Contents]
  BY <1>1 DEF TypeOK, Contents
<1>3. TypeOK'
  <2>1. loaded' \in [Textures -> Contents]
    BY <1>1, <1>2
  <2>2. QED
    BY <1>1, <2>1, Defaults DEF TypeOK, Contents
<1>4. (LocksAgree /\ WorkOK /\ LeftOK /\ BufferOK)'
  BY <1>1, <1>2 DEF LocksAgree, WorkOK, LeftOK, BufferOK, Converting
<1>5. CleanIsLocked'
  BY <1>1, <1>2 DEF CleanIsLocked
<1>6. FreshUnlessUnseen'
  <2> SUFFICES ASSUME NEW t \in cached, t \notin unseen, dirty[t] = 0, NEW p \in Span[t]
               PROVE  loaded'[t][p] = vram[p]
    BY <1>1 DEF FreshUnlessUnseen
  <2>1. CASE t = rt.tex
    BY <1>1, <1>2, <2>1 DEF BufferOK, Converting
  <2>2. CASE t # rt.tex
    BY <1>1, <1>2, <2>2 DEF FreshUnlessUnseen
  <2>3. QED
    BY <2>1, <2>2
<1>7. QED
  BY <1>3, <1>4, <1>5, <1>6

\* The frame is parsed, or drawn.
LEMMA EndOfFrameOK == ASSUME IInv, EndParse \/ Render PROVE IInv'
<1> USE DEF IInv
<1>1. /\ UNCHANGED <<vram, protected, VramLocks, locked, cached, dirty, palOld, loaded, unseen,
                     reset, lists, cpu>>
      /\ rt.at \in {"parse", "render"}
  BY DEF EndParse, Render, lockVars
<1>2. /\ rt'.at \in {"cleanup", "render", "idle"} /\ rt'.tex = rt.tex
  <2>1. CASE EndParse
    <3>1. rt' = [rt EXCEPT !.at = After("parse")]
      BY <2>1 DEF EndParse
    <3>2. rt'.at = After("parse") /\ rt'.tex = rt.tex
      BY <3>1 DEF TypeOK
    <3>3. QED
      BY <3>2, OrderOK
  <2>2. CASE Render
    BY <2>2 DEF Render, TypeOK
  <2>3. QED
    BY <2>1, <2>2
<1>3. TypeOK'
  BY <1>1, OrderOK DEF TypeOK, EndParse, Render
<1>4. (LocksAgree /\ WorkOK /\ CleanIsLocked /\ LeftOK)'
  BY <1>1, <1>2 DEF LocksAgree, WorkOK, CleanIsLocked, LeftOK, Converting
<1>5. BufferOK' /\ FreshUnlessUnseen'
  BY <1>1, <1>2 DEF BufferOK, FreshUnlessUnseen, Converting
<1>6. QED
  BY <1>3, <1>4, <1>5

-----------------------------------------------------------------------------
(* Theorems. *)

\* IInv is inductive.
LEMMA Invariant == Spec => []IInv
<1>1. IInv /\ [Next]_vars => IInv'
  <2> SUFFICES ASSUME IInv, [Next]_vars PROVE IInv'
    OBVIOUS
  <2>1. CASE \E p \in Pages, v \in Values, w \in Views : StartStore(p, v, w)
    BY <2>1, StartStoreOK
  <2>2. CASE CpuStep
    BY <2>2, StoreDoneOK, StoreFaultsOK, FaultHandlerOK DEF CpuStep
  <2>3. CASE \E S \in SUBSET Textures, pal \in BOOLEAN : StartRender(S, pal)
    BY <2>3, StartRenderOK
  <2>4. CASE LoadState
    BY <2>4, LoadStateOK
  <2>5. CASE RenderStep
    BY <2>5, DequeueRenderOK, CollectCleanupOK, EndOfFrameOK, TextureFoundOK, UpdateBeginsOK,
       UpdateFailsOK, ConvertPageOK, ProtectOK, UploadOK DEF RenderStep
  <2>6. CASE UNCHANGED vars
    <3>1. TypeOK' /\ LocksAgree' /\ WorkOK'
      BY <2>6 DEF IInv, TypeOK, LocksAgree, WorkOK, vars
    <3>2. (CleanIsLocked /\ BufferOK /\ LeftOK /\ FreshUnlessUnseen)'
      BY <2>6 DEF IInv, CleanIsLocked, BufferOK, LeftOK, FreshUnlessUnseen, vars
    <3>3. QED
      BY <3>1, <3>2 DEF IInv
  <2>7. QED
    BY <2>1, <2>2, <2>3, <2>4, <2>5, <2>6 DEF Next
<1>2. QED
  BY <1>1, InitOK, PTL DEF Spec

\* Type correctness.
THEOREM TypeCorrect == Spec => []TypeOK
<1>1. IInv => TypeOK
  BY DEF IInv
<1>2. QED
  BY <1>1, Invariant, PTL

\* The page lists, the locks and the page protection never disagree, whatever
\* the two threads interleave, and die("Invalid state") is never reached.
THEOREM LocksConsistent == Spec => []LocksAgree
<1>1. IInv => LocksAgree
  BY DEF IInv
<1>2. QED
  BY <1>1, Invariant, PTL

\* There are two ways to a stale texture and no other: a store between the
\* conversion of a page and the lock of its texture, and a store through the
\* view of VRAM that is mapped writable and never protected.
THEOREM OnlyUnseenAreStale == Spec => []FreshUnlessUnseen
<1>1. IInv => FreshUnlessUnseen
  BY DEF IInv
<1>2. QED
  BY <1>1, Invariant, PTL
=============================================================================
