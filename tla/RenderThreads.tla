---------------------------- MODULE RenderThreads ----------------------------
(***************************************************************************)
(* The hand-off of frames from the emulation thread to the render thread   *)
(* when config::ThreadedRendering is on: PvrMessageQueue, rend_start_render*)
(* and their friends (core/hw/pvr/Renderer_if.cpp), the TA contexts and    *)
(* the one-frame render queue (core/hw/pvr/ta_ctx.cpp), cResetEvent        *)
(* (core/stdclass.cpp) and the start, stop and reset of the emulation      *)
(* thread (core/emulator.cpp).                                             *)
(*                                                                         *)
(* The render thread is the UI thread: stop(), start(), load and unload    *)
(* are called from it, between two calls of rend_single_frame().  A step   *)
(* of the model ends where the code takes or leaves a lock, reads or       *)
(* writes a variable of the other thread, or signals or waits for an       *)
(* event.  A chain of contexts (nextContext) is the set of its members;    *)
(* their addresses are abstracted: the game names any context of ctx_list. *)
(***************************************************************************)
EXTENDS Naturals, Sequences, FiniteSets

CONSTANTS
    Ctxs,           \* bound: the TA contexts that may exist
    PoolMax,        \* contexts kept by tactx_Recycle (4)
    MaxList,        \* bound: contexts in ctx_list
    MaxPresents,    \* bound: Present messages queued by rend_swap_frame
    SliceOps,       \* bound: operations in the last time slice
    EmulateFramebuffer, DelayFrameSwapping,     \* options
    SkipFrame,      \* may frames be skipped (option, or renderer disabled)
    AutoSkipFrame,  \* 0..2
    Env             \* what else may happen, a subset of AllEnv

\* "spurious": a wait of cResetEvent ends without a signal; "overlap": the game
\* starts a render before the last one is done; "reset": it asks for a soft
\* reset; "throw": the emulation thread ends with an exception; "stop",
\* "loadstate", "unload": the user does; "rollback": GGPO loads a state.
AllEnv == {"spurious", "overlap", "reset", "throw", "stop", "loadstate",
           "unload", "rollback"}

ASSUME OptionAssumption ==
    /\ IsFiniteSet(Ctxs) /\ PoolMax \in Nat /\ MaxList \in Nat /\ {MaxPresents, SliceOps} \subseteq Nat
    /\ AutoSkipFrame \in 0..2
    /\ {EmulateFramebuffer, DelayFrameSwapping, SkipFrame} \subseteq BOOLEAN
    /\ Env \subseteq AllEnv

VARIABLES
    \* shared
    queue,      \* PvrMessageQueue::queue, message types only
    ev,         \* state of the cResetEvents
    rqueue,     \* the chain given to the render thread; {} is nullptr
    qRTT,       \* isRTT of that chain, FALSE when there is none
    ctx_pool, ctx_list,
    state,      \* Emulator::state
    CpuRunning,
    \* emulation thread
    epc, ctx,   \* ctx, isRTT: locals of rend_start_render
    isRTT, todo,    \* todo: messages rend_* has still to enqueue
    ta_ctx,     \* current TA context, or {}
    pend_rend,
    doneSched,  \* render_end_schid is scheduled
    did,        \* bound: operations under way, or since CpuRunning was cleared
    resetRequested,
    failed,     \* the thread ended with an exception
    \* render thread
    rpc, msg, rctx, leave   \* leave: `presented', or an exception was thrown

emuVars == <<ctx, isRTT, todo, ta_ctx, pend_rend, doneSched,
             did, resetRequested, failed>>
rendVars == <<rpc, msg, rctx, leave>>
vars == <<queue, ev, rqueue, qRTT, ctx_pool, ctx_list, state, CpuRunning,
          epc, emuVars, rendVars>>

\* Only rend_start_rollback() waits for vramRollback: it is left out without it.
Events == {"enqueue", "dequeue", "renderEnd", "frame_finished"}
              \cup (IF "rollback" \in Env THEN {"vramRollback"} ELSE {})

\* Run() looks at CpuRunning once per time slice of 448 cycles, about 2 us:
\* once it is cleared, the game does op at most once more, the operation that
\* was under way included, and SliceOps operations in all.
Do(op, next) ==
    /\ epc = "game" /\ op \notin did /\ Cardinality(did) < SliceOps
    /\ epc' = next
    /\ did' = IF CpuRunning /\ next = "game" THEN {} ELSE did \cup {op}

\* The operation under way returns to the game.
Return ==
    /\ epc' = "game"
    /\ did' = IF CpuRunning THEN {} ELSE did

-----------------------------------------------------------------------------
(* cResetEvent: a signal is kept until one wait consumes it.               *)

Set(e) == ev' = [f \in Events |-> f = e \/ ev[f]]
Reset(e) == ev' = [f \in Events |-> f # e /\ ev[f]]

\* Wait() has no loop around cond.wait(): it may also return spuriously.
Wait(e) == (ev[e] \/ "spurious" \in Env) /\ Reset(e)

-----------------------------------------------------------------------------
(* TA contexts *)

\* tactx_Recycle(chain): what the pool cannot hold is deleted.
tactx_Recycle(chain) ==
    \E kept \in SUBSET chain :
        /\ Cardinality(ctx_pool \cup kept) <= PoolMax \/ kept = {}
        /\ kept # chain => Cardinality(ctx_pool \cup kept) >= PoolMax
        /\ ctx_pool' = ctx_pool \cup kept

\* Contexts that no one holds a pointer to, or were deleted.
Unallocated ==
    Ctxs \ (ctx_pool \cup ctx_list \cup rqueue \cup rctx \cup ctx)

\* SetCurrentTARC(addr): tactx_Find gives a context of the list, the one with
\* that address or one unused for 60 frames, or tactx_Alloc adds one to it.
SetCurrentTARC ==
    /\ Do("list", "game")
    /\ \/ \E c \in ctx_list : ta_ctx' = {c} /\ UNCHANGED <<ctx_pool, ctx_list>>
       \/ /\ Cardinality(ctx_list) < MaxList
          /\ \E c \in IF ctx_pool # {} THEN ctx_pool ELSE Unallocated :
               /\ ta_ctx' = {c}
               /\ ctx_list' = ctx_list \cup {c}
               /\ ctx_pool' = ctx_pool \ {c}
    /\ UNCHANGED <<queue, ev, rqueue, qRTT, state, CpuRunning, ctx, isRTT,
                   todo, pend_rend, doneSched, resetRequested,
                   failed, rendVars>>

-----------------------------------------------------------------------------
(* The emulation thread *)

\* rend_start_render(): the chain is popped; nothing is done without one.
rend_start_render ==
    /\ "overlap" \in Env \/ ~ doneSched
    /\ pend_rend' = FALSE /\ doneSched' = TRUE
    /\ \/ Do("render", "game") /\ UNCHANGED <<ctx, isRTT, ctx_list, ta_ctx>>
       \/ /\ Do("render", "queue")
          /\ \E chain \in (SUBSET ctx_list) \ {{}}, rtt \in BOOLEAN :
             /\ ctx' = chain /\ isRTT' = rtt
             /\ ctx_list' = ctx_list \ chain
             /\ ta_ctx' = ta_ctx \ chain
    /\ UNCHANGED <<queue, ev, rqueue, qRTT, ctx_pool, state, CpuRunning, todo,
                   resetRequested, failed, rendVars>>

\* A step of QueueRender that only moves on.
Goto(label) ==
    /\ epc' = label
    /\ UNCHANGED <<queue, rqueue, qRTT, ctx_pool, ctx_list, state, CpuRunning,
                   emuVars, rendVars>>

\* QueueRender(): wait for the previous frame, skip this one, or go on.
QueueRender ==
    /\ epc = "queue"
    /\ \/ SkipFrame /\ Goto("drop")
       \/ rqueue # {} /\ AutoSkipFrame < 2 /\ Goto("frame_wait")
       \/ (rqueue = {} \/ AutoSkipFrame > 0) /\ Goto("check")
    /\ UNCHANGED ev

QueueRender_wait == epc = "frame_wait" /\ Wait("frame_finished") /\ Goto("check")

\* Mutant of QueueRender_check: the slot is not looked at after the wait.
QueueRender_check_NoTest ==
    epc = "check" /\ Goto("reset") /\ Reset("vramRollback")

\* Mutant of QueueRender_check: rend_disable_rollback() is forgotten.
QueueRender_check_NoDisable ==
    /\ epc = "check"
    /\ Goto(IF rqueue # {} THEN "drop" ELSE "reset")
    /\ UNCHANGED ev

QueueRender_check ==
    /\ epc = "check"
    /\ \/ rqueue # {} /\ Goto("drop") /\ UNCHANGED ev
       \/ rqueue = {} /\ Goto("reset") /\ Reset("vramRollback")

QueueRender_reset == epc = "reset" /\ Reset("frame_finished") /\ Goto("hand")

QueueRender_drop ==
    /\ epc = "drop"
    /\ tactx_Recycle(ctx)
    /\ Return /\ ctx' = {} /\ isRTT' = FALSE
    /\ UNCHANGED <<queue, ev, rqueue, qRTT, ctx_list, state, CpuRunning,
                   todo, ta_ctx, pend_rend, doneSched,
                   resetRequested, failed, rendVars>>

\* The chain is handed over; rend_start_render() goes on to enqueue Render.
QueueRender_hand ==
    /\ epc = "hand"
    /\ rqueue' = ctx /\ qRTT' = isRTT
    /\ pend_rend' = TRUE
    /\ epc' = "enqueue" /\ todo' = <<"Render">>
    /\ UNCHANGED <<queue, ev, ctx_pool, ctx_list, state, CpuRunning, ctx, isRTT,
                   ta_ctx, doneSched, did, resetRequested,
                   failed, rendVars>>

Queued(type) == {i \in DOMAIN queue : queue[i] = type}
Has(type) == Queued(type) # {}

\* PvrMessageQueue::enqueue(): one message of a type, except Present.
enqueue ==
    /\ epc = "enqueue"
    /\ LET type == Head(todo) IN
       \/ /\ Has(type) /\ type # "Present"
          /\ epc' = "dequeue_wait" /\ UNCHANGED queue
       \/ /\ ~ Has(type) \/ type = "Present"
          /\ queue' = Append(queue, type) /\ epc' = "enqueue_set"
    /\ UNCHANGED <<ev, rqueue, qRTT, ctx_pool, ctx_list, state, CpuRunning,
                   emuVars, rendVars>>

enqueue_wait == epc = "dequeue_wait" /\ Wait("dequeue") /\ Goto("enqueue")

\* rend_start_render() reads ctx->rend.isRTT once Render is queued: by then
\* the render thread may have deleted the context, and the read gives anything.
LateIsRTT ==
    IF ctx \subseteq ctx_pool \cup rqueue \cup rctx THEN {isRTT} ELSE BOOLEAN

enqueue_set ==
    /\ epc = "enqueue_set"
    /\ Set("enqueue")
    /\ \E rtt \in LateIsRTT :
         LET more == IF Head(todo) = "Render"
                     THEN IF DelayFrameSwapping \/ rtt \/ EmulateFramebuffer
                          THEN << >> ELSE <<"Present">>
                     ELSE Tail(todo)
         IN  /\ todo' = more
             /\ IF more = << >> THEN Return ELSE epc' = "enqueue" /\ UNCHANGED did
    /\ ctx' = {} /\ isRTT' = FALSE
    /\ UNCHANGED <<queue, rqueue, qRTT, ctx_pool, ctx_list, state, CpuRunning,
                   ta_ctx, pend_rend, doneSched,
                   resetRequested, failed, rendVars>>

\* The RENDER_DONE event of the scheduler.
rend_end_render ==
    /\ Do("end", IF pend_rend THEN "end_wait" ELSE "game")
    /\ doneSched /\ doneSched' = FALSE
    /\ UNCHANGED <<queue, ev, rqueue, qRTT, ctx_pool, ctx_list, state, CpuRunning,
                   ctx, isRTT, todo, ta_ctx, pend_rend,
                   resetRequested, failed, rendVars>>

rend_end_render_wait ==
    /\ epc = "end_wait"
    /\ Wait("renderEnd")
    /\ Return
    /\ UNCHANGED <<queue, rqueue, qRTT, ctx_pool, ctx_list, state, CpuRunning,
                   ctx, isRTT, todo, ta_ctx, pend_rend, doneSched,
                   resetRequested, failed, rendVars>>

\* rend_vblank(): a framebuffer the game drew itself is shown.  Whether there is
\* one (render_called, fb_dirty, fb_enable) is left open.
rend_vblank ==
    /\ \/ /\ Do("vblank", "enqueue")
          /\ todo' = <<"RenderFramebuffer", "Present">>
       \/ ~ EmulateFramebuffer /\ Do("vblank", "game") /\ UNCHANGED todo
    /\ UNCHANGED <<queue, ev, rqueue, qRTT, ctx_pool, ctx_list, state, CpuRunning,
                   ctx, isRTT, ta_ctx, pend_rend, doneSched, resetRequested,
                   failed, rendVars>>

\* rend_swap_frame(): the game displays the buffer it last rendered to.
rend_swap_frame ==
    /\ ~ EmulateFramebuffer /\ Do("swap", "enqueue")
    /\ Cardinality(Queued("Present")) < MaxPresents
    /\ todo' = <<"Present">>
    /\ UNCHANGED <<queue, ev, rqueue, qRTT, ctx_pool, ctx_list, state, CpuRunning,
                   ctx, isRTT, ta_ctx, pend_rend, doneSched,
                   resetRequested, failed, rendVars>>

\* load_game_state(): rend_start_rollback() ...
rend_start_rollback ==
    /\ "rollback" \in Env /\ Do("rollback", "rollback_wait")
    /\ UNCHANGED <<queue, ev, rqueue, qRTT, ctx_pool, ctx_list, state, CpuRunning,
                   ctx, isRTT, todo, ta_ctx, pend_rend, doneSched,
                   resetRequested, failed, rendVars>>

rend_start_rollback_wait ==
    epc = "rollback_wait" /\ Wait("vramRollback") /\ Goto("rollback")

\* Mutant of DeserializeTAContext: the old contexts stay in the list.
DeserializeTAContext_NoClear ==
    /\ ctx_pool' \in {ctx_pool \cup old : old \in
                        {o \in SUBSET ctx_list : Cardinality(ctx_pool \cup o) <= PoolMax}}
    /\ ta_ctx' = {} /\ UNCHANGED ctx_list

\* DeserializeTAContext(): the list is recycled, then filled again.
DeserializeTAContext ==
    \E old \in SUBSET ctx_list, new \in SUBSET (Ctxs \ (rqueue \cup rctx)) :
        LET pool == ctx_pool \cup old IN
        /\ Cardinality(pool) <= PoolMax \/ old = {}
        /\ old # ctx_list => Cardinality(pool) >= PoolMax
        /\ Cardinality(new) <= MaxList
        /\ new \subseteq pool \/ pool \subseteq new
        /\ ctx_list' = new /\ ctx_pool' = pool \ new
        /\ \/ ta_ctx' = {}
           \/ \E c \in new : ta_ctx' = {c}

\* Mutant of load_game_state: rollbacks stay disabled.
load_game_state_Locked ==
    /\ epc = "rollback"
    /\ DeserializeTAContext
    /\ pend_rend' = FALSE
    /\ doneSched' \in BOOLEAN
    /\ Return
    /\ UNCHANGED <<queue, ev, rqueue, qRTT, state, CpuRunning, ctx, isRTT, todo,
                   resetRequested, failed, rendVars>>

\* ... the state is read back, and rend_allow_rollback().
load_game_state ==
    /\ epc = "rollback"
    /\ DeserializeTAContext
    /\ pend_rend' = FALSE
    /\ doneSched' \in BOOLEAN
    /\ Set("vramRollback")
    /\ Return
    /\ UNCHANGED <<queue, rqueue, qRTT, state, CpuRunning, ctx, isRTT, todo,
                   resetRequested, failed, rendVars>>

\* requestReset(): the game asks for a soft reset.
requestReset ==
    /\ "reset" \in Env /\ Do("reset", "game")
    /\ resetRequested' = TRUE /\ CpuRunning' = FALSE
    /\ UNCHANGED <<queue, ev, rqueue, qRTT, ctx_pool, ctx_list, state, ctx,
                   isRTT, todo, ta_ctx, pend_rend, doneSched,
                   failed, rendVars>>

\* The end of a time slice: Run() returns when CpuRunning is cleared.
Run_slice ==
    /\ epc = "game" /\ ~ CpuRunning
    /\ did' = {}
    /\ epc' = IF resetRequested THEN "soft_reset" ELSE "done"
    /\ UNCHANGED <<queue, ev, rqueue, qRTT, ctx_pool, ctx_list, state, CpuRunning,
                   ctx, isRTT, todo, ta_ctx, pend_rend, doneSched,
                   resetRequested, failed, rendVars>>

\* dc_reset(false) calls tactx_Term() ...
soft_reset ==
    /\ epc = "soft_reset"
    /\ ta_ctx' = {} /\ ctx_list' = {} /\ ctx_pool' = {}
    /\ epc' = "restart"
    /\ UNCHANGED <<queue, ev, rqueue, qRTT, state, CpuRunning, ctx, isRTT, todo,
                   pend_rend, doneSched, did, resetRequested,
                   failed, rendVars>>

\* Mutant of restartCpu: a stop that came during the reset is overlooked.
restartCpu_Always ==
    /\ epc = "restart"
    /\ resetRequested' = FALSE
    /\ CpuRunning' = TRUE /\ epc' = "game"
    /\ UNCHANGED <<queue, ev, rqueue, qRTT, ctx_pool, ctx_list, state, ctx, isRTT,
                   todo, ta_ctx, pend_rend, doneSched, did,
                   failed, rendVars>>

\* ... and restartCpu(), under the mutex, goes on unless stop() came first.
restartCpu ==
    /\ epc = "restart"
    /\ resetRequested' = FALSE
    /\ \/ state = "Running" /\ CpuRunning' = TRUE /\ epc' = "game"
       \/ state # "Running" /\ UNCHANGED CpuRunning /\ epc' = "done"
    /\ UNCHANGED <<queue, ev, rqueue, qRTT, ctx_pool, ctx_list, state, ctx, isRTT,
                   todo, ta_ctx, pend_rend, doneSched, did,
                   failed, rendVars>>

\* An exception leaves the thread.
emu_throw ==
    /\ "throw" \in Env /\ epc = "game"
    /\ CpuRunning' = FALSE /\ failed' = TRUE /\ epc' = "done" /\ did' = {}
    /\ UNCHANGED <<queue, ev, rqueue, qRTT, ctx_pool, ctx_list, state, ctx, isRTT,
                   todo, ta_ctx, pend_rend, doneSched,
                   resetRequested, rendVars>>

-----------------------------------------------------------------------------
(* The render thread *)

\* A step of the render thread that leaves the other thread's variables alone.
RGoto(label) ==
    /\ rpc' = label
    /\ UNCHANGED <<state, CpuRunning, epc, emuVars, ctx_list>>

\* Emulator::render() starts rend_single_frame().
rend_single_frame ==
    /\ rpc = "ui" /\ state = "Running" /\ epc # "done"
    /\ RGoto("dequeue")
    /\ UNCHANGED <<queue, ev, rqueue, qRTT, ctx_pool, msg, rctx, leave>>

dequeue ==
    /\ rpc = "dequeue"
    /\ \/ /\ queue # << >>
          /\ msg' = Head(queue) /\ queue' = Tail(queue)
          /\ RGoto("dequeue_set")
       \/ /\ queue = << >>
          /\ RGoto("enqueue_wait")
          /\ UNCHANGED <<queue, msg>>
    /\ UNCHANGED <<ev, rqueue, qRTT, ctx_pool, rctx, leave>>

\* Wait(timeoutMs): no signal in time ends rend_single_frame().
dequeue_wait ==
    /\ rpc = "enqueue_wait"
    /\ \/ ev["enqueue"] /\ Reset("enqueue") /\ RGoto("dequeue")
       \/ ~ ev["enqueue"] /\ UNCHANGED ev /\ RGoto("ui")
    /\ UNCHANGED <<queue, rqueue, qRTT, ctx_pool, msg, rctx, leave>>

dequeue_set ==
    /\ rpc = "dequeue_set"
    /\ Set("dequeue")
    /\ RGoto("execute")
    /\ UNCHANGED <<queue, rqueue, qRTT, ctx_pool, msg, rctx, leave>>

\* execute(): rend_single_frame() goes on until a frame is presented.
execute ==
    /\ rpc = "execute"
    /\ \/ /\ msg = "Render"
          /\ rctx' = rqueue
          /\ RGoto(IF rqueue = {} THEN "dequeue" ELSE "process")
       \/ msg = "RenderFramebuffer" /\ RGoto("dequeue") /\ UNCHANGED rctx
       \/ /\ msg = "Present"
          /\ RGoto("dequeue") \/ RGoto("ui")
          /\ UNCHANGED rctx
       \/ msg = "Stop" /\ RGoto("ui") /\ UNCHANGED rctx
    /\ msg' = "None"
    /\ UNCHANGED <<queue, ev, rqueue, qRTT, ctx_pool, leave>>

renderToScreen == ~ qRTT /\ ~ EmulateFramebuffer

\* Mutant of render_process: an exception does not let the game go.
render_process_Silent ==
    /\ rpc = "process"
    /\ \/ /\ IF renderToScreen THEN Set("renderEnd") ELSE UNCHANGED ev
          /\ RGoto("allow") /\ UNCHANGED leave
       \/ UNCHANGED ev /\ RGoto("allow_throw") /\ leave' = TRUE
    /\ UNCHANGED <<queue, rqueue, qRTT, ctx_pool, msg, rctx>>

\* render(): renderer->Process(), which may throw ...
render_process ==
    /\ rpc = "process"
    /\ \/ /\ IF renderToScreen THEN Set("renderEnd") ELSE UNCHANGED ev
          /\ RGoto("allow") /\ UNCHANGED leave
       \/ /\ Set("renderEnd")
          /\ RGoto("allow_throw") /\ leave' = TRUE
    /\ UNCHANGED <<queue, rqueue, qRTT, ctx_pool, msg, rctx>>

rend_allow_rollback ==
    /\ rpc \in {"allow", "allow_throw"}
    /\ Set("vramRollback")
    /\ RGoto(IF rpc = "allow" THEN "render" ELSE "finish")
    /\ UNCHANGED <<queue, rqueue, qRTT, ctx_pool, msg, rctx, leave>>

\* ... renderer->Render(), which may throw too, and a delayed present() ...
render_render ==
    /\ rpc = "render"
    /\ IF renderToScreen THEN UNCHANGED ev ELSE Set("renderEnd")
    /\ leave' \in BOOLEAN
    /\ RGoto("finish")
    /\ UNCHANGED <<queue, rqueue, qRTT, ctx_pool, msg, rctx>>

\* ... and FinishRender(): the slot is emptied, the chain recycled, and the
\* emulation thread told, in this order and without a lock.
FinishRender ==
    /\ rpc = "finish"
    /\ rqueue' = {} /\ qRTT' = FALSE
    /\ RGoto("recycle")
    /\ UNCHANGED <<queue, ev, ctx_pool, msg, rctx, leave>>

FinishRender_recycle ==
    /\ rpc = "recycle"
    /\ tactx_Recycle(rctx) /\ rctx' = {}
    /\ RGoto("finished")
    /\ UNCHANGED <<queue, ev, rqueue, qRTT, msg, leave>>

FinishRender_set ==
    /\ rpc = "finished"
    /\ Set("frame_finished")
    /\ RGoto(IF leave THEN "ui" ELSE "dequeue") /\ leave' = FALSE
    /\ UNCHANGED <<queue, rqueue, qRTT, ctx_pool, msg, rctx>>

-----------------------------------------------------------------------------
(* The user stops and restarts the game, from the render thread *)

\* Emulator::stop() ...
stop ==
    /\ "stop" \in Env /\ rpc = "ui" /\ state = "Running"
    /\ state' = "Loaded" /\ CpuRunning' = FALSE
    /\ rpc' = "cancel1"
    /\ UNCHANGED <<queue, ev, rqueue, qRTT, ctx_pool, ctx_list, epc, emuVars,
                   msg, rctx, leave>>

\* ... rend_cancel_emu_wait(): every wait of the emulation thread is ended ...
rend_cancel_emu_wait ==
    /\ \/ rpc = "cancel1" /\ Set("frame_finished") /\ RGoto("cancel2")
       \/ rpc = "cancel2" /\ Set("renderEnd") /\ RGoto("cancel3")
       \/ rpc = "cancel3" /\ Set("vramRollback") /\ RGoto("cancel4")
    /\ UNCHANGED <<queue, rqueue, qRTT, ctx_pool, msg, rctx, leave>>

\* Mutant of cancelEnqueue: the whole queue is cleared.
cancelEnqueue_All ==
    /\ rpc = "cancel4"
    /\ queue' = << >>
    /\ Set("dequeue")
    /\ RGoto("cancel5")
    /\ UNCHANGED <<rqueue, qRTT, ctx_pool, msg, rctx, leave>>

\* ... all messages but Render are withdrawn (a message is its type) ...
cancelEnqueue ==
    /\ rpc = "cancel4"
    /\ queue' = [i \in 1 .. Cardinality(Queued("Render")) |-> "Render"]
    /\ Set("dequeue")
    /\ RGoto("cancel5")
    /\ UNCHANGED <<rqueue, qRTT, ctx_pool, msg, rctx, leave>>

\* ... a Stop message is left for the render thread ...
enqueue_Stop ==
    /\ \/ /\ rpc = "cancel5"
          /\ queue' = IF Has("Stop") THEN queue ELSE Append(queue, "Stop")
          /\ RGoto(IF Has("Stop") THEN "join" ELSE "cancel6")
          /\ UNCHANGED ev
       \/ rpc = "cancel6" /\ Set("enqueue") /\ RGoto("join") /\ UNCHANGED queue
    /\ UNCHANGED <<rqueue, qRTT, ctx_pool, msg, rctx, leave>>

\* ... and checkStatus(true) waits for the emulation thread to end.
checkStatus ==
    /\ \/ rpc = "join"
       \/ rpc = "ui" /\ state = "Running" /\ failed
    /\ epc = "done"
    /\ state' = IF failed THEN "Error" ELSE state
    /\ rpc' = "ui"
    /\ UNCHANGED <<queue, ev, rqueue, qRTT, ctx_pool, ctx_list, CpuRunning, epc,
                   emuVars, msg, rctx, leave>>

\* Emulator::start() launches a new emulation thread.
start ==
    /\ rpc = "ui" /\ state = "Loaded" /\ epc = "done"
    /\ state' = "Running" /\ CpuRunning' = TRUE
    /\ epc' = "game" /\ did' = {} /\ failed' = FALSE /\ resetRequested' = FALSE
    /\ UNCHANGED <<queue, ev, rqueue, qRTT, ctx_pool, ctx_list, ctx, isRTT, todo,
                   ta_ctx, pend_rend, doneSched, rendVars>>

\* dc_loadstate(), while stopped.
loadstate ==
    /\ "loadstate" \in Env /\ rpc = "ui" /\ state = "Loaded" /\ epc = "done"
    /\ DeserializeTAContext
    /\ pend_rend' = FALSE
    /\ doneSched' \in BOOLEAN
    /\ UNCHANGED <<queue, ev, rqueue, qRTT, state, CpuRunning, epc, ctx, isRTT,
                   todo, did, resetRequested, failed, rendVars>>

\* unloadGame() calls dc_reset(true): rend_reset() drops the frame that is
\* waiting and clears the queue, tactx_Term() deletes all contexts, and the
\* scheduler is reset.
unloadGame ==
    /\ "unload" \in Env /\ rpc = "ui" /\ epc = "done"
    /\ state \in {"Loaded", "Error"}
    /\ rqueue' = {} /\ qRTT' = FALSE /\ queue' = << >>
    /\ ta_ctx' = {} /\ ctx_list' = {} /\ ctx_pool' = {}
    /\ Set("frame_finished")
    /\ pend_rend' = FALSE /\ doneSched' = FALSE
    /\ state' = "Init"
    /\ UNCHANGED <<CpuRunning, epc, ctx, isRTT, todo, did, resetRequested,
                   failed, rendVars>>

loadGame ==
    /\ rpc = "ui" /\ state = "Init"
    /\ state' = "Loaded"
    /\ UNCHANGED <<queue, ev, rqueue, qRTT, ctx_pool, ctx_list, CpuRunning, epc,
                   emuVars, rendVars>>

-----------------------------------------------------------------------------
Init ==
    /\ queue = << >> /\ ev = [e \in Events |-> e = "vramRollback"]
    /\ rqueue = {} /\ qRTT = FALSE
    /\ ctx_pool = {} /\ ctx_list = {}
    /\ state = "Loaded" /\ CpuRunning = FALSE
    /\ epc = "done" /\ ctx = {} /\ isRTT = FALSE /\ todo = << >> /\ ta_ctx = {}
    /\ pend_rend = FALSE /\ doneSched = FALSE /\ did = {}
    /\ resetRequested = FALSE /\ failed = FALSE
    /\ rpc = "ui" /\ msg = "None" /\ rctx = {} /\ leave = FALSE

EmuNext ==
    \/ SetCurrentTARC \/ rend_start_render
    \/ QueueRender \/ QueueRender_wait \/ QueueRender_check \/ QueueRender_reset
    \/ QueueRender_drop \/ QueueRender_hand
    \/ enqueue \/ enqueue_wait \/ enqueue_set
    \/ rend_end_render \/ rend_end_render_wait
    \/ rend_vblank \/ rend_swap_frame
    \/ rend_start_rollback \/ rend_start_rollback_wait \/ load_game_state
    \/ requestReset \/ Run_slice \/ soft_reset \/ restartCpu \/ emu_throw

RenderNext ==
    \/ rend_single_frame \/ dequeue \/ dequeue_wait \/ dequeue_set \/ execute
    \/ render_process \/ rend_allow_rollback \/ render_render
    \/ FinishRender \/ FinishRender_recycle \/ FinishRender_set

StopNext ==
    \/ rend_cancel_emu_wait \/ cancelEnqueue \/ enqueue_Stop \/ checkStatus

UserNext == stop \/ start \/ loadstate \/ unloadGame \/ loadGame

Next == EmuNext \/ RenderNext \/ StopNext \/ UserNext

Spec == Init /\ [][Next]_vars

\* Both threads run; the user does as he likes.
LiveSpec == Spec /\ WF_vars(EmuNext) /\ WF_vars(RenderNext) /\ WF_vars(StopNext)

-----------------------------------------------------------------------------
(* Properties *)

\* Types; the pool stays within the limit of tactx_Recycle().
TypeOK ==
    /\ queue \in Seq({"Render", "RenderFramebuffer", "Present", "Stop"})
    /\ ev \in [Events -> BOOLEAN]
    /\ {rqueue, ctx_pool, ctx_list, ctx, rctx, ta_ctx} \subseteq SUBSET Ctxs
    /\ Cardinality(ctx_pool) <= PoolMax
    /\ state \in {"Init", "Loaded", "Running", "Error"}
    /\ {qRTT, CpuRunning, isRTT, pend_rend, doneSched,
        resetRequested, failed, leave} \subseteq BOOLEAN

\* The emulation thread holds the chain from tactx_Pop to the hand-over.
EmuHolds == IF epc \in {"queue", "frame_wait", "check", "drop", "reset", "hand"}
            THEN ctx ELSE {}

\* A TA context belongs to the pool, the list, the emulation thread, the render
\* slot or the render thread, never to two of them: it is not built, rendered,
\* recycled or handed out twice.  The current context is one of the list.
OneOwner ==
    /\ LET owners == <<ctx_pool, ctx_list, EmuHolds, rqueue,
                       IF rpc = "recycle" THEN rctx ELSE {}>>
       IN \A i, j \in DOMAIN owners : i # j => owners[i] \cap owners[j] = {}
    /\ ta_ctx \subseteq ctx_list

\* verify(rqueue == ctx) in FinishRender and verify(rqueue == nullptr) in
\* QueueRender: what the render thread works on stays in the slot to the end,
\* and the emulation thread never overwrites a frame.
SlotIsStable ==
    /\ rpc \in {"process", "allow", "allow_throw", "render", "finish"} =>
          rctx = rqueue /\ rqueue # {}
    /\ epc \in {"reset", "hand"} => rqueue = {}

\* There is one Render in the queue or in execution exactly while a frame waits
\* in the slot: a frame is neither forgotten there nor rendered twice, and the
\* duplicate test of enqueue() never makes rend_start_render() wait.
RenderMatchesSlot ==
    LET held == msg = "Render" \/ (rctx # {} /\ rpc # "recycle")
        coming == epc = "enqueue" /\ todo = <<"Render">>
    IN  /\ Cardinality(Queued("Render")) + (IF held THEN 1 ELSE 0) + (IF coming THEN 1 ELSE 0)
              = (IF rqueue # {} THEN 1 ELSE 0)
        /\ epc = "dequeue_wait" => Head(todo) # "Render"

\* ta_ctx.cpp: "disable net rollbacks until the render thread has processed the
\* frame".  While a state is loaded back no frame is waiting or in Process().
NoRollbackDuringProcess ==
    epc = "rollback" => rpc # "process" /\ ~ Has("Render") /\ msg # "Render"

\* Renderer_if.cpp: "If rendering to texture or in full framebuffer emulation,
\* continue locking until the frame is rendered": rend_end_render() does not
\* return while the frame the game last started is still to be rendered, unless
\* the game is being stopped.
LockedUntilRendered ==
    [][epc = "end_wait" /\ epc' = "game" /\ CpuRunning =>
         \/ rqueue = {} \/ rpc \in {"allow_throw", "finish"}
         \/ renderToScreen /\ rpc \in {"allow", "render"}]_vars

\* stop() returns: whatever the emulation thread is waiting for, and even if it
\* is resetting the machine, it ends.
StopReturns == (rpc = "join") ~> (rpc = "ui")

\* No wait of the emulation thread lasts forever: each operation the game starts
\* (rend_start_render, rend_end_render, rend_vblank...) returns to it.
CallsReturn == (epc \notin {"game", "done"}) ~> (epc \in {"game", "done"})

\* A frame that was handed over is rendered, unless the game is stopped.
FramesAreRendered == (rqueue # {} /\ state = "Running") ~> (rqueue = {} \/ state # "Running")
=============================================================================
