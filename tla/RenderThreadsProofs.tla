------------------------ MODULE RenderThreadsProofs ------------------------
(***************************************************************************)
(* Proofs about RenderThreads, for any set of contexts, every combination  *)
(* of the options, and everything the user, the game and the renderer may  *)
(* do meanwhile: a context has one owner, a frame is neither lost nor      *)
(* rendered twice, and a rollback does not meet a frame in Process().      *)
(***************************************************************************)
EXTENDS RenderThreads, FiniteSetTheorems, TLAPS

Messages == {"Render", "RenderFramebuffer", "Present", "Stop"}

\* Where the emulation thread holds a chain, and where it enqueues messages.
Holding == {"queue", "frame_wait", "check", "drop", "reset", "hand"}
Sending == {"enqueue", "enqueue_set", "dequeue_wait"}

\* Where the render thread has a frame, and where it has it in the slot.
Working == {"process", "allow", "allow_throw", "render", "finish"}
Stopping == {"cancel1", "cancel2", "cancel3", "cancel4", "cancel5", "cancel6", "join"}

\* The two threads are where they can be, with the locals they have there.
ControlOK ==
    /\ epc \in Holding \cup Sending \cup
               {"game", "end_wait", "rollback_wait", "rollback", "soft_reset", "restart", "done"}
    /\ rpc \in Working \cup Stopping \cup
               {"ui", "dequeue", "enqueue_wait", "dequeue_set", "execute", "recycle", "finished"}
    /\ epc \in Holding => ctx # {}
    /\ epc \in Sending =>
          todo \in {<<"Render">>, <<"RenderFramebuffer", "Present">>, <<"Present">>}
    /\ epc = "dequeue_wait" => todo # <<"Render">>
    /\ msg \in Messages \cup {"None"}
    /\ msg = "None" \/ rpc \in {"dequeue_set", "execute"}
    /\ rctx = {} \/ rpc \in Working \cup {"recycle"}
    /\ epc \in {"rollback_wait", "rollback"} => "rollback" \in Env

\* The owners of contexts, one by one.
OwnersOK ==
    /\ ctx_pool \cap ctx_list = {}
    /\ (ctx_pool \cup ctx_list) \cap rqueue = {}
    /\ epc \in Holding => (ctx_pool \cup ctx_list \cup rqueue) \cap ctx = {}
    /\ rpc = "recycle" => (ctx_pool \cup ctx_list \cup rqueue) \cap rctx = {}
    /\ epc \in Holding /\ rpc = "recycle" => ctx \cap rctx = {}
    /\ ta_ctx \subseteq ctx_list

\* The render thread has taken the Render message of the frame in the slot.
Held == msg = "Render" \/ rpc \in Working

\* The emulation thread is about to send it.
Coming == epc = "enqueue" /\ todo = <<"Render">>

\* There is one Render message for the frame in the slot.
MessageOK ==
    /\ \A i, j \in DOMAIN queue : queue[i] = "Render" /\ queue[j] = "Render" => i = j
    /\ rqueue # {} <=> Has("Render") \/ Held \/ Coming
    /\ ~ (Has("Render") /\ Held) /\ ~ (Has("Render") /\ Coming) /\ ~ (Held /\ Coming)

IInv == TypeOK /\ ControlOK /\ OwnersOK /\ SlotIsStable /\ MessageOK

\* No wait is ended by anything but a signal that was meant for it.
Calm == Env \cap {"spurious", "stop"} = {}

\* While rollbacks are allowed there is no frame that is not processed yet.
RollbackOK ==
    /\ rpc \notin Stopping
    /\ ("rollback" \in Env /\ ev["vramRollback"]) \/ epc = "rollback" =>
          /\ rpc # "process" /\ ~ Has("Render") /\ msg # "Render"
          /\ epc \notin {"reset", "hand"} /\ ~ Coming
-----------------------------------------------------------------------------
(* Lemmas about the queue and the messages that are sent. *)

\* What is next, and what remains, of the messages an operation sends.
LEMMA TodoOK ==
    ASSUME todo \in {<<"Render">>, <<"RenderFramebuffer", "Present">>, <<"Present">>}
    PROVE  /\ Head(todo) = "Render" <=> todo = <<"Render">>
           /\ Head(todo) \in Messages
           /\ todo # <<"Render">> => Tail(todo) \in {<< >>, <<"Present">>}
           /\ <<"Present">> # <<"Render">>
           /\ <<"RenderFramebuffer", "Present">> # <<"Render">>
<1> USE DEF Messages
<1>1. /\ Head(<<"Render">>) = "Render" /\ Head(<<"Present">>) = "Present"
      /\ Head(<<"RenderFramebuffer", "Present">>) = "RenderFramebuffer"
  OBVIOUS
<1>2. /\ Tail(<<"Present">>) = << >>
      /\ Tail(<<"RenderFramebuffer", "Present">>) = <<"Present">>
  OBVIOUS
<1>3. <<"Present">> # <<"Render">> /\ <<"RenderFramebuffer", "Present">> # <<"Render">>
  BY <1>1
<1>4. CASE todo = <<"Render">>
  BY <1>1, <1>3, <1>4
<1>5. CASE todo = <<"Present">>
  BY <1>1, <1>2, <1>3, <1>5
<1>6. CASE todo = <<"RenderFramebuffer", "Present">>
  BY <1>1, <1>2, <1>3, <1>6
<1>7. QED
  BY <1>4, <1>5, <1>6

\* The queue as a sequence.
LEMMA QueueType ==
    ASSUME TypeOK
    PROVE  /\ queue \in Seq(Messages) /\ Len(queue) \in Nat
           /\ DOMAIN queue = 1 .. Len(queue)
           /\ \A i \in 1 .. Len(queue) : queue[i] \in Messages
  BY DEF TypeOK, Messages

\* The first message is taken.
LEMMA Dequeued ==
    ASSUME TypeOK, queue # << >>, queue' = Tail(queue)
    PROVE  /\ Len(queue) \in Nat \ {0} /\ DOMAIN queue = 1 .. Len(queue)
           /\ Head(queue) = queue[1]
           /\ DOMAIN queue' = 1 .. Len(queue) - 1
           /\ \A i \in 1 .. Len(queue) - 1 : queue'[i] = queue[i + 1]
           /\ Has("Render")' <=> \E i \in 2 .. Len(queue) : queue[i] = "Render"
           /\ Has("Render") <=> Head(queue) = "Render" \/ Has("Render")'
<1>1. /\ Len(queue) \in Nat \ {0} /\ DOMAIN queue = 1 .. Len(queue)
      /\ Head(queue) = queue[1]
      /\ DOMAIN queue' = 1 .. Len(queue) - 1
      /\ \A i \in 1 .. Len(queue) - 1 : queue'[i] = queue[i + 1]
  BY QueueType
<1>2. Has("Render")' <=> \E i \in 2 .. Len(queue) : queue[i] = "Render"
  <2>1. ASSUME NEW i \in DOMAIN queue', queue'[i] = "Render"
        PROVE  \E k \in 2 .. Len(queue) : queue[k] = "Render"
    <3>1. i + 1 \in 2 .. Len(queue) /\ queue[i + 1] = "Render"
      BY <1>1, <2>1
    <3>2. QED
      BY <3>1
  <2>2. ASSUME NEW i \in 2 .. Len(queue), queue[i] = "Render"
        PROVE  \E k \in DOMAIN queue' : queue'[k] = "Render"
    <3>1. i - 1 \in DOMAIN queue' /\ queue'[i - 1] = queue[(i - 1) + 1] /\ (i - 1) + 1 = i
      BY <1>1
    <3>2. QED
      BY <2>2, <3>1
  <2>3. QED
    BY <2>1, <2>2 DEF Has, Queued
<1>3. Has("Render") <=> queue[1] = "Render" \/ \E i \in 2 .. Len(queue) : queue[i] = "Render"
  BY <1>1 DEF Has, Queued
<1>4. QED
  BY <1>1, <1>2, <1>3

\* If there is at most one Render in the queue, there is one if there is any.
LEMMA QueuedRender ==
    ASSUME TypeOK, MessageOK
    PROVE  Cardinality(Queued("Render")) = IF Has("Render") THEN 1 ELSE 0
<1>1. CASE ~ Has("Render")
  <2>1. Queued("Render") = {}
    BY <1>1 DEF Has
  <2>2. QED
    BY <1>1, <2>1, FS_EmptySet
<1>2. CASE Has("Render")
  <2>1. PICK i \in DOMAIN queue : queue[i] = "Render"
    BY <1>2 DEF Has, Queued
  <2>2. Queued("Render") = {i}
    BY <2>1 DEF Queued, MessageOK
  <2>3. QED
    BY <1>2, <2>2, FS_Singleton
<1>3. QED
  BY <1>1, <1>2

\* A part of a pool that is not too large.
LEMMA Smaller ==
    ASSUME NEW T \in SUBSET Ctxs, Cardinality(T) <= PoolMax, NEW S \in SUBSET T
    PROVE  Cardinality(S) <= PoolMax
<1>1. IsFiniteSet(T)
  BY OptionAssumption, FS_Subset
<1>2. Cardinality(S) \in Nat /\ Cardinality(T) \in Nat /\ Cardinality(S) <= Cardinality(T)
  BY <1>1, FS_Subset, FS_CardinalityType
<1>3. PoolMax \in Nat
  BY OptionAssumption
<1>4. QED
  BY <1>2, <1>3

\* A pool that was deleted.
LEMMA EmptyPool == Cardinality({}) <= PoolMax
  BY OptionAssumption, FS_EmptySet

\* The contexts of a loaded state.
LEMMA LoadedOK ==
    ASSUME TypeOK, DeserializeTAContext
    PROVE  /\ ctx_list' \subseteq Ctxs /\ ctx_pool' \subseteq Ctxs /\ ta_ctx' \subseteq Ctxs
           /\ Cardinality(ctx_pool') <= PoolMax
<1>1. PICK old \in SUBSET ctx_list, new \in SUBSET Ctxs :
        /\ Cardinality(ctx_pool \cup old) <= PoolMax \/ old = {}
        /\ ctx_list' = new /\ ctx_pool' = (ctx_pool \cup old) \ new
        /\ ta_ctx' = {} \/ \E c \in new : ta_ctx' = {c}
  BY DEF DeserializeTAContext
<1>2. Cardinality(ctx_pool \cup old) <= PoolMax /\ ctx_pool \cup old \subseteq Ctxs
  <2>1. Cardinality(ctx_pool) <= PoolMax /\ ctx_pool \subseteq Ctxs /\ ctx_list \subseteq Ctxs
    BY DEF TypeOK
  <2>2. old = {} => ctx_pool \cup old = ctx_pool
    OBVIOUS
  <2>3. QED
    BY <1>1, <2>1, <2>2
<1>3. Cardinality(ctx_pool') <= PoolMax
  BY <1>1, <1>2, Smaller
<1>4. QED
  BY <1>1, <1>2, <1>3
-----------------------------------------------------------------------------
(* The steps. *)

\* Both threads stay in their places, with the locals that belong to them.
LEMMA ControlStep == IInv /\ Next => ControlOK'
<1> SUFFICES ASSUME IInv, Next PROVE ControlOK'
  OBVIOUS
<1> USE DEF IInv, ControlOK, Holding, Sending, Working, Stopping, Messages
<1> USE DEF emuVars, rendVars, Do, Return, Goto, RGoto
<1>1. CASE SetCurrentTARC
  BY <1>1 DEF SetCurrentTARC
<1>2. CASE rend_start_render
  BY <1>2 DEF rend_start_render
<1>3. CASE QueueRender
  BY <1>3 DEF QueueRender
<1>4. CASE QueueRender_wait
  BY <1>4 DEF QueueRender_wait
<1>5. CASE QueueRender_check
  BY <1>5 DEF QueueRender_check
<1>6. CASE QueueRender_reset
  BY <1>6 DEF QueueRender_reset
<1>7. CASE QueueRender_drop
  BY <1>7 DEF QueueRender_drop
<1>8. CASE QueueRender_hand
  BY <1>8 DEF QueueRender_hand
<1>9. CASE enqueue
  <2>1. todo' = todo /\ UNCHANGED <<rpc, ctx, msg, rctx>> /\ epc = "enqueue"
    BY <1>9 DEF enqueue
  <2>2. epc' = "enqueue_set" \/ (epc' = "dequeue_wait" /\ todo # <<"Render">>)
    BY <1>9, TodoOK DEF enqueue, SlotIsStable, MessageOK, Coming
  <2>3. QED
    BY <2>1, <2>2
<1>10. CASE enqueue_wait
  BY <1>10 DEF enqueue_wait
<1>11. CASE enqueue_set
  BY <1>11, TodoOK DEF enqueue_set
<1>12. CASE rend_end_render
  BY <1>12 DEF rend_end_render
<1>13. CASE rend_end_render_wait
  BY <1>13 DEF rend_end_render_wait
<1>14. CASE rend_vblank
  BY <1>14 DEF rend_vblank
<1>15. CASE rend_swap_frame
  BY <1>15 DEF rend_swap_frame
<1>16. CASE rend_start_rollback
  BY <1>16 DEF rend_start_rollback
<1>17. CASE rend_start_rollback_wait
  BY <1>17 DEF rend_start_rollback_wait
<1>18. CASE load_game_state
  BY <1>18 DEF load_game_state
<1>19. CASE requestReset
  BY <1>19 DEF requestReset
<1>20. CASE Run_slice
  BY <1>20 DEF Run_slice
<1>21. CASE soft_reset
  BY <1>21 DEF soft_reset
<1>22. CASE restartCpu
  BY <1>22 DEF restartCpu
<1>23. CASE emu_throw
  BY <1>23 DEF emu_throw
<1>24. CASE rend_single_frame
  BY <1>24 DEF rend_single_frame
<1>25. CASE dequeue
  BY <1>25, QueueType DEF dequeue
<1>26. CASE dequeue_wait
  BY <1>26 DEF dequeue_wait
<1>27. CASE dequeue_set
  BY <1>27 DEF dequeue_set
<1>28. CASE execute
  BY <1>28 DEF execute
<1>29. CASE render_process
  BY <1>29 DEF render_process
<1>30. CASE rend_allow_rollback
  BY <1>30 DEF rend_allow_rollback
<1>31. CASE render_render
  BY <1>31 DEF render_render
<1>32. CASE FinishRender
  BY <1>32 DEF FinishRender
<1>33. CASE FinishRender_recycle
  BY <1>33 DEF FinishRender_recycle
<1>34. CASE FinishRender_set
  BY <1>34 DEF FinishRender_set
<1>35. CASE rend_cancel_emu_wait
  BY <1>35 DEF rend_cancel_emu_wait
<1>36. CASE cancelEnqueue
  BY <1>36 DEF cancelEnqueue
<1>37. CASE enqueue_Stop
  BY <1>37 DEF enqueue_Stop
<1>38. CASE checkStatus
  BY <1>38 DEF checkStatus
<1>39. CASE stop
  BY <1>39 DEF stop
<1>40. CASE start
  BY <1>40 DEF start
<1>41. CASE loadstate
  BY <1>41 DEF loadstate
<1>42. CASE unloadGame
  BY <1>42 DEF unloadGame
<1>43. CASE loadGame
  BY <1>43 DEF loadGame
<1>44. QED
  BY <1>1, <1>2, <1>3, <1>4, <1>5, <1>6, <1>7, <1>8, <1>9, <1>10, <1>11, <1>12,
     <1>13, <1>14, <1>15, <1>16, <1>17, <1>18, <1>19, <1>20, <1>21, <1>22, <1>23, <1>24,
     <1>25, <1>26, <1>27, <1>28, <1>29, <1>30, <1>31, <1>32, <1>33, <1>34, <1>35, <1>36,
     <1>37, <1>38, <1>39, <1>40, <1>41, <1>42, <1>43
     DEF Next, EmuNext, RenderNext, StopNext, UserNext

\* A context keeps having one owner.
LEMMA OwnersStep == IInv /\ Next => OwnersOK'
<1> SUFFICES ASSUME IInv, Next PROVE OwnersOK'
  OBVIOUS
<1> USE DEF IInv, OwnersOK, ControlOK, SlotIsStable, Holding, Working
<1> USE DEF emuVars, rendVars, Do, Return, Goto, RGoto
<1>1. CASE SetCurrentTARC
  BY <1>1 DEF SetCurrentTARC, Unallocated
<1>2. CASE rend_start_render
  BY <1>2 DEF rend_start_render
<1>3. CASE QueueRender
  BY <1>3 DEF QueueRender
<1>4. CASE QueueRender_wait
  BY <1>4 DEF QueueRender_wait
<1>5. CASE QueueRender_check
  BY <1>5 DEF QueueRender_check
<1>6. CASE QueueRender_reset
  BY <1>6 DEF QueueRender_reset
<1>7. CASE QueueRender_drop
  BY <1>7 DEF QueueRender_drop, tactx_Recycle
<1>8. CASE QueueRender_hand
  BY <1>8 DEF QueueRender_hand
<1>9. CASE enqueue
  BY <1>9 DEF enqueue
<1>10. CASE enqueue_wait
  BY <1>10 DEF enqueue_wait
<1>11. CASE enqueue_set
  BY <1>11 DEF enqueue_set
<1>12. CASE rend_end_render
  BY <1>12 DEF rend_end_render
<1>13. CASE rend_end_render_wait
  BY <1>13 DEF rend_end_render_wait
<1>14. CASE rend_vblank
  BY <1>14 DEF rend_vblank
<1>15. CASE rend_swap_frame
  BY <1>15 DEF rend_swap_frame
<1>16. CASE rend_start_rollback
  BY <1>16 DEF rend_start_rollback
<1>17. CASE rend_start_rollback_wait
  BY <1>17 DEF rend_start_rollback_wait
<1>18. CASE load_game_state
  BY <1>18 DEF load_game_state, DeserializeTAContext
<1>19. CASE requestReset
  BY <1>19 DEF requestReset
<1>20. CASE Run_slice
  BY <1>20 DEF Run_slice
<1>21. CASE soft_reset
  BY <1>21 DEF soft_reset
<1>22. CASE restartCpu
  BY <1>22 DEF restartCpu
<1>23. CASE emu_throw
  BY <1>23 DEF emu_throw
<1>24. CASE rend_single_frame
  BY <1>24 DEF rend_single_frame
<1>25. CASE dequeue
  BY <1>25 DEF dequeue
<1>26. CASE dequeue_wait
  BY <1>26 DEF dequeue_wait
<1>27. CASE dequeue_set
  BY <1>27 DEF dequeue_set
<1>28. CASE execute
  BY <1>28 DEF execute
<1>29. CASE render_process
  BY <1>29 DEF render_process
<1>30. CASE rend_allow_rollback
  BY <1>30 DEF rend_allow_rollback
<1>31. CASE render_render
  BY <1>31 DEF render_render
<1>32. CASE FinishRender
  BY <1>32 DEF FinishRender
<1>33. CASE FinishRender_recycle
  BY <1>33 DEF FinishRender_recycle, tactx_Recycle
<1>34. CASE FinishRender_set
  BY <1>34 DEF FinishRender_set
<1>35. CASE rend_cancel_emu_wait
  BY <1>35 DEF rend_cancel_emu_wait
<1>36. CASE cancelEnqueue
  BY <1>36 DEF cancelEnqueue
<1>37. CASE enqueue_Stop
  BY <1>37 DEF enqueue_Stop
<1>38. CASE checkStatus
  BY <1>38 DEF checkStatus
<1>39. CASE stop
  BY <1>39 DEF stop
<1>40. CASE start
  BY <1>40 DEF start
<1>41. CASE loadstate
  BY <1>41 DEF loadstate, DeserializeTAContext
<1>42. CASE unloadGame
  BY <1>42 DEF unloadGame
<1>43. CASE loadGame
  BY <1>43 DEF loadGame
<1>44. QED
  BY <1>1, <1>2, <1>3, <1>4, <1>5, <1>6, <1>7, <1>8, <1>9, <1>10, <1>11, <1>12,
     <1>13, <1>14, <1>15, <1>16, <1>17, <1>18, <1>19, <1>20, <1>21, <1>22, <1>23, <1>24,
     <1>25, <1>26, <1>27, <1>28, <1>29, <1>30, <1>31, <1>32, <1>33, <1>34, <1>35, <1>36,
     <1>37, <1>38, <1>39, <1>40, <1>41, <1>42, <1>43
     DEF Next, EmuNext, RenderNext, StopNext, UserNext

\* The slot keeps the frame that is worked on, and is empty before a hand-over.
LEMMA SlotStep == IInv /\ Next => SlotIsStable'
<1> SUFFICES ASSUME IInv, Next PROVE SlotIsStable'
  OBVIOUS
<1> USE DEF IInv, SlotIsStable, ControlOK, Holding, Working
<1> USE DEF emuVars, rendVars, Do, Return, Goto, RGoto
<1>1. CASE SetCurrentTARC
  BY <1>1 DEF SetCurrentTARC
<1>2. CASE rend_start_render
  BY <1>2 DEF rend_start_render
<1>3. CASE QueueRender
  BY <1>3 DEF QueueRender
<1>4. CASE QueueRender_wait
  BY <1>4 DEF QueueRender_wait
<1>5. CASE QueueRender_check
  BY <1>5 DEF QueueRender_check
<1>6. CASE QueueRender_reset
  BY <1>6 DEF QueueRender_reset
<1>7. CASE QueueRender_drop
  BY <1>7 DEF QueueRender_drop
<1>8. CASE QueueRender_hand
  BY <1>8 DEF QueueRender_hand
<1>9. CASE enqueue
  BY <1>9 DEF enqueue
<1>10. CASE enqueue_wait
  BY <1>10 DEF enqueue_wait
<1>11. CASE enqueue_set
  BY <1>11 DEF enqueue_set
<1>12. CASE rend_end_render
  BY <1>12 DEF rend_end_render
<1>13. CASE rend_end_render_wait
  BY <1>13 DEF rend_end_render_wait
<1>14. CASE rend_vblank
  BY <1>14 DEF rend_vblank
<1>15. CASE rend_swap_frame
  BY <1>15 DEF rend_swap_frame
<1>16. CASE rend_start_rollback
  BY <1>16 DEF rend_start_rollback
<1>17. CASE rend_start_rollback_wait
  BY <1>17 DEF rend_start_rollback_wait
<1>18. CASE load_game_state
  BY <1>18 DEF load_game_state
<1>19. CASE requestReset
  BY <1>19 DEF requestReset
<1>20. CASE Run_slice
  BY <1>20 DEF Run_slice
<1>21. CASE soft_reset
  BY <1>21 DEF soft_reset
<1>22. CASE restartCpu
  BY <1>22 DEF restartCpu
<1>23. CASE emu_throw
  BY <1>23 DEF emu_throw
<1>24. CASE rend_single_frame
  BY <1>24 DEF rend_single_frame
<1>25. CASE dequeue
  BY <1>25 DEF dequeue
<1>26. CASE dequeue_wait
  BY <1>26 DEF dequeue_wait
<1>27. CASE dequeue_set
  BY <1>27 DEF dequeue_set
<1>28. CASE execute
  BY <1>28 DEF execute
<1>29. CASE render_process
  BY <1>29 DEF render_process
<1>30. CASE rend_allow_rollback
  BY <1>30 DEF rend_allow_rollback
<1>31. CASE render_render
  BY <1>31 DEF render_render
<1>32. CASE FinishRender
  BY <1>32 DEF FinishRender
<1>33. CASE FinishRender_recycle
  BY <1>33 DEF FinishRender_recycle
<1>34. CASE FinishRender_set
  BY <1>34 DEF FinishRender_set
<1>35. CASE rend_cancel_emu_wait
  BY <1>35 DEF rend_cancel_emu_wait
<1>36. CASE cancelEnqueue
  BY <1>36 DEF cancelEnqueue
<1>37. CASE enqueue_Stop
  BY <1>37 DEF enqueue_Stop
<1>38. CASE checkStatus
  BY <1>38 DEF checkStatus
<1>39. CASE stop
  BY <1>39 DEF stop
<1>40. CASE start
  BY <1>40 DEF start
<1>41. CASE loadstate
  BY <1>41 DEF loadstate
<1>42. CASE unloadGame
  BY <1>42 DEF unloadGame
<1>43. CASE loadGame
  BY <1>43 DEF loadGame
<1>44. QED
  BY <1>1, <1>2, <1>3, <1>4, <1>5, <1>6, <1>7, <1>8, <1>9, <1>10, <1>11, <1>12,
     <1>13, <1>14, <1>15, <1>16, <1>17, <1>18, <1>19, <1>20, <1>21, <1>22, <1>23, <1>24,
     <1>25, <1>26, <1>27, <1>28, <1>29, <1>30, <1>31, <1>32, <1>33, <1>34, <1>35, <1>36,
     <1>37, <1>38, <1>39, <1>40, <1>41, <1>42, <1>43
     DEF Next, EmuNext, RenderNext, StopNext, UserNext

\* A frame in the slot keeps having one message.
LEMMA MessageStep == IInv /\ Next => MessageOK'
<1> SUFFICES ASSUME IInv, Next PROVE MessageOK'
  OBVIOUS
<1> USE DEF IInv, MessageOK, Held, Coming, Has, Queued, SlotIsStable, ControlOK
<1> USE DEF Holding, Sending, Working
<1> USE DEF emuVars, rendVars, Do, Return, Goto, RGoto
<1>1. CASE SetCurrentTARC
  BY <1>1 DEF SetCurrentTARC
<1>2. CASE rend_start_render
  BY <1>2 DEF rend_start_render
<1>3. CASE QueueRender
  BY <1>3 DEF QueueRender
<1>4. CASE QueueRender_wait
  BY <1>4 DEF QueueRender_wait
<1>5. CASE QueueRender_check
  BY <1>5 DEF QueueRender_check
<1>6. CASE QueueRender_reset
  BY <1>6 DEF QueueRender_reset
<1>7. CASE QueueRender_drop
  BY <1>7 DEF QueueRender_drop
<1>8. CASE QueueRender_hand
  BY <1>8 DEF QueueRender_hand
<1>9. CASE enqueue
  BY <1>9 DEF enqueue
<1>10. CASE enqueue_wait
  BY <1>10 DEF enqueue_wait
<1>11. CASE enqueue_set
  BY <1>11, TodoOK DEF enqueue_set
<1>12. CASE rend_end_render
  BY <1>12 DEF rend_end_render
<1>13. CASE rend_end_render_wait
  BY <1>13 DEF rend_end_render_wait
<1>14. CASE rend_vblank
  BY <1>14 DEF rend_vblank
<1>15. CASE rend_swap_frame
  BY <1>15 DEF rend_swap_frame
<1>16. CASE rend_start_rollback
  BY <1>16 DEF rend_start_rollback
<1>17. CASE rend_start_rollback_wait
  BY <1>17 DEF rend_start_rollback_wait
<1>18. CASE load_game_state
  BY <1>18 DEF load_game_state
<1>19. CASE requestReset
  BY <1>19 DEF requestReset
<1>20. CASE Run_slice
  BY <1>20 DEF Run_slice
<1>21. CASE soft_reset
  BY <1>21 DEF soft_reset
<1>22. CASE restartCpu
  BY <1>22 DEF restartCpu
<1>23. CASE emu_throw
  BY <1>23 DEF emu_throw
<1>24. CASE rend_single_frame
  BY <1>24 DEF rend_single_frame
<1>25. CASE dequeue
  <2>1. /\ UNCHANGED <<rqueue, epc, todo, rctx>> /\ rpc = "dequeue" /\ msg = "None"
        /\ ~ Held /\ (Coming' <=> Coming)
    BY <1>25 DEF dequeue
  <2>2. CASE queue = << >>
    BY <1>25, <2>1, <2>2 DEF dequeue
  <2>3. CASE queue # << >>
    <3>1. queue' = Tail(queue) /\ msg' = Head(queue) /\ rpc' = "dequeue_set"
      BY <1>25, <2>3 DEF dequeue
    <3>2. /\ Len(queue) \in Nat \ {0} /\ DOMAIN queue = 1 .. Len(queue)
          /\ Head(queue) = queue[1] /\ DOMAIN queue' = 1 .. Len(queue) - 1
          /\ \A i \in 1 .. Len(queue) - 1 : queue'[i] = queue[i + 1]
          /\ Has("Render")' <=> \E i \in 2 .. Len(queue) : queue[i] = "Render"
          /\ Has("Render") <=> Head(queue) = "Render" \/ Has("Render")'
      BY <2>3, <3>1, Dequeued
    <3>3. \A i, j \in DOMAIN queue' : queue'[i] = "Render" /\ queue'[j] = "Render" => i = j
      <4> TAKE i, j \in DOMAIN queue'
      <4> HAVE queue'[i] = "Render" /\ queue'[j] = "Render"
      <4>1. /\ i \in Int /\ j \in Int /\ i + 1 \in DOMAIN queue /\ j + 1 \in DOMAIN queue
            /\ queue[i + 1] = "Render" /\ queue[j + 1] = "Render"
        BY <3>2
      <4>2. QED
        BY <4>1
    <3>4. Held' <=> Head(queue) = "Render"
      BY <3>1
    <3>5. ~ (Held' /\ Has("Render")')
      BY <3>2, <3>4
    <3>6. QED
      BY <2>1, <3>2, <3>3, <3>4, <3>5
  <2>4. QED
    BY <2>2, <2>3
<1>26. CASE dequeue_wait
  BY <1>26 DEF dequeue_wait
<1>27. CASE dequeue_set
  BY <1>27 DEF dequeue_set
<1>28. CASE execute
  BY <1>28 DEF execute
<1>29. CASE render_process
  BY <1>29 DEF render_process
<1>30. CASE rend_allow_rollback
  BY <1>30 DEF rend_allow_rollback
<1>31. CASE render_render
  BY <1>31 DEF render_render
<1>32. CASE FinishRender
  BY <1>32 DEF FinishRender
<1>33. CASE FinishRender_recycle
  BY <1>33 DEF FinishRender_recycle
<1>34. CASE FinishRender_set
  BY <1>34 DEF FinishRender_set
<1>35. CASE rend_cancel_emu_wait
  BY <1>35 DEF rend_cancel_emu_wait
<1>36. CASE cancelEnqueue
  <2>1. /\ UNCHANGED <<rqueue, epc, todo, rctx, msg>> /\ rpc = "cancel4" /\ rpc' = "cancel5"
        /\ queue' = [i \in 1 .. (IF Has("Render") THEN 1 ELSE 0) |-> "Render"]
    BY <1>36, QueuedRender DEF cancelEnqueue
  <2>2. Has("Render")' <=> Has("Render")
    BY <2>1
  <2>3. \A i, j \in DOMAIN queue' : i = j
    BY <2>1
  <2>4. QED
    BY <2>1, <2>2, <2>3
<1>37. CASE enqueue_Stop
  BY <1>37 DEF enqueue_Stop
<1>38. CASE checkStatus
  BY <1>38 DEF checkStatus
<1>39. CASE stop
  BY <1>39 DEF stop
<1>40. CASE start
  BY <1>40 DEF start
<1>41. CASE loadstate
  BY <1>41 DEF loadstate
<1>42. CASE unloadGame
  BY <1>42 DEF unloadGame
<1>43. CASE loadGame
  BY <1>43 DEF loadGame
<1>44. QED
  BY <1>1, <1>2, <1>3, <1>4, <1>5, <1>6, <1>7, <1>8, <1>9, <1>10, <1>11, <1>12,
     <1>13, <1>14, <1>15, <1>16, <1>17, <1>18, <1>19, <1>20, <1>21, <1>22, <1>23, <1>24,
     <1>25, <1>26, <1>27, <1>28, <1>29, <1>30, <1>31, <1>32, <1>33, <1>34, <1>35, <1>36,
     <1>37, <1>38, <1>39, <1>40, <1>41, <1>42, <1>43
     DEF Next, EmuNext, RenderNext, StopNext, UserNext

\* Types are kept.
LEMMA TypeStep == IInv /\ Next => TypeOK'
<1> SUFFICES ASSUME IInv, Next PROVE TypeOK'
  OBVIOUS
<1> USE DEF IInv, TypeOK, ControlOK, Holding, Sending, Working
<1> USE DEF emuVars, rendVars, Do, Return, Goto, RGoto, Set, Reset, Wait
<1>1. CASE SetCurrentTARC
  <2>1. ctx_pool' \subseteq ctx_pool
    BY <1>1 DEF SetCurrentTARC
  <2>2. Cardinality(ctx_pool') <= PoolMax
    BY <2>1, Smaller
  <2>3. ctx_list' \subseteq Ctxs /\ ta_ctx' \subseteq Ctxs
    BY <1>1 DEF SetCurrentTARC, Unallocated
  <2>4. QED
    BY <1>1, <2>1, <2>2, <2>3 DEF SetCurrentTARC
<1>2. CASE rend_start_render
  BY <1>2 DEF rend_start_render
<1>3. CASE QueueRender
  BY <1>3 DEF QueueRender
<1>4. CASE QueueRender_wait
  BY <1>4 DEF QueueRender_wait
<1>5. CASE QueueRender_check
  BY <1>5 DEF QueueRender_check
<1>6. CASE QueueRender_reset
  BY <1>6 DEF QueueRender_reset
<1>7. CASE QueueRender_drop
  BY <1>7 DEF QueueRender_drop, tactx_Recycle
<1>8. CASE QueueRender_hand
  BY <1>8 DEF QueueRender_hand
<1>9. CASE enqueue
  BY <1>9 DEF enqueue
<1>10. CASE enqueue_wait
  BY <1>10 DEF enqueue_wait
<1>11. CASE enqueue_set
  BY <1>11 DEF enqueue_set
<1>12. CASE rend_end_render
  BY <1>12 DEF rend_end_render
<1>13. CASE rend_end_render_wait
  BY <1>13 DEF rend_end_render_wait
<1>14. CASE rend_vblank
  BY <1>14 DEF rend_vblank
<1>15. CASE rend_swap_frame
  BY <1>15 DEF rend_swap_frame
<1>16. CASE rend_start_rollback
  BY <1>16 DEF rend_start_rollback
<1>17. CASE rend_start_rollback_wait
  BY <1>17 DEF rend_start_rollback_wait
<1>18. CASE load_game_state
  BY <1>18, LoadedOK DEF load_game_state
<1>19. CASE requestReset
  BY <1>19 DEF requestReset
<1>20. CASE Run_slice
  BY <1>20 DEF Run_slice
<1>21. CASE soft_reset
  BY <1>21, EmptyPool DEF soft_reset
<1>22. CASE restartCpu
  BY <1>22 DEF restartCpu
<1>23. CASE emu_throw
  BY <1>23 DEF emu_throw
<1>24. CASE rend_single_frame
  BY <1>24 DEF rend_single_frame
<1>25. CASE dequeue
  BY <1>25 DEF dequeue
<1>26. CASE dequeue_wait
  BY <1>26 DEF dequeue_wait
<1>27. CASE dequeue_set
  BY <1>27 DEF dequeue_set
<1>28. CASE execute
  BY <1>28 DEF execute
<1>29. CASE render_process
  BY <1>29 DEF render_process
<1>30. CASE rend_allow_rollback
  BY <1>30 DEF rend_allow_rollback
<1>31. CASE render_render
  BY <1>31 DEF render_render
<1>32. CASE FinishRender
  BY <1>32 DEF FinishRender
<1>33. CASE FinishRender_recycle
  BY <1>33 DEF FinishRender_recycle, tactx_Recycle
<1>34. CASE FinishRender_set
  BY <1>34 DEF FinishRender_set
<1>35. CASE rend_cancel_emu_wait
  BY <1>35 DEF rend_cancel_emu_wait
<1>36. CASE cancelEnqueue
  <2>1. queue' = [i \in 1 .. (IF Has("Render") THEN 1 ELSE 0) |-> "Render"]
    BY <1>36, QueuedRender DEF cancelEnqueue
  <2>2. queue' \in Seq({"Render", "RenderFramebuffer", "Present", "Stop"})
    BY <2>1
  <2>3. QED
    BY <1>36, <2>2 DEF cancelEnqueue
<1>37. CASE enqueue_Stop
  <2>1. queue' = queue \/ queue' = Append(queue, "Stop")
    BY <1>37 DEF enqueue_Stop
  <2>2. queue' \in Seq({"Render", "RenderFramebuffer", "Present", "Stop"})
    BY <2>1
  <2>3. ev' \in [Events -> BOOLEAN]
    BY <1>37 DEF enqueue_Stop
  <2>4. QED
    BY <1>37, <2>2, <2>3 DEF enqueue_Stop
<1>38. CASE checkStatus
  BY <1>38 DEF checkStatus
<1>39. CASE stop
  BY <1>39 DEF stop
<1>40. CASE start
  BY <1>40 DEF start
<1>41. CASE loadstate
  BY <1>41, LoadedOK DEF loadstate
<1>42. CASE unloadGame
  <2>1. queue' = << >> /\ rqueue' = {} /\ ta_ctx' = {} /\ ctx_list' = {} /\ ctx_pool' = {}
    BY <1>42 DEF unloadGame
  <2>2. /\ ev' \in [Events -> BOOLEAN] /\ UNCHANGED <<ctx, rctx>> /\ state' = "Init"
        /\ {qRTT', CpuRunning', isRTT', pend_rend', doneSched', resetRequested', failed', leave'}
             \subseteq BOOLEAN
    BY <1>42 DEF unloadGame
  <2>3. QED
    BY <2>1, <2>2, EmptyPool
<1>43. CASE loadGame
  BY <1>43 DEF loadGame
<1>44. QED
  BY <1>1, <1>2, <1>3, <1>4, <1>5, <1>6, <1>7, <1>8, <1>9, <1>10, <1>11, <1>12,
     <1>13, <1>14, <1>15, <1>16, <1>17, <1>18, <1>19, <1>20, <1>21, <1>22, <1>23, <1>24,
     <1>25, <1>26, <1>27, <1>28, <1>29, <1>30, <1>31, <1>32, <1>33, <1>34, <1>35, <1>36,
     <1>37, <1>38, <1>39, <1>40, <1>41, <1>42, <1>43
     DEF Next, EmuNext, RenderNext, StopNext, UserNext

\* Rollbacks stay forbidden until the frame is processed.
LEMMA RollbackStep == Calm /\ IInv /\ RollbackOK /\ Next => RollbackOK'
<1> SUFFICES ASSUME Calm, IInv, RollbackOK, Next PROVE RollbackOK'
  OBVIOUS
<1> USE DEF IInv, Calm, RollbackOK, Held, Coming, Has, Queued, MessageOK, SlotIsStable
<1> USE DEF ControlOK, Holding, Sending, Working, Stopping
<1> USE DEF emuVars, rendVars, Do, Return, Goto, RGoto, Set, Reset, Wait, Events
<1>1. CASE SetCurrentTARC
  BY <1>1 DEF SetCurrentTARC
<1>2. CASE rend_start_render
  BY <1>2 DEF rend_start_render
<1>3. CASE QueueRender
  BY <1>3 DEF QueueRender
<1>4. CASE QueueRender_wait
  BY <1>4 DEF QueueRender_wait
<1>5. CASE QueueRender_check
  BY <1>5 DEF QueueRender_check
<1>6. CASE QueueRender_reset
  BY <1>6 DEF QueueRender_reset
<1>7. CASE QueueRender_drop
  BY <1>7 DEF QueueRender_drop
<1>8. CASE QueueRender_hand
  BY <1>8 DEF QueueRender_hand
<1>9. CASE enqueue
  BY <1>9 DEF enqueue
<1>10. CASE enqueue_wait
  BY <1>10 DEF enqueue_wait
<1>11. CASE enqueue_set
  BY <1>11, TodoOK DEF enqueue_set
<1>12. CASE rend_end_render
  BY <1>12 DEF rend_end_render
<1>13. CASE rend_end_render_wait
  BY <1>13 DEF rend_end_render_wait
<1>14. CASE rend_vblank
  BY <1>14 DEF rend_vblank
<1>15. CASE rend_swap_frame
  BY <1>15 DEF rend_swap_frame
<1>16. CASE rend_start_rollback
  BY <1>16 DEF rend_start_rollback
<1>17. CASE rend_start_rollback_wait
  BY <1>17 DEF rend_start_rollback_wait
<1>18. CASE load_game_state
  BY <1>18 DEF load_game_state
<1>19. CASE requestReset
  BY <1>19 DEF requestReset
<1>20. CASE Run_slice
  BY <1>20 DEF Run_slice
<1>21. CASE soft_reset
  BY <1>21 DEF soft_reset
<1>22. CASE restartCpu
  BY <1>22 DEF restartCpu
<1>23. CASE emu_throw
  BY <1>23 DEF emu_throw
<1>24. CASE rend_single_frame
  BY <1>24 DEF rend_single_frame
<1>25. CASE dequeue
  <2>1. UNCHANGED <<ev, epc, todo>> /\ rpc = "dequeue" /\ rpc' \in {"dequeue_set", "enqueue_wait"}
    BY <1>25 DEF dequeue
  <2>2. ~ Has("Render") /\ msg # "Render" => ~ Has("Render")' /\ msg' # "Render"
    <3>1. CASE queue = << >>
      BY <1>25, <3>1 DEF dequeue
    <3>2. CASE queue # << >>
      <4>1. queue' = Tail(queue) /\ msg' = Head(queue)
        BY <1>25, <3>2 DEF dequeue
      <4>2. Has("Render") <=> Head(queue) = "Render" \/ Has("Render")'
        BY <3>2, <4>1, Dequeued
      <4>3. QED
        BY <4>1, <4>2
    <3>3. QED
      BY <3>1, <3>2
  <2>3. QED
    BY <2>1, <2>2
<1>26. CASE dequeue_wait
  BY <1>26 DEF dequeue_wait
<1>27. CASE dequeue_set
  BY <1>27 DEF dequeue_set
<1>28. CASE execute
  BY <1>28 DEF execute
<1>29. CASE render_process
  BY <1>29 DEF render_process
<1>30. CASE rend_allow_rollback
  BY <1>30 DEF rend_allow_rollback
<1>31. CASE render_render
  BY <1>31 DEF render_render
<1>32. CASE FinishRender
  BY <1>32 DEF FinishRender
<1>33. CASE FinishRender_recycle
  BY <1>33 DEF FinishRender_recycle
<1>34. CASE FinishRender_set
  BY <1>34 DEF FinishRender_set
<1>35. CASE rend_cancel_emu_wait
  BY <1>35 DEF rend_cancel_emu_wait
<1>36. CASE cancelEnqueue
  BY <1>36 DEF cancelEnqueue
<1>37. CASE enqueue_Stop
  BY <1>37 DEF enqueue_Stop
<1>38. CASE checkStatus
  BY <1>38 DEF checkStatus
<1>39. CASE stop
  BY <1>39 DEF stop
<1>40. CASE start
  BY <1>40 DEF start
<1>41. CASE loadstate
  BY <1>41 DEF loadstate
<1>42. CASE unloadGame
  BY <1>42 DEF unloadGame
<1>43. CASE loadGame
  BY <1>43 DEF loadGame
<1>44. QED
  BY <1>1, <1>2, <1>3, <1>4, <1>5, <1>6, <1>7, <1>8, <1>9, <1>10, <1>11, <1>12,
     <1>13, <1>14, <1>15, <1>16, <1>17, <1>18, <1>19, <1>20, <1>21, <1>22, <1>23, <1>24,
     <1>25, <1>26, <1>27, <1>28, <1>29, <1>30, <1>31, <1>32, <1>33, <1>34, <1>35, <1>36,
     <1>37, <1>38, <1>39, <1>40, <1>41, <1>42, <1>43
     DEF Next, EmuNext, RenderNext, StopNext, UserNext
-----------------------------------------------------------------------------
(* The theorems. *)

\* The initial state.
LEMMA InitOK == Init => IInv /\ RollbackOK
<1> SUFFICES ASSUME Init PROVE IInv /\ RollbackOK
  OBVIOUS
<1>1. TypeOK
  <2>1. queue \in Seq({"Render", "RenderFramebuffer", "Present", "Stop"})
    BY DEF Init
  <2>2. ev \in [Events -> BOOLEAN] /\ Cardinality(ctx_pool) <= PoolMax
    BY EmptyPool DEF Init
  <2>3. QED
    BY <2>1, <2>2 DEF Init, TypeOK
<1>2. ControlOK /\ OwnersOK /\ SlotIsStable
  BY DEF Init, ControlOK, OwnersOK, SlotIsStable, Holding, Sending, Working, Stopping, Messages
<1>3. queue = << >> /\ ~ Has("Render")
  BY DEF Init, Has, Queued
<1>4. MessageOK /\ RollbackOK
  BY <1>3 DEF Init, MessageOK, RollbackOK, Held, Coming, Working, Stopping
<1>5. QED
  BY <1>1, <1>2, <1>4 DEF IInv

\* Nothing changes in a step of another part of the system.
LEMMA StutterOK ==
    UNCHANGED vars => (IInv => IInv') /\ (RollbackOK => RollbackOK')
<1> SUFFICES ASSUME UNCHANGED vars PROVE (IInv => IInv') /\ (RollbackOK => RollbackOK')
  OBVIOUS
<1> USE DEF vars, emuVars, rendVars
<1>1. TypeOK => TypeOK'
  BY DEF TypeOK
<1>2. (ControlOK => ControlOK') /\ (OwnersOK => OwnersOK') /\ (SlotIsStable => SlotIsStable')
  BY DEF ControlOK, OwnersOK, SlotIsStable
<1>3. (MessageOK => MessageOK') /\ (RollbackOK => RollbackOK')
  BY DEF MessageOK, RollbackOK, Held, Coming, Has, Queued
<1>4. QED
  BY <1>1, <1>2, <1>3 DEF IInv

\* Every step keeps the invariant.
LEMMA StepOK == IInv /\ [Next]_vars => IInv'
<1>1. IInv /\ Next => IInv'
  BY TypeStep, ControlStep, OwnersStep, SlotStep, MessageStep DEF IInv
<1>2. QED
  BY <1>1, StutterOK

\* The invariant holds in every behaviour.
THEOREM Invariant == Spec => []IInv
<1>1. Init => IInv
  BY InitOK
<1>2. QED
  BY <1>1, StepOK, PTL DEF Spec

\* Type correctness; the pool never holds more than PoolMax contexts, whatever
\* is recycled, loaded or deleted (ta_ctx.cpp, tactx_Recycle()).
THEOREM TypeCorrect == Spec => []TypeOK
<1>1. IInv => TypeOK
  BY DEF IInv
<1>2. QED
  BY <1>1, Invariant, PTL

\* A TA context has one owner: it is not built, rendered, recycled or handed out
\* twice (ta_ctx.cpp, tactx_Pop(), QueueRender(), FinishRender()).
THEOREM ContextsOwned == Spec => []OneOwner
<1>1. IInv => OneOwner
  <2> SUFFICES ASSUME IInv PROVE OneOwner
    OBVIOUS
  <2> DEFINE e == IF epc \in Holding THEN ctx ELSE {}
             r == IF rpc = "recycle" THEN rctx ELSE {}
             owners == <<ctx_pool, ctx_list, e, rqueue, r>>
  <2>1. /\ ctx_pool \cap ctx_list = {} /\ ctx_pool \cap rqueue = {} /\ ctx_list \cap rqueue = {}
        /\ ctx_pool \cap e = {} /\ ctx_list \cap e = {} /\ rqueue \cap e = {}
        /\ ctx_pool \cap r = {} /\ ctx_list \cap r = {} /\ rqueue \cap r = {}
        /\ e \cap r = {} /\ ta_ctx \subseteq ctx_list
    BY DEF IInv, OwnersOK
  <2>2. e = EmuHolds
    BY DEF EmuHolds, Holding
  <2> HIDE DEF e, r
  <2>3. \A i, j \in DOMAIN owners : i # j => owners[i] \cap owners[j] = {}
    <3>1. DOMAIN owners = {1, 2, 3, 4, 5}
      OBVIOUS
    <3>2. /\ owners[1] = ctx_pool /\ owners[2] = ctx_list /\ owners[3] = e
          /\ owners[4] = rqueue /\ owners[5] = r
      OBVIOUS
    <3> HIDE DEF owners
    <3>3. QED
      BY <2>1, <3>1, <3>2
  <2>4. QED
    BY <2>1, <2>2, <2>3 DEF OneOwner, r
<1>2. QED
  BY <1>1, Invariant, PTL

\* The two verify() of the hand-over never fail: the frame that is rendered stays
\* in the slot, and no frame is overwritten (ta_ctx.cpp).
THEOREM SlotStable == Spec => []SlotIsStable
<1>1. IInv => SlotIsStable
  BY DEF IInv
<1>2. QED
  BY <1>1, Invariant, PTL

\* One Render message for a frame in the slot, and none without one: no frame is
\* forgotten or rendered twice, through stops, resets, loaded states and
\* exceptions (Renderer_if.cpp, PvrMessageQueue).
THEOREM MessageMatchesSlot == Spec => []RenderMatchesSlot
<1>1. IInv => RenderMatchesSlot
  <2> SUFFICES ASSUME IInv PROVE RenderMatchesSlot
    OBVIOUS
  <2>1. Cardinality(Queued("Render")) = IF Has("Render") THEN 1 ELSE 0
    BY QueuedRender DEF IInv
  <2>2. (msg = "Render" \/ (rctx # {} /\ rpc # "recycle")) <=> Held
    BY DEF IInv, ControlOK, SlotIsStable, Held, Working
  <2>3. epc = "dequeue_wait" => Head(todo) # "Render"
    BY TodoOK DEF IInv, ControlOK, Sending
  <2>4. /\ rqueue # {} <=> Has("Render") \/ Held \/ Coming
        /\ ~ (Has("Render") /\ Held) /\ ~ (Has("Render") /\ Coming) /\ ~ (Held /\ Coming)
    BY DEF IInv, MessageOK
  <2>5. QED
    BY <2>1, <2>2, <2>3, <2>4 DEF RenderMatchesSlot, Coming
<1>2. QED
  BY <1>1, Invariant, PTL

\* While a state is rolled back no frame is waiting or in Process(), as long as
\* nobody stops the game and no wait ends by itself (ta_ctx.cpp, "disable net
\* rollbacks until the render thread has processed the frame").
THEOREM RollbackApart == Calm /\ Spec => []NoRollbackDuringProcess
<1>1. Init => RollbackOK
  BY InitOK
<1>2. Calm /\ IInv /\ RollbackOK /\ [Next]_vars => RollbackOK'
  BY RollbackStep, StutterOK
<1>3. RollbackOK => NoRollbackDuringProcess
  BY DEF RollbackOK, NoRollbackDuringProcess
<1>4. CASE Calm
  <2>1. IInv /\ RollbackOK /\ [Next]_vars => RollbackOK'
    BY <1>2, <1>4
  <2>2. QED
    BY <1>1, <1>3, <2>1, Invariant, PTL DEF Spec
<1>5. QED
  BY <1>4
=============================================================================
