------------------------- MODULE FramePipelineProofs -------------------------
(***************************************************************************)
(* Proofs about FramePipeline: its inductive invariant, and what follows   *)
(* from it about the throttling of the producers, the frames the render    *)
(* thread draws and the tear-down of the queues.  Each part of the         *)
(* invariant has a lemma with one step per action; what that action does   *)
(* not touch is left to the frame conditions of the action.                *)
(***************************************************************************)
EXTENDS FramePipeline, TLAPS, FiniteSetTheorems

(* The threads there are, with and without an editor.                      *)

LEMMA Roles ==
    /\ "logic" \in Producer
    /\ Editor => "editor" \in Producer
    /\ Producer \subseteq {"logic", "editor"}
    /\ Thread = Producer \cup {"render"}
    /\ "render" \notin Producer
BY FramePipelineAssumption DEF Producer, Thread

-----------------------------------------------------------------------------
(* What the actions with several cases do *)

(* A step of one thread leaves the other threads where they are.           *)
LEMMA Goes ==
    ASSUME TypeOK, NEW t \in Thread, NEW where \in Place, Goto(t, where)
    PROVE  /\ pc' \in [Thread -> Place]
           /\ pc'[t] = where
           /\ \A u \in Thread \ {t} : pc'[u] = pc[u]
BY DEF TypeOK, Goto

LEMMA PushOrderGoes ==
    ASSUME TypeOK, NEW p \in Producer, PushOrder(p)
    PROVE  /\ pc' \in [Thread -> Place]
           /\ pc[p] = "push" /\ pc'[p] \in {"push", "count"}
           /\ \A u \in Thread \ {p} : pc'[u] = pc[u]
<1>1. p \in Thread /\ pc[p] = "push"
    BY Roles DEF PushOrder
<1>2. CASE pushing[p].order = "set"
    BY <1>1, <1>2 DEF PushOrder, TypeOK
<1>3. CASE pushing[p].order # "set"
  <2>1. Goto(p, "count")
      BY <1>3 DEF PushOrder
  <2> QED
      BY <1>1, <2>1, Goes DEF Place
<1> QED
    BY <1>2, <1>3

LEMMA EditorGoes ==
    ASSUME TypeOK, Editor, EditorGoesOn
    PROVE  /\ pc' \in [Thread -> Place]
           /\ pc["editor"] \in {"wait_unload", "wait_disable", "wait_enable", "wait_load"}
           /\ pc'["editor"] \in {"disable", "idle", "load"}
           /\ \A u \in Thread \ {"editor"} : pc'[u] = pc[u]
           /\ m_game_enabled' \in BOOLEAN
           /\ UNCHANGED <<queues, flags, m_app_active, enabled, call, toggles_left,
                          push, lead, m_destruction_started>>
<1> DEFINE Result(to) ==
        /\ pc["editor"] \in {"wait_unload", "wait_disable", "wait_enable", "wait_load"}
        /\ Goto("editor", to)
        /\ m_game_enabled' \in BOOLEAN
        /\ UNCHANGED <<queues, flags, m_app_active, enabled, call, toggles_left,
                       push, lead, m_destruction_started>>
<1>1. EditorReturns("wait_unload", "disable", m_game_enabled) => Result("disable")
    BY DEF EditorReturns, TypeOK
<1>2. EditorReturns("wait_disable", "idle", FALSE) => Result("idle")
    BY DEF EditorReturns, TypeOK
<1>3. EditorReturns("wait_enable", "load", TRUE) => Result("load")
    BY DEF EditorReturns, TypeOK
<1>4. EditorReturns("wait_load", "idle", m_game_enabled) => Result("idle")
    BY DEF EditorReturns, TypeOK
<1>5. PICK to \in {"disable", "idle", "load"} : Result(to)
    BY <1>1, <1>2, <1>3, <1>4 DEF EditorGoesOn
<1>6. "editor" \in Thread /\ to \in Place
    BY Roles DEF Place
<1> QED
    BY <1>5, <1>6, Goes

LEMMA TickEditorGoes ==
    ASSUME TypeOK, TickEditor
    PROVE  /\ pc' \in [Thread -> Place]
           /\ pc["render"] = "tick_editor"
           /\ \A u \in Thread \ {"render"} : pc'[u] = pc[u]
           /\ \/ pc'["render"] = "messages" /\ running' = running
              \/ /\ pc'["render"] = "run" /\ running' = "editor"
                 /\ "editor" \in Producer /\ ~m_editor_frame_ended
           /\ UNCHANGED <<m_orders, null_node, m_wait_form_command_event,
                          command_frame_ahead, processed, processed_null_node, in_hand,
                          frame_moved, flags, switch, push, lead, m_destruction_started>>
<1> DEFINE Rest == UNCHANGED <<m_orders, null_node, m_wait_form_command_event,
                          command_frame_ahead, processed, processed_null_node, in_hand,
                          frame_moved, flags, switch, push, lead, m_destruction_started>>
<1>1. \/ /\ pc["render"] = "tick_editor" /\ Editor /\ ~m_editor_frame_ended
         /\ Run("editor", TRUE)
      \/ Skip("tick_editor", "messages")
    BY DEF TickEditor
<1>2. CASE /\ pc["render"] = "tick_editor" /\ Editor /\ ~m_editor_frame_ended
           /\ Run("editor", TRUE)
  <2>1. Goto("render", "run") /\ running' = "editor" /\ Rest
      BY <1>2 DEF Run
  <2> QED
      BY <1>2, <2>1, Goes, Roles DEF Place
<1>3. CASE Skip("tick_editor", "messages")
  <2>1. pc["render"] = "tick_editor" /\ Goto("render", "messages") /\ running' = running /\ Rest
      BY <1>3 DEF Skip, queues
  <2> QED
      BY <2>1, Goes, Roles DEF Place
<1> QED
    BY <1>1, <1>2, <1>3

-----------------------------------------------------------------------------
(* The parts of the invariant *)

(* Every step leaves every variable in its type; PushOK is needed because  *)
(* push_command counts down the orders in front of the draw.               *)
LEMMA TypeCorrect == TypeOK /\ PushOK /\ [Next]_vars => TypeOK'
<1> SUFFICES ASSUME TypeOK, PushOK, [Next]_vars PROVE TypeOK'
    OBVIOUS
<1> USE FramePipelineAssumption, Roles DEF TypeOK, queues, flags, switch, push, Order, Goto, Place, NoPush, Skip
<1>1. CASE \E p \in Producer : PushRead(p)
  <2> SUFFICES ASSUME NEW p \in Producer, PushRead(p) PROVE TypeOK'
      BY <1>1
  <2>1. PICK empty \in BOOLEAN, order \in Order :
            pushing' = [pushing EXCEPT ![p] = [order |-> order, empty |-> empty]]
      BY DEF PushRead, ReadEmpty
  <2>2. pushing' \in [Producer -> {NoPush} \cup [order : Order, empty : BOOLEAN]]
      BY <2>1
  <2> QED
      BY <2>2 DEF PushRead
<1>2. CASE \E p \in Producer : PushOrder(p)
  <2> SUFFICES ASSUME NEW p \in Producer, PushOrder(p) PROVE TypeOK'
      BY <1>2
  <2>1. pushing[p].order \in Order
      BY DEF PushOrder
  <2>2. m_orders' \in [Producer -> Seq(Order)]
      BY <2>1 DEF PushOrder, PushBack
  <2>3. m_wait_form_command_event' \in [Producer -> BOOLEAN]
      BY DEF PushOrder, PushBack
  <2>4. pushing' \in [Producer -> {NoPush} \cup [order : Order, empty : BOOLEAN]]
      BY DEF PushOrder, PushBack
  <2>5. sets_left' \in [Producer -> 0..MaxSets]
    <3>1. CASE pushing[p].order = "set"
      <4>1. sets_left[p] > 0 /\ sets_left[p] \in 0..MaxSets
          BY <3>1 DEF PushOrder, PushOK
      <4>2. sets_left' = [sets_left EXCEPT ![p] = @ - 1]
          BY <3>1 DEF PushOrder
      <4> QED
          BY <4>1, <4>2
    <3>2. CASE pushing[p].order # "set"
        BY <3>2 DEF PushOrder
    <3> QED
        BY <3>1, <3>2
  <2>6. pc' \in [Thread -> Place]
      BY PushOrderGoes
  <2>7. UNCHANGED <<null_node, command_frame_ahead, processed, processed_null_node, in_hand,
                    running, frame_moved, flags, switch, lead, m_destruction_started>>
      BY DEF PushOrder
  <2>8. /\ in_hand' \in Order \cup {"none"} /\ running' \in Producer /\ frame_moved' \in BOOLEAN
        /\ call' \in {"none", "enable", "disable", "load", "unload"}
        /\ toggles_left' \in 0..MaxToggles
      BY <2>7
  <2>9. /\ m_logic_frame_ended' \in BOOLEAN /\ m_editor_frame_ended' \in BOOLEAN
        /\ m_game_enabled' \in BOOLEAN /\ enabled' \in BOOLEAN
        /\ m_game_paused_last' \in BOOLEAN /\ m_app_active' \in BOOLEAN
        /\ m_destruction_started' \in BOOLEAN
      BY <2>7
  <2>10. /\ null_node' \in [Producer -> BOOLEAN] /\ command_frame_ahead' \in [Producer -> BOOLEAN]
         /\ processed' \in [Producer -> BOOLEAN] /\ processed_null_node' \in [Producer -> BOOLEAN]
         /\ lead' \in [Producer -> Int]
      BY <2>7
  <2> QED
    <3> HIDE DEF Order, Place, NoPush, TypeOK
    <3> QED
        BY <2>2, <2>3, <2>4, <2>5, <2>6, <2>8, <2>9, <2>10 DEF TypeOK
<1>3. CASE LogicTick
    BY <1>3 DEF LogicTick, DeleteProcessed
<1>4. CASE GameTick
    BY <1>4 DEF GameTick
<1>5. CASE GameQuits \/ LogicWaitEnds \/ LogicLeaves
  <2>1. /\ UNCHANGED <<queues, flags, switch, push, lead, m_destruction_started>>
        /\ pc' \in [Thread -> Place]
    <3>1. CASE GameQuits
        BY <3>1 DEF GameQuits
    <3>2. CASE LogicWaitEnds
        BY <3>2 DEF LogicWaitEnds
    <3>3. CASE LogicLeaves
        BY <3>3 DEF LogicLeaves
    <3> QED
        BY <1>5, <3>1, <3>2, <3>3
  <2> QED
      BY <2>1
<1>6. CASE LogicCountFrame
    BY <1>6 DEF LogicCountFrame
<1>7. CASE LogicServes
    BY <1>7 DEF LogicServes
<1>8. CASE \E t \in Thread : Exit(t)
    BY <1>8 DEF Exit, AfterExit
<1>9. CASE Editor /\ EditorTick
    BY <1>9 DEF EditorTick, DeleteProcessed
<1>10. CASE Editor /\ EditorCountFrame
    BY <1>10 DEF EditorCountFrame
<1>11. CASE Editor /\ EditorSwitches
    BY <1>11 DEF EditorSwitches
<1>12. CASE Editor /\ EditorCalls
    BY <1>12 DEF EditorCalls, WaitFor
<1>13. CASE Editor /\ EditorGoesOn
  <2>1. /\ pc' \in [Thread -> Place]
        /\ m_game_enabled' \in BOOLEAN
        /\ UNCHANGED <<queues, flags, m_app_active, enabled, call, toggles_left,
                       push, lead, m_destruction_started>>
      BY <1>13, EditorGoes
  <2> QED
      BY <2>1
<1>14. CASE Editor /\ EditorCloses
    BY <1>14 DEF EditorCloses
<1>15. CASE RenderLoops \/ RenderQuits
  <2>1. /\ UNCHANGED <<queues, flags, switch, push, lead, m_destruction_started>>
        /\ pc' \in [Thread -> Place]
      BY <1>15 DEF RenderLoops, RenderQuits
  <2> QED
      BY <2>1
<1>27. CASE Activation
    BY <1>27 DEF Activation
<1>16. CASE TickLogic
    BY <1>16 DEF TickLogic, Run
<1>17. CASE TickEditor
  <2>1. /\ pc' \in [Thread -> Place]
        /\ running' \in Producer
        /\ UNCHANGED <<m_orders, null_node, m_wait_form_command_event,
                       command_frame_ahead, processed, processed_null_node, in_hand,
                       frame_moved, flags, switch, push, lead, m_destruction_started>>
      BY <1>17, TickEditorGoes
  <2> QED
      BY <2>1
<1>18. CASE RunLooks \/ RunTimesOut \/ RunReturns \/ ClearResources \/ Finalize
    BY <1>18 DEF RunLooks, RunTimesOut, RunReturns, ClearResources, Finalize, AfterRun
<1>19. CASE RunWakesUp
    BY <1>19 DEF RunWakesUp
<1>20. CASE RunPops
    BY <1>20 DEF RunPops
<1>21. CASE RunExecutesSet
    BY <1>21 DEF RunExecutesSet, DeleteOnTick
<1>22. CASE RunExecutesDraw
  <2>1. /\ m_logic_frame_ended' \in BOOLEAN
        /\ m_editor_frame_ended' \in BOOLEAN
        /\ UNCHANGED <<m_orders, null_node, m_wait_form_command_event,
                        processed_null_node, running, m_game_paused_last, switch,
                        push, m_destruction_started>>
      BY <1>22 DEF RunExecutesDraw
  <2>2. CASE FrameIsComplete
    <3>1. /\ lead' = [p \in Producer |-> lead[p] - 1]
          /\ frame_moved' = (~command_frame_ahead[running])
          /\ command_frame_ahead' = [p \in Producer |-> FALSE]
          /\ Goto("render", "draw")
          /\ UNCHANGED <<processed, in_hand>>
        BY <1>22, <2>2 DEF RunExecutesDraw
    <3>2. frame_moved' \in BOOLEAN
        BY <3>1
    <3> QED
        BY <2>1, <3>1, <3>2
  <2>3. CASE ~FrameIsComplete
    <3>1. /\ command_frame_ahead' = [command_frame_ahead EXCEPT ![running] = TRUE]
          /\ RunChecksFrame(~command_frame_ahead[running])
          /\ UNCHANGED <<lead, frame_moved>>
        BY <1>22, <2>3 DEF RunExecutesDraw
    <3> QED
        BY <2>1, <3>1 DEF RunChecksFrame, DeleteOnTick, AfterRun
  <2> QED
      BY <2>2, <2>3
<1>23. CASE RunDrew
    BY <1>23 DEF RunDrew, RunChecksFrame, DeleteOnTick, AfterRun
<1>24. CASE PurgeOrders
    BY <1>24 DEF PurgeOrders
<1>25. CASE \E p \in Producer : DeleteAllProcessed(p)
    BY <1>25 DEF DeleteAllProcessed, DeleteProcessed
<1>26. CASE UNCHANGED vars
    BY <1>26 DEF vars
<1> QED
    BY <1>1, <1>2, <1>3, <1>4, <1>5, <1>6, <1>7, <1>8, <1>9, <1>10, <1>11, <1>12, <1>13,
       <1>14, <1>15, <1>16, <1>17, <1>18, <1>19, <1>20, <1>21, <1>22, <1>23, <1>24, <1>25, <1>26, <1>27
       DEF Next, Logic, EditorLoop, Push, Render, RunOrders, User
(* push_command runs from its first to its last line without the thread    *)
(* doing anything else.                                                    *)
LEMMA PushCorrect == Inv /\ [Next]_vars => PushOK'
<1> SUFFICES ASSUME Inv, [Next]_vars PROVE PushOK'
    OBVIOUS
<1> USE FramePipelineAssumption, Roles DEF Inv, TypeOK, PushOK, queues, flags, switch, push, Goto, Skip
<1>1. CASE \E p \in Producer : PushRead(p)
  <2>1. PICK p \in Producer : PushRead(p)
      BY <1>1
  <2>2. \A q \in Producer \ {p} : pushing'[q] = pushing[q]
      BY <2>1 DEF PushRead, ReadEmpty
  <2>3. pushing'[p].order = IF sets_left[p] > 0 THEN "set" ELSE "draw"
      BY <2>1 DEF PushRead, ReadEmpty
  <2> QED
      BY <2>1, <2>2, <2>3 DEF PushRead
<1>2. CASE \E p \in Producer : PushOrder(p)
  <2>1. PICK p \in Producer : PushOrder(p)
      BY <1>2
  <2>2. \A q \in Producer \ {p} :
            /\ pushing'[q] = pushing[q]
            /\ sets_left'[q] = sets_left[q]
            /\ pc'[q] = pc[q]
      BY <2>1 DEF PushOrder, PushBack
  <2>3. pushing'[p] = NoPush
      BY <2>1 DEF PushOrder, PushBack
  <2> QED
      BY <2>2, <2>3
<1>3. CASE LogicTick
    BY <1>3 DEF LogicTick, DeleteProcessed
<1>4. CASE GameTick
    BY <1>4 DEF GameTick
<1>5. CASE GameQuits
    BY <1>5 DEF GameQuits
<1>6. CASE LogicCountFrame
    BY <1>6 DEF LogicCountFrame
<1>7. CASE LogicWaitEnds
    BY <1>7 DEF LogicWaitEnds
<1>8. CASE LogicServes
    BY <1>8 DEF LogicServes
<1>9. CASE LogicLeaves
    BY <1>9 DEF LogicLeaves
<1>10. CASE \E t \in Thread : Exit(t)
    BY <1>10 DEF Exit, AfterExit
<1>11. CASE Editor /\ EditorTick
    BY <1>11 DEF EditorTick, DeleteProcessed
<1>12. CASE Editor /\ EditorCountFrame
    BY <1>12 DEF EditorCountFrame
<1>13. CASE Editor /\ EditorSwitches
    BY <1>13 DEF EditorSwitches
<1>14. CASE Editor /\ EditorCalls
    BY <1>14 DEF EditorCalls, WaitFor
<1>15. CASE Editor /\ EditorGoesOn
    BY <1>15, EditorGoes
<1>16. CASE Editor /\ EditorCloses
    BY <1>16 DEF EditorCloses
<1>17. CASE RenderLoops
    BY <1>17 DEF RenderLoops
<1>18. CASE RenderQuits
    BY <1>18 DEF RenderQuits
<1>19. CASE Activation
    BY <1>19 DEF Activation
<1>20. CASE TickLogic
    BY <1>20 DEF TickLogic, Run
<1>21. CASE TickEditor
    BY <1>21, TickEditorGoes
<1>22. CASE RunLooks
    BY <1>22 DEF RunLooks
<1>23. CASE RunWakesUp
    BY <1>23 DEF RunWakesUp
<1>24. CASE RunTimesOut
    BY <1>24 DEF RunTimesOut
<1>25. CASE RunReturns
    BY <1>25 DEF RunReturns, AfterRun
<1>26. CASE RunPops
    BY <1>26 DEF RunPops
<1>27. CASE RunExecutesSet
    BY <1>27 DEF RunExecutesSet, DeleteOnTick
<1>28. CASE RunExecutesDraw
    BY <1>28 DEF RunExecutesDraw, RunChecksFrame, DeleteOnTick, AfterRun
<1>29. CASE RunDrew
    BY <1>29 DEF RunDrew, RunChecksFrame, DeleteOnTick, AfterRun
<1>30. CASE ClearResources
    BY <1>30 DEF ClearResources
<1>31. CASE PurgeOrders
    BY <1>31 DEF PurgeOrders
<1>32. CASE \E p \in Producer : DeleteAllProcessed(p)
    BY <1>32 DEF DeleteAllProcessed, DeleteProcessed
<1>33. CASE Finalize
    BY <1>33 DEF Finalize
<1>34. CASE UNCHANGED vars
    BY <1>34 DEF vars
<1> QED
    BY <1>1, <1>2, <1>3, <1>4, <1>5, <1>6, <1>7, <1>8, <1>9, <1>10, <1>11, <1>12, <1>13, <1>14, <1>15, <1>16, <1>17, <1>18, <1>19, <1>20, <1>21, <1>22, <1>23, <1>24, <1>25, <1>26, <1>27, <1>28, <1>29, <1>30, <1>31, <1>32, <1>33, <1>34
       DEF Next, Logic, EditorLoop, Push, Render, RunOrders, User

(* Only the thread that counts a frame raises its lead, and it was not     *)
(* ahead when it began that frame; drawing a frame lowers every lead.      *)
LEMMA ThrottleCorrect == Inv /\ [Next]_vars => ProducersAreThrottled'
<1> SUFFICES ASSUME Inv, [Next]_vars PROVE ProducersAreThrottled'
    OBVIOUS
<1> USE FramePipelineAssumption, Roles DEF Inv, TypeOK, ProducersAreThrottled, Ahead, queues, flags, switch, push, Goto, Skip
<1>1. CASE \E p \in Producer : PushRead(p)
    BY <1>1 DEF PushRead, ReadEmpty
<1>2. CASE \E p \in Producer : PushOrder(p)
    BY <1>2 DEF PushOrder, PushBack
<1>3. CASE LogicTick
    BY <1>3 DEF LogicTick, DeleteProcessed
<1>4. CASE GameTick
    BY <1>4 DEF GameTick
<1>5. CASE GameQuits
    BY <1>5 DEF GameQuits
<1>6. CASE LogicCountFrame
    BY <1>6 DEF LogicCountFrame
<1>7. CASE LogicWaitEnds
    BY <1>7 DEF LogicWaitEnds
<1>8. CASE LogicServes
    BY <1>8 DEF LogicServes
<1>9. CASE LogicLeaves
    BY <1>9 DEF LogicLeaves
<1>10. CASE \E t \in Thread : Exit(t)
    BY <1>10 DEF Exit, AfterExit
<1>11. CASE Editor /\ EditorTick
    BY <1>11 DEF EditorTick, DeleteProcessed
<1>12. CASE Editor /\ EditorCountFrame
    BY <1>12 DEF EditorCountFrame
<1>13. CASE Editor /\ EditorSwitches
    BY <1>13 DEF EditorSwitches
<1>14. CASE Editor /\ EditorCalls
    BY <1>14 DEF EditorCalls, WaitFor
<1>15. CASE Editor /\ EditorGoesOn
    BY <1>15, EditorGoes
<1>16. CASE Editor /\ EditorCloses
    BY <1>16 DEF EditorCloses
<1>17. CASE RenderLoops
    BY <1>17 DEF RenderLoops
<1>18. CASE RenderQuits
    BY <1>18 DEF RenderQuits
<1>19. CASE Activation
    BY <1>19 DEF Activation
<1>20. CASE TickLogic
    BY <1>20 DEF TickLogic, Run
<1>21. CASE TickEditor
    BY <1>21, TickEditorGoes
<1>22. CASE RunLooks
    BY <1>22 DEF RunLooks
<1>23. CASE RunWakesUp
    BY <1>23 DEF RunWakesUp
<1>24. CASE RunTimesOut
    BY <1>24 DEF RunTimesOut
<1>25. CASE RunReturns
    BY <1>25 DEF RunReturns, AfterRun
<1>26. CASE RunPops
    BY <1>26 DEF RunPops
<1>27. CASE RunExecutesSet
    BY <1>27 DEF RunExecutesSet, DeleteOnTick
<1>28. CASE RunExecutesDraw
  <2>1. \A p \in Producer : lead'[p] \in Int /\ lead'[p] <= lead[p]
    <3>1. lead' = [p \in Producer |-> lead[p] - 1] \/ lead' = lead
        BY <1>28 DEF RunExecutesDraw
    <3> QED
        BY <3>1
  <2>2. \A p \in Producer : pc'[p] = pc[p]
    <3>1. PICK where : Goto("render", where)
        BY <1>28 DEF RunExecutesDraw, RunChecksFrame
    <3> QED
        BY <3>1
  <2>3. m_destruction_started' = m_destruction_started
      BY <1>28 DEF RunExecutesDraw
  <2> QED
      BY <2>1, <2>2, <2>3
<1>29. CASE RunDrew
    BY <1>29 DEF RunDrew, RunChecksFrame, DeleteOnTick, AfterRun
<1>30. CASE ClearResources
    BY <1>30 DEF ClearResources
<1>31. CASE PurgeOrders
    BY <1>31 DEF PurgeOrders
<1>32. CASE \E p \in Producer : DeleteAllProcessed(p)
    BY <1>32 DEF DeleteAllProcessed, DeleteProcessed
<1>33. CASE Finalize
    BY <1>33 DEF Finalize
<1>34. CASE UNCHANGED vars
    BY <1>34 DEF vars
<1> QED
    BY <1>1, <1>2, <1>3, <1>4, <1>5, <1>6, <1>7, <1>8, <1>9, <1>10, <1>11, <1>12, <1>13, <1>14, <1>15, <1>16, <1>17, <1>18, <1>19, <1>20, <1>21, <1>22, <1>23, <1>24, <1>25, <1>26, <1>27, <1>28, <1>29, <1>30, <1>31, <1>32, <1>33, <1>34
       DEF Next, Logic, EditorLoop, Push, Render, RunOrders, User

(* run is entered when the frame of its producer has not ended; the order  *)
(* that ends it moves m_command_frame_id on, whether the frame is drawn    *)
(* now or waits for the other producer, and so run returns.                *)
LEMMA FlagsCorrect == Inv /\ [Next]_vars => EndedFramesAreNotDrawn'
<1> SUFFICES ASSUME Inv, [Next]_vars PROVE EndedFramesAreNotDrawn'
    OBVIOUS
<1> USE FramePipelineAssumption, Roles DEF Inv, TypeOK, EndedFramesAreNotDrawn, Ended, queues, flags, switch, push, Goto, Skip
<1>1. CASE \E p \in Producer : PushRead(p)
    BY <1>1 DEF PushRead, ReadEmpty
<1>2. CASE \E p \in Producer : PushOrder(p)
    BY <1>2 DEF PushOrder, PushBack
<1>3. CASE LogicTick
    BY <1>3 DEF LogicTick, DeleteProcessed
<1>4. CASE GameTick
    BY <1>4 DEF GameTick
<1>5. CASE GameQuits
    BY <1>5 DEF GameQuits
<1>6. CASE LogicCountFrame
    BY <1>6 DEF LogicCountFrame
<1>7. CASE LogicWaitEnds
    BY <1>7 DEF LogicWaitEnds
<1>8. CASE LogicServes
    BY <1>8 DEF LogicServes
<1>9. CASE LogicLeaves
    BY <1>9 DEF LogicLeaves
<1>10. CASE \E t \in Thread : Exit(t)
    BY <1>10 DEF Exit, AfterExit
<1>11. CASE Editor /\ EditorTick
    BY <1>11 DEF EditorTick, DeleteProcessed
<1>12. CASE Editor /\ EditorCountFrame
    BY <1>12 DEF EditorCountFrame
<1>13. CASE Editor /\ EditorSwitches
    BY <1>13 DEF EditorSwitches
<1>14. CASE Editor /\ EditorCalls
    BY <1>14 DEF EditorCalls, WaitFor
<1>15. CASE Editor /\ EditorGoesOn
    BY <1>15, EditorGoes
<1>16. CASE Editor /\ EditorCloses
    BY <1>16 DEF EditorCloses
<1>17. CASE RenderLoops
    BY <1>17 DEF RenderLoops
<1>18. CASE RenderQuits
    BY <1>18 DEF RenderQuits
<1>19. CASE Activation
    BY <1>19 DEF Activation
<1>20. CASE TickLogic
    BY <1>20 DEF TickLogic, Run
<1>21. CASE TickEditor
  <2>1. /\ UNCHANGED <<command_frame_ahead, in_hand, frame_moved>>
        /\ m_logic_frame_ended' = m_logic_frame_ended
        /\ m_editor_frame_ended' = m_editor_frame_ended
        /\ pc["render"] = "tick_editor"
        /\ \/ pc'["render"] = "messages"
           \/ pc'["render"] = "run" /\ running' = "editor" /\ ~m_editor_frame_ended
      BY <1>21, TickEditorGoes
  <2> QED
      BY <2>1
<1>22. CASE RunLooks
    BY <1>22 DEF RunLooks
<1>23. CASE RunWakesUp
    BY <1>23 DEF RunWakesUp
<1>24. CASE RunTimesOut
    BY <1>24 DEF RunTimesOut
<1>25. CASE RunReturns
    BY <1>25 DEF RunReturns, AfterRun
<1>26. CASE RunPops
  <2>1. in_hand' \in Order
      BY <1>26 DEF RunPops
  <2> QED
      BY <1>26, <2>1 DEF RunPops, Order
<1>27. CASE RunExecutesSet
    BY <1>27 DEF RunExecutesSet, DeleteOnTick
<1>28. CASE RunExecutesDraw
  <2>1. ~Ended(running) /\ ~command_frame_ahead[running]
      BY <1>28 DEF RunExecutesDraw
  <2>2. CASE FrameIsComplete
    <3>1. /\ command_frame_ahead' = [p \in Producer |-> FALSE]
          /\ frame_moved' = (~command_frame_ahead[running])
          /\ in_hand = "draw" /\ in_hand' = in_hand
          /\ Goto("render", "draw")
        BY <1>28, <2>2 DEF RunExecutesDraw
    <3>2. pc'["render"] = "draw"
        BY <3>1
    <3> QED
        BY <2>1, <3>1, <3>2
  <2>3. CASE ~FrameIsComplete
    <3>1. /\ command_frame_ahead' = [command_frame_ahead EXCEPT ![running] = TRUE]
          /\ in_hand' = "none"
          /\ pc' = [pc EXCEPT !["render"] = AfterRun]
          /\ running' = running
          /\ m_logic_frame_ended' = (m_logic_frame_ended \/ running = "logic")
          /\ m_editor_frame_ended' = (m_editor_frame_ended \/ running = "editor")
        BY <1>28, <2>1, <2>3 DEF RunExecutesDraw, RunChecksFrame
    <3>2. \A p \in Producer : command_frame_ahead'[p] = Ended(p)'
        BY <1>28, <2>1, <3>1 DEF RunExecutesDraw
    <3> QED
        BY <3>1, <3>2 DEF AfterRun
  <2> QED
      BY <2>2, <2>3
<1>29. CASE RunDrew
    BY <1>29 DEF RunDrew, RunChecksFrame, DeleteOnTick, AfterRun
<1>30. CASE ClearResources
    BY <1>30 DEF ClearResources
<1>31. CASE PurgeOrders
    BY <1>31 DEF PurgeOrders
<1>32. CASE \E p \in Producer : DeleteAllProcessed(p)
    BY <1>32 DEF DeleteAllProcessed, DeleteProcessed
<1>33. CASE Finalize
    BY <1>33 DEF Finalize
<1>34. CASE UNCHANGED vars
    BY <1>34 DEF vars
<1> QED
    BY <1>1, <1>2, <1>3, <1>4, <1>5, <1>6, <1>7, <1>8, <1>9, <1>10, <1>11, <1>12, <1>13, <1>14, <1>15, <1>16, <1>17, <1>18, <1>19, <1>20, <1>21, <1>22, <1>23, <1>24, <1>25, <1>26, <1>27, <1>28, <1>29, <1>30, <1>31, <1>32, <1>33, <1>34
       DEF Next, Logic, EditorLoop, Push, Render, RunOrders, User

(* ClearResources waits until every producer serves calls, and from there  *)
(* a producer leaves only when it has freed its orders.                    *)
LEMMA PurgeCorrect == Inv /\ [Next]_vars => PurgedLast'
<1> SUFFICES ASSUME Inv, [Next]_vars PROVE PurgedLast'
    OBVIOUS
<1> USE FramePipelineAssumption, Roles DEF Inv, TypeOK, PurgedLast, queues, flags, switch, push, Goto, Skip
<1>1. CASE \E p \in Producer : PushRead(p)
    BY <1>1 DEF PushRead, ReadEmpty
<1>2. CASE \E p \in Producer : PushOrder(p)
  <2>1. PICK p \in Producer : PushOrder(p)
      BY <1>2
  <2>2. /\ pc[p] = "push" /\ pc'[p] \in {"push", "count"}
        /\ \A u \in Thread \ {p} : pc'[u] = pc[u]
      BY <2>1, PushOrderGoes
  <2>3. \A q \in Producer \ {p} : m_orders'[q] = m_orders[q]
      BY <2>1 DEF PushOrder, PushBack
  <2>4. UNCHANGED <<null_node, processed, processed_null_node, m_game_enabled>>
      BY <2>1 DEF PushOrder
  <2>5. null_node[p]
      BY <2>2
  <2> QED
      BY <2>2, <2>3, <2>4, <2>5
<1>3. CASE LogicTick
    BY <1>3 DEF LogicTick, DeleteProcessed
<1>4. CASE GameTick
    BY <1>4 DEF GameTick
<1>5. CASE GameQuits
    BY <1>5 DEF GameQuits
<1>6. CASE LogicCountFrame
    BY <1>6 DEF LogicCountFrame
<1>7. CASE LogicWaitEnds
    BY <1>7 DEF LogicWaitEnds
<1>8. CASE LogicServes
    BY <1>8 DEF LogicServes
<1>9. CASE LogicLeaves
    BY <1>9 DEF LogicLeaves
<1>10. CASE \E t \in Thread : Exit(t)
    BY <1>10 DEF Exit, AfterExit
<1>11. CASE Editor /\ EditorTick
    BY <1>11 DEF EditorTick, DeleteProcessed
<1>12. CASE Editor /\ EditorCountFrame
    BY <1>12 DEF EditorCountFrame
<1>13. CASE Editor /\ EditorSwitches
    BY <1>13 DEF EditorSwitches
<1>14. CASE Editor /\ EditorCalls
    BY <1>14 DEF EditorCalls, WaitFor
<1>15. CASE Editor /\ EditorGoesOn
  <2>1. /\ pc["editor"] \in {"wait_unload", "wait_disable", "wait_enable", "wait_load"}
        /\ pc'["editor"] \in {"disable", "idle", "load"}
        /\ \A u \in Thread \ {"editor"} : pc'[u] = pc[u]
        /\ UNCHANGED <<m_orders, null_node, processed, processed_null_node>>
      BY <1>15, EditorGoes
  <2>2. Editor /\ pc'["render"] = pc["render"]
      BY <1>15, <2>1
  <2> QED
      BY <2>1, <2>2
<1>16. CASE Editor /\ EditorCloses
    BY <1>16 DEF EditorCloses
<1>17. CASE RenderLoops
    BY <1>17 DEF RenderLoops
<1>18. CASE RenderQuits
    BY <1>18 DEF RenderQuits
<1>19. CASE Activation
    BY <1>19 DEF Activation
<1>20. CASE TickLogic
    BY <1>20 DEF TickLogic, Run
<1>21. CASE TickEditor
  <2>1. /\ UNCHANGED <<m_orders, null_node, processed, processed_null_node, m_game_enabled>>
        /\ \A u \in Thread \ {"render"} : pc'[u] = pc[u]
        /\ pc["render"] = "tick_editor" /\ pc'["render"] \in {"messages", "run"}
      BY <1>21, TickEditorGoes
  <2> QED
      BY <2>1
<1>22. CASE RunLooks
    BY <1>22 DEF RunLooks
<1>23. CASE RunWakesUp
    BY <1>23 DEF RunWakesUp
<1>24. CASE RunTimesOut
    BY <1>24 DEF RunTimesOut
<1>25. CASE RunReturns
    BY <1>25 DEF RunReturns, AfterRun
<1>26. CASE RunPops
    BY <1>26 DEF RunPops
<1>27. CASE RunExecutesSet
    BY <1>27 DEF RunExecutesSet, DeleteOnTick
<1>28. CASE RunExecutesDraw
    BY <1>28 DEF RunExecutesDraw, RunChecksFrame, DeleteOnTick, AfterRun
<1>29. CASE RunDrew
    BY <1>29 DEF RunDrew, RunChecksFrame, DeleteOnTick, AfterRun
<1>30. CASE ClearResources
    BY <1>30 DEF ClearResources
<1>31. CASE PurgeOrders
    BY <1>31 DEF PurgeOrders
<1>32. CASE \E p \in Producer : DeleteAllProcessed(p)
    BY <1>32 DEF DeleteAllProcessed, DeleteProcessed
<1>33. CASE Finalize
    BY <1>33 DEF Finalize
<1>34. CASE UNCHANGED vars
    BY <1>34 DEF vars
<1> QED
    BY <1>1, <1>2, <1>3, <1>4, <1>5, <1>6, <1>7, <1>8, <1>9, <1>10, <1>11, <1>12, <1>13, <1>14, <1>15, <1>16, <1>17, <1>18, <1>19, <1>20, <1>21, <1>22, <1>23, <1>24, <1>25, <1>26, <1>27, <1>28, <1>29, <1>30, <1>31, <1>32, <1>33, <1>34
       DEF Next, Logic, EditorLoop, Push, Render, RunOrders, User

-----------------------------------------------------------------------------
(* How many draw orders a queue holds, when one is pushed or popped *)

(* A queue holds finitely many draw orders.                                *)
LEMMA DrawsFinite ==
    ASSUME NEW s \in Seq(Order)
    PROVE  IsFiniteSet(DrawsIn(s)) /\ Cardinality(DrawsIn(s)) \in Nat
<1>1. DrawsIn(s) \in SUBSET (1 .. Len(s)) /\ Len(s) \in Nat
    BY DEF DrawsIn
<1>2. IsFiniteSet(1 .. Len(s))
    BY <1>1, FS_Interval
<1>3. IsFiniteSet(DrawsIn(s))
    BY <1>1, <1>2, FS_Subset
<1> QED
    BY <1>3, FS_CardinalityType

(* Pushing an order adds it to them if it draws.                           *)
LEMMA DrawsOfAppend ==
    ASSUME NEW s \in Seq(Order), NEW o \in Order
    PROVE  Cardinality(DrawsIn(Append(s, o))) =
             Cardinality(DrawsIn(s)) + (IF o = "draw" THEN 1 ELSE 0)
<1>1. Len(s) + 1 \notin DrawsIn(s)
    BY DEF DrawsIn
<1>2. DrawsIn(Append(s, o)) = IF o = "draw" THEN DrawsIn(s) \cup {Len(s) + 1}
                                           ELSE DrawsIn(s)
    BY DEF DrawsIn
<1>3. /\ Cardinality(DrawsIn(s)) \in Nat
      /\ Cardinality(DrawsIn(s) \cup {Len(s) + 1}) = Cardinality(DrawsIn(s)) + 1
    BY <1>1, DrawsFinite, FS_AddElement
<1> QED
    BY <1>2, <1>3

(* Popping one takes it away: the places behind it move up by one.         *)
LEMMA DrawsOfTail ==
    ASSUME NEW s \in Seq(Order), s # << >>
    PROVE  Cardinality(DrawsIn(s)) =
             Cardinality(DrawsIn(Tail(s))) + (IF Head(s) = "draw" THEN 1 ELSE 0)
<1> DEFINE rest == DrawsIn(s) \ {1}
           T == DrawsIn(Tail(s))
<1>1. /\ Tail(s) \in Seq(Order)
      /\ Len(Tail(s)) = Len(s) - 1
      /\ Len(s) \in Nat /\ Len(s) > 0
      /\ \A i \in 1 .. Len(s) - 1 : Tail(s)[i] = s[i + 1]
      /\ Head(s) = s[1]
    OBVIOUS
<1>2. T = {i \in 1 .. Len(s) - 1 : s[i + 1] = "draw"}
    BY <1>1 DEF DrawsIn
<1>3. rest = {i \in 2 .. Len(s) : s[i] = "draw"}
    BY <1>1 DEF DrawsIn
<1>4. ExistsBijection(rest, T)
  <2> DEFINE f == [i \in rest |-> i - 1]
  <2>1. f \in [rest -> T]
      BY <1>1, <1>2, <1>3
  <2>2. \A i, j \in rest : f[i] = f[j] => i = j
      BY <1>3
  <2>3. \A j \in T : j + 1 \in rest /\ f[j + 1] = j
    <3> SUFFICES ASSUME NEW j \in T PROVE j + 1 \in rest /\ f[j + 1] = j
        OBVIOUS
    <3>1. j \in 1 .. Len(s) - 1 /\ s[j + 1] = "draw"
        BY <1>2
    <3>2. j + 1 \in rest
        BY <1>1, <1>3, <3>1
    <3> QED
        BY <3>1, <3>2
  <2>4. f \in Bijection(rest, T)
      BY <2>1, <2>2, <2>3 DEF Bijection, Injection, Surjection, IsInjective
  <2> QED
      BY <2>4 DEF ExistsBijection
<1>5. /\ IsFiniteSet(rest)
      /\ Cardinality(rest) = IF 1 \in DrawsIn(s) THEN Cardinality(DrawsIn(s)) - 1
                                                 ELSE Cardinality(DrawsIn(s))
    BY DrawsFinite, FS_RemoveElement
<1>6. Cardinality(T) = Cardinality(rest)
    BY <1>4, <1>5, FS_Bijection
<1>7. 1 \in DrawsIn(s) <=> Head(s) = "draw"
    BY <1>1 DEF DrawsIn
<1> HIDE DEF rest, T
<1> QED
    BY <1>5, <1>6, <1>7, DrawsFinite, <1>1 DEF T

(* A step that neither pushes, counts, pops nor draws a frame of Main.     *)
LEMMA AccountingKept ==
    ASSUME FrameAccounting, null_node'[Main] => null_node[Main],
           lead'[Main] = lead[Main], m_orders'[Main] = m_orders[Main],
           pc'[Main] = "count" <=> pc[Main] = "count",
           running' = Main /\ in_hand' = "draw" /\ pc'["render"] = "execute"
              <=> running = Main /\ in_hand = "draw" /\ pc["render"] = "execute",
           Ended(Main)' /\ pc'["render"] # "draw" <=> Ended(Main) /\ pc["render"] # "draw"
    PROVE  FrameAccounting'
<1> QED BY DEF FrameAccounting, Draws, Undrawn

LEMMA MainRole ==
    /\ Main \in Producer /\ Main \in Thread /\ Main # "render" /\ "render" \in Thread
    /\ Editor => Main = "editor"
    /\ ~Editor => Main = "logic"
    /\ \A p \in Producer : p # Main => Editor /\ p = "logic"
BY Roles, FramePipelineAssumption DEF Main, Producer

(* The steps that push a draw order, count a frame, pop a draw order, end  *)
(* a frame and draw it move both sides of FrameAccounting together.        *)
LEMMA AccountingCorrect == Inv /\ FrameAccounting /\ [Next]_vars => FrameAccounting'
<1> SUFFICES ASSUME Inv, FrameAccounting, [Next]_vars PROVE FrameAccounting'
    OBVIOUS
<1>0. /\ TypeOK /\ EndedFramesAreNotDrawn
      /\ Cardinality(DrawsIn(m_orders[Main])) \in Nat /\ lead[Main] \in Int
      /\ pc \in [Thread -> Place]
    BY MainRole, DrawsFinite DEF Inv, TypeOK
<1> USE MainRole, AccountingKept DEF TypeOK, queues, flags, switch, push, Goto, Skip, Ended
<1>1. CASE \E p \in Producer : PushRead(p)
    BY <1>1 DEF PushRead, ReadEmpty
<1>2. CASE \E p \in Producer : PushOrder(p)
  <2>1. PICK p \in Producer : PushOrder(p)
      BY <1>2
  <2>2. CASE p # Main
      BY <1>0, <2>1, <2>2 DEF PushOrder, PushBack
  <2>3. CASE p = Main
    <3> DEFINE o == pushing[Main].order
    <3>1. o \in Order
        BY <1>0, <2>1, <2>3 DEF PushOrder
    <3>2. m_orders'[Main] = Append(m_orders[Main], o)
        BY <1>0, <2>1, <2>3 DEF PushOrder, PushBack
    <3>3. Cardinality(DrawsIn(m_orders'[Main])) =
              Cardinality(DrawsIn(m_orders[Main])) + (IF o = "draw" THEN 1 ELSE 0)
        BY <1>0, <3>1, <3>2, DrawsOfAppend
    <3>4. /\ pc[Main] = "push" /\ pc'[Main] = IF o = "set" THEN "push" ELSE "count"
          /\ pc'["render"] = pc["render"] /\ flags' = flags
          /\ null_node' = null_node /\ running' = running /\ in_hand' = in_hand /\ lead' = lead
        BY <1>0, <2>1, <2>3 DEF PushOrder
    <3>5. Undrawn' = Undrawn
        BY <3>4 DEF Undrawn
    <3> HIDE DEF o
    <3>6. CASE o = "draw"
      <4>1. Draws(Main)' = Draws(Main) + 1 /\ pc'[Main] = "count"
          BY <1>0, <3>3, <3>4, <3>6 DEF Draws
      <4> QED
          BY <1>0, <3>4, <3>5, <4>1 DEF FrameAccounting, Draws, Undrawn
    <3>7. CASE o = "set"
      <4>1. Draws(Main)' = Draws(Main) /\ pc'[Main] = "push"
          BY <1>0, <3>3, <3>4, <3>7 DEF Draws
      <4> QED
          BY <1>0, <3>4, <3>5, <4>1 DEF FrameAccounting
    <3> QED
        BY <3>1, <3>6, <3>7 DEF Order
  <2> QED
      BY <2>2, <2>3
<1>3. CASE LogicTick
    BY <1>0, <1>3, Roles DEF LogicTick, DeleteProcessed, Inv, PurgedLast
<1>4. CASE GameTick
    BY <1>0, <1>4 DEF GameTick
<1>5. CASE GameQuits
    BY <1>0, <1>5 DEF GameQuits
<1>6. CASE LogicCountFrame
  <2>1. CASE Editor
      BY <1>0, <1>6, <2>1 DEF LogicCountFrame
  <2>2. CASE ~Editor
    <3>1. /\ pc[Main] = "count" /\ pc'[Main] = "wait" /\ lead'[Main] = lead[Main] + 1
          /\ pc'["render"] = pc["render"]
        BY <1>0, <1>6, <2>2 DEF LogicCountFrame
    <3> QED
        BY <1>0, <1>6, <3>1 DEF LogicCountFrame, FrameAccounting, Draws, Undrawn
  <2> QED
      BY <2>1, <2>2
<1>7. CASE LogicWaitEnds
    BY <1>0, <1>7 DEF LogicWaitEnds
<1>8. CASE LogicServes
    BY <1>0, <1>8 DEF LogicServes
<1>9. CASE LogicLeaves
    BY <1>0, <1>9 DEF LogicLeaves
<1>10. CASE \E t \in Thread : Exit(t)
    BY <1>0, <1>10 DEF Exit, AfterExit
<1>11. CASE Editor /\ EditorTick
    BY <1>0, <1>11 DEF EditorTick, DeleteProcessed
<1>12. CASE Editor /\ EditorCountFrame
  <2>1. /\ pc[Main] = "count" /\ pc'[Main] = "idle" /\ lead'[Main] = lead[Main] + 1
        /\ pc'["render"] = pc["render"]
      BY <1>0, <1>12 DEF EditorCountFrame
  <2> QED
      BY <1>0, <1>12, <2>1 DEF EditorCountFrame, FrameAccounting, Draws, Undrawn
<1>13. CASE Editor /\ EditorSwitches
    BY <1>0, <1>13 DEF EditorSwitches
<1>14. CASE Editor /\ EditorCalls
  <2>1. PICK request \in DOMAIN WaitFor : /\ pc["editor"] = request
                                          /\ Goto("editor", WaitFor[request])
      BY <1>14 DEF EditorCalls
  <2>2. WaitFor[request] # "count" /\ request # "count"
      BY <2>1 DEF WaitFor
  <2> QED
      BY <1>0, <1>14, <2>1, <2>2 DEF EditorCalls
<1>15. CASE Editor /\ EditorGoesOn
    BY <1>0, <1>15, EditorGoes
<1>16. CASE Editor /\ EditorCloses
    BY <1>0, <1>16 DEF EditorCloses
<1>17. CASE RenderLoops
    BY <1>0, <1>17 DEF RenderLoops
<1>18. CASE RenderQuits
    BY <1>0, <1>18 DEF RenderQuits
<1>19. CASE Activation
    BY <1>0, <1>19 DEF Activation
<1>20. CASE TickLogic
    BY <1>0, <1>20 DEF TickLogic, Run
<1>21. CASE TickEditor
    BY <1>0, <1>21, TickEditorGoes
<1>22. CASE RunLooks
    BY <1>0, <1>22 DEF RunLooks
<1>23. CASE RunWakesUp
    BY <1>0, <1>23 DEF RunWakesUp
<1>24. CASE RunTimesOut
    BY <1>0, <1>24 DEF RunTimesOut
<1>25. CASE RunReturns
    BY <1>0, <1>25 DEF RunReturns, AfterRun
<1>26. CASE RunPops
  <2>1. CASE running # Main
      BY <1>0, <1>26, <2>1 DEF RunPops
  <2>2. CASE running = Main
    <3>1. /\ m_orders[Main] \in Seq(Order) /\ m_orders[Main] # << >>
          /\ m_orders'[Main] = Tail(m_orders[Main])
          /\ in_hand' = Head(m_orders[Main])
        BY <1>0, <1>26, <2>2 DEF RunPops
    <3>2. Cardinality(DrawsIn(m_orders[Main])) =
              Cardinality(DrawsIn(m_orders'[Main])) + (IF in_hand' = "draw" THEN 1 ELSE 0)
        BY <3>1, DrawsOfTail
    <3>3. Cardinality(DrawsIn(m_orders'[Main])) \in Nat
      <4>1. m_orders'[Main] \in Seq(Order)
          BY <3>1
      <4> QED
          BY <4>1, DrawsFinite
    <3>4. /\ pc["render"] = "drain" /\ pc'["render"] = "execute" /\ pc'[Main] = pc[Main]
          /\ null_node' = null_node /\ running' = running /\ lead' = lead /\ flags' = flags
        BY <1>0, <1>26 DEF RunPops
    <3>5. Undrawn' = Undrawn
        BY <3>4 DEF Undrawn
    <3> QED
        BY <2>2, <3>2, <3>3, <3>4, <3>5 DEF FrameAccounting, Draws
  <2> QED
      BY <2>1, <2>2
<1>27. CASE RunExecutesSet
    BY <1>0, <1>27 DEF RunExecutesSet, DeleteOnTick
<1>28. CASE RunExecutesDraw
  <2>1. /\ pc["render"] = "execute" /\ in_hand = "draw" /\ m_orders' = m_orders
        /\ null_node' = null_node /\ running' = running /\ running \in Producer
      BY <1>0, <1>28 DEF RunExecutesDraw
  <2>2. Ended(Main)' <=> Ended(Main) \/ running = Main
      BY <1>0, <1>28, <2>1 DEF RunExecutesDraw
  <2>3. running = Main => ~Ended(Main)
      BY <1>0, <2>1 DEF EndedFramesAreNotDrawn
  <2>4. CASE FrameIsComplete
    <3>1. /\ pc'["render"] = "draw" /\ pc'[Main] = pc[Main] /\ lead'[Main] = lead[Main] - 1
        BY <1>0, <1>28, <2>4 DEF RunExecutesDraw
    <3>2. running # Main => Ended(Main)
        BY <2>1, <2>4 DEF FrameIsComplete
    <3> QED
        BY <1>0, <2>1, <2>3, <3>1, <3>2 DEF FrameAccounting, Draws, Undrawn
  <2>5. CASE ~FrameIsComplete
    <3>1. /\ pc'["render"] \notin {"draw", "execute"} /\ pc'[Main] = pc[Main]
          /\ lead'[Main] = lead[Main]
        BY <1>0, <1>28, <2>5 DEF RunExecutesDraw, RunChecksFrame, AfterRun
    <3> QED
        BY <1>0, <2>1, <2>2, <2>3, <3>1 DEF FrameAccounting, Draws, Undrawn
  <2> QED
      BY <2>4, <2>5
<1>29. CASE RunDrew
  <2>1. /\ pc["render"] = "draw" /\ pc'["render"] \notin {"draw", "execute"}
        /\ pc'[Main] = pc[Main] /\ ~Ended(Main)'
      BY <1>0, <1>29 DEF RunDrew, RunChecksFrame, AfterRun
  <2> QED
      BY <1>0, <1>29, <2>1 DEF RunDrew
<1>30. CASE ClearResources
    BY <1>0, <1>30 DEF ClearResources
<1>31. CASE PurgeOrders
    BY <1>0, <1>31 DEF PurgeOrders, FrameAccounting
<1>32. CASE \E p \in Producer : DeleteAllProcessed(p)
    BY <1>0, <1>32 DEF DeleteAllProcessed, DeleteProcessed
<1>33. CASE Finalize
    BY <1>0, <1>33 DEF Finalize
<1>34. CASE UNCHANGED vars
    BY <1>34 DEF vars
<1> HIDE MainRole, AccountingKept
<1> QED
    BY Roles, <1>1, <1>2, <1>3, <1>4, <1>5, <1>6, <1>7, <1>8, <1>9, <1>10, <1>11, <1>12, <1>13, <1>14, <1>15, <1>16, <1>17, <1>18, <1>19, <1>20, <1>21, <1>22, <1>23, <1>24, <1>25, <1>26, <1>27, <1>28, <1>29, <1>30, <1>31, <1>32, <1>33, <1>34
       DEF Next, Logic, EditorLoop, Push, Render, RunOrders, User

-----------------------------------------------------------------------------
(* The theorems *)

(* in_hand changes when run pops an order and when it is done with it      *)
LEMMA InHandChanges ==
    ASSUME Inv, [Next]_vars
    PROVE  in_hand' = in_hand \/ RunPops \/ RunExecutesSet \/ RunExecutesDraw \/ RunDrew
BY DEF Next, Logic, EditorLoop, Push, Render, RunOrders, User, vars, queues, Skip,
   PushRead, PushOrder, PushBack, LogicTick, GameTick, GameQuits, LogicCountFrame,
   LogicWaitEnds, LogicServes, LogicLeaves, Exit, EditorTick, EditorCountFrame,
   EditorSwitches, EditorCalls, EditorGoesOn, EditorReturns, EditorCloses, RenderLoops,
   RenderQuits, Activation, TickLogic, TickEditor, Run, RunLooks, RunWakesUp, RunTimesOut,
   RunReturns, ClearResources, PurgeOrders, DeleteAllProcessed, Finalize

(* initialize leaves the engine in a state of the invariant.               *)
LEMMA InitCorrect == Init => Inv /\ FrameAccounting
<1> SUFFICES ASSUME Init PROVE Inv /\ FrameAccounting
    OBVIOUS
<1> USE FramePipelineAssumption, Roles DEF Init, Start
<1>1. TypeOK
  <2>1. /\ m_orders \in [Producer -> Seq(Order)]
        /\ pc \in [Thread -> Place]
        /\ lead \in [Producer -> Int]
        /\ pushing \in [Producer -> {NoPush} \cup [order : Order, empty : BOOLEAN]]
      BY DEF Place
  <2>2. /\ null_node \in [Producer -> BOOLEAN]
        /\ m_wait_form_command_event \in [Producer -> BOOLEAN]
        /\ command_frame_ahead \in [Producer -> BOOLEAN]
        /\ processed \in [Producer -> BOOLEAN]
        /\ processed_null_node \in [Producer -> BOOLEAN]
        /\ sets_left \in [Producer -> 0..MaxSets]
        /\ toggles_left \in 0..MaxToggles
      OBVIOUS
  <2>3. m_game_enabled \in BOOLEAN /\ enabled \in BOOLEAN
      OBVIOUS
  <2> QED
      BY <2>1, <2>2, <2>3 DEF TypeOK, Order
<1>2. PushOK /\ ProducersAreThrottled
    BY DEF PushOK, ProducersAreThrottled, Ahead
<1>3. EndedFramesAreNotDrawn /\ PurgedLast
  <2>1. EndedFramesAreNotDrawn
      BY DEF EndedFramesAreNotDrawn, Ended, Order
  <2>2. pc["render"] = "messages" /\ \A p \in Producer : null_node[p] /\ pc[p] # "done"
      OBVIOUS
  <2>3. ~Editor => m_game_enabled
      OBVIOUS
  <2> HIDE DEF Init
  <2>4. PurgedLast
      BY <2>2, <2>3 DEF PurgedLast
  <2> QED
      BY <2>1, <2>4
<1>4. FrameAccounting
  <2>1. DrawsIn(<< >>) = {}
      BY DEF DrawsIn
  <2>2. /\ m_orders[Main] = << >> /\ in_hand = "none" /\ pc[Main] # "count" /\ ~Ended(Main)
        /\ lead[Main] = IF Editor THEN -1 ELSE 0
      BY MainRole DEF Ended
  <2> HIDE DEF Init
  <2>3. Draws(Main) = 0
    <3>1. Cardinality(DrawsIn(m_orders[Main])) = 0
        BY <2>1, <2>2, FS_EmptySet
    <3>2. ~(running = Main /\ in_hand = "draw" /\ pc["render"] = "execute")
        BY <2>2
    <3> QED
        BY <3>1, <3>2 DEF Draws
  <2>4. Undrawn = 0
      BY <2>2 DEF Undrawn
  <2> QED
      BY <2>2, <2>3, <2>4 DEF FrameAccounting
<1> QED
    BY <1>1, <1>2, <1>3, <1>4 DEF Inv

(* The state of the frame loop is well-typed, no producer gets more than   *)
(* two frames ahead, the flags of ended frames agree with the frame ids of *)
(* the command processors, and the queues are purged last: for any number  *)
(* of orders per frame and whatever the user does.                         *)
THEOREM FrameInvariant == Spec => []Inv
<1>1. Init => Inv
    BY InitCorrect
<1>2. Inv /\ [Next]_vars => Inv'
    BY TypeCorrect, PushCorrect, ThrottleCorrect, FlagsCorrect, PurgeCorrect DEF Inv
<1> QED
    BY <1>1, <1>2, PTL DEF Spec

(* Nobody pushes an order after purge_orders has taken the null node.      *)
THEOREM NullNodeIsThere == Spec => []NobodyPushesAfterPurge
<1>1. Inv => NobodyPushesAfterPurge
    BY DEF Inv, PurgedLast, NobodyPushesAfterPurge
<1> QED
    BY <1>1, FrameInvariant, PTL

(* When every thread has ended, no order is left in any queue.             *)
THEOREM OrdersAreFreed == Spec => []NoOrderLeaks
<1>1. Inv => NoOrderLeaks
    BY Roles DEF Inv, PurgedLast, NoOrderLeaks, Done
<1> QED
    BY <1>1, FrameInvariant, PTL

(* No order of a later frame is executed before the frame that ended is    *)
(* drawn, and run returns after the order that ends a frame.               *)
THEOREM FramesAreWhole == Spec => NoTornFrame
<1> DEFINE NotTorn == in_hand = "none" /\ in_hand' # "none" =>
                        IF running = "logic" THEN ~m_logic_frame_ended ELSE ~m_editor_frame_ended
           RunEnds == in_hand = "draw" /\ in_hand' = "none" => pc'["render"] # "drain"
<1>1. Inv /\ [Next]_vars => [NotTorn]_vars
    BY InHandChanges
       DEF Inv, EndedFramesAreNotDrawn, Ended, RunPops, RunExecutesSet, RunExecutesDraw, RunDrew
<1>2. Inv /\ [Next]_vars => [RunEnds]_vars
    BY InHandChanges
       DEF Inv, TypeOK, EndedFramesAreNotDrawn, RunPops, RunExecutesSet, RunExecutesDraw, RunDrew,
           RunChecksFrame, AfterRun, Goto
<1>3. Inv /\ [Next]_vars => [NotTorn /\ RunEnds]_vars
    BY <1>1, <1>2
<1> QED
    BY <1>3, FrameInvariant, PTL DEF Spec, NoTornFrame

(* The counter of the logic thread, or in the editor build that of the     *)
(* editor, is the counter of the render thread plus the frames that it     *)
(* has still to draw.                                                      *)
THEOREM CountersAgree == Spec => []FrameAccounting
<1>1. Init => FrameAccounting
    BY InitCorrect
<1>2. Inv /\ FrameAccounting /\ [Next]_vars => FrameAccounting'
    BY AccountingCorrect
<1> QED
    BY <1>1, <1>2, FrameInvariant, PTL DEF Spec
=============================================================================
