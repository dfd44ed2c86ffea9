---------------------------- MODULE FramePipeline ----------------------------
(***************************************************************************)
(* The frame loop of the engine: the logic thread (and, with -editor, the  *)
(* editor thread) describes frames as orders, the render thread executes   *)
(* them.  Every producer p has its own command_processor, whose queue is   *)
(* the FIFO that IntrusiveSpscQueue implements, and its own queue of       *)
(* processed orders, which carries the executed orders back to p, the only *)
(* thread that may free them.                                              *)
(*                                                                         *)
(* Frame counters are kept relative to the platform's frame_id: lead[p] is *)
(* the producer's counter minus frame_id, and command_frame_ahead[p] says  *)
(* that m_command_frame_id = frame_id + 1, the only value the code ever    *)
(* compares it with.                                                       *)
(***************************************************************************)
EXTENDS Integers, Sequences, FiniteSets

CONSTANTS
    Editor,     (* command_line_editor(): is there an editor thread?          *)
    MaxSets,    (* bound: the orders a producer pushes in front of a draw     *)
    MaxLag,     (* bound: how far frame_id may overtake m_logic_frame_id      *)
    MaxToggles, (* bound: how often the user switches the editor mode         *)
    PatientUser (* does the user wait for the last frame before switching?    *)

ASSUME FramePipelineAssumption ==
    /\ Editor \in BOOLEAN
    /\ MaxSets \in Nat
    /\ MaxLag \in Nat \ {0}
    /\ MaxToggles \in Nat
    /\ PatientUser \in BOOLEAN

Producer == IF Editor THEN {"logic", "editor"} ELSE {"logic"}

VARIABLES
    m_orders,               (* [Producer -> Seq]: orders behind the null node *)
    null_node,              (* [Producer -> BOOLEAN]: has m_orders one?       *)
    m_wait_form_command_event, (* [Producer -> BOOLEAN]                       *)
    command_frame_ahead,    (* [Producer -> BOOLEAN]                          *)
    processed,              (* [Producer -> BOOLEAN]: are there orders to free? *)
    processed_null_node,    (* [Producer -> BOOLEAN]                          *)
    lead,                   (* [Producer -> Int]                              *)
    in_hand,                (* the order run() has popped, or "none"          *)
    running,                (* the producer whose orders run() processes      *)
    frame_moved,            (* run() has seen m_command_frame_id grow         *)
    m_logic_frame_ended, m_editor_frame_ended,
    m_game_enabled, m_game_paused_last, m_app_active,
    m_destruction_started,
    enabled,                (* m_enabled of the game                          *)
    call,                   (* what the editor asked of the logic thread      *)
    pc,                     (* [Thread -> where each thread is]               *)
    pushing,                (* [Producer -> what push_command was given and   *)
                            (*   what it read from empty()]                   *)
    sets_left,              (* [Producer -> orders still to push this frame]  *)
    toggles_left

queues == <<m_orders, null_node, m_wait_form_command_event, command_frame_ahead,
            processed, processed_null_node, in_hand, running, frame_moved>>
flags  == <<m_logic_frame_ended, m_editor_frame_ended, m_game_paused_last>>
switch == <<m_game_enabled, m_app_active, enabled, call, toggles_left>>
push   == <<pushing, sets_left>>
vars   == <<queues, flags, switch, push, lead, m_destruction_started, pc>>

Order  == {"set", "draw"}
Thread == Producer \cup {"render"}
NoPush == [order |-> "none", empty |-> FALSE]

(* where the logic, the editor and the render thread may be                *)
Place == {"loop", "world", "wait"}
         \cup {"idle", "unload", "wait_unload", "disable", "wait_disable",
               "enable", "wait_enable", "load", "wait_load"}
         \cup {"push", "count", "process", "exit", "done"}
         \cup {"messages", "tick", "tick_editor", "run", "sleep", "drain",
               "execute", "draw", "clear", "purge", "delete"}

Goto(t, where) == pc' = [pc EXCEPT ![t] = where]

TypeOK ==
    /\ m_orders \in [Producer -> Seq(Order)]
    /\ null_node \in [Producer -> BOOLEAN]
    /\ m_wait_form_command_event \in [Producer -> BOOLEAN]
    /\ command_frame_ahead \in [Producer -> BOOLEAN]
    /\ processed \in [Producer -> BOOLEAN]
    /\ processed_null_node \in [Producer -> BOOLEAN]
    /\ lead \in [Producer -> Int]
    /\ in_hand \in Order \cup {"none"}
    /\ running \in Producer
    /\ frame_moved \in BOOLEAN
    /\ m_logic_frame_ended \in BOOLEAN /\ m_editor_frame_ended \in BOOLEAN
    /\ m_game_enabled \in BOOLEAN /\ enabled \in BOOLEAN
    /\ m_game_paused_last \in BOOLEAN /\ m_app_active \in BOOLEAN
    /\ m_destruction_started \in BOOLEAN
    /\ call \in {"none", "enable", "disable", "load", "unload"}
    /\ pushing \in [Producer -> {NoPush} \cup [order : Order, empty : BOOLEAN]]
    /\ sets_left \in [Producer -> 0..MaxSets]
    /\ toggles_left \in 0..MaxToggles
    /\ pc \in [Thread -> Place]

Start == [logic |-> "loop", editor |-> "idle", render |-> "messages"]

(* After initialize: one frame has been drawn, m_logic_frame_id = 1 and    *)
(* m_editor_frame_id = 0; the queues hold their null nodes; with -editor   *)
(* the game is disabled.                                                   *)
Init ==
    /\ m_orders = [p \in Producer |-> << >>]
    /\ null_node = [p \in Producer |-> TRUE]
    /\ m_wait_form_command_event = [p \in Producer |-> FALSE]
    /\ command_frame_ahead = [p \in Producer |-> FALSE]
    /\ processed = [p \in Producer |-> FALSE]
    /\ processed_null_node = [p \in Producer |-> TRUE]
    /\ lead = [p \in Producer |-> IF p = "logic" THEN 0 ELSE -1]
    /\ in_hand = "none"
    /\ running = "logic"
    /\ frame_moved = FALSE
    /\ m_logic_frame_ended = FALSE
    /\ m_editor_frame_ended = FALSE
    /\ m_game_enabled = ~Editor
    /\ enabled = ~Editor
    /\ m_game_paused_last = FALSE
    /\ m_app_active \in BOOLEAN
    /\ m_destruction_started = FALSE
    /\ call = "none"
    /\ pc = [t \in Thread |-> Start[t]]
    /\ pushing = [p \in Producer |-> NoPush]
    /\ sets_left = [p \in Producer |-> 0]
    /\ toggles_left = MaxToggles

-----------------------------------------------------------------------------
(* command_processor::push_command, run by the thread of p                 *)

(* the first line: empty() reads the link of the null node.  The render    *)
(* thread may meanwhile have popped it and pushed it to the processed      *)
(* orders, which clears the link, so TRUE may be read of a filled queue.   *)
ReadEmpty(p, order) ==
    \E empty \in IF m_orders[p] = << >> THEN {TRUE} ELSE BOOLEAN :
        pushing' = [pushing EXCEPT ![p] = [order |-> order, empty |-> empty]]

(* the rest of push_command                                                *)
PushBack(p) ==
    /\ m_orders' = [m_orders EXCEPT ![p] = Append(@, pushing[p].order)]
    /\ m_wait_form_command_event' =
          [m_wait_form_command_event EXCEPT ![p] = @ \/ pushing[p].empty]
    /\ pushing' = [pushing EXCEPT ![p] = NoPush]

(* The thread of p pushes the orders of a frame and then the order that    *)
(* draws it.                                                               *)
PushRead(p) ==
    /\ pc[p] = "push"
    /\ pushing[p] = NoPush
    /\ ReadEmpty(p, IF sets_left[p] > 0 THEN "set" ELSE "draw")
    /\ UNCHANGED <<queues, flags, switch, sets_left, lead,
                   m_destruction_started, pc>>

PushOrder(p) ==
    /\ pc[p] = "push"
    /\ pushing[p] # NoPush
    /\ PushBack(p)
    /\ IF pushing[p].order = "set"
         THEN /\ sets_left' = [sets_left EXCEPT ![p] = @ - 1]
              /\ UNCHANGED pc
         ELSE /\ Goto(p, "count")
              /\ UNCHANGED sets_left
    /\ UNCHANGED <<null_node, command_frame_ahead, processed, processed_null_node,
                   in_hand, running, frame_moved, flags, switch, lead, m_destruction_started>>

(* delete_processed_orders with destroying = false: the null node stays    *)
DeleteProcessed(p) == processed' = [processed EXCEPT ![p] = FALSE]

-----------------------------------------------------------------------------
(* The logic thread *)

(* Mutation: a disabled game does not count its frames.                    *)
LogicTick_FrozenCounter ==
    /\ pc["logic"] = "loop"
    /\ ~m_destruction_started
    /\ DeleteProcessed("logic")
    /\ UNCHANGED lead
    /\ Goto("logic", IF m_game_enabled /\ m_app_active THEN "world" ELSE "wait")
    /\ UNCHANGED <<m_orders, null_node, m_wait_form_command_event,
                   command_frame_ahead, processed_null_node, in_hand, running, frame_moved,
                   flags, switch, push, m_destruction_started>>

(* engine_world::logic_tick up to the tick of the game                     *)
LogicTick ==
    /\ pc["logic"] = "loop"
    /\ ~m_destruction_started
    /\ DeleteProcessed("logic")
    /\ lead' = IF m_game_enabled THEN lead ELSE [lead EXCEPT !["logic"] = @ + 1]
    /\ Goto("logic", IF m_game_enabled /\ m_app_active THEN "world" ELSE "wait")
    /\ UNCHANGED <<m_orders, null_node, m_wait_form_command_event,
                   command_frame_ahead, processed_null_node, in_hand, running, frame_moved,
                   flags, switch, push, m_destruction_started>>

(* game::tick: a game that is not enabled returns at once; the others push *)
(* their orders.                                                           *)
GameTick ==
    /\ pc["logic"] = "world"
    /\ \E n \in IF enabled THEN 0..MaxSets ELSE {0} :
          sets_left' = [sets_left EXCEPT !["logic"] = n]
    /\ Goto("logic", "push")
    /\ UNCHANGED <<queues, flags, switch, pushing, lead, m_destruction_started>>

(* a tick of the game in which the player quits: game::exit                *)
GameQuits ==
    /\ pc["logic"] = "world"
    /\ enabled
    /\ Goto("logic", "exit")
    /\ UNCHANGED <<queues, flags, switch, push, lead, m_destruction_started>>

(* the last line of logic_tick                                             *)
LogicCountFrame ==
    /\ pc["logic"] = "count"
    /\ lead' = [lead EXCEPT !["logic"] = @ + 1]
    /\ Goto("logic", "wait")
    /\ UNCHANGED <<queues, flags, switch, push, m_destruction_started>>

Ahead(p) == lead[p] > 1

(* Mutation: the loop does not look at m_destruction_started.              *)
LogicWaitEnds_Deaf ==
    /\ pc["logic"] = "wait"
    /\ ~Ahead("logic")
    /\ Goto("logic", "loop")
    /\ UNCHANGED <<queues, flags, switch, push, lead, m_destruction_started>>

(* The loop behind the tick: while the logic thread is ahead of the render *)
(* thread it only serves calls.                                            *)
LogicWaitEnds ==
    /\ pc["logic"] = "wait"
    /\ ~Ahead("logic") \/ m_destruction_started
    /\ Goto("logic", "loop")
    /\ UNCHANGED <<queues, flags, switch, push, lead, m_destruction_started>>

(* rpc::try_process_single_call in that loop, rpc::process after it        *)
LogicServes ==
    /\ \/ pc["logic"] = "wait" /\ Ahead("logic") /\ ~m_destruction_started
       \/ pc["logic"] = "process"
    /\ call # "none"
    /\ enabled' = (call = "enable" \/ (enabled /\ call # "disable"))
    /\ call' = "none"
    /\ UNCHANGED <<queues, flags, m_game_enabled, m_app_active, toggles_left,
                   push, lead, m_destruction_started, pc>>

LogicLeaves ==
    /\ pc["logic"] = "loop"
    /\ m_destruction_started
    /\ Goto("logic", "process")
    /\ UNCHANGED <<queues, flags, switch, push, lead, m_destruction_started>>

(* every caller of exit goes on where it called it                         *)
AfterExit == [logic |-> "push", editor |-> "process", render |-> "clear"]

(* engine_world::exit, behind its assertion                                *)
Exit(t) ==
    /\ pc[t] = "exit"
    /\ m_destruction_started' = TRUE
    /\ Goto(t, AfterExit[t])
    /\ UNCHANGED <<queues, flags, switch, push, lead>>

-----------------------------------------------------------------------------
(* The editor thread *)

(* editor_world::tick behind on_before_editor_tick                         *)
EditorTick ==
    /\ pc["editor"] = "idle"
    /\ m_app_active
    /\ ~Ahead("editor")
    /\ lead["logic"] > -MaxLag
    /\ DeleteProcessed("editor")
    /\ \E n \in 0..MaxSets : sets_left' = [sets_left EXCEPT !["editor"] = n]
    /\ Goto("editor", "push")
    /\ UNCHANGED <<m_orders, null_node, m_wait_form_command_event,
                   command_frame_ahead, processed_null_node, in_hand, running, frame_moved,
                   flags, switch, pushing, lead, m_destruction_started>>

(* on_after_editor_tick                                                    *)
EditorCountFrame ==
    /\ pc["editor"] = "count"
    /\ lead' = [lead EXCEPT !["editor"] = @ + 1]
    /\ Goto("editor", "idle")
    /\ UNCHANGED <<queues, flags, switch, push, m_destruction_started>>

(* The render thread is done with every frame of the editor and knows      *)
(* whether the game is paused.                                             *)
LastFrameIsShown ==
    /\ m_orders["editor"] = << >>
    /\ in_hand = "none"
    /\ m_game_paused_last = ~m_game_enabled

(* editor_world::editor_mode: the user switches from editing to playing    *)
(* (enable, then load the level) or back (unload it, then disable)         *)
EditorSwitches ==
    /\ pc["editor"] = "idle"
    /\ m_app_active
    /\ toggles_left > 0
    /\ PatientUser => LastFrameIsShown
    /\ toggles_left' = toggles_left - 1
    /\ Goto("editor", IF m_game_enabled THEN "unload" ELSE "enable")
    /\ UNCHANGED <<queues, flags, m_game_enabled, m_app_active, enabled, call,
                   push, lead, m_destruction_started>>

WaitFor == [unload |-> "wait_unload", disable |-> "wait_disable",
            enable |-> "wait_enable", load |-> "wait_load"]

(* rpc::run on the logic thread, up to its wait for completion             *)
EditorCalls ==
    /\ call = "none"
    /\ \E request \in DOMAIN WaitFor :
          /\ pc["editor"] = request
          /\ call' = request
          /\ Goto("editor", WaitFor[request])
    /\ UNCHANGED <<queues, flags, m_game_enabled, m_app_active, enabled,
                   toggles_left, push, lead, m_destruction_started>>

(* the call is completed; enable_game_impl ends with the assignment to     *)
(* m_game_enabled                                                          *)
EditorReturns(from, to, value) ==
    /\ pc["editor"] = from
    /\ call = "none"
    /\ m_game_enabled' = value
    /\ Goto("editor", to)
    /\ UNCHANGED <<queues, flags, m_app_active, enabled, call, toggles_left,
                   push, lead, m_destruction_started>>

EditorGoesOn ==
    \/ EditorReturns("wait_unload", "disable", m_game_enabled)
    \/ EditorReturns("wait_disable", "idle", FALSE)
    \/ EditorReturns("wait_enable", "load", TRUE)
    \/ EditorReturns("wait_load", "idle", m_game_enabled)

(* The user closes the editor: its message loop returns.                   *)
EditorCloses ==
    /\ pc["editor"] = "idle"
    /\ Goto("editor", IF m_destruction_started THEN "process" ELSE "exit")
    /\ UNCHANGED <<queues, flags, switch, push, lead, m_destruction_started>>

-----------------------------------------------------------------------------
(* The render thread *)

(* engine_world::run: nothing to do before the next tick                   *)
RenderLoops ==
    /\ pc["render"] = "messages"
    /\ Goto("render", IF m_destruction_started THEN "clear" ELSE "tick")
    /\ UNCHANGED <<queues, flags, switch, push, lead, m_destruction_started>>

(* the window was closed                                                   *)
RenderQuits ==
    /\ ~Editor
    /\ pc["render"] = "messages"
    /\ Goto("render", IF m_destruction_started THEN "clear" ELSE "exit")
    /\ UNCHANGED <<queues, flags, switch, push, lead, m_destruction_started>>

(* the window with the view, which lives in the render thread or in the    *)
(* editor thread, is activated or deactivated                              *)
Activation ==
    /\ IF Editor THEN pc["editor"] = "idle" ELSE pc["render"] = "messages"
    /\ m_app_active' = ~m_app_active
    /\ UNCHANGED <<queues, flags, m_game_enabled, enabled, call, toggles_left,
                   push, lead, m_destruction_started, pc>>

(* May a frame of the editor be drawn now?  Asked by tick before it runs   *)
(* the editor's orders and by draw_frame_editor.                           *)
EditorMayDraw ==
    m_logic_frame_ended \/ ~m_game_enabled \/ m_game_enabled = m_game_paused_last

(* command_processor::run is entered                                       *)
Run(p, wait_for_command) ==
    /\ running' = p
    /\ Goto("render", IF wait_for_command THEN "run" ELSE "drain")
    /\ UNCHANGED <<m_orders, null_node, m_wait_form_command_event,
                   command_frame_ahead, processed, processed_null_node, in_hand,
                   frame_moved, flags, switch, push, lead, m_destruction_started>>

Skip(from, to) ==
    /\ pc["render"] = from
    /\ Goto("render", to)
    /\ UNCHANGED <<queues, flags, switch, push, lead, m_destruction_started>>

(* engine_world::tick                                                      *)
TickLogic ==
    \/ pc["render"] = "tick" /\ ~m_logic_frame_ended /\ Run("logic", m_game_enabled)
    \/ m_logic_frame_ended /\ Skip("tick", "tick_editor")

TickEditor ==
    LET runs == Editor /\ EditorMayDraw /\ ~m_editor_frame_ended
    IN  \/ pc["render"] = "tick_editor" /\ runs /\ Run("editor", TRUE)
        \/ ~runs /\ Skip("tick_editor", "messages")

(* run: the 64 spins                                                       *)
RunLooks == Skip("run", IF m_orders[running] = << >> THEN "sleep" ELSE "drain")

(* run: the event is signalled                                             *)
RunWakesUp ==
    /\ pc["render"] = "sleep"
    /\ m_wait_form_command_event[running]
    /\ m_wait_form_command_event' =
          [m_wait_form_command_event EXCEPT ![running] = FALSE]
    /\ Goto("render", "drain")
    /\ UNCHANGED <<m_orders, null_node, command_frame_ahead, processed,
                   processed_null_node, in_hand, running, frame_moved, flags, switch, push,
                   lead, m_destruction_started>>

(* Mutation: the wait has no timeout, only the event ends it.              *)
RunTimesOut_Infinite == Skip("sleep", "drain") /\ m_wait_form_command_event[running]

(* run: 16 ms have passed                                                  *)
RunTimesOut == Skip("sleep", "drain")

(* run returned: tick goes on                                              *)
AfterRun == IF running = "logic" THEN "tick_editor" ELSE "messages"

RunReturns == m_orders[running] = << >> /\ Skip("drain", AfterRun)

RunPops ==
    /\ pc["render"] = "drain"
    /\ m_orders[running] # << >>
    /\ in_hand' = Head(m_orders[running])
    /\ m_orders' = [m_orders EXCEPT ![running] = Tail(@)]
    /\ Goto("render", "execute")
    /\ UNCHANGED <<null_node, m_wait_form_command_event, command_frame_ahead,
                   processed, processed_null_node, running, frame_moved, flags, switch, push,
                   lead, m_destruction_started>>

(* delete_on_tick: the former null node goes back to the producer          *)
DeleteOnTick(p) == processed' = [processed EXCEPT ![p] = TRUE]

RunExecutesSet ==
    /\ pc["render"] = "execute"
    /\ in_hand = "set"
    /\ in_hand' = "none"
    /\ DeleteOnTick(running)
    /\ Goto("render", "drain")
    /\ UNCHANGED <<m_orders, null_node, m_wait_form_command_event,
                   command_frame_ahead, processed_null_node, running, frame_moved,
                   flags, switch, push, lead, m_destruction_started>>

(* draw_frame_logic and draw_frame_editor: is the frame drawn now?         *)
FrameIsComplete ==
    IF running = "logic" THEN ~Editor \/ m_editor_frame_ended ELSE EditorMayDraw

(* Mutation: run does not compare m_command_frame_id and goes on.          *)
RunChecksFrame_GoesOn(moved) ==
    /\ in_hand' = "none"
    /\ DeleteOnTick(running)
    /\ Goto("render", "drain")

(* run is done with the order that ended a frame: it returns, because that *)
(* order has moved m_command_frame_id on.                                  *)
RunChecksFrame(moved) ==
    /\ in_hand' = "none"
    /\ DeleteOnTick(running)
    /\ Goto("render", IF moved THEN AfterRun ELSE "drain")

(* run executes draw_frame_logic or draw_frame_editor: it sets the frame   *)
(* id of the command processor and m_logic_frame_ended or                  *)
(* m_editor_frame_ended, and draws the frame when it is complete, which    *)
(* begins with ++frame_id.                                                 *)
RunExecutesDraw ==
    /\ pc["render"] = "execute"
    /\ in_hand = "draw"
    /\ m_logic_frame_ended' = (m_logic_frame_ended \/ running = "logic")
    /\ m_editor_frame_ended' = (m_editor_frame_ended \/ running = "editor")
    /\ IF FrameIsComplete
         THEN /\ lead' = [p \in Producer |-> lead[p] - 1]
              /\ frame_moved' = ~command_frame_ahead[running]
              /\ command_frame_ahead' = [p \in Producer |-> FALSE]
              /\ Goto("render", "draw")
              /\ UNCHANGED <<processed, in_hand>>
         ELSE /\ command_frame_ahead' = [command_frame_ahead EXCEPT ![running] = TRUE]
              /\ RunChecksFrame(~command_frame_ahead[running])
              /\ UNCHANGED <<lead, frame_moved>>
    /\ UNCHANGED <<m_orders, null_node, m_wait_form_command_event,
                   processed_null_node, running, m_game_paused_last, switch, push,
                   m_destruction_started>>

(* Mutation: m_logic_frame_ended is not reset.                             *)
RunDrew_ForgetsLogic ==
    /\ pc["render"] = "draw"
    /\ m_editor_frame_ended' = FALSE
    /\ m_game_paused_last' = ~m_game_enabled
    /\ RunChecksFrame(frame_moved)
    /\ UNCHANGED <<m_orders, null_node, m_wait_form_command_event, frame_moved,
                   command_frame_ahead, processed_null_node, running, switch,
                   m_logic_frame_ended, push, lead, m_destruction_started>>

(* Mutation: m_editor_frame_ended is not reset.                            *)
RunDrew_ForgetsEditor ==
    /\ pc["render"] = "draw"
    /\ m_logic_frame_ended' = FALSE
    /\ m_game_paused_last' = ~m_game_enabled
    /\ RunChecksFrame(frame_moved)
    /\ UNCHANGED <<m_orders, null_node, m_wait_form_command_event, frame_moved,
                   command_frame_ahead, processed_null_node, running, switch,
                   m_editor_frame_ended, push, lead, m_destruction_started>>

(* the frame is on the screen: the flags are reset                         *)
RunDrew ==
    /\ pc["render"] = "draw"
    /\ m_logic_frame_ended' = FALSE
    /\ m_editor_frame_ended' = FALSE
    /\ m_game_paused_last' = ~m_game_enabled
    /\ RunChecksFrame(frame_moved)
    /\ UNCHANGED <<m_orders, null_node, m_wait_form_command_event, frame_moved,
                   command_frame_ahead, processed_null_node, running, switch,
                   push, lead, m_destruction_started>>

-----------------------------------------------------------------------------
(* The destructor of the engine *)

(* Mutation: the orders are purged without waiting for the producers.      *)
ClearResources_NoBarrier == Skip("clear", "purge")

(* Every producer has executed the empty call: all of them serve calls now.*)
ClearResources == (\A p \in Producer : pc[p] = "process") /\ Skip("clear", "purge")

(* Mutation: the null node is not handed to the producer.                  *)
PurgeOrders_KeepsNullNode ==
    /\ pc["render"] = "purge"
    /\ processed' = [p \in Producer |-> processed[p] \/ m_orders[p] # << >>]
    /\ m_orders' = [p \in Producer |-> << >>]
    /\ Goto("render", "delete")
    /\ UNCHANGED <<null_node, m_wait_form_command_event, command_frame_ahead,
                   processed_null_node, in_hand, running, frame_moved, flags, switch, push,
                   lead, m_destruction_started>>

(* purge_orders of every command_processor                                 *)
PurgeOrders ==
    /\ pc["render"] = "purge"
    /\ processed' = [p \in Producer |-> TRUE]
    /\ m_orders' = [p \in Producer |-> << >>]
    /\ null_node' = [p \in Producer |-> FALSE]
    /\ Goto("render", "delete")
    /\ UNCHANGED <<m_wait_form_command_event, command_frame_ahead,
                   processed_null_node, in_hand, running, frame_moved, flags, switch, push,
                   lead, m_destruction_started>>

(* delete_processed_orders with destroying = true, called in the thread of *)
(* the producer                                                            *)
DeleteAllProcessed(p) ==
    /\ pc["render"] = "delete"
    /\ pc[p] = "process"
    /\ DeleteProcessed(p)
    /\ processed_null_node' = [processed_null_node EXCEPT ![p] = FALSE]
    /\ Goto(p, "done")
    /\ UNCHANGED <<m_orders, null_node, m_wait_form_command_event,
                   command_frame_ahead, in_hand, running, frame_moved, flags, switch, push,
                   lead, m_destruction_started>>

(* the rest of the destructor, once the last call is completed             *)
Finalize == (\A p \in Producer : pc[p] = "done") /\ Skip("delete", "done")

-----------------------------------------------------------------------------
Push(p) == PushRead(p) \/ PushOrder(p)

Logic == \/ LogicTick \/ GameTick \/ Push("logic") \/ LogicCountFrame
         \/ LogicWaitEnds \/ LogicServes \/ LogicLeaves \/ Exit("logic")
         \/ DeleteAllProcessed("logic")

EditorLoop == /\ Editor
              /\ \/ EditorTick \/ Push("editor") \/ EditorCountFrame
                 \/ EditorCalls \/ EditorGoesOn \/ Exit("editor")
                 \/ DeleteAllProcessed("editor")

RunOrders == \/ RunLooks \/ RunWakesUp \/ RunReturns \/ RunPops
             \/ RunExecutesSet \/ RunExecutesDraw \/ RunDrew

Render == \/ RenderLoops \/ TickLogic \/ TickEditor \/ RunOrders
          \/ Exit("render") \/ ClearResources \/ PurgeOrders \/ Finalize

(* what the user does                                                      *)
User == \/ GameQuits \/ RenderQuits \/ Activation
        \/ Editor /\ (EditorSwitches \/ EditorCloses)

Done == \A t \in Thread : pc[t] = "done"

Next == \/ Logic \/ EditorLoop \/ Render \/ RunTimesOut \/ User
        \/ Done /\ UNCHANGED vars

Spec == Init /\ [][Next]_vars

(* The threads are scheduled, and a timed wait ends.                       *)
FairSpec == /\ Spec
            /\ WF_vars(Logic) /\ WF_vars(EditorLoop) /\ WF_vars(Render)
            /\ WF_vars(RunTimesOut)

-----------------------------------------------------------------------------
(* Properties *)

(* the places of a queue that hold the draw order of a frame               *)
DrawsIn(orders) == {i \in DOMAIN orders : orders[i] = "draw"}

Draws(p) == Cardinality(DrawsIn(m_orders[p]))
            + (IF running = p /\ in_hand = "draw" /\ pc["render"] = "execute"
                 THEN 1 ELSE 0)

Ended(p) == IF p = "logic" THEN m_logic_frame_ended ELSE m_editor_frame_ended

(* The producer without whose frame nothing is drawn: without an editor    *)
(* the logic, otherwise the editor.                                        *)
Main == IF Editor THEN "editor" ELSE "logic"

(* The frame of Main that the render thread has ended and not drawn yet    *)
(* (the command processor of the other producer has to end its frame too). *)
Undrawn == IF Ended(Main) /\ pc["render"] # "draw" THEN 1 ELSE 0

(* The frame counter of Main says where the render thread is: it is        *)
(* frame_id plus the frames that are pushed and not drawn, be their draw   *)
(* orders in the queue or executed (a frame is counted right after its     *)
(* draw order is pushed; the editor begins one frame behind).  Every frame *)
(* on the screen has so taken one frame of Main, whoever of the two drew   *)
(* it.  The waits for the render thread, and with them the memory that the *)
(* queue of orders takes, rest on that.                                    *)
FrameAccounting ==
    null_node[Main] =>
        lead[Main] + (IF pc[Main] = "count" THEN 1 ELSE 0) + (IF Editor THEN 1 ELSE 0)
            = Draws(Main) + Undrawn

(* Once purge_orders has taken the null node, nobody pushes: the assertion *)
(* of push_back holds, and so does that of pop_null_node.                  *)
NobodyPushesAfterPurge ==
    \A p \in Producer : pc[p] \in {"push", "exit", "world"} => null_node[p]

(* A thread has an order in its hands only while it pushes a frame, and an *)
(* order in front of the draw only while there are such orders to push.    *)
PushOK ==
    \A p \in Producer : pushing[p] # NoPush =>
        /\ pc[p] = "push"
        /\ pushing[p].order = "set" => sets_left[p] > 0

(* The producers are throttled: no producer describes more than two frames *)
(* the render thread has not drawn, because none begins one of them while  *)
(* it is ahead.                                                            *)
ProducersAreThrottled ==
    /\ \A p \in Producer :
          /\ lead[p] <= 2
          /\ pc[p] \in {"world", "push", "count"} => ~Ahead(p)
    /\ pc["logic"] = "exit" => ~Ahead("logic")
    /\ pc["logic"] = "loop" => ~Ahead("logic") \/ m_destruction_started

(* m_logic_frame_ended and m_editor_frame_ended are true only while the    *)
(* frame that ended is not drawn, and they are what m_command_frame_id     *)
(* says of their command_processor; so run, which was entered because its  *)
(* frame had not ended, notices when it has.                               *)
EndedFramesAreNotDrawn ==
    /\ in_hand # "none" <=> pc["render"] \in {"execute", "draw"}
    /\ IF pc["render"] = "draw"
         THEN in_hand = "draw" /\ frame_moved /\ \A p \in Producer : ~command_frame_ahead[p]
         ELSE \A p \in Producer : command_frame_ahead[p] = Ended(p)
    /\ pc["render"] \in {"run", "sleep", "drain", "execute"} => ~Ended(running)

(* The tear-down: the queues are purged when the producers are in their    *)
(* last rpc::process, and they leave it with nothing left to free.         *)
PurgedLast ==
    /\ \A p \in Producer :
          /\ pc["render"] \in {"purge", "delete", "done"} => pc[p] \in {"process", "done"}
          /\ null_node[p] <=> pc["render"] \notin {"delete", "done"}
          /\ ~null_node[p] => m_orders[p] = << >>
          /\ pc[p] = "done" => ~null_node[p] /\ ~processed[p] /\ ~processed_null_node[p]
    /\ ~Editor => m_game_enabled

(* The inductive invariant of the frame loop.                              *)
Inv == /\ TypeOK /\ PushOK /\ ProducersAreThrottled
       /\ EndedFramesAreNotDrawn /\ PurgedLast

(* The order objects are all freed when the engine is gone, by the thread  *)
(* that allocated them.                                                    *)
NoOrderLeaks ==
    Done => \A p \in Producer : /\ m_orders[p] = << >> /\ ~processed[p]
                                /\ ~null_node[p] /\ ~processed_null_node[p]

(* A frame is never torn: while a producer's frame is ended and not drawn, *)
(* none of its later orders is executed, and the order that ends it ends   *)
(* the run of the render thread, which serves messages and the other queue *)
(* before it executes an order behind it.                                  *)
NoTornFrame ==
    [][ /\ in_hand = "none" /\ in_hand' # "none" =>
             IF running = "logic" THEN ~m_logic_frame_ended ELSE ~m_editor_frame_ended
        /\ in_hand = "draw" /\ in_hand' = "none" => pc'["render"] # "drain"
      ]_vars

(* No order is left behind by a lost wake-up: an order that was pushed is  *)
(* executed, or the engine is destroyed, or the editor is not active,      *)
(* which stops the game and with it the frames the editor waits for.       *)
OrdersAreExecuted ==
    \A p \in {"logic", "editor"} : p \in Producer =>
       (m_orders[p] # << >> ~> \/ running = p /\ in_hand # "none"
                               \/ m_destruction_started
                               \/ Editor /\ ~m_app_active)

(* An editor that calls the logic thread is answered.                      *)
CallsAreServed == call # "none" ~> call = "none"

(* Once exit was called in a game, every thread comes to its end.          *)
EngineStops == m_destruction_started ~> Done

(* engine_world::exit is called once.                                      *)
ExitIsCalledOnce == \A t \in Thread : pc[t] = "exit" => ~m_destruction_started

(* A game is ticked only while it is enabled.                              *)
GameTicksOnlyWhenEnabled == pc["logic"] = "world" => enabled

=============================================================================
