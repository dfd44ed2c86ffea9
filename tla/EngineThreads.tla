---------------------------- MODULE EngineThreads ----------------------------
(***************************************************************************)
(* How the threads of the engine start and stop.  The render thread runs   *)
(* initialize, run and the destructor of engine_world: a script of         *)
(* statements that create and destroy the worlds of the subsystems, spawn  *)
(* threads and call them through Rpc.  The logic, network, sound and       *)
(* editor threads create their world, loop, and serve calls: in            *)
(* rpc::process, or between two ticks while they are ahead of the render   *)
(* thread.  Without an editor its slot belongs to the render thread, which *)
(* then calls the function in place.  More than one core is assumed.       *)
(***************************************************************************)
EXTENDS Rpc

CONSTANTS Editor,      (* command_line_editor()                              *)
          Foreground,  (* does the window get active when it is shown?       *)
          Asking,      (* the threads that may have asked for resources      *)
          MaxLead,     (* how far ahead the logic may be counted; above 2    *)
          MaxDelays    (* how often a thread may leave others deletions      *)

ASSUME EngineThreadsAssumption ==
    /\ {Editor, Foreground} \subseteq BOOLEAN
    /\ MaxLead \in Nat /\ MaxLead > 2
    /\ MaxDelays \in Nat

VARIABLES
    step,          (* the statement the render thread executes next          *)
    at,            (* [Spawned -> where the thread is]                       *)
    worlds,        (* what was created and is not destroyed                  *)
    lead,          (* m_logic_frame_id - frame_id, as far as it is positive  *)
    m_destruction_started,
    m_app_active,
    s_resource_callbacks_dispatched,
    queries,       (* the threads with queries of resources not dispatched   *)
    delayed,       (* the owners of resources that the manager has yet to    *)
                   (* hand over to them, to be deleted                       *)
    deletions,     (* the threads with resources they have to delete         *)
    looking,       (* the threads that found nothing of their own to do and  *)
                   (* are in thread_can_exit                                 *)
    delays         (* how often deletions were left to other threads         *)

manager == <<queries, delayed, deletions, looking, delays>>
engine == <<step, at, worlds, lead, m_destruction_started, m_app_active,
            s_resource_callbacks_dispatched, manager>>
vars == <<rpcVars, engine>>

(* The threads that are spawned own the slot of their name; the render     *)
(* thread owns the others, so that calls of them are made in place.        *)
Spawned == {"logic", "network", "sound"} \cup (IF Editor THEN {"editor"} ELSE {})

ASSUME AskingAssumption == Asking \subseteq Spawned \cup {"render"}

EngineInit ==
    /\ RpcInit
    /\ step = 1
    /\ at = [t \in Spawned |-> "unborn"]
    /\ worlds = {}
    /\ lead = 0
    /\ m_destruction_started = FALSE
    /\ m_app_active = FALSE
    /\ s_resource_callbacks_dispatched = FALSE
    /\ queries = {} /\ delayed = {} /\ deletions = {} /\ looking = {}
    /\ delays = 0

-----------------------------------------------------------------------------
(* The script of the render thread *)

Run(to, fn, break, wait) == <<[do |-> "call", to |-> to, fn |-> fn, break |-> break,
                              wait |-> wait, remote_only |-> FALSE]>>
RunRemoteOnly(to, fn, break, wait) == <<[do |-> "call", to |-> to, fn |-> fn,
                              break |-> break, wait |-> wait, remote_only |-> TRUE]>>
Wait(to)     == <<[do |-> "wait", to |-> to]>>
Spawn(t)     == <<[do |-> "spawn", to |-> t]>>
Local(fn)    == <<[do |-> "local", fn |-> fn]>>
If(b, stmts) == IF b THEN stmts ELSE << >>

break_process_loop == TRUE
continue_process_loop == FALSE
wait_for_completion == TRUE
dont_wait_for_completion == FALSE

(* an engine-wide round of calls: rpc::run on every thread, without waiting*)
OnAll(fns) ==
    Run("logic", fns.logic, continue_process_loop, dont_wait_for_completion)
    \o Run("network", fns.network, continue_process_loop, dont_wait_for_completion)
    \o Run("sound", fns.sound, continue_process_loop, dont_wait_for_completion)

WaitAll == Wait("logic") \o Wait("network") \o Wait("sound") \o Wait("editor")

initialize_logic ==
    Local("draw_frame") \o Spawn("logic")

(* engine_world::initialize *)
initialize ==
    Local("initialize_core")
    \o If(Editor, Spawn("editor")
                  \o Run("editor", "try_load_editor",
                         break_process_loop, dont_wait_for_completion))
    \o Wait("editor")
    \o Run("editor", "create_device", continue_process_loop, wait_for_completion)
    \o Local("create_render")
    \o Spawn("network")
    \o Spawn("sound")
    \o Run("sound", "empty", break_process_loop, wait_for_completion)
    \o initialize_logic
    \o Wait("editor") \o Wait("logic")
    \o If(Editor, Run("editor", "initialize_editor_thread_ids",
                      continue_process_loop, wait_for_completion))
    \o Run("editor", "show_window", break_process_loop, wait_for_completion)
    \o Run("logic", "enable", continue_process_loop, wait_for_completion)

(* Mutation: the barrier in front of clear_resources is missing.           *)
barrier_Missing == << >>

(* the empty calls of the destructor *)
barrier ==
    OnAll([logic |-> "empty", network |-> "empty", sound |-> "empty"])
    \o Run("editor", "empty", continue_process_loop, dont_wait_for_completion)
    \o WaitAll

clear_resources ==
    OnAll([logic |-> "logic_clear_resources", network |-> "network_clear_resources",
           sound |-> "sound_clear_resources"])
    \o If(Editor, Run("editor", "editor_clear_resources",
                      continue_process_loop, dont_wait_for_completion))
    \o Local("render_clear_resources")
    \o WaitAll
    \o Local("purge_orders")
    \o If(Editor, Run("editor", "delete_processed_orders",
                      continue_process_loop, dont_wait_for_completion))
    \o Run("logic", "delete_processed_orders",
           continue_process_loop, dont_wait_for_completion)

DispatchOn(t) == RunRemoteOnly(t, "thread_dispatch_callbacks",
                               continue_process_loop, dont_wait_for_completion)

(* Mutation: the threads are released after they were waited for.          *)
dispatch_callbacks_ReleasesLate ==
    Local("dispatching")
    \o DispatchOn("logic") \o DispatchOn("network") \o DispatchOn("sound")
    \o DispatchOn("editor")
    \o Local("wait_and_dispatch_callbacks")
    \o WaitAll
    \o Local("dispatched")

dispatch_callbacks ==
    Local("dispatching")
    \o DispatchOn("logic") \o DispatchOn("network") \o DispatchOn("sound")
    \o DispatchOn("editor")
    \o Local("wait_and_dispatch_callbacks")
    \o Local("dispatched")
    \o WaitAll

Finalize(t, fn) ==
    Run(t, fn, continue_process_loop, dont_wait_for_completion)
    \o RunRemoteOnly(t, "finalize_thread_usage",
                     break_process_loop, dont_wait_for_completion)

(* Mutation: the sound world is destroyed before the logic's modules.      *)
finalize_SoundFirst ==
    Finalize("sound", "destroy_sound")
    \o Finalize("logic", "finalize_logic_modules")
    \o Finalize("network", "destroy_network")
    \o If(Editor, Run("editor", "unload_editor",
                      continue_process_loop, dont_wait_for_completion)
                  \o RunRemoteOnly("editor", "finalize_thread_usage",
                      continue_process_loop, wait_for_completion))
    \o WaitAll
    \o Local("wait_and_dispatch_callbacks")
    \o Run("editor", "destroy_device", continue_process_loop, wait_for_completion)
    \o Local("destroy_render")
    \o RunRemoteOnly("editor", "empty", break_process_loop, wait_for_completion)
    \o Local("finalize_core")

finalize ==
    Finalize("logic", "finalize_logic_modules")
    \o Finalize("network", "destroy_network")
    \o Finalize("sound", "destroy_sound")
    \o If(Editor, Run("editor", "unload_editor",
                      continue_process_loop, dont_wait_for_completion)
                  \o RunRemoteOnly("editor", "finalize_thread_usage",
                      continue_process_loop, wait_for_completion))
    \o WaitAll
    \o Local("wait_and_dispatch_callbacks")
    \o Run("editor", "destroy_device", continue_process_loop, wait_for_completion)
    \o Local("destroy_render")
    \o RunRemoteOnly("editor", "empty", break_process_loop, wait_for_completion)
    \o Local("finalize_core")

script == initialize \o Local("run") \o barrier \o clear_resources
          \o dispatch_callbacks \o finalize

End == Len(script) + 1

(* The slots and the calls of Rpc are at least those of the script.        *)
ASSUME ScriptAssumption ==
    /\ {"logic", "network", "sound", "editor"} \subseteq Slot
    /\ "render" \in Thread
    /\ \A t \in Spawned : "render" \in Caller[t]
    /\ \A i \in 1..Len(script) : script[i].do = "call" =>
          [fn |-> script[i].fn, break |-> script[i].break] \in Call

-----------------------------------------------------------------------------
(* What the functions need, create and destroy *)

Needs(fn) ==
    CASE fn \in {"create_device", "show_window", "try_load_editor"} -> {"core"}
      [] fn = "initialize_editor_thread_ids" -> {"core", "render"}
      [] fn \in {"draw_frame", "run", "render_clear_resources", "purge_orders",
                 "delete_processed_orders", "destroy_device", "destroy_render"} -> {"core", "render"}
      [] fn = "initialize_logic_modules" -> {"core", "render", "sound"}
      [] fn \in {"enable", "logic_clear_resources"} -> {"core", "logic"}
      [] fn = "finalize_logic_modules" -> {"core", "logic", "sound", "render"}
      [] fn \in {"network_clear_resources", "destroy_network"} -> {"core", "network"}
      [] fn \in {"sound_clear_resources", "destroy_sound"} -> {"core", "sound"}
      [] fn = "editor_clear_resources" -> {"core", "sound", "editor"}
      [] fn = "unload_editor" -> {"core", "editor", "render"}
      [] fn = "initialize_core" -> {}
      [] OTHER -> {"core"}

Creates(fn) ==
    CASE fn = "initialize_core" -> {"core"}
      [] fn = "try_load_editor" -> {"editor"}
      [] fn = "create_render" -> {"render"}
      [] fn = "initialize_logic_modules" -> {"logic"}
      [] OTHER -> {}

Destroys(fn) ==
    CASE fn = "finalize_logic_modules" -> {"logic"}
      [] fn = "destroy_network" -> {"network"}
      [] fn = "destroy_sound" -> {"sound"}
      [] fn = "unload_editor" -> {"editor"}
      [] fn = "destroy_render" -> {"render"}
      [] fn = "finalize_core" -> {"core"}
      [] OTHER -> {}

Effect(fn) == worlds' = (worlds \cup Creates(fn)) \ Destroys(fn)

(* What the loop of a thread uses in every round                           *)
TickNeeds(t) == {"core", "render", t} \cup IF t \in {"logic", "editor"} THEN {"sound"} ELSE {}

-----------------------------------------------------------------------------
(* Resources are deleted by the thread that allocated them.                *)

(* The functions that drop resources, of whichever thread                  *)
LeavesDeletions ==
    {"logic_clear_resources", "network_clear_resources", "sound_clear_resources",
     "editor_clear_resources", "render_clear_resources", "finalize_logic_modules",
     "destroy_network", "destroy_sound", "unload_editor", "destroy_render"}

(* unmanaged_intrusive_base::destroy of resources of the threads ts        *)
Delays(ts) ==
    /\ delayed' = delayed \cup ts
    /\ IF ts = {} THEN delays' = delays
       ELSE delays < MaxDelays /\ delays' = delays + 1

(* Thread t drops resources; its own are gone at once.                     *)
Drops(t) == \E ts \in SUBSET (Asking \ {t}) : Delays(ts)

(* The resources thread hands resources over to the thread that owns them. *)
HandsOver ==
    \E t \in delayed :
        /\ delayed' = delayed \ {t}
        /\ deletions' = deletions \cup {t}
        /\ UNCHANGED <<rpcVars, step, at, worlds, lead, m_destruction_started,
                       m_app_active, s_resource_callbacks_dispatched, queries,
                       looking, delays>>

(* dispatch_callbacks: what is dispatched and deleted may drop resources.  *)
Dispatches(t) ==
    /\ t \in queries \cup deletions
    /\ queries' = queries \ {t}
    /\ deletions' = deletions \ {t}
    /\ looking' = looking \ {t}
    /\ Drops(t)
    /\ UNCHANGED <<rpcVars, step, at, worlds, lead, m_destruction_started,
                   m_app_active, s_resource_callbacks_dispatched>>

(* thread_can_exit: a thread looks at its own lists first, then at what    *)
(* the manager has for anybody; it looks again until it finds nothing.     *)
Looks(t) ==
    /\ t \notin looking \cup queries \cup deletions
    /\ looking' = looking \cup {t}
    /\ UNCHANGED <<rpcVars, step, at, worlds, lead, m_destruction_started,
                   m_app_active, s_resource_callbacks_dispatched, queries, delayed,
                   deletions, delays>>

(* Mutation: the resources that are yet to be handed over are not counted. *)
thread_can_exit_IgnoresDelayed(t) == t \in looking /\ queries = {}

thread_can_exit(t) == t \in looking /\ queries = {} /\ delayed = {}

-----------------------------------------------------------------------------
(* The render thread *)

RenderIsAt(do) == /\ calling["render"] = Idle
                  /\ step # End
                  /\ script[step].do = do

RenderIsAtLocal(fn) == RenderIsAt("local") /\ script[step].fn = fn

NextStep == step' = step + 1

(* what a function of the worlds does on thread t *)
Perform(t, fn) ==
    /\ Effect(fn)
    /\ m_app_active' = IF fn = "show_window" THEN Foreground ELSE m_app_active
    /\ IF fn \in LeavesDeletions THEN Drops(t) ELSE UNCHANGED <<delayed, delays>>
    /\ UNCHANGED <<queries, deletions>>

InPlace(stmt) == stmt.to \notin Spawned

(* enable_game_impl calls the logic only if its world exists.              *)
IsMade(stmt) == stmt.fn = "enable" => "logic" \in worlds

(* rpc::run of a slot of another thread *)
RenderCalls ==
    /\ RenderIsAt("call") /\ ~InPlace(script[step])
    /\ LET stmt == script[step] IN
         IF IsMade(stmt)
         THEN RunStarts("render", stmt.to, [fn |-> stmt.fn, break |-> stmt.break], stmt.wait)
         ELSE UNCHANGED rpcVars
    /\ NextStep
    /\ UNCHANGED <<at, worlds, lead, m_destruction_started, m_app_active,
                   s_resource_callbacks_dispatched, manager>>

RenderProceeds == RunProceeds("render") /\ UNCHANGED engine

(* rpc::run of a slot of the render thread, run_remote_only included *)
RenderCallsInPlace ==
    /\ RenderIsAt("call") /\ InPlace(script[step])
    /\ LET stmt == script[step] IN
         IF stmt.remote_only \/ ~IsMade(stmt)
         THEN UNCHANGED <<worlds, m_app_active, queries, delayed, deletions, delays>>
         ELSE Perform("render", stmt.fn)
    /\ NextStep
    /\ UNCHANGED <<rpcVars, at, lead, m_destruction_started,
                   s_resource_callbacks_dispatched, looking>>

(* rpc::wait *)
RenderWaits ==
    /\ RenderIsAt("wait")
    /\ ~m_pending[script[step].to]
    /\ NextStep
    /\ UNCHANGED <<rpcVars, at, worlds, lead, m_destruction_started, m_app_active,
                   s_resource_callbacks_dispatched, manager>>

RenderSpawns ==
    /\ RenderIsAt("spawn")
    /\ at' = [at EXCEPT ![script[step].to] = "init"]
    /\ NextStep
    /\ UNCHANGED <<rpcVars, worlds, lead, m_destruction_started, m_app_active,
                   s_resource_callbacks_dispatched, manager>>

(* a function of the render thread itself that has no condition *)
RenderPerforms ==
    /\ RenderIsAt("local")
    /\ script[step].fn \notin {"run", "wait_and_dispatch_callbacks",
                               "dispatching", "dispatched"}
    /\ Perform("render", script[step].fn)
    /\ NextStep
    /\ UNCHANGED <<rpcVars, at, lead, m_destruction_started,
                   s_resource_callbacks_dispatched, looking>>

(* run: a frame is drawn                                                   *)
RenderDraws ==
    /\ RenderIsAtLocal("run") /\ ~m_destruction_started
    /\ lead > 0
    /\ lead' = lead - 1
    /\ UNCHANGED <<rpcVars, step, at, worlds, m_destruction_started, m_app_active,
                   s_resource_callbacks_dispatched, manager>>

(* engine_world::exit, called by the window, the game or the editor        *)
Exit == m_destruction_started' = TRUE

(* the window of the game is closed                                        *)
RenderQuits ==
    /\ RenderIsAtLocal("run") /\ ~m_destruction_started
    /\ ~Editor
    /\ Exit
    /\ UNCHANGED <<rpcVars, step, at, worlds, lead, m_app_active,
                   s_resource_callbacks_dispatched, manager>>

(* run is left; by now any thread may wait for resources it has asked for  *)
RenderLeavesRun ==
    /\ RenderIsAtLocal("run") /\ m_destruction_started
    /\ queries' \in SUBSET Asking
    /\ NextStep
    /\ UNCHANGED <<rpcVars, at, worlds, lead, m_destruction_started, m_app_active,
                   s_resource_callbacks_dispatched, delayed, deletions, looking, delays>>

(* s_resource_callbacks_dispatched = false, = true                         *)
RenderSetsDispatched ==
    /\ RenderIsAtLocal("dispatching") \/ RenderIsAtLocal("dispatched")
    /\ s_resource_callbacks_dispatched' = (script[step].fn = "dispatched")
    /\ NextStep
    /\ UNCHANGED <<rpcVars, at, worlds, lead, m_destruction_started, m_app_active,
                   manager>>

(* wait_and_dispatch_callbacks dispatches until the thread can exit.       *)
RenderDispatches ==
    RenderIsAtLocal("wait_and_dispatch_callbacks") /\ Dispatches("render")

RenderLooks ==
    RenderIsAtLocal("wait_and_dispatch_callbacks") /\ Looks("render")

RenderHasDispatched ==
    /\ RenderIsAtLocal("wait_and_dispatch_callbacks")
    /\ thread_can_exit("render")
    /\ looking' = looking \ {"render"}
    /\ NextStep
    /\ UNCHANGED <<rpcVars, at, worlds, lead, m_destruction_started, m_app_active,
                   s_resource_callbacks_dispatched, queries, delayed, deletions, delays>>

-----------------------------------------------------------------------------
(* The other threads *)

Goes(t, from, to) == at[t] = from /\ at' = [at EXCEPT ![t] = to]

(* Mutation: the sound thread does not serve a call before its loop.       *)
InitializeModules_NoFirstProcess(t) ==
    /\ Goes(t, "init", IF t = "editor" THEN "first" ELSE "ahead")
    /\ worlds' = worlds \cup ({t} \ {"editor"})
    /\ UNCHANGED <<rpcVars, step, lead, m_destruction_started, m_app_active,
                   s_resource_callbacks_dispatched, manager>>

(* Mutation: a thread initializes its slot when it takes it over.          *)
InitializeModules_ResetsSlot(t) ==
    /\ Goes(t, "init", IF t \in {"sound", "editor"} THEN "first" ELSE "ahead")
    /\ worlds' = worlds \cup ({t} \ {"editor"})
    /\ m_pending' = [m_pending EXCEPT ![t] = FALSE]
    /\ UNCHANGED <<m_callback, m_break_parameters, calling, serving, executed, step,
                   lead, m_destruction_started, m_app_active,
                   s_resource_callbacks_dispatched, manager>>

(* initialize_logic_modules, initialize_network_modules,                   *)
(* initialize_sound_modules; the editor's world comes by a call.           *)
InitializeModules(t) ==
    /\ Goes(t, "init", IF t \in {"sound", "editor"} THEN "first" ELSE "ahead")
    /\ worlds' = worlds \cup ({t} \ {"editor"})
    /\ UNCHANGED <<rpcVars, step, lead, m_destruction_started, m_app_active,
                   s_resource_callbacks_dispatched, manager>>

(* rpc::process: the first one of sound and editor, the second one of the  *)
(* editor, the last one of each thread                                     *)
EntersProcess(t) ==
    at[t] \in {"first", "second", "last"} /\ ProcessStarts(t) /\ UNCHANGED engine

AfterProcess(t) ==
    CASE at[t] = "last" -> "done"
      [] at[t] = "second" -> "run"
      [] at[t] = "first" -> IF t = "editor" THEN "second" ELSE "ahead"

Decides(t) ==
    /\ ProcessDecides(t)
    /\ at' = IF serving'[t] = Away THEN [at EXCEPT ![t] = AfterProcess(t)] ELSE at
    /\ UNCHANGED <<step, worlds, lead, m_destruction_started, m_app_active,
                   s_resource_callbacks_dispatched, manager>>

Takes(t) == ProcessTakes(t) /\ UNCHANGED engine

(* thread_dispatch_callbacks and finalize_thread_usage end when they may,  *)
(* every other function at once.                                           *)
MayEnd(t, fn) ==
    CASE fn = "thread_dispatch_callbacks" -> s_resource_callbacks_dispatched
      [] fn = "finalize_thread_usage" -> thread_can_exit(t)
      [] OTHER -> TRUE

ExecutesCall(t) ==
    /\ Executes(t)
    /\ MayEnd(t, m_callback[t].fn)
    /\ Perform(t, m_callback[t].fn)
    /\ looking' = looking \ {t}
    /\ UNCHANGED <<step, at, lead, m_destruction_started,
                   s_resource_callbacks_dispatched>>

DispatchesInCall(t) ==
    /\ serving[t].at = "execute"
    /\ m_callback[t].fn \in {"thread_dispatch_callbacks", "finalize_thread_usage"}
    /\ Dispatches(t)

LooksInCall(t) ==
    /\ serving[t].at = "execute" /\ m_callback[t].fn = "finalize_thread_usage"
    /\ Looks(t)

AnswersCall(t) == Answers(t) /\ UNCHANGED engine

-----------------------------------------------------------------------------
(* The loops of the logic, network and sound threads *)

(* logic_tick counts a frame unless the game is enabled (it is without an  *)
(* editor) and not active.  The ticks of network and sound are disabled.   *)
Tick(t) ==
    /\ Goes(t, "tick", "ahead")
    /\ lead' = IF (Editor \/ m_app_active) THEN lead + 1 ELSE lead
    /\ UNCHANGED <<rpcVars, step, worlds, m_destruction_started, m_app_active,
                   s_resource_callbacks_dispatched, manager>>

(* the game quits *)
GameQuits ==
    /\ ~Editor /\ at["logic"] = "tick" /\ m_app_active
    /\ ~m_destruction_started
    /\ Exit
    /\ UNCHANGED <<rpcVars, step, at, worlds, lead, m_app_active,
                   s_resource_callbacks_dispatched, manager>>

(* Mutation: the logic does not wait for the render thread.                *)
LoopsOn_NotThrottled(t) ==
    /\ serving[t] = Away
    /\ \/ m_destruction_started /\ Goes(t, "ahead", "last")
       \/ ~m_destruction_started /\ lead >= 2 /\ Goes(t, "ahead", "try")
       \/ ~m_destruction_started /\ lead < MaxLead /\ t = "logic" /\ Goes(t, "ahead", "tick")
    /\ UNCHANGED <<rpcVars, step, worlds, lead, m_destruction_started, m_app_active,
                   s_resource_callbacks_dispatched, manager>>

(* The conditions of the two loops: a thread leaves them when the engine   *)
(* stops, tries to serve a call while the logic is ahead, and ticks        *)
(* otherwise; there is nothing in a round of network and sound then.       *)
LoopsOn(t) ==
    /\ serving[t] = Away
    /\ \/ m_destruction_started /\ Goes(t, "ahead", "last")
       \/ ~m_destruction_started /\ lead >= 2 /\ Goes(t, "ahead", "try")
       \/ ~m_destruction_started /\ lead < 2 /\ t = "logic" /\ Goes(t, "ahead", "tick")
    /\ UNCHANGED <<rpcVars, step, worlds, lead, m_destruction_started, m_app_active,
                   s_resource_callbacks_dispatched, manager>>

(* try_process_single_call *)
TriesCall(t) ==
    /\ Goes(t, "try", "ahead")
    /\ TryTakes(t) \/ (~m_pending[t] /\ UNCHANGED rpcVars)
    /\ UNCHANGED <<step, worlds, lead, m_destruction_started, m_app_active,
                   s_resource_callbacks_dispatched, manager>>

(* m_editor->run returns when the engine stops or the user closes it.      *)
EditorCloses ==
    /\ "editor" \in Spawned
    /\ Goes("editor", "run", "last")
    /\ Exit
    /\ UNCHANGED <<rpcVars, step, worlds, lead, m_app_active,
                   s_resource_callbacks_dispatched, manager>>

-----------------------------------------------------------------------------
Render == \/ RenderCalls \/ RenderProceeds \/ RenderCallsInPlace \/ RenderWaits
          \/ RenderSpawns \/ RenderPerforms \/ RenderDraws \/ RenderLeavesRun
          \/ RenderSetsDispatched \/ RenderDispatches \/ RenderLooks
          \/ RenderHasDispatched

Runs(t) == \/ InitializeModules(t) \/ EntersProcess(t) \/ Takes(t) \/ ExecutesCall(t)
           \/ DispatchesInCall(t) \/ LooksInCall(t) \/ AnswersCall(t) \/ Decides(t)
           \/ Tick(t) \/ LoopsOn(t) \/ TriesCall(t)

Quits == RenderQuits \/ GameQuits \/ EditorCloses

(* The engine has stopped: a thread that is done stays done.               *)
Stopped == step = End /\ UNCHANGED vars

EngineNext == Render \/ (\E t \in Spawned : Runs(t)) \/ HandsOver \/ Quits \/ Stopped

EngineSpec == EngineInit /\ [][EngineNext]_vars

(* Every thread is scheduled; nobody has to quit.                          *)
FairEngineSpec == /\ EngineSpec
                  /\ WF_vars(Render)
                  /\ WF_vars(HandsOver)
                  /\ \A t \in Spawned : WF_vars(Runs(t))

-----------------------------------------------------------------------------
(* Properties *)

EngineTypeOK ==
    /\ RpcTypeOK
    /\ step \in 1..End
    /\ at \in [Spawned -> {"unborn", "init", "first", "second", "tick", "ahead",
                           "try", "run", "last", "done"}]
    /\ worlds \subseteq {"core", "render", "logic", "network", "sound", "editor"}
    /\ lead \in 0..2    (* the logic is never more than one frame ahead of the next *)
    /\ {m_destruction_started, m_app_active, s_resource_callbacks_dispatched}
          \subseteq BOOLEAN
    /\ queries \subseteq Asking /\ delayed \subseteq Asking /\ deletions \subseteq Asking
    /\ looking \subseteq Spawned \cup {"render"}
    /\ delays \in 0..MaxDelays

(* A world lives as long as somebody uses it: whatever a thread executes   *)
(* for another one, does in its loop, or creates its modules from, is      *)
(* there.                                                                  *)
Uses(t) ==
    (IF serving[t].at = "execute" THEN Needs(m_callback[t].fn) ELSE {})
    \cup (IF at[t] \in {"tick", "ahead", "try", "run"} THEN TickNeeds(t) ELSE {})
    \cup (IF at[t] = "init" /\ t = "logic" THEN Needs("initialize_logic_modules") ELSE {})

RenderUses ==
    IF calling["render"] = Idle /\ step # End
    THEN IF script[step].do = "local" THEN Needs(script[step].fn)
         ELSE IF script[step].do = "call" /\ InPlace(script[step])
                 /\ ~script[step].remote_only /\ IsMade(script[step])
              THEN Needs(script[step].fn) ELSE {}
    ELSE {}

WorldsOutliveTheirUsers ==
    RenderUses \subseteq worlds /\ \A t \in Spawned : Uses(t) \subseteq worlds

(* The empty calls of the destructor are there "for synchronization        *)
(* purposes": when resources are cleared no thread is in a tick, nor will  *)
(* it serve a call before it is in its last rpc::process.                  *)
Clearing == Len(initialize \o Local("run") \o barrier) < step
NobodyTicksDuringClearing ==
    Clearing => \A t \in Spawned : at[t] \notin {"tick", "try", "run"}

(* The core is finalized when nothing is left for the render thread: all   *)
(* other worlds are destroyed, every query of any thread is dispatched, and*)
(* the resources it has allocated, but that lived in other threads, are    *)
(* deleted, whoever dropped them, however late.  No query waits for a      *)
(* thread that has left.  Deletions may: those of the other threads stay   *)
(* behind when they are left to a thread that has gone, or handed over to  *)
(* one that has looked at its own lists already.                           *)
NothingIsLeftBehind ==
    /\ step # End /\ script[step] = [do |-> "local", fn |-> "finalize_core"] =>
          worlds = {"core"} /\ queries = {} /\ "render" \notin delayed \cup deletions
    /\ \A t \in Spawned : at[t] = "done" => t \notin queries

(* The render thread waits until the call of t is answered.                *)
RenderWaitsFor(t) ==
    /\ m_pending[t]
    /\ \/ calling["render"].at \in {"wait", "complete"} /\ calling["render"].to = t
       \/ RenderIsAt("wait") /\ script[step].to = t

(* The function that t executes comes to its end once the manager has      *)
(* handed over what it has.                                                *)
WillEnd(t) == CASE m_callback[t].fn = "thread_dispatch_callbacks" -> s_resource_callbacks_dispatched
                [] m_callback[t].fn = "finalize_thread_usage" -> queries = {}
                [] OTHER -> TRUE

(* The thread has a step to take whatever the render thread does: it does  *)
(* not wait for a call, for the callbacks of another thread, or the user.  *)
GoesOn(t) ==
    \/ at[t] = "init"
    \/ at[t] \in {"first", "second", "last"} /\ serving[t] = Away
    \/ at[t] \in {"tick", "try"}
    \/ /\ at[t] = "ahead" /\ serving[t] = Away
       /\ m_destruction_started \/ lead >= 2 \/ t = "logic"
    \/ serving[t].at = "process" /\ m_pending[t]
    \/ serving[t].at = "execute" /\ (WillEnd(t) \/ t \in queries \cup deletions)
    \/ serving[t].at \in {"answer", "decide"}

(* The engine does not deadlock while it starts, runs and stops: whoever   *)
(* the render thread waits for goes on without it.                         *)
TheAwaitedGoOn ==
    /\ \A t \in Spawned : RenderWaitsFor(t) => GoesOn(t)
    /\ RenderIsAtLocal("wait_and_dispatch_callbacks") =>
          \A t \in queries \ {"render"} : GoesOn(t)
    /\ RenderIsAtLocal("run") /\ ~m_destruction_started /\ lead = 0 => GoesOn("logic")

(* While it starts and stops, the engine uses the slots as Rpc does with   *)
(* one caller, so that what is proved of Rpc holds of it.                  *)
RpcDiscipline == Spec

(* The engine starts: the render thread gets through initialize.           *)
EngineStarts == <>(step > Len(initialize))

(* The engine stops: when somebody has called exit, all threads end.       *)
EngineStops ==
    m_destruction_started ~> (step = End /\ \A t \in Spawned : at[t] = "done")
=============================================================================
