------------------------- MODULE EngineThreadsProofs -------------------------
(***************************************************************************)
(* The engine starts and stops in an order that holds for the game and the *)
(* editor alike: it uses the slots of Rpc as Rpc says, and the barrier of  *)
(* the destructor keeps the ticks out of what comes after it.  What the    *)
(* script says is taken from its parts: which threads each part spawns,    *)
(* and where the statements of the barrier are.                            *)
(***************************************************************************)
EXTENDS EngineThreads, RpcProofs, SequenceTheorems

Place == {"logic", "network", "sound", "editor"}

Function ==
    {"initialize_core", "try_load_editor", "create_device", "create_render", "empty",
     "draw_frame", "initialize_editor_thread_ids", "show_window", "enable", "run",
     "logic_clear_resources", "network_clear_resources", "sound_clear_resources",
     "editor_clear_resources", "render_clear_resources", "purge_orders",
     "delete_processed_orders", "dispatching", "thread_dispatch_callbacks",
     "wait_and_dispatch_callbacks", "dispatched", "finalize_logic_modules",
     "destroy_network", "destroy_sound", "finalize_thread_usage", "unload_editor",
     "destroy_device", "destroy_render", "finalize_core"}

Statement ==
    [do : {"call"}, to : Place, fn : Function, break : BOOLEAN, wait : BOOLEAN,
     remote_only : BOOLEAN]
    \cup [do : {"wait", "spawn"}, to : Place]
    \cup [do : {"local"}, fn : Function]

-----------------------------------------------------------------------------
(* The script *)

Spawns(x, t) == x.do = "spawn" /\ x.to = t

(* A part of the script that spawns the threads of T, and each once.       *)
Part(s, T) ==
    /\ s \in Seq(Statement)
    /\ \A i \in 1..Len(s), t \in Place : Spawns(s[i], t) => t \in T
    /\ \A i, j \in 1..Len(s), t \in Place : Spawns(s[i], t) /\ Spawns(s[j], t) => i = j

LEMMA Concat ==
    ASSUME NEW S, NEW r \in Seq(S), NEW s \in Seq(S)
    PROVE  /\ r \o s \in Seq(S)
           /\ Len(r) \in Nat /\ Len(s) \in Nat
           /\ Len(r \o s) = Len(r) + Len(s)
           /\ \A i \in 1..Len(r) : (r \o s)[i] = r[i]
           /\ \A i \in 1..Len(s) : (r \o s)[Len(r) + i] = s[i]
           /\ \A i \in 1..Len(r \o s) :
                \/ i \in 1..Len(r)
                \/ i - Len(r) \in 1..Len(s) /\ (r \o s)[i] = s[i - Len(r)]
<1>1. /\ r \o s \in Seq(S)
      /\ Len(r) \in Nat /\ Len(s) \in Nat
      /\ Len(r \o s) = Len(r) + Len(s)
  OBVIOUS
<1>2. \A i \in 1..Len(r) : (r \o s)[i] = r[i]
  OBVIOUS
<1>3. \A i \in 1..Len(r) + Len(s) : i > Len(r) => (r \o s)[i] = s[i - Len(r)]
  OBVIOUS
<1> QED BY <1>1, <1>2, <1>3

LEMMA PartsJoin ==
    ASSUME NEW r, NEW s, NEW T, NEW U, Part(r, T), Part(s, U), T \cap U = {}
    PROVE  Part(r \o s, T \cup U)
<1>1. /\ r \o s \in Seq(Statement)
      /\ Len(r) \in Nat /\ Len(s) \in Nat /\ Len(r \o s) = Len(r) + Len(s)
      /\ \A i \in 1..Len(r) : (r \o s)[i] = r[i]
      /\ \A i \in 1..Len(r \o s) :
           \/ i \in 1..Len(r)
           \/ i - Len(r) \in 1..Len(s) /\ (r \o s)[i] = s[i - Len(r)]
  BY Concat DEF Part
<1>2. ASSUME NEW i \in 1..Len(r \o s), NEW t \in Place, Spawns((r \o s)[i], t)
      PROVE  \/ i \in 1..Len(r) /\ Spawns(r[i], t) /\ t \in T
             \/ i - Len(r) \in 1..Len(s) /\ Spawns(s[i - Len(r)], t) /\ t \in U
  BY <1>1, <1>2 DEF Part
<1>3. ASSUME NEW i \in 1..Len(r \o s), NEW j \in 1..Len(r \o s), NEW t \in Place,
             Spawns((r \o s)[i], t), Spawns((r \o s)[j], t)
      PROVE  i = j
  <2>1. CASE t \in T
    BY <1>2, <1>3, <2>1 DEF Part
  <2>2. CASE t \notin T
    <3>1. i - Len(r) = j - Len(r)
      BY <1>2, <1>3, <2>2 DEF Part
    <3> QED BY <1>1, <3>1
  <2> QED BY <2>1, <2>2
<1> QED BY <1>1, <1>2, <1>3 DEF Part

LEMMA PartOfOne ==
    ASSUME NEW x \in Statement
    PROVE  /\ x.do # "spawn" => Part(<< x >>, {})
           /\ \A t \in Place : Spawns(x, t) => Part(<< x >>, {t})
<1>1. << x >> \in Seq(Statement) /\ Len(<< x >>) = 1 /\ << x >>[1] = x
  OBVIOUS
<1>2. \A i \in 1..Len(<< x >>) : i = 1
  BY <1>1
<1>3. x.do # "spawn" => Part(<< x >>, {})
  BY <1>1, <1>2 DEF Part, Spawns
<1>4. ASSUME NEW t \in Place, Spawns(x, t) PROVE Part(<< x >>, {t})
  BY <1>1, <1>2, <1>4 DEF Part, Spawns
<1> QED BY <1>3, <1>4

LEMMA NoPart == Part(<< >>, {})
<1>1. << >> \in Seq(Statement) /\ Len(<< >>) = 0
  OBVIOUS
<1>2. 1..Len(<< >>) = {}
  BY <1>1
<1> QED BY <1>1, <1>2 DEF Part

(* The statements, one by one.                                             *)
LEMMA Calling1 ==
    ASSUME NEW to \in Place, NEW fn \in Function, NEW b \in BOOLEAN, NEW w \in BOOLEAN
    PROVE  Part(Run(to, fn, b, w), {}) /\ Part(RunRemoteOnly(to, fn, b, w), {})
<1>1. ASSUME NEW r \in BOOLEAN
      PROVE  Part(<< [do |-> "call", to |-> to, fn |-> fn, break |-> b, wait |-> w,
                      remote_only |-> r] >>, {})
  <2>1. [do |-> "call", to |-> to, fn |-> fn, break |-> b, wait |-> w,
         remote_only |-> r] \in Statement
    BY DEF Statement
  <2> QED BY <2>1, PartOfOne
<1> QED BY <1>1 DEF Run, RunRemoteOnly

LEMMA Others ==
    ASSUME NEW to \in Place, NEW fn \in Function
    PROVE  Part(Wait(to), {}) /\ Part(Local(fn), {}) /\ Part(Spawn(to), {to})
<1>1. /\ [do |-> "wait", to |-> to] \in Statement
      /\ [do |-> "spawn", to |-> to] \in Statement
      /\ [do |-> "local", fn |-> fn] \in Statement
  BY DEF Statement
<1> QED BY <1>1, PartOfOne DEF Wait, Local, Spawn, Spawns

LEMMA Conditional ==
    ASSUME NEW b \in BOOLEAN, NEW s, NEW T, Part(s, T)
    PROVE  Part(If(b, s), T)
<1>1. CASE b
  BY <1>1 DEF If
<1>2. CASE ~b
  BY <1>2, NoPart DEF If, Part
<1> QED BY <1>1, <1>2

LEMMA JoinQuiet ==
    ASSUME NEW r, NEW s, NEW T, Part(r, T), Part(s, {})
    PROVE  Part(r \o s, T)
<1>1. Part(r \o s, T \cup {})
  BY PartsJoin
<1> QED BY <1>1

(* initialize spawns every thread once; nothing else spawns any.           *)
LEMMA PartsOfInitialize == Part(initialize, Place)
<1> USE DEF continue_process_loop, dont_wait_for_completion, break_process_loop,
            wait_for_completion
<1>0. /\ {"logic", "network", "sound", "editor"} = Place /\ Editor \in BOOLEAN
      /\ {"initialize_core", "try_load_editor", "create_device", "create_render",
          "empty", "draw_frame", "initialize_editor_thread_ids", "show_window",
          "enable"} \subseteq Function
  BY EngineThreadsAssumption DEF Place, Function
<1> DEFINE p1 == Local("initialize_core")
           p2 == If(Editor, Spawn("editor")
                    \o Run("editor", "try_load_editor",
                           break_process_loop, dont_wait_for_completion))
           p3 == Wait("editor")
           p4 == Run("editor", "create_device", continue_process_loop, wait_for_completion)
           p5 == Local("create_render")
           p6 == Spawn("network")
           p7 == Spawn("sound")
           p8 == Run("sound", "empty", break_process_loop, wait_for_completion)
           p9 == initialize_logic
           p10 == Wait("editor")
           p11 == Wait("logic")
           p12 == If(Editor, Run("editor", "initialize_editor_thread_ids",
                                 continue_process_loop, wait_for_completion))
           p13 == Run("editor", "show_window", break_process_loop, wait_for_completion)
           p14 == Run("logic", "enable", continue_process_loop, wait_for_completion)
<1>1. /\ Part(p1, {}) /\ Part(p3, {}) /\ Part(p5, {})
      /\ Part(p6, {"network"}) /\ Part(p7, {"sound"}) /\ Part(p10, {}) /\ Part(p11, {})
  BY <1>0, Others
<1>2. Part(p4, {}) /\ Part(p8, {}) /\ Part(p13, {}) /\ Part(p14, {})
  BY <1>0, Calling1
<1>3. Part(p2, {"editor"})
  <2>1. /\ Part(Spawn("editor"), {"editor"})
        /\ Part(Run("editor", "try_load_editor", break_process_loop,
                    dont_wait_for_completion), {})
    BY <1>0, Others, Calling1
  <2> HIDE DEF break_process_loop, dont_wait_for_completion
  <2>2. Part(Spawn("editor") \o Run("editor", "try_load_editor", break_process_loop,
                                    dont_wait_for_completion), {"editor"})
    BY <2>1, JoinQuiet
  <2> QED BY <1>0, <2>2, Conditional
<1>4. Part(p9, {"logic"})
  <2>1. Part(Local("draw_frame"), {}) /\ Part(Spawn("logic"), {"logic"})
    BY <1>0, Others
  <2>2. Part(Local("draw_frame") \o Spawn("logic"), {} \cup {"logic"})
    BY <2>1, PartsJoin
  <2> QED BY <2>2 DEF initialize_logic
<1>5. Part(p12, {})
  BY <1>0, Calling1, Conditional
<1>6. initialize = p1 \o p2 \o p3 \o p4 \o p5 \o p6 \o p7 \o p8 \o p9 \o p10 \o p11
                   \o p12 \o p13 \o p14
  BY DEF initialize
<1> HIDE DEF p1, p2, p3, p4, p5, p6, p7, p8, p9, p10, p11, p12, p13, p14
<1>7. Part(p1 \o p2, {"editor"})
  <2>1. Part(p1 \o p2, {} \cup {"editor"})
    BY <1>1, <1>3, PartsJoin
  <2> QED BY <2>1
<1>8. Part(p1 \o p2 \o p3 \o p4 \o p5, {"editor"})
  BY <1>1, <1>2, <1>7, JoinQuiet
<1>9. Part(p1 \o p2 \o p3 \o p4 \o p5 \o p6, {"editor"} \cup {"network"})
  BY <1>1, <1>8, PartsJoin
<1>10. Part(p1 \o p2 \o p3 \o p4 \o p5 \o p6 \o p7, {"editor"} \cup {"network"} \cup {"sound"})
  BY <1>1, <1>9, PartsJoin
<1>11. Part(p1 \o p2 \o p3 \o p4 \o p5 \o p6 \o p7 \o p8,
            {"editor"} \cup {"network"} \cup {"sound"})
  BY <1>2, <1>10, JoinQuiet
<1>12. Part(p1 \o p2 \o p3 \o p4 \o p5 \o p6 \o p7 \o p8 \o p9,
            {"editor"} \cup {"network"} \cup {"sound"} \cup {"logic"})
  BY <1>4, <1>11, PartsJoin
<1>13. Part(p1 \o p2 \o p3 \o p4 \o p5 \o p6 \o p7 \o p8 \o p9,  Place)
  BY <1>12 DEF Place
<1>14. Part(p1 \o p2 \o p3 \o p4 \o p5 \o p6 \o p7 \o p8 \o p9 \o p10 \o p11, Place)
  BY <1>1, <1>13, JoinQuiet
<1> QED BY <1>2, <1>5, <1>6, <1>14, JoinQuiet

LEMMA RoundsOfCalls ==
    /\ Part(WaitAll, {})
    /\ \A l, n, d \in Function : Part(OnAll([logic |-> l, network |-> n, sound |-> d]), {})
    /\ \A t \in Place, fn \in Function : Part(Finalize(t, fn), {}) /\ Part(DispatchOn(t), {})
<1> USE DEF continue_process_loop, dont_wait_for_completion, break_process_loop
<1>0. {"logic", "network", "sound", "editor"} = Place
      /\ {"finalize_thread_usage", "thread_dispatch_callbacks"} \subseteq Function
  BY DEF Place, Function
<1>1. Part(WaitAll, {})
  <2>1. \A t \in Place : Part(Wait(t), {})
    BY Others DEF Function
  <2> QED BY <1>0, <2>1, JoinQuiet DEF WaitAll
<1>2. \A t \in Place, fn \in Function :
        /\ Part(Run(t, fn, FALSE, FALSE), {})
        /\ Part(RunRemoteOnly(t, fn, FALSE, FALSE), {})
        /\ Part(RunRemoteOnly(t, fn, TRUE, FALSE), {})
  BY Calling1
<1>3. \A l, n, d \in Function : Part(OnAll([logic |-> l, network |-> n, sound |-> d]), {})
  BY <1>0, <1>2, JoinQuiet DEF OnAll
<1>4. \A t \in Place, fn \in Function : Part(Finalize(t, fn), {}) /\ Part(DispatchOn(t), {})
  BY <1>0, <1>2, JoinQuiet DEF Finalize, DispatchOn
<1> QED BY <1>1, <1>3, <1>4

LEMMA PartsOfStop ==
    /\ Part(barrier, {}) /\ Part(clear_resources, {})
    /\ Part(dispatch_callbacks, {}) /\ Part(finalize, {})
<1> USE DEF continue_process_loop, dont_wait_for_completion, break_process_loop,
            wait_for_completion
<1>0. /\ {"logic", "network", "sound", "editor"} = Place /\ Editor \in BOOLEAN
      /\ {"empty", "run", "logic_clear_resources", "network_clear_resources",
          "sound_clear_resources", "editor_clear_resources", "render_clear_resources",
          "purge_orders", "delete_processed_orders", "dispatching",
          "wait_and_dispatch_callbacks", "dispatched", "finalize_logic_modules",
          "destroy_network", "destroy_sound", "finalize_thread_usage", "unload_editor",
          "destroy_device", "destroy_render", "finalize_core"} \subseteq Function
  BY EngineThreadsAssumption DEF Place, Function
<1>1. /\ \A t \in Place, fn \in Function : \A b, w \in BOOLEAN :
            Part(Run(t, fn, b, w), {}) /\ Part(RunRemoteOnly(t, fn, b, w), {})
      /\ \A fn \in Function : Part(Local(fn), {})
  BY Calling1, Others DEF Place
<1>2. Part(WaitAll, {})
  BY RoundsOfCalls
<1>3. Part(barrier, {})
  <2>1. Part(OnAll([logic |-> "empty", network |-> "empty", sound |-> "empty"]), {})
    BY <1>0, RoundsOfCalls
  <2> QED BY <1>0, <1>1, <1>2, <2>1, JoinQuiet DEF barrier
<1>4. Part(clear_resources, {})
  <2>1. Part(OnAll([logic |-> "logic_clear_resources", network |-> "network_clear_resources",
                    sound |-> "sound_clear_resources"]), {})
    BY <1>0, RoundsOfCalls
  <2>2. \A fn \in Function : Part(If(Editor, Run("editor", fn, FALSE, FALSE)), {})
    BY <1>0, <1>1, Conditional
  <2>3. Part(OnAll([logic |-> "logic_clear_resources", network |-> "network_clear_resources",
                    sound |-> "sound_clear_resources"])
             \o If(Editor, Run("editor", "editor_clear_resources", FALSE, FALSE))
             \o Local("render_clear_resources") \o WaitAll \o Local("purge_orders"), {})
    BY <1>0, <1>1, <1>2, <2>1, <2>2, JoinQuiet
  <2> QED BY <1>0, <1>1, <2>2, <2>3, JoinQuiet DEF clear_resources
<1>5. Part(dispatch_callbacks, {})
  <2>1. \A t \in Place : Part(DispatchOn(t), {})
    BY <1>0, RoundsOfCalls
  <2> QED BY <1>0, <1>1, <1>2, <2>1, JoinQuiet DEF dispatch_callbacks
<1>6. Part(finalize, {})
  <2>1. \A t \in Place, fn \in Function : Part(Finalize(t, fn), {})
    BY <1>0, RoundsOfCalls
  <2>2. Part(If(Editor, Run("editor", "unload_editor", FALSE, FALSE)
                        \o RunRemoteOnly("editor", "finalize_thread_usage", FALSE, TRUE)), {})
    BY <1>0, <1>1, Conditional, JoinQuiet
  <2>3. Part(Finalize("logic", "finalize_logic_modules") \o Finalize("network", "destroy_network")
             \o Finalize("sound", "destroy_sound")
             \o If(Editor, Run("editor", "unload_editor", FALSE, FALSE)
                           \o RunRemoteOnly("editor", "finalize_thread_usage", FALSE, TRUE))
             \o WaitAll \o Local("wait_and_dispatch_callbacks"), {})
    BY <1>0, <1>1, <1>2, <2>1, <2>2, JoinQuiet
  <2> QED BY <1>0, <1>1, <2>3, JoinQuiet DEF finalize
<1> QED BY <1>3, <1>4, <1>5, <1>6

LEMMA PartsOfScript == Part(script, Place)
<1>1. Part(Local("run"), {})
  BY Others DEF Place, Function
<1> QED BY <1>1, PartsOfInitialize, PartsOfStop, JoinQuiet DEF script

(* A thread is spawned once.                                               *)
LEMMA SpawnedOnce ==
    /\ script \in Seq(Statement) /\ Len(script) \in Nat
    /\ \A i, j \in 1..Len(script), t \in Place :
          Spawns(script[i], t) /\ Spawns(script[j], t) => i = j
BY PartsOfScript DEF Part

-----------------------------------------------------------------------------
(* Where the statements of the barrier are: after run, each thread is      *)
(* called, and then each is waited for.                                    *)

run_at == Len(initialize) + 1
pos == [logic |-> 1, network |-> 2, sound |-> 3, editor |-> 4]

EmptyCall(t) == [do |-> "call", to |-> t, fn |-> "empty", break |-> FALSE, wait |-> FALSE,
                 remote_only |-> FALSE]

LEMMA FourInARow ==
    ASSUME NEW S, NEW a \in S, NEW b \in S, NEW c \in S, NEW d \in S
    PROVE  LET s == << a >> \o << b >> \o << c >> \o << d >> IN
           s \in Seq(S) /\ Len(s) = 4 /\ s[1] = a /\ s[2] = b /\ s[3] = c /\ s[4] = d
OBVIOUS

LEMMA BarrierAlone ==
    /\ barrier \in Seq(Statement) /\ Len(barrier) = 8
    /\ \A t \in Place : barrier[pos[t]] = EmptyCall(t) /\ barrier[4 + pos[t]] = [do |-> "wait", to |-> t]
<1>1. \A t \in Place : EmptyCall(t) \in Statement /\ [do |-> "wait", to |-> t] \in Statement
  BY DEF EmptyCall, Statement, Function
<1> DEFINE calls == << EmptyCall("logic") >> \o << EmptyCall("network") >>
                    \o << EmptyCall("sound") >> \o << EmptyCall("editor") >>
<1>2. barrier = calls \o WaitAll
  BY DEF barrier, OnAll, Run, EmptyCall, continue_process_loop, dont_wait_for_completion
<1>3. /\ EmptyCall("logic") \in Statement /\ EmptyCall("network") \in Statement
      /\ EmptyCall("sound") \in Statement /\ EmptyCall("editor") \in Statement
  BY <1>1 DEF Place
<1>4. /\ calls \in Seq(Statement) /\ Len(calls) = 4
      /\ calls[1] = EmptyCall("logic") /\ calls[2] = EmptyCall("network")
      /\ calls[3] = EmptyCall("sound") /\ calls[4] = EmptyCall("editor")
  BY <1>3, FourInARow
<1>5. /\ WaitAll \in Seq(Statement) /\ Len(WaitAll) = 4
      /\ WaitAll[1] = [do |-> "wait", to |-> "logic"]
      /\ WaitAll[2] = [do |-> "wait", to |-> "network"]
      /\ WaitAll[3] = [do |-> "wait", to |-> "sound"]
      /\ WaitAll[4] = [do |-> "wait", to |-> "editor"]
  BY <1>1, FourInARow DEF WaitAll, Wait, Place
<1> HIDE DEF calls
<1>6. /\ barrier \in Seq(Statement) /\ Len(barrier) = 8
      /\ \A i \in 1..4 : barrier[i] = calls[i] /\ barrier[4 + i] = WaitAll[i]
  <2>1. /\ barrier \in Seq(Statement) /\ Len(barrier) = Len(calls) + Len(WaitAll)
        /\ \A i \in 1..Len(calls) : barrier[i] = calls[i]
        /\ \A i \in 1..Len(WaitAll) : barrier[Len(calls) + i] = WaitAll[i]
    <3>1. calls \in Seq(Statement) /\ WaitAll \in Seq(Statement)
      BY <1>4, <1>5
    <3> QED BY <1>2, <3>1, Concat
  <2> QED BY <1>4, <1>5, <2>1
<1>7. \A t \in Place : pos[t] \in 1..4 /\ calls[pos[t]] = EmptyCall(t)
                      /\ WaitAll[pos[t]] = [do |-> "wait", to |-> t]
  BY <1>4, <1>5 DEF Place, pos
<1> QED BY <1>6, <1>7

LEMMA BarrierInScript ==
    /\ run_at \in Nat \ {0} /\ Len(script) \in Nat /\ run_at + 8 <= Len(script)
    /\ Len(initialize \o Local("run") \o barrier) = run_at + 8
    /\ script[run_at] = [do |-> "local", fn |-> "run"]
    /\ \A t \in Place : /\ pos[t] \in 1..4
                        /\ script[run_at + pos[t]] = EmptyCall(t)
                        /\ script[run_at + 4 + pos[t]] = [do |-> "wait", to |-> t]
<1> DEFINE start == initialize \o Local("run")
           upto == start \o barrier
           rest1 == upto \o clear_resources
           rest2 == rest1 \o dispatch_callbacks
<1>1. /\ initialize \in Seq(Statement) /\ Local("run") \in Seq(Statement)
      /\ clear_resources \in Seq(Statement) /\ dispatch_callbacks \in Seq(Statement)
      /\ finalize \in Seq(Statement)
  BY PartsOfInitialize, PartsOfStop, Others DEF Part, Place, Function
<1>2. Len(Local("run")) = 1 /\ Local("run")[1] = [do |-> "local", fn |-> "run"]
  BY DEF Local
<1>3. /\ start \in Seq(Statement) /\ Len(start) = run_at /\ run_at \in Nat \ {0}
      /\ start[run_at] = [do |-> "local", fn |-> "run"]
  <2>1. /\ start \in Seq(Statement) /\ Len(initialize) \in Nat
        /\ Len(start) = Len(initialize) + Len(Local("run"))
        /\ \A i \in 1..Len(Local("run")) : start[Len(initialize) + i] = Local("run")[i]
    BY <1>1, Concat
  <2> HIDE DEF start
  <2> QED BY <1>2, <2>1 DEF run_at
<1> HIDE DEF start
<1>4. /\ upto \in Seq(Statement) /\ Len(upto) = run_at + 8
      /\ upto[run_at] = [do |-> "local", fn |-> "run"]
      /\ \A i \in 1..8 : upto[run_at + i] = barrier[i]
  <2>1. /\ upto \in Seq(Statement) /\ Len(upto) = Len(start) + Len(barrier)
        /\ \A i \in 1..Len(start) : upto[i] = start[i]
        /\ \A i \in 1..Len(barrier) : upto[Len(start) + i] = barrier[i]
    <3>1. start \in Seq(Statement) /\ barrier \in Seq(Statement)
      BY <1>3, BarrierAlone
    <3> QED BY <3>1, Concat
  <2> HIDE DEF upto
  <2> QED BY <1>3, <2>1, BarrierAlone
<1> HIDE DEF upto
<1>5. /\ rest1 \in Seq(Statement) /\ Len(rest1) >= run_at + 8
      /\ \A i \in 1..(run_at + 8) : rest1[i] = upto[i]
  <2>1. /\ rest1 \in Seq(Statement) /\ Len(rest1) = Len(upto) + Len(clear_resources)
        /\ Len(clear_resources) \in Nat /\ \A i \in 1..Len(upto) : rest1[i] = upto[i]
    <3>1. upto \in Seq(Statement) /\ clear_resources \in Seq(Statement)
      BY <1>1, <1>4
    <3> QED BY <3>1, Concat
  <2> HIDE DEF rest1
  <2> QED BY <1>3, <1>4, <2>1
<1> HIDE DEF rest1
<1>6. /\ rest2 \in Seq(Statement) /\ Len(rest2) >= run_at + 8
      /\ \A i \in 1..(run_at + 8) : rest2[i] = upto[i]
  <2>1. /\ rest2 \in Seq(Statement) /\ Len(rest2) = Len(rest1) + Len(dispatch_callbacks)
        /\ Len(dispatch_callbacks) \in Nat /\ \A i \in 1..Len(rest1) : rest2[i] = rest1[i]
    BY <1>1, <1>5, Concat
  <2> HIDE DEF rest2
  <2>2. Len(rest1) \in Nat
    BY <1>5
  <2> QED BY <1>3, <1>5, <2>1, <2>2
<1> HIDE DEF rest2
<1>7. script = rest2 \o finalize
  BY DEF script, rest2, rest1, upto, start
<1>8. /\ Len(script) \in Nat /\ run_at + 8 <= Len(script)
      /\ \A i \in 1..(run_at + 8) : script[i] = upto[i]
  BY <1>1, <1>3, <1>6, <1>7, Concat
<1>9. \A t \in Place : pos[t] \in 1..4
  BY DEF Place, pos
<1>10. ASSUME NEW t \in Place
       PROVE  /\ script[run_at + pos[t]] = EmptyCall(t)
              /\ script[run_at + 4 + pos[t]] = [do |-> "wait", to |-> t]
  <2>1. \A k \in 1..8 : script[run_at + k] = barrier[k]
    <3> TAKE k \in 1..8
    <3>2. run_at + k \in 1..(run_at + 8)
      BY <1>3
    <3> QED BY <1>4, <1>8, <3>2
  <2>2. PICK k \in 1..4 : k = pos[t]
    BY <1>9
  <2>3. script[run_at + k] = barrier[k] /\ script[run_at + (4 + k)] = barrier[4 + k]
    BY <2>1
  <2>4. run_at + (4 + k) = run_at + 4 + k
    BY <1>3
  <2> QED BY <2>2, <2>3, <2>4, BarrierAlone
<1>11. Len(initialize \o Local("run") \o barrier) = run_at + 8
  BY <1>4 DEF upto, start
<1> QED BY <1>3, <1>4, <1>8, <1>9, <1>10, <1>11

-----------------------------------------------------------------------------
(* The engine uses the slots as Rpc does.                                  *)

LEMMA SpawnedArePlaces == Spawned \subseteq Place
BY DEF Spawned, Place

LEMMA StatementCases ==
    ASSUME NEW x \in Statement
    PROVE  /\ x.do = "call" => /\ x.to \in Place /\ x.wait \in BOOLEAN
                               /\ x.remote_only \in BOOLEAN
           /\ x.do \in {"wait", "spawn"} => x.to \in Place
BY DEF Statement

LEMMA RenderStatement ==
    ASSUME step \in 1..End, NEW do, RenderIsAt(do)
    PROVE  /\ step \in 1..Len(script) /\ script[step] \in Statement
           /\ script[step].do = do /\ calling["render"] = Idle
<1>1. Len(script) \in Nat /\ script \in Seq(Statement)
  BY SpawnedOnce
<1>2. step # End /\ End = Len(script) + 1
  BY DEF RenderIsAt, End
<1>3. step \in 1..Len(script)
  BY <1>1, <1>2
<1> QED BY <1>1, <1>3 DEF RenderIsAt

LEMMA StepCounts ==
    ASSUME step \in 1..End, EngineNext
    PROVE  step' \in 1..End
<1>1. Len(script) \in Nat /\ End = Len(script) + 1
  BY SpawnedOnce DEF End
<1>2. step' = step \/ (step' = step + 1 /\ \E do : RenderIsAt(do))
  <2>1. CASE Render
    BY <2>1 DEF Render, RenderCalls, RenderProceeds, RenderCallsInPlace, RenderWaits,
                RenderSpawns, RenderPerforms, RenderDraws, RenderLeavesRun,
                RenderSetsDispatched, RenderDispatches, RenderLooks, RenderHasDispatched,
                RenderIsAtLocal, NextStep, Dispatches, Looks, engine, manager
  <2>2. CASE \E t \in Spawned : Runs(t)
    BY <2>2 DEF Runs, InitializeModules, EntersProcess, Takes, ExecutesCall,
                DispatchesInCall, LooksInCall, AnswersCall, Decides, Tick, LoopsOn, TriesCall,
                Dispatches, Looks, engine, manager
  <2>3. CASE Quits \/ Stopped \/ HandsOver
    BY <2>3 DEF Quits, RenderQuits, GameQuits, EditorCloses, Stopped, HandsOver, vars, engine
  <2> QED BY <2>1, <2>2, <2>3 DEF EngineNext
<1> QED BY <1>1, <1>2 DEF RenderIsAt

(* Every step of the engine is one of Rpc, or leaves the slots alone.      *)
LEMMA RenderKeepsDiscipline ==
    ASSUME ScriptAssumption, step \in 1..End, Render
    PROVE  RpcNext \/ UNCHANGED rpcVars
<1>1. CASE RenderCalls
  <2>1. /\ step \in 1..Len(script) /\ script[step] \in Statement
        /\ script[step].do = "call" /\ calling["render"] = Idle
    BY <1>1, RenderStatement DEF RenderCalls
  <2>2. /\ script[step].to \in Spawned /\ script[step].wait \in BOOLEAN
    BY <1>1, <2>1, StatementCases DEF RenderCalls, InPlace
  <2>3. /\ script[step].to \in Slot /\ "render" \in Caller[script[step].to]
        /\ [fn |-> script[step].fn, break |-> script[step].break] \in Call
        /\ "render" \in Thread
    BY <2>1, <2>2, SpawnedArePlaces DEF ScriptAssumption, Place
  <2>4. \/ RunStarts("render", script[step].to,
                     [fn |-> script[step].fn, break |-> script[step].break], script[step].wait)
        \/ UNCHANGED rpcVars
    BY <1>1 DEF RenderCalls
  <2>5. CASE RunStarts("render", script[step].to,
                     [fn |-> script[step].fn, break |-> script[step].break], script[step].wait)
    <3>1. Calls("render")
      BY <2>1, <2>2, <2>3, <2>5 DEF Calls
    <3> QED BY <2>3, <3>1 DEF RpcNext
  <2> QED BY <2>4, <2>5
<1>2. CASE RenderProceeds
  BY <1>2 DEF RenderProceeds, RpcNext, ScriptAssumption
<1>3. CASE ~RenderCalls /\ ~RenderProceeds
  BY <1>3 DEF Render, RenderCallsInPlace, RenderWaits, RenderSpawns, RenderPerforms,
              RenderDraws, RenderLeavesRun, RenderSetsDispatched, RenderDispatches,
              RenderLooks, RenderHasDispatched, Dispatches, Looks
<1> QED BY <1>1, <1>2, <1>3

LEMMA ThreadsKeepDiscipline ==
    ASSUME ScriptAssumption, NEW t \in Spawned, Runs(t)
    PROVE  RpcNext \/ UNCHANGED rpcVars
<1>1. t \in Slot
  BY SpawnedArePlaces DEF ScriptAssumption, Place
<1>2. CASE ProcessStarts(t) \/ Serves(t)
  BY <1>1, <1>2 DEF RpcNext
<1>3. CASE ~(ProcessStarts(t) \/ Serves(t))
  BY <1>3 DEF Runs, InitializeModules, EntersProcess, Takes, ExecutesCall,
              DispatchesInCall, LooksInCall, AnswersCall, Decides, Tick, LoopsOn, TriesCall, Dispatches, Looks,
              Serves
<1> QED BY <1>2, <1>3

LEMMA StepsKeepDiscipline ==
    ASSUME ScriptAssumption, step \in 1..End, [EngineNext]_vars
    PROVE  [RpcNext]_rpcVars
<1>1. CASE Render
  BY <1>1, RenderKeepsDiscipline
<1>2. CASE \E t \in Spawned : Runs(t)
  BY <1>2, ThreadsKeepDiscipline
<1>3. CASE Quits \/ Stopped \/ HandsOver \/ UNCHANGED vars
  BY <1>3 DEF Quits, RenderQuits, GameQuits, EditorCloses, Stopped, HandsOver, vars
<1> QED BY <1>1, <1>2, <1>3 DEF EngineNext

LEMMA InitialStep == EngineInit => RpcInit /\ step \in 1..End
<1>1. Len(script) \in Nat
  BY SpawnedOnce
<1> QED BY <1>1 DEF EngineInit, End

LEMMA StepIsInScript == EngineSpec => [](step \in 1..End)
<1>1. step \in 1..End /\ [EngineNext]_vars => (step \in 1..End)'
  <2>1. CASE EngineNext
    BY <2>1, StepCounts
  <2>2. CASE UNCHANGED vars
    BY <2>2 DEF vars, engine, manager, End
  <2> QED BY <2>1, <2>2
<1> QED BY <1>1, InitialStep, PTL DEF EngineSpec

(* initialize, the loops and the destructor make their calls as Rpc says,  *)
(* so that what holds of Rpc holds while the engine starts and stops.      *)
THEOREM KeepsDiscipline == ASSUME ScriptAssumption PROVE EngineSpec => RpcDiscipline
<1>1. step \in 1..End /\ [EngineNext]_vars => [RpcNext]_rpcVars
  BY StepsKeepDiscipline
<1> QED BY <1>1, InitialStep, StepIsInScript, PTL DEF EngineSpec, RpcDiscipline, Spec

(* What is proved of Rpc holds of the engine: while it starts, runs and    *)
(* stops each call is executed once and in order, a caller that waits for  *)
(* completion goes on when its own call was executed, rpc::process ends by *)
(* the call that asked for it, nobody writes a filled slot, and the        *)
(* assertion of rpc::run holds.                                            *)
THEOREM EngineCalls ==
    ASSUME ScriptAssumption, OneCaller
    PROVE  EngineSpec => /\ EachCallIsExecutedOnce /\ CompletionMeansExecuted
                         /\ LoopEndsByItsCall /\ FilledSlotIsStable
                         /\ []SlotAssertionHolds
BY KeepsDiscipline, SlotIsFifo, Completion, LoopEnd, StableSlot, AssertionHolds, PTL
   DEF RpcDiscipline

-----------------------------------------------------------------------------
(* Where the threads are.                                                  *)

Places == {"unborn", "init", "first", "second", "tick", "ahead", "try", "run", "last", "done"}
InProcess == {"first", "second", "last"}

ManagerTypes ==
    /\ queries \subseteq Asking /\ delayed \subseteq Asking /\ deletions \subseteq Asking
    /\ looking \subseteq Spawned \cup {"render"}
    /\ delays \in 0..MaxDelays

Types ==
    /\ step \in 1..End
    /\ at \in [Spawned -> Places]
    /\ worlds \subseteq {"core", "render", "logic", "network", "sound", "editor"}
    /\ lead \in 0..2
    /\ m_destruction_started \in BOOLEAN /\ m_app_active \in BOOLEAN
    /\ s_resource_callbacks_dispatched \in BOOLEAN
    /\ ManagerTypes

(* A thread serves calls in rpc::process, or in its loop where it is ahead.*)
PlacedAt(t) ==
    /\ serving[t].at \in {"process", "decide"} => at[t] \in InProcess
    /\ serving[t].at \in {"execute", "answer"} =>
          at[t] \in IF serving[t].loop THEN InProcess ELSE {"ahead"}
    /\ at[t] = "first" => t \in {"sound", "editor"}
    /\ at[t] \in {"second", "run"} => t = "editor"
    /\ at[t] \in {"ahead", "tick", "try"} => t # "editor"
    /\ at[t] = "tick" => t = "logic" /\ lead < 2
Placed == \A t \in Spawned : PlacedAt(t)

(* A thread that is yet to be spawned is unborn.                           *)
Unspawned == \A i \in 1..Len(script), t \in Spawned :
    step <= i /\ Spawns(script[i], t) => at[t] = "unborn"

Where == Types /\ Placed /\ Unspawned

(* What a step of one thread leaves alone, and where it takes the thread.  *)
Moves(t) ==
    /\ step' = step /\ calling' = calling
    /\ m_destruction_started' = m_destruction_started
    /\ \A u \in Spawned \ {t} : /\ at'[u] = at[u] /\ serving'[u] = serving[u]
                               /\ m_pending'[u] = m_pending[u]
    /\ m_pending'[t] # m_pending[t] => at[t] \in InProcess \cup {"ahead"} /\ at'[t] = at[t]
    /\ \/ at'[t] = at[t]
       \/ at[t] = "init" /\ at'[t] = IF t \in {"sound", "editor"} THEN "first" ELSE "ahead"
       \/ at[t] = "first" /\ at'[t] = IF t = "editor" THEN "second" ELSE "ahead"
       \/ at[t] = "second" /\ at'[t] = "run"
       \/ at[t] = "last" /\ at'[t] = "done"
       \/ at[t] \in {"tick", "try"} /\ at'[t] = "ahead"
       \/ at[t] = "ahead" /\ at'[t] = "last"
       \/ at[t] = "ahead" /\ ~m_destruction_started /\ at'[t] = "try"
       \/ at[t] = "ahead" /\ ~m_destruction_started /\ at'[t] = "tick"

LEMMA Delaying ==
    ASSUME ManagerTypes, NEW ts \in SUBSET Asking, Delays(ts)
    PROVE  delayed' = delayed \cup ts /\ delayed' \subseteq Asking /\ delays' \in 0..MaxDelays
<1>1. delayed' = delayed \cup ts
  BY DEF Delays
<1>2. MaxDelays \in Nat /\ delays \in 0..MaxDelays
  BY EngineThreadsAssumption DEF ManagerTypes
<1>3. delays' \in 0..MaxDelays
  BY <1>2 DEF Delays
<1> QED BY <1>1, <1>3 DEF ManagerTypes

(* Whoever drops resources leaves deletions to others only.                *)
LEMMA Dropping ==
    ASSUME ManagerTypes, NEW t, Drops(t)
    PROVE  /\ delayed' \subseteq Asking /\ delays' \in 0..MaxDelays
           /\ delayed \subseteq delayed' /\ (t \in delayed' => t \in delayed)
<1> PICK ts \in SUBSET (Asking \ {t}) : Delays(ts)
  BY DEF Drops
<1>1. ts \in SUBSET Asking
  OBVIOUS
<1> QED BY <1>1, Delaying

LEMMA Performs ==
    ASSUME Types, NEW t, NEW fn, Perform(t, fn)
    PROVE  /\ worlds' \subseteq {"core", "render", "logic", "network", "sound", "editor"}
           /\ m_app_active' \in BOOLEAN
           /\ queries' = queries /\ deletions' = deletions
           /\ delayed' \subseteq Asking /\ delays' \in 0..MaxDelays
           /\ delayed \subseteq delayed' /\ (t \in delayed' => t \in delayed)
<1>1. worlds' \subseteq {"core", "render", "logic", "network", "sound", "editor"}
  BY DEF Types, Perform, Effect, Creates
<1>2. m_app_active' \in BOOLEAN
  BY EngineThreadsAssumption DEF Types, Perform
<1>3. /\ delayed' \subseteq Asking /\ delays' \in 0..MaxDelays
      /\ delayed \subseteq delayed' /\ (t \in delayed' => t \in delayed)
  <2>1. CASE fn \in LeavesDeletions
    BY <2>1, Dropping DEF Types, Perform
  <2>2. CASE fn \notin LeavesDeletions
    BY <2>2 DEF Types, ManagerTypes, Perform
  <2> QED BY <2>1, <2>2
<1> QED BY <1>1, <1>2, <1>3 DEF Perform

LEMMA Dispatching ==
    ASSUME ManagerTypes, NEW t \in Spawned \cup {"render"}, Dispatches(t) \/ Looks(t)
    PROVE  /\ ManagerTypes' /\ queries' \subseteq queries /\ deletions' \subseteq deletions
           /\ delayed \subseteq delayed' /\ (t \in delayed' => t \in delayed)
<1>1. CASE Dispatches(t)
  <2>1. /\ delayed' \subseteq Asking /\ delays' \in 0..MaxDelays
        /\ delayed \subseteq delayed' /\ (t \in delayed' => t \in delayed)
    BY <1>1, Dropping DEF Dispatches
  <2> QED BY <1>1, <2>1 DEF Dispatches, ManagerTypes
<1>2. CASE Looks(t)
  BY <1>2 DEF Looks, ManagerTypes
<1> QED BY <1>1, <1>2

LEMMA HandingOver ==
    ASSUME Where, HandsOver PROVE Where'
<1>1. ManagerTypes'
  BY DEF HandsOver, Where, Types, ManagerTypes
<1>2. UNCHANGED <<rpcVars, step, at, worlds, lead, m_destruction_started, m_app_active,
                  s_resource_callbacks_dispatched>>
  BY DEF HandsOver
<1> QED BY <1>1, <1>2 DEF Where, Types, Placed, PlacedAt, Unspawned, rpcVars, End

(* Where a thread and its rpc are.                                         *)
LEMMA ServedWhere ==
    ASSUME RpcTypeOK, ScriptAssumption, NEW t \in Spawned
    PROVE  /\ t \in Slot /\ t \in Place
           /\ m_pending \in [Slot -> BOOLEAN]
           /\ DOMAIN serving = Slot /\ serving[t] \in {Away} \cup Serving
           /\ serving[t] = Away <=> serving[t].at = "away"
           /\ serving[t].at \in {"away", "process", "execute", "answer", "decide"}
<1>1. t \in Place /\ t \in Slot
  BY SpawnedArePlaces DEF ScriptAssumption, Place
<1> QED BY <1>1 DEF RpcTypeOK, Away, Serving

LEMMA Goer ==
    ASSUME Types, NEW t \in Spawned, NEW p, NEW q \in Places, Goes(t, p, q)
    PROVE  /\ at[t] = p /\ at'[t] = q /\ at' \in [Spawned -> Places]
           /\ \A u \in Spawned \ {t} : at'[u] = at[u]
BY DEF Types, Goes

LEMMA CallsAreServedInPlace ==
    ASSUME RpcTypeOK, ScriptAssumption, Where, NEW t \in Spawned,
           EntersProcess(t) \/ Takes(t) \/ ExecutesCall(t) \/ AnswersCall(t) \/ Decides(t)
    PROVE  Moves(t) /\ PlacedAt(t)' /\ at' \in [Spawned -> Places]
<1>0. /\ at \in [Spawned -> Places] /\ PlacedAt(t)
      /\ \A u \in Spawned : u \in Slot
  BY ServedWhere DEF Where, Types, Placed
<1>1. CASE EntersProcess(t)
  BY <1>0, <1>1, ServedWhere DEF EntersProcess, ProcessStarts, Moves, engine, manager, InProcess, slots, PlacedAt
<1>2. CASE Takes(t)
  BY <1>0, <1>2, ServedWhere DEF Takes, ProcessTakes, Moves, engine, manager, InProcess, slots, PlacedAt
<1>3. CASE ExecutesCall(t)
  BY <1>0, <1>3, ServedWhere DEF ExecutesCall, Executes, Serve, Moves, engine, manager, InProcess, slots, PlacedAt
<1>4. CASE AnswersCall(t)
  <2>1. /\ serving[t].at = "answer" /\ calling' = calling
        /\ m_pending' = [m_pending EXCEPT ![t] = FALSE]
        /\ serving' = [serving EXCEPT ![t] =
                          IF serving[t].loop THEN [serving[t] EXCEPT !.at = "decide"] ELSE Away]
        /\ UNCHANGED engine
    BY <1>4 DEF AnswersCall, Answers
  <2>2. /\ serving[t].loop => serving'[t].at = "decide"
        /\ ~serving[t].loop => serving'[t].at = "away"
        /\ \A u \in Spawned \ {t} : serving'[u] = serving[u] /\ m_pending'[u] = m_pending[u]
    BY <1>0, <2>1, ServedWhere DEF Away, Serving
  <2>3. at[t] \in InProcess \cup {"ahead"} /\ (serving[t].loop => at[t] \in InProcess)
    BY <1>0, <2>1 DEF PlacedAt
  <2>4. Moves(t)
    BY <2>1, <2>2, <2>3 DEF Moves, engine, manager
  <2> QED BY <1>0, <2>1, <2>2, <2>3, <2>4 DEF PlacedAt, engine, manager
<1>5. CASE Decides(t)
  <2>1. /\ serving[t].at = "decide" /\ at[t] \in InProcess
        /\ serving' = [serving EXCEPT ![t] =
                         IF serving[t].break THEN Away ELSE [serving[t] EXCEPT !.at = "process"]]
        /\ UNCHANGED <<slots, calling, step, lead, m_destruction_started>>
        /\ at' = IF serving'[t] = Away THEN [at EXCEPT ![t] = AfterProcess(t)] ELSE at
    BY <1>0, <1>5 DEF Decides, ProcessDecides, PlacedAt
  <2>2. /\ serving'[t].at \in {"away", "process"}
        /\ serving'[t].at = "process" => serving'[t] # Away
        /\ \A u \in Spawned \ {t} : serving'[u] = serving[u]
    BY <1>0, <2>1, ServedWhere DEF Away, Serving
  <2>3. AfterProcess(t) = IF at[t] = "last" THEN "done" ELSE IF at[t] = "second" THEN "run"
                          ELSE IF t = "editor" THEN "second" ELSE "ahead"
    BY <2>1 DEF AfterProcess, InProcess
  <2>4. CASE serving'[t] = Away
    <3>1. /\ at'[t] = AfterProcess(t) /\ \A u \in Spawned \ {t} : at'[u] = at[u]
          /\ at' \in [Spawned -> Places]
      BY <1>0, <2>1, <2>3, <2>4 DEF Places
    <3>2. Moves(t)
      BY <2>1, <2>2, <2>3, <3>1 DEF Moves, slots, InProcess
    <3>3. serving'[t].at = "away"
      BY <2>4 DEF Away
    <3> QED BY <1>0, <2>1, <2>3, <3>1, <3>2, <3>3 DEF PlacedAt, InProcess
  <2>5. CASE serving'[t] # Away
    <3>1. at' = at
      BY <2>1, <2>5
    <3>2. serving'[t].at # "execute" /\ serving'[t].at # "answer"
      BY <2>2
    <3>3. Moves(t)
      BY <2>1, <2>2, <3>1 DEF Moves, slots
    <3> QED BY <1>0, <2>1, <3>1, <3>2, <3>3 DEF PlacedAt
  <2> QED BY <2>4, <2>5
<1> QED BY <1>1, <1>2, <1>3, <1>4, <1>5

LEMMA OtherStepsInPlace ==
    ASSUME RpcTypeOK, ScriptAssumption, Where, NEW t \in Spawned,
           InitializeModules(t) \/ DispatchesInCall(t) \/ LooksInCall(t) \/ Tick(t)
           \/ LoopsOn(t) \/ TriesCall(t)
    PROVE  Moves(t) /\ PlacedAt(t)' /\ at' \in [Spawned -> Places]
<1>0. Types /\ at \in [Spawned -> Places] /\ PlacedAt(t) /\ lead \in 0..2
      /\ \A u \in Spawned : u \in Slot
  BY ServedWhere DEF Where, Types, Placed
<1>1. CASE InitializeModules(t)
  <2>1. /\ at[t] = "init" /\ at'[t] = (IF t \in {"sound", "editor"} THEN "first" ELSE "ahead")
        /\ \A u \in Spawned \ {t} : at'[u] = at[u]
        /\ at' \in [Spawned -> Places]
        /\ UNCHANGED <<rpcVars, step, lead, m_destruction_started>>
    BY <1>0, <1>1, Goer DEF InitializeModules, Places
  <2>2. Moves(t)
    BY <2>1 DEF Moves, rpcVars, slots
  <2> QED BY <1>0, <2>1, <2>2 DEF PlacedAt, InProcess, rpcVars
<1>2. CASE DispatchesInCall(t) \/ LooksInCall(t)
  BY <1>0, <1>2 DEF DispatchesInCall, LooksInCall, Dispatches, Looks, rpcVars, Moves, InProcess, slots, PlacedAt
<1>3. CASE Tick(t)
  <2>1. /\ at[t] = "tick" /\ at'[t] = "ahead" /\ \A u \in Spawned \ {t} : at'[u] = at[u]
        /\ at' \in [Spawned -> Places]
        /\ UNCHANGED <<rpcVars, step, m_destruction_started>>
    BY <1>0, <1>3, Goer DEF Tick, Places
  <2>2. Moves(t)
    BY <2>1 DEF Moves, rpcVars, slots
  <2> QED BY <1>0, <2>1, <2>2 DEF PlacedAt, InProcess, rpcVars
<1>4. CASE LoopsOn(t)
  <2>1. PICK q \in {"last", "try", "tick"} : Goes(t, "ahead", q)
          /\ (q # "last" => ~m_destruction_started) /\ (q = "tick" => t = "logic" /\ lead < 2)
    BY <1>4 DEF LoopsOn
  <2>2. /\ at[t] = "ahead" /\ at'[t] = q /\ \A u \in Spawned \ {t} : at'[u] = at[u]
        /\ at' \in [Spawned -> Places]
    BY <1>0, <2>1, Goer DEF Places
  <2>3. serving[t].at = "away" /\ UNCHANGED <<rpcVars, step, lead, m_destruction_started>>
    BY <1>4 DEF LoopsOn, Away
  <2>4. Moves(t)
    BY <2>1, <2>2, <2>3 DEF Moves, rpcVars, slots
  <2> QED BY <1>0, <2>1, <2>2, <2>3, <2>4 DEF PlacedAt, rpcVars
<1>5. CASE TriesCall(t)
  <2>1. /\ at[t] = "try" /\ at'[t] = "ahead" /\ \A u \in Spawned \ {t} : at'[u] = at[u]
        /\ at' \in [Spawned -> Places]
        /\ UNCHANGED <<step, lead, m_destruction_started>>
    BY <1>0, <1>5, Goer DEF TriesCall, Places
  <2>2. /\ \A u \in Spawned \ {t} : serving'[u] = serving[u]
        /\ serving'[t] = serving[t] \/ (serving'[t].at = "execute" /\ ~serving'[t].loop)
        /\ UNCHANGED <<m_pending, calling>>
    BY <1>0, <1>5, ServedWhere DEF TriesCall, TryTakes, rpcVars, slots
  <2>3. Moves(t)
    BY <2>1, <2>2 DEF Moves
  <2> QED BY <1>0, <2>1, <2>2, <2>3 DEF PlacedAt, InProcess
<1> QED BY <1>1, <1>2, <1>3, <1>4, <1>5

LEMMA ThreadStaysWhere ==
    ASSUME RpcTypeOK, ScriptAssumption, Where, NEW t \in Spawned, Runs(t)
    PROVE  Moves(t) /\ Where'
<1>1. Moves(t) /\ PlacedAt(t)' /\ at' \in [Spawned -> Places]
  BY CallsAreServedInPlace, OtherStepsInPlace DEF Runs
<1>2. lead' \in 0..2 /\ (lead' = lead \/ t = "logic")
  <2>1. CASE Tick(t)
    BY <2>1 DEF Tick, Goes, Where, Types, Placed, PlacedAt
  <2>2. CASE ~Tick(t)
    BY <2>2 DEF Runs, InitializeModules, EntersProcess, Takes, ExecutesCall,
                DispatchesInCall, LooksInCall, AnswersCall, Decides, LoopsOn, TriesCall, Dispatches, Looks,
                engine, manager, Where, Types
  <2> QED BY <2>1, <2>2
<1>3. /\ worlds' \subseteq {"core", "render", "logic", "network", "sound", "editor"}
      /\ m_app_active' \in BOOLEAN /\ ManagerTypes'
      /\ s_resource_callbacks_dispatched' = s_resource_callbacks_dispatched
  <2>0. Types /\ ManagerTypes
    BY DEF Where, Types
  <2>1. CASE ExecutesCall(t)
    <3>1. Perform(t, m_callback[t].fn)
          /\ looking' = looking \ {t}
          /\ s_resource_callbacks_dispatched' = s_resource_callbacks_dispatched
      BY <2>1 DEF ExecutesCall
    <3> QED BY <2>0, <3>1, Performs DEF ManagerTypes
  <2>2. CASE InitializeModules(t)
    BY <2>0, <2>2 DEF InitializeModules, Types, ManagerTypes, manager, Spawned
  <2>3. CASE DispatchesInCall(t) \/ LooksInCall(t)
    <3>1. Dispatches(t) \/ Looks(t)
      BY <2>3 DEF DispatchesInCall, LooksInCall
    <3>2. ManagerTypes'
      BY <2>0, <3>1, Dispatching
    <3> QED BY <2>0, <3>1, <3>2 DEF Dispatches, Looks, Types
  <2>4. CASE ~ExecutesCall(t) /\ ~InitializeModules(t) /\ ~DispatchesInCall(t) /\ ~LooksInCall(t)
    <3>1. UNCHANGED <<worlds, m_app_active, s_resource_callbacks_dispatched, manager>>
      BY <2>4 DEF Runs, EntersProcess, Takes, AnswersCall, Decides, Tick, LoopsOn, TriesCall,
                  engine
    <3> QED BY <2>0, <3>1 DEF Types, ManagerTypes, manager
  <2> QED BY <2>1, <2>2, <2>3, <2>4
<1>4. Types'
  BY <1>1, <1>2, <1>3 DEF Moves, Where, Types, End
<1>5. Placed'
  <2>1. ASSUME NEW u \in Spawned, u # t PROVE PlacedAt(u)'
    BY <1>1, <1>2, <2>1 DEF Moves, Where, Placed, PlacedAt
  <2> QED BY <1>1, <2>1 DEF Placed
<1>6. Unspawned'
  <2>1. at[t] = "unborn" => at'[t] = "unborn"
    BY <1>1 DEF Moves
  <2>2. \A u \in Spawned : at[u] = "unborn" => at'[u] = "unborn"
    BY <1>1, <2>1 DEF Moves
  <2> QED BY <1>1, <2>2 DEF Moves, Where, Unspawned
<1> QED BY <1>1, <1>4, <1>5, <1>6 DEF Where

LEMMA RenderStaysWhere ==
    ASSUME Where, Render
    PROVE  /\ Where' /\ serving' = serving
           /\ m_destruction_started' = m_destruction_started
           /\ at' = at \/ (RenderSpawns /\ at[script[step].to] = "unborn")
<1>1. UNCHANGED <<serving, m_destruction_started>>
  BY DEF Render, RenderCalls, RenderProceeds, RenderCallsInPlace, RenderWaits, RenderSpawns,
         RenderPerforms, RenderDraws, RenderLeavesRun, RenderSetsDispatched, RenderDispatches,
         RenderLooks, RenderHasDispatched, Dispatches, Looks, rpcVars, engine, manager, RunStarts, RunProceeds, RunWaits,
         RunAsserts, RunStores, RunPosts, RunCompletes
<1>2. step' \in 1..End /\ (step' = step \/ step' = step + 1)
  <2>1. EngineNext
    BY DEF EngineNext
  <2>2. step' \in 1..End
    BY <2>1, StepCounts DEF Where, Types
  <2>3. step' = step \/ step' = step + 1
    BY DEF Render, RenderCalls, RenderProceeds, RenderCallsInPlace, RenderWaits, RenderSpawns,
           RenderPerforms, RenderDraws, RenderLeavesRun, RenderSetsDispatched,
           RenderDispatches, RenderLooks, RenderHasDispatched, Dispatches, Looks, engine, manager, NextStep
  <2> QED BY <2>2, <2>3
<1>3. CASE RenderSpawns
  <2>0. /\ step \in 1..Len(script) /\ script[step] \in Statement /\ script[step].do = "spawn"
        /\ script[step].to \in Place
    BY <1>3, RenderStatement, StatementCases DEF RenderSpawns, Where, Types
  <2> PICK s \in Place : s = script[step].to
    BY <2>0
  <2>1. /\ step \in 1..Len(script) /\ script[step] \in Statement /\ script[step].do = "spawn"
        /\ Spawns(script[step], s) /\ step' = step + 1
        /\ at' = [at EXCEPT ![s] = "init"]
        /\ UNCHANGED <<rpcVars, worlds, lead, m_app_active, s_resource_callbacks_dispatched,
                       manager>>
    BY <1>3, <2>0 DEF RenderSpawns, NextStep, Spawns
  <2>2. at' \in [Spawned -> Places] /\ \A u \in Spawned : at'[u] = IF u = s THEN "init" ELSE at[u]
    BY <2>1 DEF Where, Types, Places
  <2>3. CASE s \in Spawned
    <3>1. at[s] = "unborn"
      BY <2>1, <2>3 DEF Where, Types, Unspawned
    <3>2. Types'
      BY <1>1, <1>2, <2>1, <2>2 DEF Where, Types, ManagerTypes, manager, End
    <3>3. Placed'
      <4>1. ASSUME NEW u \in Spawned, u # s PROVE PlacedAt(u)'
        BY <1>1, <2>1, <2>2, <4>1 DEF Where, Placed, PlacedAt
      <4>2. PlacedAt(s)'
        BY <1>1, <2>2, <2>3, <3>1 DEF Where, Placed, PlacedAt, InProcess
      <4> QED BY <4>1, <4>2 DEF Placed
    <3>4. Unspawned'
      <4>1. ASSUME NEW i \in 1..Len(script), NEW u \in Spawned, step + 1 <= i,
                   Spawns(script[i], u)
            PROVE  at'[u] = "unborn"
        <5>1. i # step /\ step <= i
          BY <2>1, <4>1
        <5>2. u # s
          BY <2>1, <2>3, <4>1, <5>1, SpawnedOnce, SpawnedArePlaces
        <5> QED BY <2>2, <4>1, <5>1, <5>2 DEF Where, Unspawned
      <4> QED BY <2>1, <4>1 DEF Unspawned
    <3>5. at[script[step].to] = "unborn"
      BY <3>1
    <3> QED BY <1>1, <1>3, <3>2, <3>3, <3>4, <3>5 DEF Where
  <2>4. CASE s \notin Spawned
    <3>1. at' = at
      BY <2>1, <2>4 DEF Where, Types
    <3>2. Types'
      BY <1>1, <1>2, <2>1, <3>1 DEF Where, Types, ManagerTypes, manager, End
    <3>3. Placed'
      BY <1>1, <2>1, <3>1 DEF Where, Placed, PlacedAt
    <3>4. Unspawned'
      BY <2>1, <3>1 DEF Where, Unspawned
    <3> QED BY <1>1, <3>1, <3>2, <3>3, <3>4 DEF Where
  <2> QED BY <2>3, <2>4
<1>4. CASE ~RenderSpawns
  <2>1. at' = at
    BY <1>4 DEF Render, RenderCalls, RenderProceeds, RenderCallsInPlace, RenderWaits,
                RenderPerforms, RenderDraws, RenderLeavesRun, RenderSetsDispatched,
                RenderDispatches, RenderLooks, RenderHasDispatched, Dispatches, Looks, engine, manager
  <2>2. lead' \in 0..2 /\ lead' <= lead
    BY <1>4 DEF Render, RenderCalls, RenderProceeds, RenderCallsInPlace, RenderWaits,
                RenderPerforms, RenderDraws, RenderLeavesRun, RenderSetsDispatched,
                RenderDispatches, RenderLooks, RenderHasDispatched, Dispatches, Looks, engine, manager, Where, Types
  <2>3. /\ worlds' \subseteq {"core", "render", "logic", "network", "sound", "editor"}
        /\ m_app_active' \in BOOLEAN /\ ManagerTypes'
    <3>0. Types /\ ManagerTypes
      BY DEF Where, Types
    <3>1. CASE \E fn : Perform("render", fn) /\ looking' = looking
      BY <3>0, <3>1, Performs DEF ManagerTypes
    <3>2. CASE RenderDispatches \/ RenderLooks
      BY <3>0, <3>2, Dispatching DEF RenderDispatches, RenderLooks, Dispatches, Looks, Types
    <3>3. CASE RenderLeavesRun \/ RenderHasDispatched
      BY <3>0, <3>3 DEF RenderLeavesRun, RenderHasDispatched, Types, ManagerTypes
    <3>4. CASE RenderCalls \/ RenderProceeds \/ RenderWaits \/ RenderDraws \/ RenderSetsDispatched
      <4>1. UNCHANGED <<worlds, m_app_active, manager>>
        BY <3>4 DEF RenderCalls, RenderProceeds, RenderWaits, RenderDraws, RenderSetsDispatched,
                    engine
      <4> QED BY <3>0, <4>1 DEF Types, ManagerTypes, manager
    <3>5. CASE RenderPerforms \/ RenderCallsInPlace
      <4>1. \/ \E fn : Perform("render", fn) /\ looking' = looking
            \/ UNCHANGED <<worlds, m_app_active, queries, delayed, deletions, delays, looking>>
        BY <3>5 DEF RenderPerforms, RenderCallsInPlace
      <4> QED BY <3>0, <3>1, <4>1 DEF Types, ManagerTypes
    <3> QED BY <1>4, <3>2, <3>3, <3>4, <3>5 DEF Render
  <2>4. s_resource_callbacks_dispatched' \in BOOLEAN
    BY <1>4 DEF Render, RenderCalls, RenderProceeds, RenderCallsInPlace, RenderWaits,
                RenderPerforms, RenderDraws, RenderLeavesRun, RenderSetsDispatched,
                RenderDispatches, RenderLooks, RenderHasDispatched, Dispatches, Looks, engine,
                Where, Types
  <2>5. Types'
    BY <1>1, <1>2, <2>1, <2>2, <2>3, <2>4 DEF Where, Types, End
  <2>6. Placed'
    BY <1>1, <2>1, <2>2 DEF Where, Types, Placed, PlacedAt
  <2>7. Unspawned'
    BY <1>2, <2>1 DEF Where, Types, Unspawned
  <2> QED BY <1>1, <2>1, <2>5, <2>6, <2>7 DEF Where
<1> QED BY <1>3, <1>4

LEMMA QuitsWhere ==
    ASSUME RpcTypeOK, ScriptAssumption, Where, Quits
    PROVE  /\ Where' /\ UNCHANGED <<rpcVars, step>> /\ m_destruction_started'
           /\ \A t \in Spawned : \/ at'[t] = at[t]
                                 \/ t = "editor" /\ at[t] = "run" /\ at'[t] = "last"
           /\ Editor => at'["editor"] = "last" /\ "editor" \in Spawned
<1>1. CASE RenderQuits \/ GameQuits
  <2>1. UNCHANGED <<rpcVars, step, at, worlds, lead, m_app_active,
                    s_resource_callbacks_dispatched, manager>>
        /\ m_destruction_started' = TRUE /\ ~Editor
    BY <1>1 DEF RenderQuits, GameQuits, Exit
  <2> QED BY <2>1 DEF Where, Types, ManagerTypes, manager, Placed, PlacedAt, Unspawned, rpcVars, End
<1>2. CASE EditorCloses
  <2>1. /\ "editor" \in Spawned /\ Goes("editor", "run", "last")
        /\ UNCHANGED <<rpcVars, step, worlds, lead, m_app_active,
                       s_resource_callbacks_dispatched, manager>>
        /\ m_destruction_started' = TRUE
    BY <1>2 DEF EditorCloses, Exit
  <2>2. /\ at["editor"] = "run" /\ at'["editor"] = "last" /\ at' \in [Spawned -> Places]
        /\ \A u \in Spawned \ {"editor"} : at'[u] = at[u]
    BY <2>1, Goer DEF Where, Places
  <2>3. Types'
    BY <2>1, <2>2 DEF Where, Types, ManagerTypes, manager, End
  <2>4. Placed'
    <3>1. ASSUME NEW u \in Spawned, u # "editor" PROVE PlacedAt(u)'
      BY <2>1, <2>2, <3>1 DEF Where, Placed, PlacedAt, rpcVars
    <3>2. PlacedAt("editor")'
      BY <2>1, <2>2 DEF Where, Placed, PlacedAt, rpcVars, InProcess
    <3> QED BY <3>1, <3>2 DEF Placed
  <2>5. Unspawned'
    BY <2>1, <2>2 DEF Where, Unspawned
  <2> QED BY <2>1, <2>2, <2>3, <2>4, <2>5 DEF Where
<1> QED BY <1>1, <1>2 DEF Quits

-----------------------------------------------------------------------------
(* The barrier of the destructor.                                          *)

(* The render thread is about to fill the slot of t.                       *)
Posting(t) == /\ calling["render"].at \in {"wait", "assert", "store", "post"}
              /\ calling["render"].to = t

(* Where a thread is that has not come to serve calls for the last time.   *)
Outside == {"unborn", "init", "tick", "try", "run"}

(* Until the call of the barrier that a thread has been sent is answered,  *)
(* the render thread does not get past the statement that waits for it.    *)
Awaited(t) ==
    at[t] \in Outside /\ step > run_at + pos[t] =>
        step <= run_at + 4 + pos[t] /\ (m_pending[t] \/ Posting(t))

Stopping ==
    /\ step > run_at => m_destruction_started
    /\ Editor /\ m_destruction_started => at["editor"] \in {"last", "done"}
    /\ \A t \in Spawned : Awaited(t)

LEMMA StepAndBarrier ==
    ASSUME Types
    PROVE  run_at \in Nat /\ step \in Nat /\ \A t \in Spawned : pos[t] \in 1..4
<1>1. run_at \in Nat /\ \A t \in Spawned : pos[t] \in 1..4
  BY BarrierInScript, SpawnedArePlaces
<1>2. step \in Nat
  <2>1. Len(script) \in Nat /\ End = Len(script) + 1 /\ step \in 1..End
    BY BarrierInScript DEF Types, End
  <2> QED BY <2>1
<1> QED BY <1>1, <1>2

LEMMA ThreadStops ==
    ASSUME Where, Stopping, NEW t \in Spawned, Moves(t)
    PROVE  Stopping'
<1>0. run_at \in Nat /\ step \in Nat /\ \A u \in Spawned : pos[u] \in 1..4
  BY StepAndBarrier DEF Where
<1>1. (step > run_at => m_destruction_started)'
  BY DEF Stopping, Moves, run_at
<1>2. (Editor /\ m_destruction_started => at["editor"] \in {"last", "done"})'
  <2>1. Editor => "editor" \in Spawned
    BY DEF Spawned
  <2> QED BY <2>1 DEF Stopping, Moves
<1>3. ASSUME NEW u \in Spawned, u # t PROVE Awaited(u)'
  BY <1>3 DEF Stopping, Awaited, Moves, Posting, run_at, pos
<1>4. Awaited(t)'
  <2> SUFFICES ASSUME at'[t] \in Outside, step > run_at + pos[t]
               PROVE  step <= run_at + 4 + pos[t] /\ (m_pending'[t] \/ Posting(t)')
    BY DEF Awaited, Moves, run_at, pos
  <2>1. m_destruction_started
    BY <1>0 DEF Stopping
  <2>2. at[t] # "second"
    <3>1. at[t] = "second" => t = "editor"
      BY DEF Where, Placed, PlacedAt
    <3>2. t = "editor" => Editor
      BY DEF Spawned
    <3> QED BY <2>1, <3>1, <3>2 DEF Stopping
  <2>3. at[t] = at'[t]
    BY <2>1, <2>2 DEF Moves, Outside
  <2>4. m_pending'[t] = m_pending[t]
    BY <2>3 DEF Moves, Outside, InProcess
  <2>5. Posting(t)' <=> Posting(t)
    BY DEF Moves, Posting
  <2> QED BY <2>3, <2>4, <2>5 DEF Stopping, Awaited
<1> QED BY <1>1, <1>2, <1>3, <1>4 DEF Stopping

(* A call that is posted stays posted until it is answered.                *)
LEMMA RenderPosts ==
    ASSUME RpcInv, RpcInv', ScriptAssumption, Render, NEW t \in Spawned,
           m_pending[t] \/ Posting(t)
    PROVE  m_pending'[t] \/ Posting(t)'
<1>0. /\ t \in Slot /\ "render" \in Thread /\ m_pending \in [Slot -> BOOLEAN]
      /\ calling["render"] = Idle <=> calling["render"].at = "idle"
      /\ RpcTypeOK
  BY ServedWhere, CallingCases DEF RpcInv, ScriptAssumption
<1>1. CASE RenderProceeds
  <2>1. CASE RunWaits("render") \/ RunAsserts("render") \/ RunStores("render")
    <3>1. PICK from \in {"wait", "assert", "store"}, to \in {"assert", "store", "post", "failed"} :
            GoOn("render", from, to) /\ m_pending' = m_pending
      BY <2>1 DEF RunWaits, RunAsserts, RunStores, slots
    <3>2. calling'["render"].at = to /\ calling'["render"].to = calling["render"].to
          /\ calling'["render"] # Idle
      BY <1>0, <3>1, CallGoesOn DEF GoOn
    <3>3. to # "failed"
      BY <1>0, <3>2 DEF RpcInv, CallerOwnsSlot
    <3> QED BY <3>1, <3>2, <3>3 DEF Posting
  <2>2. CASE RunPosts("render")
    BY <1>0, <2>2 DEF RunPosts, Posting
  <2>3. CASE RunCompletes("render")
    BY <2>3 DEF RunCompletes, Posting, slots
  <2> QED BY <1>1, <2>1, <2>2, <2>3 DEF RenderProceeds, RunProceeds
<1>2. CASE RenderCalls
  <2>1. m_pending' = m_pending /\ ~Posting(t)
    BY <1>0, <1>2 DEF RenderCalls, RenderIsAt, RunStarts, slots, rpcVars, Posting
  <2> QED BY <2>1
<1>3. CASE ~RenderProceeds /\ ~RenderCalls
  <2>1. UNCHANGED <<m_pending, calling>>
    BY <1>3 DEF Render, RenderCallsInPlace, RenderWaits, RenderSpawns, RenderPerforms,
                RenderDraws, RenderLeavesRun, RenderSetsDispatched, RenderDispatches,
                RenderLooks, RenderHasDispatched, Dispatches, Looks, rpcVars, slots
  <2> QED BY <2>1 DEF Posting
<1> QED BY <1>1, <1>2, <1>3

(* The steps of the render thread that go on to the next statement.        *)
LEMMA Proceeding ==
    ASSUME Types, Render, step' # step
    PROVE  /\ step' = step + 1 /\ step \in 1..Len(script) /\ calling["render"] = Idle
           /\ script[step] = [do |-> "local", fn |-> "run"] => m_destruction_started
           /\ \A t \in Spawned : script[step] = [do |-> "wait", to |-> t] => ~m_pending[t]
           /\ \A t \in Spawned : script[step] = EmptyCall(t) =>
                 RunStarts("render", t, [fn |-> "empty", break |-> FALSE], FALSE)
<1>1. PICK do : RenderIsAt(do) /\ step' = step + 1
  BY DEF Render, RenderCalls, RenderProceeds, RenderCallsInPlace, RenderWaits, RenderSpawns,
         RenderPerforms, RenderDraws, RenderLeavesRun, RenderSetsDispatched, RenderDispatches,
         RenderLooks, RenderHasDispatched, Dispatches, Looks, engine, manager, NextStep, RenderIsAtLocal
<1>2. step \in 1..Len(script) /\ calling["render"] = Idle
  BY <1>1, RenderStatement DEF Types
<1>3. script[step] = [do |-> "local", fn |-> "run"] => m_destruction_started
  <2>1. script[step] = [do |-> "local", fn |-> "run"] =>
          script[step].do = "local" /\ script[step].fn = "run"
    OBVIOUS
  <2> QED BY <1>1, <2>1 DEF Render, RenderCalls, RenderProceeds, RenderCallsInPlace,
         RenderWaits, RenderSpawns, RenderPerforms, RenderDraws, RenderLeavesRun,
         RenderSetsDispatched, RenderDispatches, RenderLooks, RenderHasDispatched, Dispatches, Looks, engine, manager,
         NextStep, RenderIsAtLocal, RenderIsAt
<1>4. ASSUME NEW t \in Spawned, script[step] = [do |-> "wait", to |-> t]
      PROVE  ~m_pending[t]
  <2>1. script[step].do = "wait" /\ script[step].to = t
    BY <1>4
  <2>2. RenderWaits
    BY <1>1, <2>1 DEF Render, RenderCalls, RenderProceeds, RenderCallsInPlace,
         RenderSpawns, RenderPerforms, RenderDraws, RenderLeavesRun,
         RenderSetsDispatched, RenderDispatches, RenderLooks, RenderHasDispatched, Dispatches, Looks, engine, manager,
         NextStep, RenderIsAtLocal, RenderIsAt
  <2> QED BY <2>1, <2>2 DEF RenderWaits
<1>5. ASSUME NEW t \in Spawned, script[step] = EmptyCall(t)
      PROVE  RunStarts("render", t, [fn |-> "empty", break |-> FALSE], FALSE)
  <2>1. /\ script[step].do = "call" /\ script[step].to = t /\ script[step].fn = "empty"
        /\ script[step].break = FALSE /\ script[step].wait = FALSE
    BY <1>5 DEF EmptyCall
  <2>2. RenderCalls
    BY <1>1, <2>1 DEF Render, RenderProceeds, RenderCallsInPlace, RenderWaits, InPlace,
         RenderSpawns, RenderPerforms, RenderDraws, RenderLeavesRun,
         RenderSetsDispatched, RenderDispatches, RenderLooks, RenderHasDispatched, Dispatches, Looks, engine, manager,
         NextStep, RenderIsAtLocal, RenderIsAt
  <2> QED BY <2>1, <2>2 DEF RenderCalls, IsMade
<1> QED BY <1>1, <1>2, <1>3, <1>4, <1>5

LEMMA RenderStops ==
    ASSUME RpcInv, RpcInv', ScriptAssumption, Where, Stopping, Render
    PROVE  Stopping'
<1>0. /\ run_at \in Nat /\ step \in Nat /\ Types
      /\ \A u \in Spawned : pos[u] \in 1..4
  BY StepAndBarrier DEF Where
<1>1. /\ m_destruction_started' = m_destruction_started
      /\ \A u \in Spawned : at'[u] = at[u] \/ (at[u] = "unborn" /\ at'[u] \in Outside)
  <2>1. at' = at \/ (RenderSpawns /\ at[script[step].to] = "unborn")
    BY RenderStaysWhere
  <2>2. RenderSpawns => \A u \in Spawned : at'[u] = IF u = script[step].to THEN "init" ELSE at[u]
    BY <1>0 DEF RenderSpawns, Types
  <2> QED BY <2>1, <2>2, RenderStaysWhere DEF Outside
<1>2. step' = step \/ (step' # step /\ step' = step + 1)
  BY <1>0, Proceeding
<1>3. (step > run_at => m_destruction_started)'
  <2>1. CASE step' = step
    BY <1>1, <2>1 DEF Stopping, run_at
  <2>2. CASE step' # step /\ step = run_at
    BY <1>0, <1>1, <2>2, Proceeding, BarrierInScript
  <2>3. CASE step' # step /\ step # run_at
    <3>1. step' > run_at => step > run_at
      BY <1>0, <1>2, <2>3
    <3> QED BY <1>1, <3>1 DEF Stopping, run_at
  <2> QED BY <2>1, <2>2, <2>3
<1>4. (Editor /\ m_destruction_started => at["editor"] \in {"last", "done"})'
  <2>1. Editor => "editor" \in Spawned
    BY DEF Spawned
  <2> QED BY <1>1, <2>1 DEF Stopping
<1>5. ASSUME NEW t \in Spawned PROVE Awaited(t)'
  <2> SUFFICES ASSUME at'[t] \in Outside, step' > run_at + pos[t]
               PROVE  step' <= run_at + 4 + pos[t] /\ (m_pending'[t] \/ Posting(t)')
    BY DEF Awaited, run_at, pos
  <2>0. at[t] \in Outside /\ pos[t] \in 1..4 /\ t \in Place
    BY <1>0, <1>1, SpawnedArePlaces DEF Outside
  <2>1. CASE step > run_at + pos[t]
    <3>1. step <= run_at + 4 + pos[t] /\ (m_pending[t] \/ Posting(t))
      BY <2>0, <2>1 DEF Stopping, Awaited
    <3>2. m_pending'[t] \/ Posting(t)'
      BY <3>1, RenderPosts
    <3>3. CASE step' = step
      BY <3>1, <3>2, <3>3
    <3>4. CASE step' # step
      <4>1. step # run_at + 4 + pos[t]
        <5>1. SUFFICES ASSUME step = run_at + 4 + pos[t] PROVE FALSE
          OBVIOUS
        <5>2. script[step] = [do |-> "wait", to |-> t]
          BY <2>0, <5>1, BarrierInScript
        <5>3. ~m_pending[t] /\ calling["render"] = Idle
          BY <1>0, <3>4, <5>2, Proceeding
        <5> QED BY <3>1, <5>3 DEF Posting, Idle
      <4> QED BY <1>0, <1>2, <2>0, <3>1, <3>2, <3>4, <4>1
    <3> QED BY <3>3, <3>4
  <2>2. CASE step <= run_at + pos[t]
    <3>1. step = run_at + pos[t] /\ step' # step /\ step' = step + 1
      BY <1>0, <1>2, <2>0, <2>2
    <3>2. script[step] = EmptyCall(t)
      BY <2>0, <3>1, BarrierInScript
    <3>3. RunStarts("render", t, [fn |-> "empty", break |-> FALSE], FALSE)
      BY <1>0, <3>1, <3>2, Proceeding
    <3>4. Posting(t)'
      BY <3>3 DEF RunStarts, Posting, RpcInv, RpcTypeOK, ScriptAssumption
    <3> QED BY <1>0, <2>0, <3>1, <3>4
  <2> QED BY <1>0, <2>0, <2>1, <2>2
<1> QED BY <1>3, <1>4, <1>5 DEF Stopping

LEMMA QuittingStops ==
    ASSUME RpcTypeOK, ScriptAssumption, Where, Stopping, Quits
    PROVE  Stopping'
<1>1. /\ UNCHANGED <<rpcVars, step>> /\ m_destruction_started'
      /\ \A t \in Spawned : at'[t] = at[t] \/ at'[t] = "last"
      /\ Editor => at'["editor"] = "last"
  BY QuitsWhere
<1>2. ASSUME NEW t \in Spawned PROVE Awaited(t)'
  BY <1>1 DEF Stopping, Awaited, Outside, Posting, rpcVars, slots, run_at, pos
<1> QED BY <1>1, <1>2 DEF Stopping

-----------------------------------------------------------------------------
(* The invariants hold from the beginning, and in every step.              *)

LEMMA BeginsWell == ASSUME ScriptAssumption PROVE EngineInit => Where /\ Stopping
<1> SUFFICES ASSUME EngineInit PROVE Where /\ Stopping
  OBVIOUS
<1>0. /\ step = 1 /\ step \in 1..End /\ run_at \in Nat \ {0} /\ \A t \in Spawned : t \in Place
      /\ \A t \in Spawned : at[t] = "unborn" /\ pos[t] \in 1..4
  BY InitialStep, BarrierInScript, SpawnedArePlaces DEF EngineInit
<1>1. Types
  <2>1. /\ at = [t \in Spawned |-> "unborn"] /\ "unborn" \in Places
        /\ worlds = {} /\ lead = 0
        /\ m_destruction_started = FALSE /\ m_app_active = FALSE
        /\ s_resource_callbacks_dispatched = FALSE
    BY DEF EngineInit, Places
  <2>2. at \in [Spawned -> Places]
    BY <2>1
  <2>3. 0 \in 0..2 /\ FALSE \in BOOLEAN
    OBVIOUS
  <2>4. ManagerTypes
    BY EngineThreadsAssumption DEF EngineInit, ManagerTypes
  <2> QED BY <1>0, <2>1, <2>2, <2>3, <2>4 DEF Types
<1>2. Placed
  <2>1. ASSUME NEW t \in Spawned PROVE serving[t].at \notin {"process", "decide", "execute", "answer"}
    <3>1. t \in Slot
      BY <1>0 DEF ScriptAssumption, Place
    <3> QED BY <3>1 DEF EngineInit, RpcInit, Away
  <2> QED BY <1>0, <2>1 DEF Placed, PlacedAt
<1>3. Unspawned
  BY <1>0 DEF Unspawned
<1>4. Stopping
  <2>1. ~(step > run_at) /\ ~m_destruction_started
    BY <1>0 DEF EngineInit
  <2>2. ASSUME NEW t \in Spawned PROVE Awaited(t)
    BY <1>0 DEF Awaited
  <2> QED BY <2>1, <2>2 DEF Stopping
<1> QED BY <1>1, <1>2, <1>3, <1>4 DEF Where

LEMMA GoesOnWell ==
    ASSUME ScriptAssumption, RpcInv, RpcInv', Where, Stopping, [EngineNext]_vars
    PROVE  Where' /\ Stopping'
<1>0. RpcTypeOK
  BY DEF RpcInv
<1>1. CASE Render
  BY <1>1, RenderStaysWhere, RenderStops
<1>2. ASSUME NEW t \in Spawned, Runs(t) PROVE Where' /\ Stopping'
  BY <1>0, <1>2, ThreadStaysWhere, ThreadStops
<1>3. CASE Quits
  BY <1>0, <1>3, QuitsWhere, QuittingStops
<1>4. CASE UNCHANGED vars
  BY <1>4 DEF vars, rpcVars, slots, engine, manager, Where, Types, ManagerTypes, Placed, PlacedAt, Unspawned,
              Stopping, Awaited, Posting, run_at, End
<1>5. CASE HandsOver
  <2>1. UNCHANGED <<rpcVars, step, at, worlds, lead, m_destruction_started>>
    BY <1>5 DEF HandsOver
  <2> QED BY <1>5, <2>1, HandingOver DEF rpcVars, slots, Stopping, Awaited, Posting, run_at
<1> QED BY <1>1, <1>2, <1>3, <1>4, <1>5 DEF EngineNext, Stopped

LEMMA Throughout ==
    ASSUME ScriptAssumption, OneCaller
    PROVE  EngineSpec => []RpcInv /\ [](Where /\ Stopping)
<1>1. EngineSpec => []RpcInv
  BY KeepsDiscipline, SlotInvariant, PTL DEF RpcDiscipline
<1>2. EngineInit => Where /\ Stopping
  BY BeginsWell
<1>3. (Where /\ Stopping) /\ RpcInv /\ RpcInv' /\ [EngineNext]_vars => (Where /\ Stopping)'
  BY GoesOnWell
<1> QED BY <1>1, <1>2, <1>3, PTL DEF EngineSpec

(* The types of the engine's state: initialize, run and the destructor     *)
(* never leave the script, the logic never gets more than one frame ahead  *)
(* of the next one, nobody but a thread that uses resources is asked to    *)
(* delete any.                                                             *)
THEOREM EngineTypes ==
    ASSUME ScriptAssumption, OneCaller PROVE EngineSpec => []EngineTypeOK
<1>1. RpcInv /\ Where => EngineTypeOK
  BY DEF RpcInv, Where, Types, ManagerTypes, Places, EngineTypeOK
<1> QED BY <1>1, Throughout, PTL

(* The empty calls of the destructor do what their comment says: when      *)
(* resources are cleared no thread is in a tick, nor will it serve a call  *)
(* before it is in its last rpc::process.                                  *)
THEOREM NoTicksDuringClearing ==
    ASSUME ScriptAssumption, OneCaller PROVE EngineSpec => []NobodyTicksDuringClearing
<1>1. Where /\ Stopping => NobodyTicksDuringClearing
  <2> SUFFICES ASSUME Where, Stopping, Clearing, NEW t \in Spawned
               PROVE  at[t] \notin {"tick", "try", "run"}
    BY DEF NobodyTicksDuringClearing
  <2>1. step > run_at + 8
    BY BarrierInScript DEF Clearing
  <2>2. run_at \in Nat /\ step \in Nat /\ pos[t] \in 1..4
    BY StepAndBarrier DEF Where
  <2>3. step > run_at + pos[t] /\ ~(step <= run_at + 4 + pos[t])
    BY <2>1, <2>2
  <2> QED BY <2>3 DEF Stopping, Awaited, Outside
<1> QED BY <1>1, Throughout, PTL

=============================================================================
