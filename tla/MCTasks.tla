------------------------------- MODULE MCTasks -------------------------------
(* Instances of Tasks.                                                     *)
EXTENDS Tasks, TLC

CONSTANTS w1, w2, a, b, c, t1, t2, t3

Jobs == {a, b, c}
OneWorker == {w1}
TwoWorkers == {w1, w2}
TwoSlots == {t1, t2}
ThreeSlots == {t1, t2, t3}

(* The root task spawns two tasks and waits; one of them spawns a third    *)
(* and waits.  Each of them may be executed by either thread.              *)
Nested == (root :> << {a, b} >>) @@ (a :> << {c} >>) @@ (b :> << >>) @@ (c :> << >>)

(* The root task spawns two tasks and waits once for both. *)
OneRound == (root :> << {a, b} >>) @@ [j \in Jobs |-> << >>]
=============================================================================
