-------------------------------- MODULE Tasks --------------------------------
(***************************************************************************)
(* The task system of the core: spawn_task, the threads that grab and      *)
(* execute tasks, and the wait of a thread for the children of its task.   *)
(* A task is a slot of the task_allocator.  It is referenced four times:   *)
(* by the queue of all tasks, by the queue of its type, by the list of its *)
(* parent, and by whoever executes it; the last one to drop its reference  *)
(* gives the slot back, and the next spawn_task may take it again.         *)
(* A parent waits without a lock: its last child sets an event the parent  *)
(* publishes in its own slot.  There is one task_type, and the workers     *)
(* are awake (the thread_pool puts them to sleep and wakes them).          *)
(***************************************************************************)
EXTENDS Integers, Sequences

CONSTANTS Worker,      (* the task threads                                   *)
          user,        (* a user thread: it waits too, and never grabs       *)
          Task,        (* the slots of the allocator                         *)
          root,        (* user_thread_root_task of the user thread           *)
          Job,         (* the task functions that are spawned                *)
          Rounds,      (* what root and a job do: the sets of jobs they      *)
                       (* spawn, each followed by wait_for_all_children      *)
          none         (* NULL                                               *)

Thread == Worker \cup {user}
Slot == Task \cup {root}

(* A task can wait once: execute() of a child it executes while it waits   *)
(* leaves current_task of the thread NULL, and spawn_task asserts on it.   *)
ASSUME TasksAssumption ==
    /\ user \notin Worker
    /\ root \notin Task
    /\ none \notin Thread \cup Slot \cup Job \cup {"pending", "typed", "children"}
    /\ root \notin Job
    /\ Rounds \in [Job \cup {root} -> Seq(SUBSET Job)]
    /\ \A j \in Job : Len(Rounds[j]) <= 1

VARIABLES
    state,         (* m_state of a task                                      *)
    refs,          (* m_reference_counter                                    *)
    job,           (* m_function                                             *)
    parent,        (* m_parent                                               *)
    children,      (* m_children of a slot                                   *)
    counter,       (* m_child_counter                                        *)
    event,         (* m_event_wait_for_children: the thread whose it is      *)
    pending,       (* m_pending_tasks, the queue of all tasks                *)
    typed,         (* m_tasks of the type                                    *)
    signalled,     (* event_wait_for_children of a thread is set             *)
    last_task_type,(* the threads that have executed a task before           *)
    script,        (* the rounds a slot still has to spawn and wait for      *)
    pc, stack,     (* where a thread is, and the tasks it is executing       *)
    cand, from,    (* the task it is about to grab or publish, and the list  *)
                   (* it was taken from                                      *)
    seen,          (* the event on_child_task_ended has read                 *)
    done,          (* the jobs that have been executed                       *)
    failed         (* the assertion that failed, or "null" used as an event  *)

memory == <<state, refs, job, parent, children, counter, event>>
queues == <<pending, typed>>
threads == <<signalled, last_task_type, pc, stack, cand, from, seen>>
vars == <<memory, queues, threads, script, done, failed>>

top(t) == stack[t][Len(stack[t])]

Init ==
    /\ state = [s \in Task |-> "deallocated"]
    /\ refs = [s \in Task |-> 0]
    /\ job = [s \in Task |-> none]
    /\ parent = [s \in Task |-> none]
    /\ children = [s \in Slot |-> {}]
    /\ counter = [s \in Slot |-> 0]
    /\ event = [s \in Slot |-> none]
    /\ pending = {} /\ typed = {}
    /\ signalled = [t \in Thread |-> FALSE]
    /\ last_task_type = {}
    /\ script = [s \in Slot |-> IF s = root THEN Rounds[root] ELSE << >>]
    /\ pc = [t \in Thread |-> IF t = user THEN "body" ELSE "grab"]
    /\ stack = [t \in Thread |-> IF t = user THEN <<root>> ELSE << >>]
    /\ cand = [t \in Thread |-> none]
    /\ from = [t \in Thread |-> none]
    /\ seen = [t \in Thread |-> none]
    /\ done = {}
    /\ failed = "nothing"

(* Mutation: the list of the parent is not counted.                        *)
references_held_by_system_count_Three == 3

references_held_by_system_count == 4

Goto(t, label) == pc' = [pc EXCEPT ![t] = label]

(* decrement_reference_count_and_deallocate_when_zero.  Nobody else can    *)
(* reach a task whose count has dropped to zero.                           *)
Release(s) ==
    /\ refs' = [refs EXCEPT ![s] = @ - 1]
    /\ state' = IF refs[s] = 1 THEN [state EXCEPT ![s] = "deallocated"] ELSE state

-----------------------------------------------------------------------------
(* spawn_task, by the function the thread is executing *)

(* Allocation, the constructor and on_child_task_added of the parent.      *)
Spawn(t) ==
    /\ pc[t] = "body" /\ script[top(t)] # << >>
    /\ \E j \in Head(script[top(t)]), s \in Task :
          /\ state[s] = "deallocated"
          /\ state' = [state EXCEPT ![s] = "allocated"]
          /\ refs' = [refs EXCEPT ![s] = references_held_by_system_count]
          /\ job' = [job EXCEPT ![s] = j]
          /\ parent' = [parent EXCEPT ![s] = top(t)]
          /\ children' = [children EXCEPT ![s] = {}, ![top(t)] = @ \cup {s}]
          /\ counter' = [counter EXCEPT ![s] = 0, ![top(t)] = @ + 1]
          /\ event' = [event EXCEPT ![s] = none]
          /\ script' = [script EXCEPT ![s] = Rounds[j],
                                      ![top(t)] = <<Head(@) \ {j}>> \o Tail(@)]
          /\ cand' = [cand EXCEPT ![t] = s]
    /\ Goto(t, "push_pending")
    /\ UNCHANGED <<queues, signalled, last_task_type, stack, from, seen, done, failed>>

PushPending(t) ==
    /\ pc[t] = "push_pending"
    /\ pending' = pending \cup {cand[t]}
    /\ Goto(t, "push_typed")
    /\ UNCHANGED <<memory, typed, signalled, last_task_type, stack, cand, from,
                   seen, script, done, failed>>

PushTyped(t) ==
    /\ pc[t] = "push_typed"
    /\ typed' = typed \cup {cand[t]}
    /\ cand' = [cand EXCEPT ![t] = none]
    /\ Goto(t, "body")
    /\ UNCHANGED <<memory, pending, signalled, last_task_type, stack, from,
                   seen, script, done, failed>>

-----------------------------------------------------------------------------
(* grabbing a task *)

Pop(t, s, list) ==
    /\ cand' = [cand EXCEPT ![t] = s]
    /\ from' = [from EXCEPT ![t] = list]
    /\ Goto(t, "try_grab")
    /\ UNCHANGED <<state, refs, job, parent, counter, event, signalled,
                   last_task_type, stack, seen, script, done, failed>>

(* task_manager::grab_next_task prefers the type of the last task.  The    *)
(* order inside a queue is left open.                                      *)
PopTyped(t) ==
    /\ pc[t] = "grab" /\ t \in last_task_type
    /\ \E s \in typed : Pop(t, s, "typed") /\ typed' = typed \ {s}
    /\ UNCHANGED <<pending, children>>

PopPending(t) ==
    /\ pc[t] = "grab" /\ (t \notin last_task_type \/ typed = {})
    /\ \E s \in pending : Pop(t, s, "pending") /\ pending' = pending \ {s}
    /\ UNCHANGED <<typed, children>>

(* task::grab_next_child *)
PopChild(t) ==
    /\ pc[t] = "children"
    /\ \E s \in children[top(t)] :
          /\ Pop(t, s, "children")
          /\ children' = [children EXCEPT ![top(t)] = @ \ {s}]
    /\ UNCHANGED queues

(* Mutation: any task that is not over is grabbed.                         *)
TryGrab_Unfinished(t) ==
    /\ pc[t] = "try_grab"
    /\ IF state[cand[t]] \in {"allocated", "grabbed"}
       THEN state' = [state EXCEPT ![cand[t]] = "grabbed"] /\ Goto(t, "grabbed")
       ELSE Goto(t, "lost") /\ UNCHANGED state
    /\ UNCHANGED <<refs, job, parent, children, counter, event, queues, signalled,
                   last_task_type, stack, cand, from, seen, script, done, failed>>

TryGrab(t) ==
    /\ pc[t] = "try_grab"
    /\ IF state[cand[t]] = "allocated"
       THEN state' = [state EXCEPT ![cand[t]] = "grabbed"] /\ Goto(t, "grabbed")
       ELSE Goto(t, "lost") /\ UNCHANGED state
    /\ UNCHANGED <<refs, job, parent, children, counter, event, queues, signalled,
                   last_task_type, stack, cand, from, seen, script, done, failed>>

(* The reference of the list goes; a task that was lost is forgotten.      *)
Drop(t) ==
    /\ pc[t] \in {"grabbed", "lost"}
    /\ Release(cand[t])
    /\ IF pc[t] = "grabbed"
       THEN /\ stack' = [stack EXCEPT ![t] = Append(@, cand[t])]
            /\ last_task_type' = last_task_type \cup {t}
            /\ Goto(t, "body")
       ELSE /\ Goto(t, IF stack[t] = << >> THEN "grab" ELSE "children")
            /\ UNCHANGED <<stack, last_task_type>>
    /\ cand' = [cand EXCEPT ![t] = none]
    /\ from' = [from EXCEPT ![t] = none]
    /\ UNCHANGED <<job, parent, children, counter, event, queues, signalled, seen,
                   script, done, failed>>

-----------------------------------------------------------------------------
(* wait_for_all_children, by the function the thread is executing *)

(* A user thread then unlinks the children, whatever task it is executing. *)
AfterWait(t) == IF t = user THEN "waited" ELSE "body"

Wait(t) ==
    /\ pc[t] = "body" /\ script[top(t)] # << >> /\ Head(script[top(t)]) = {}
    /\ script' = [script EXCEPT ![top(t)] = Tail(@)]
    /\ Goto(t, "children")
    /\ UNCHANGED <<memory, queues, signalled, last_task_type, stack, cand, from,
                   seen, done, failed>>

(* Mutation: a child that is still being executed is not waited for.       *)
NoChildren_ListOnly(t) ==
    /\ pc[t] = "children" /\ children[top(t)] = {}
    /\ Goto(t, AfterWait(t))
    /\ UNCHANGED <<memory, queues, signalled, last_task_type, stack, cand, from,
                   seen, script, done, failed>>

(* execute_children has succeeded and no child is still being executed.    *)
NoChildren(t) ==
    /\ pc[t] = "children" /\ children[top(t)] = {}
    /\ Goto(t, IF counter[top(t)] # 0 THEN "arm"
               ELSE AfterWait(t))
    /\ UNCHANGED <<memory, queues, signalled, last_task_type, stack, cand, from,
                   seen, script, done, failed>>

(* set_event_for_wait_children stores the event, then resets it (and then  *)
(* stores it once more).                                                   *)
SetEvent(t) ==
    /\ pc[t] = "arm"
    /\ event' = [event EXCEPT ![top(t)] = t]
    /\ Goto(t, "reset")
    /\ UNCHANGED <<state, refs, job, parent, children, counter, queues, signalled,
                   last_task_type, stack, cand, from, seen, script, done, failed>>

ResetEvent(t) ==
    /\ pc[t] = "reset"
    /\ signalled' = [signalled EXCEPT ![t] = FALSE]
    /\ Goto(t, "recheck")
    /\ UNCHANGED <<memory, queues, last_task_type, stack, cand, from, seen, script,
                   done, failed>>

(* Mutation: the counter is not read again once the event is stored.       *)
Recheck_Trusting(t) ==
    /\ pc[t] = "recheck"
    /\ Goto(t, "sleep")
    /\ UNCHANGED <<memory, queues, signalled, last_task_type, stack, cand, from,
                   seen, script, done, failed>>

Recheck(t) ==
    /\ pc[t] = "recheck"
    /\ Goto(t, IF counter[top(t)] # 0 THEN "sleep" ELSE "assert")
    /\ UNCHANGED <<memory, queues, signalled, last_task_type, stack, cand, from,
                   seen, script, done, failed>>

(* Mutation: the thread goes on without waiting for the event.             *)
Sleep_Skipped(t) ==
    /\ pc[t] = "sleep"
    /\ Goto(t, AfterWait(t))
    /\ UNCHANGED <<memory, queues, signalled, last_task_type, stack, cand, from,
                   seen, script, done, failed>>

(* The events reset themselves when a wait ends.                           *)
Sleep(t) ==
    /\ pc[t] = "sleep" /\ signalled[t]
    /\ signalled' = [signalled EXCEPT ![t] = FALSE]
    /\ Goto(t, "assert")
    /\ UNCHANGED <<memory, queues, last_task_type, stack, cand, from, seen, script,
                   done, failed>>

(* R_ASSERT(no_children_to_execute), and the event is withdrawn.           *)
WaitEnds(t) ==
    /\ pc[t] = "assert"
    /\ failed' = IF counter[top(t)] # 0 THEN "no_children_to_execute" ELSE failed
    /\ event' = [event EXCEPT ![top(t)] = none]
    /\ Goto(t, AfterWait(t))
    /\ UNCHANGED <<state, refs, job, parent, children, counter, queues, signalled,
                   last_task_type, stack, cand, from, seen, script, done>>

-----------------------------------------------------------------------------
(* the end of task::execute *)

(* The function returns, and nobody can take the parent from the task.     *)
Return(t) ==
    /\ pc[t] = "body" /\ script[top(t)] = << >>
    /\ IF top(t) = root
       THEN Goto(t, "over") /\ UNCHANGED <<state, done>>
       ELSE /\ state' = [state EXCEPT ![top(t)] = "captured"]
            /\ done' = done \cup {job[top(t)]}
            /\ Goto(t, "ended")
    /\ UNCHANGED <<refs, job, parent, children, counter, event, queues, signalled,
                   last_task_type, stack, cand, from, seen, script, failed>>

(* on_child_task_ended of the parent: it decrements, then reads the        *)
(* counter, then the event, then sets that event.  The slot of the parent  *)
(* is not referenced: the parent may have returned, and be another task.   *)
ChildEnded(t) ==
    /\ pc[t] = "ended"
    /\ counter' = [counter EXCEPT ![parent[top(t)]] = @ - 1]
    /\ Goto(t, "read_counter")
    /\ UNCHANGED <<state, refs, job, parent, children, event, queues, signalled,
                   last_task_type, stack, cand, from, seen, script, done, failed>>

ReadCounter(t) ==
    /\ pc[t] = "read_counter"
    /\ Goto(t, IF counter[parent[top(t)]] = 0 THEN "read_event" ELSE "mark")
    /\ UNCHANGED <<memory, queues, signalled, last_task_type, stack, cand, from,
                   seen, script, done, failed>>

ReadEvent(t) ==
    /\ pc[t] = "read_event"
    /\ seen' = [seen EXCEPT ![t] = event[parent[top(t)]]]
    /\ Goto(t, IF event[parent[top(t)]] # none THEN "set_event" ELSE "mark")
    /\ UNCHANGED <<memory, queues, signalled, last_task_type, stack, cand, from,
                   script, done, failed>>

(* m_event_wait_for_children is tested and used in two expressions: the    *)
(* build may keep the pointer it tested or load it again.                  *)
SetParentsEvent(t) ==
    /\ pc[t] = "set_event"
    /\ \E e \in {seen[t], event[parent[top(t)]]} :
          IF e = none
          THEN failed' = "null" /\ UNCHANGED signalled
          ELSE signalled' = [signalled EXCEPT ![e] = TRUE] /\ UNCHANGED failed
    /\ seen' = [seen EXCEPT ![t] = none]
    /\ Goto(t, "mark")
    /\ UNCHANGED <<memory, queues, last_task_type, stack, cand, from, script, done>>

MarkExecuted(t) ==
    /\ pc[t] = "mark"
    /\ state' = [state EXCEPT ![top(t)] = "executed"]
    /\ Goto(t, "unlink")
    /\ UNCHANGED <<refs, job, parent, children, counter, event, queues, signalled,
                   last_task_type, stack, cand, from, seen, script, done, failed>>

(* Mutation: the reference of the parent's list is forgotten.              *)
Unlink_Keeping(t) ==
    /\ pc[t] \in {"waited", "unlink"}
    /\ \E s \in children[top(t)] :
          /\ state[s] = "executed"
          /\ children' = [children EXCEPT ![top(t)] = @ \ {s}]
    /\ UNCHANGED <<state, refs, job, parent, counter, event, queues, threads, script,
                   done, failed>>

(* unlink_from_children spins until a child is executed. *)
Unlink(t) ==
    /\ pc[t] \in {"waited", "unlink"}
    /\ \E s \in children[top(t)] :
          /\ state[s] = "executed"
          /\ children' = [children EXCEPT ![top(t)] = @ \ {s}]
          /\ Release(s)
    /\ UNCHANGED <<job, parent, counter, event, queues, threads, script, done, failed>>

(* The wait of the user thread is over.                                    *)
GoOn(t) ==
    /\ pc[t] = "waited" /\ children[top(t)] = {}
    /\ Goto(t, "body")
    /\ UNCHANGED <<memory, queues, signalled, last_task_type, stack, cand, from,
                   seen, script, done, failed>>

(* The task is over, and the thread goes on where it grabbed it: in        *)
(* grab_next_task, or in execute_children, which ends if the core of the   *)
(* thread is oversubscribed.                                               *)
Finish(t) ==
    /\ pc[t] = "unlink" /\ children[top(t)] = {}
    /\ Release(top(t))
    /\ stack' = [stack EXCEPT ![t] = SubSeq(@, 1, Len(@) - 1)]
    /\ IF Len(stack[t]) = 1
       THEN Goto(t, "grab")
       ELSE \E label \in {"children", "arm"} : Goto(t, label)
    /\ UNCHANGED <<job, parent, children, counter, event, queues, signalled,
                   last_task_type, cand, from, seen, script, done, failed>>

-----------------------------------------------------------------------------

Step(t) ==
    \/ Spawn(t) \/ PushPending(t) \/ PushTyped(t)
    \/ PopTyped(t) \/ PopPending(t) \/ PopChild(t) \/ TryGrab(t) \/ Drop(t)
    \/ Wait(t) \/ NoChildren(t) \/ SetEvent(t) \/ ResetEvent(t) \/ Recheck(t)
    \/ Sleep(t) \/ WaitEnds(t)
    \/ Return(t) \/ ChildEnded(t) \/ ReadCounter(t) \/ ReadEvent(t)
    \/ SetParentsEvent(t) \/ MarkExecuted(t) \/ Unlink(t) \/ Finish(t)
    \/ GoOn(t)

(* An assertion that fails ends the program.                               *)
Running == failed = "nothing"

Next == \E t \in Thread : Running /\ Step(t)

Spec == Init /\ [][Next]_vars
FairSpec == Spec /\ \A t \in Thread : WF_vars(Running /\ Step(t))

-----------------------------------------------------------------------------
(* Properties *)

Publishing == {"push_pending", "push_typed"}
Trying == {"try_grab", "grabbed", "lost"}
Working == {"body", "children", "arm", "reset", "recheck", "sleep", "assert",
            "waited"}
Ending == {"ended", "read_counter", "read_event", "set_event", "mark"}

TasksTypeOK ==
    /\ state \in [Task -> {"deallocated", "allocated", "grabbed", "captured",
                           "executed"}]
    /\ refs \in [Task -> 0..4]
    /\ job \in [Task -> Job \cup {none}]
    /\ parent \in [Task -> Slot \cup {none}]
    /\ children \in [Slot -> SUBSET Task]
    /\ counter \in [Slot -> Int]
    /\ event \in [Slot -> Thread \cup {none}]
    /\ pending \subseteq Task /\ typed \subseteq Task
    /\ signalled \in [Thread -> BOOLEAN]
    /\ last_task_type \subseteq Thread
    /\ script \in [Slot -> Seq(SUBSET Job)]
    /\ pc \in [Thread -> {"grab", "unlink", "over"} \cup Publishing \cup Trying
                           \cup Working \cup Ending]
    /\ stack \in [Thread -> Seq(Slot)]
    /\ cand \in [Thread -> Task \cup {none}]
    /\ from \in [Thread -> {none, "pending", "typed", "children"}]
    /\ seen \in [Thread -> Thread \cup {none}]
    /\ done \subseteq Job
    /\ failed \in {"nothing", "no_children_to_execute", "null"}

(* A thread holds the reference of a list to a task: it has taken the task *)
(* from there and not dropped it yet, or it is about to push it there.     *)
HoldsPending(t, s) == cand[t] = s /\ (from[t] = "pending" \/ pc[t] = "push_pending")
HoldsTyped(t, s)   == cand[t] = s /\ (from[t] = "typed" \/ pc[t] \in Publishing)
HoldsChild(t, s)   == cand[t] = s /\ from[t] = "children"

InPending(s)  == s \in pending \/ \E t \in Thread : HoldsPending(t, s)
InTyped(s)    == s \in typed \/ \E t \in Thread : HoldsTyped(t, s)
InChildren(s) == \/ \E p \in Slot : s \in children[p]
                 \/ \E t \in Thread : HoldsChild(t, s)

OnStack(t, s) == \E i \in 1..Len(stack[t]) : stack[t][i] = s

Unfinished(s) == \/ state[s] \in {"allocated", "grabbed", "captured"}
                 \/ \E t \in Thread : OnStack(t, s)

One(b) == IF b THEN 1 ELSE 0

(* The counter of a task is the number of its references: those of its     *)
(* three lists, and that of its execution.  A slot is given back exactly   *)
(* when nobody refers to it (tasks_task.h:64 to 72).                       *)
RefsCountReferences ==
    \A s \in Task :
        /\ refs[s] = One(InPending(s)) + One(InTyped(s)) + One(InChildren(s))
                     + One(Unfinished(s))
        /\ refs[s] = 0 <=> state[s] = "deallocated"

(* A task that sits in three lists is taken by as many threads, and one of *)
(* them executes it: at most one, once, and on the slot it was spawned in. *)
EachTaskHasOneExecutor ==
    \A t1, t2 \in Thread :
        \A i1 \in 1..Len(stack[t1]), i2 \in 1..Len(stack[t2]) :
            stack[t1][i1] = stack[t2][i2] => t1 = t2 /\ i1 = i2

JobsOf(rounds) == UNION {rounds[i] : i \in 1..Len(rounds)}

Spawned(s) == JobsOf(Rounds[IF s = root THEN root ELSE job[s]]) \ JobsOf(script[s])

(* When the wait of a parent returns, every child it had spawned has been  *)
(* executed, whoever did it, and whether the parent slept or not; and so   *)
(* had all that those children spawned before them.                        *)
WaitMeansDone ==
    /\ \A t \in Thread : Running /\ pc[t] \in {"waited", "ended", "unlink", "over"} =>
          Spawned(top(t)) \subseteq done
    /\ \A j \in done : JobsOf(Rounds[j]) \subseteq done

(* A parent unlinks only children that are ended: the assertion of         *)
(* unlink_from_child (tasks_task.cpp:115) holds.                           *)
UnlinkedChildrenAreEnded ==
    \A t \in Thread : Running /\ pc[t] \in {"waited", "unlink"} =>
        \A s \in children[top(t)] : state[s] \in {"captured", "executed"}

(* A thread that cannot go on by itself: it sleeps until its event is set, *)
(* or it spins until a child is marked as executed.                        *)
Blocked(t) ==
    \/ pc[t] = "sleep" /\ ~signalled[t]
    \/ /\ pc[t] \in {"waited", "unlink"} /\ children[top(t)] # {}
       /\ \A s \in children[top(t)] : state[s] # "executed"

(* The child is being executed, or its end is on the way to the parent:    *)
(* the thread that subtracted the last child is the one that sets the      *)
(* event, and it sets that of t.                                           *)
WillWake(u, t, s) ==
    \/ state[s] = "grabbed" /\ (OnStack(u, s) \/ (pc[u] = "grabbed" /\ cand[u] = s))
    \/ /\ stack[u] # << >> /\ top(u) = s
       /\ \/ pc[u] = "ended"
          \/ pc[u] \in {"read_counter", "read_event"} /\ counter[top(t)] = 0
          \/ pc[u] = "set_event" /\ seen[u] = t

WillMark(u, s) == stack[u] # << >> /\ top(u) = s /\ pc[u] \in Ending

Serves(u, t) ==
    \E s \in Task :
        /\ parent[s] = top(t)
        /\ IF pc[t] = "sleep" THEN WillWake(u, t, s)
           ELSE s \in children[top(t)] /\ WillMark(u, s)

(* A child nobody has grabbed is found in the queue of all tasks.          *)
HasChildToGrab(t) ==
    \E s \in Task : parent[s] = top(t) /\ state[s] = "allocated" /\ InPending(s)

(* No wakeup is lost, and the threads do not wait for each other in a      *)
(* circle: of the threads of any group that are blocked, one has a child   *)
(* that any thread may grab, or is served by a thread outside the group.   *)
NobodyWaitsInACircle ==
    Running => \A W \in SUBSET {t \in Thread : Blocked(t)} : W # {} =>
        \E t \in W : HasChildToGrab(t) \/ \E u \in Thread \ W : Serves(u, t)

(* No wakeup is lost and no task forgotten: every wait ends, those of the  *)
(* tasks and so those of the user thread, unless an assertion fails.       *)
WaitsEnd == <>(pc[user] = "over" \/ ~Running)

(* R_ASSERT(parent->no_children_to_execute()), tasks_thread_pool.cpp:252:  *)
(* only the last child of this wait sets the event of the parent.          *)
WaitAssertionHolds == failed # "no_children_to_execute"
=============================================================================
