------------------------------ MODULE Deletion ------------------------------
(***************************************************************************)
(* How the resources manager gets rid of unmanaged resources.  The thread  *)
(* that drops the last pointer unregisters the resource from the file      *)
(* tree, where queries look it up, and deletes it if it is the thread the  *)
(* resource was created for; otherwise it leaves it to the resources       *)
(* thread, which hands it to its thread, where the next                    *)
(* dispatch_callbacks deletes it.  Mounts wait until nothing is left to    *)
(* delete; a thread that leaves waits until the manager has nothing to do. *)
(*                                                                         *)
(* A thread has at most one pointer to a resource, so that the reference   *)
(* count of a resource is the size of the set of those that point to it.   *)
(* A user asks for a resource and for a mount once; every thread of the    *)
(* model has thread_local_data, as every thread that queried has.          *)
(***************************************************************************)
EXTENDS Naturals, Sequences, FiniteSets

CONSTANTS User,          (* the threads that use the manager                 *)
          resources,     (* the resources thread                             *)
          cooker,        (* the cooker thread                                *)
          Resource,
          Cached,        (* those associated with a node of the file tree    *)
          Owner,         (* [Resource -> Thread], deallocate_thread_id       *)
          Inner,         (* [Resource -> the one it points to, or none]      *)
          Pointers,      (* [Resource -> the users that point to it]         *)
          Wanted,        (* [User -> the resource it will ask for, or none]  *)
          Mounting,      (* the users that will mount something              *)
          Leaving,       (* the users that will leave                        *)
          none

Thread == User \cup {resources, cooker}

ASSUME DeletionAssumption ==
    /\ resources \notin User /\ cooker \notin User /\ resources # cooker
    /\ Thread \cap Resource = {} /\ none \notin Thread \cup Resource
    /\ Cached \subseteq Resource
    /\ Owner \in [Resource -> Thread]
    /\ Inner \in [Resource -> Resource \cup {none}]
    /\ \A r \in Resource : Inner[r] # r
    /\ Pointers \in [Resource -> SUBSET User]
    /\ Wanted \in [User -> Cached \cup {none}]
    /\ Mounting \subseteq User /\ Leaving \subseteq User
    /\ \A u \in Leaving : Wanted[u] = none
    /\ IsFiniteSet(Resource)

VARIABLES
    refs,       (* [Resource -> who points to it]: its m_reference_count     *)
    fat,        (* the cached resources their nodes are associated with      *)
    deleted,    (* those whose destructor has begun                          *)
    rescued,    (* history: those a lookup got when nobody pointed to them   *)
    delayed,    (* m_delayed_delete_unmanaged_resources                      *)
    local,      (* [Thread -> its delayed_delete_unmanaged_resources]        *)
    m_num,      (* m_num_delay_delete_unmanaged_resources                    *)
    m_flag,     (* m_dispatching_delay_delete_unmanaged_resources_flag       *)
    pushed_by,  (* [Resource -> the thread that delayed its deletion]        *)
    wakeup,     (* the wake-up events of the manager's threads               *)
    pc, cand, stack, batch, back,  (* [Thread -> where it is; the resource   *)
                (* it destroys or moves; those whose deletion it is in; the  *)
                (* rest of the list it deletes; where it goes on after that] *)
    query,      (* [User -> how far its query is]                            *)
    mount,      (* [User -> how far its mount task is]                       *)
    pending,    (* whose mounts m_count_of_pending_mount_operations counts   *)
    client,     (* whose query or mount the resources thread works on        *)
    again,      (* the tick has left something to the next one               *)
    leaving,    (* the users that have called wait_and_dispatch_callbacks    *)
    m_mutex,    (* who holds m_wait_and_dispatch_callbacks_mutex             *)
    seen        (* [User -> local_data_allows]                               *)

life  == <<refs, fat, deleted, rescued>>
lists == <<delayed, local, m_num, m_flag, pushed_by>>
where == <<pc, cand, stack, batch, back>>
tasks == <<query, mount, pending, client, again>>
leave == <<leaving, m_mutex, seen>>
vars  == <<life, lists, wakeup, where, tasks, leave>>

top(t) == stack[t][Len(stack[t])]
Front(s) == SubSeq(s, 1, Len(s) - 1)
Go(t, label) == pc' = [pc EXCEPT ![t] = label]

Init ==
    /\ refs = [r \in Resource |-> Pointers[r] \cup {q \in Resource : Inner[q] = r}]
    /\ fat = Cached
    /\ deleted = {}
    /\ rescued = {}
    /\ delayed = << >>
    /\ local = [t \in Thread |-> << >>]
    /\ m_num = 0
    /\ m_flag = FALSE
    /\ pushed_by = [r \in Resource |-> none]
    /\ wakeup = [t \in {resources, cooker} |-> FALSE]
    /\ pc = [t \in Thread |-> IF t \in User THEN "idle" ELSE "sleep"]
    /\ cand = [t \in Thread |-> none]
    /\ stack = [t \in Thread |-> << >>]
    /\ batch = [t \in Thread |-> << >>]
    /\ back = [t \in Thread |-> IF t \in User THEN "idle" ELSE "sleep"]
    /\ query = [u \in User |-> "none"]
    /\ mount = [u \in User |-> "none"]
    /\ pending = {}
    /\ client = none
    /\ again = FALSE
    /\ leaving = {}
    /\ m_mutex = none
    /\ seen = [u \in User |-> FALSE]

-----------------------------------------------------------------------------
(* The last pointer: unmanaged_intrusive_base::destroy *)

(* where a thread goes on once it is done with a resource                  *)
Rest(t) == IF stack[t] # << >> THEN "free"
                 ELSE IF batch[t] # << >> THEN "batch" ELSE back[t]

DestroyLabels == {"destroy", "associated", "clean", "unregistered"}

(* p no longer points to r; if nobody does, t destroys r                   *)
Drop(t, p, r, otherwise) ==
    /\ refs' = [refs EXCEPT ![r] = @ \ {p}]
    /\ IF refs[r] \subseteq {p}
       THEN /\ cand' = [cand EXCEPT ![t] = r]
            /\ Go(t, "destroy")
       ELSE /\ Go(t, otherwise)
            /\ UNCHANGED cand

(* A user drops a pointer it has got.                                      *)
Release(u, r) ==
    /\ pc[u] = "idle"
    /\ u \in refs[r]
    /\ r = Wanted[u] => query[u] # "ready"
    /\ Drop(u, u, r, "idle")
    /\ back' = [back EXCEPT ![u] = "idle"]
    /\ UNCHANGED <<fat, deleted, rescued, lists, wakeup, stack, batch, tasks, leave>>

(* the node of r is locked by a thread that has found the resource         *)
Locked(r) == \E t \in Thread : pc[t] = "found" /\ cand[t] = r

CheckCount(t) ==
    /\ pc[t] = "destroy"
    /\ Go(t, IF refs[cand[t]] # {} THEN Rest(t)
             ELSE IF cand[t] \in Cached THEN "associated" ELSE "unregistered")
    /\ UNCHANGED <<life, lists, wakeup, cand, stack, batch, back, tasks, leave>>

(* is_associated_with: if not, another thread has unregistered it already, *)
(* a lookup having got it when nobody pointed to it, and the user having   *)
(* dropped it again.  This thread goes on to delete it once more, which is *)
(* undefined; it is not followed further.                                  *)
CheckFat(t) ==
    /\ pc[t] = "associated"
    /\ ~Locked(cand[t])
    /\ Go(t, IF cand[t] \in fat THEN "clean" ELSE "twice")
    /\ UNCHANGED <<life, lists, wakeup, cand, stack, batch, back, tasks, leave>>

(* Mutation: the count is not tested again under the lock of the node.     *)
Clean_IgnoresCount(t) ==
    /\ pc[t] = "clean"
    /\ ~Locked(cand[t])
    /\ Go(t, IF cand[t] \in fat THEN "unregistered" ELSE Rest(t))
    /\ fat' = fat \ {cand[t]}
    /\ UNCHANGED <<refs, deleted, rescued, lists, wakeup, cand, stack, batch, back, tasks, leave>>

(* try_clean_associated_if_zero_reference_resource: or it was reclaimed    *)
Clean(t) ==
    /\ pc[t] = "clean"
    /\ ~Locked(cand[t])
    /\ IF cand[t] \in fat /\ refs[cand[t]] = {}
       THEN Go(t, "unregistered") /\ fat' = fat \ {cand[t]}
       ELSE Go(t, Rest(t)) /\ UNCHANGED fat
    /\ UNCHANGED <<refs, deleted, rescued, lists, wakeup, cand, stack, batch, back, tasks, leave>>

(* its own thread deletes the resource at once                             *)
DeleteNow(t) ==
    /\ pc[t] = "unregistered"
    /\ Owner[cand[t]] = t
    /\ stack' = [stack EXCEPT ![t] = Append(@, cand[t])]
    /\ Go(t, "destruct")
    /\ UNCHANGED <<life, lists, wakeup, cand, batch, back, tasks, leave>>

(* push_delayed_delete_unmanaged_resource, up to the counter               *)
CountDelayed(t) ==
    /\ pc[t] = "unregistered"
    /\ Owner[cand[t]] # t
    /\ m_num' = m_num + 1
    /\ pushed_by' = [pushed_by EXCEPT ![cand[t]] = t]
    /\ Go(t, "push")
    /\ UNCHANGED <<life, delayed, local, m_flag, wakeup, cand, stack, batch, back,
                   tasks, leave>>

(* ... and the rest of it                                                  *)
PushDelayed(t) ==
    /\ pc[t] = "push"
    /\ delayed' = Append(delayed, cand[t])
    /\ Go(t, "wakeup_resources_thread")
    /\ UNCHANGED <<life, local, m_num, m_flag, pushed_by, wakeup, cand, stack, batch, back,
                   tasks, leave>>

(* after this and whatever else is left to the resources thread            *)
WakeupResources(t) ==
    /\ pc[t] = "wakeup_resources_thread"
    /\ wakeup' = [wakeup EXCEPT ![resources] = TRUE]
    /\ Go(t, Rest(t))
    /\ UNCHANGED <<life, lists, cand, stack, batch, back, tasks, leave>>

-----------------------------------------------------------------------------
(* delete_unmanaged_resource and delete_delayed_unmanaged_resource *)

(* the destructor drops the pointer the resource has                       *)
Destruct(t) ==
    /\ pc[t] = "destruct"
    /\ deleted' = deleted \cup {top(t)}
    /\ IF Inner[top(t)] # none
       THEN Drop(t, top(t), Inner[top(t)], "free")
       ELSE Go(t, "free") /\ UNCHANGED <<refs, cand>>
    /\ UNCHANGED <<fat, rescued, lists, wakeup, stack, batch, back, tasks, leave>>

(* Mutation: resources deleted by the resources thread are still counted.  *)
Free_KeepsCount(t) ==
    /\ pc[t] = "free"
    /\ stack' = [stack EXCEPT ![t] = Front(@)]
    /\ m_num' = IF pushed_by[top(t)] = none \/ t = resources THEN m_num ELSE m_num - 1
    /\ Go(t, IF Len(stack[t]) > 1 THEN "free"
             ELSE IF batch[t] # << >> THEN "batch" ELSE back[t])
    /\ UNCHANGED <<life, delayed, local, m_flag, pushed_by, wakeup, cand, batch, back,
                   tasks, leave>>

Free(t) ==
    /\ pc[t] = "free"
    /\ stack' = [stack EXCEPT ![t] = Front(@)]
    /\ m_num' = IF pushed_by[top(t)] = none THEN m_num ELSE m_num - 1
    /\ Go(t, IF Len(stack[t]) > 1 THEN "free"
             ELSE IF batch[t] # << >> THEN "batch" ELSE back[t])
    /\ UNCHANGED <<life, delayed, local, m_flag, pushed_by, wakeup, cand, batch, back,
                   tasks, leave>>

(* the next one of the list a thread has taken                             *)
DeleteNext(t) ==
    /\ pc[t] = "batch"
    /\ stack' = [stack EXCEPT ![t] = << Head(batch[t]) >>]
    /\ batch' = [batch EXCEPT ![t] = Tail(@)]
    /\ Go(t, "destruct")
    /\ UNCHANGED <<life, lists, wakeup, cand, back, tasks, leave>>

(* Mutation: the list is read but not emptied.                             *)
TakeLocal_KeepsList(t, then) ==
    /\ batch' = [batch EXCEPT ![t] = local[t]]
    /\ back' = [back EXCEPT ![t] = then]
    /\ Go(t, IF local[t] = << >> THEN then ELSE "batch")
    /\ UNCHANGED <<delayed, local, m_num, m_flag, pushed_by>>

(* delete_delayed_unmanaged_resources takes the whole list of the thread   *)
TakeLocal(t, then) ==
    /\ batch' = [batch EXCEPT ![t] = local[t]]
    /\ local' = [local EXCEPT ![t] = << >>]
    /\ back' = [back EXCEPT ![t] = then]
    /\ Go(t, IF local[t] = << >> THEN then ELSE "batch")
    /\ UNCHANGED <<delayed, m_num, m_flag, pushed_by>>

Dying(t) == CheckCount(t) \/ CheckFat(t) \/ Clean(t) \/ DeleteNow(t) \/ CountDelayed(t)
            \/ PushDelayed(t) \/ WakeupResources(t) \/ Destruct(t) \/ Free(t)
            \/ DeleteNext(t)

-----------------------------------------------------------------------------
(* The resources thread: resources_tick_impl *)

(* A tick takes what it will work on.  Queries wait while mounts pend.     *)
Wake ==
    /\ pc[resources] = "sleep"
    /\ wakeup[resources]
    /\ wakeup' = [wakeup EXCEPT ![resources] = FALSE]
    /\ again' = (pending # {})
    /\ query' = [u \in User |-> IF query[u] = "new" /\ pending = {} THEN "taken" ELSE query[u]]
    /\ mount' = [u \in User |-> IF mount[u] = "queued" THEN "taken" ELSE mount[u]]
    /\ Go(resources, "dispatch")
    /\ UNCHANGED <<life, lists, cand, stack, batch, back, pending, client, leave>>

(* Mutation: the flag is not raised.                                       *)
BeginDispatch_NoFlag ==
    /\ pc[resources] = "dispatch"
    /\ m_flag' = FALSE
    /\ Go(resources, "scan")
    /\ back' = [back EXCEPT ![resources] = "scan"]
    /\ UNCHANGED <<life, delayed, local, m_num, pushed_by, wakeup, cand, stack, batch,
                   tasks, leave>>

(* dispatch_delete_delayed_unmanaged_resources                             *)
BeginDispatch ==
    /\ pc[resources] = "dispatch"
    /\ m_flag' = TRUE
    /\ Go(resources, "scan")
    /\ back' = [back EXCEPT ![resources] = "scan"]
    /\ UNCHANGED <<life, delayed, local, m_num, pushed_by, wakeup, cand, stack, batch,
                   tasks, leave>>

(* the first resource of the list is deleted here or given to its thread   *)
Scan ==
    /\ pc[resources] = "scan"
    /\ delayed # << >>
    /\ delayed' = Tail(delayed)
    /\ IF Owner[Head(delayed)] = resources
       THEN /\ stack' = [stack EXCEPT ![resources] = << Head(delayed) >>]
            /\ Go(resources, "destruct")
            /\ UNCHANGED cand
       ELSE /\ cand' = [cand EXCEPT ![resources] = Head(delayed)]
            /\ Go(resources, "transfer")
            /\ UNCHANGED stack
    /\ UNCHANGED <<life, local, m_num, m_flag, pushed_by, wakeup, batch, back, tasks, leave>>

(* Mutation: the cooker is not told of its resources.                      *)
Transfer_TellsNobody ==
    LET r == cand[resources] IN
    /\ pc[resources] = "transfer"
    /\ local' = [local EXCEPT ![Owner[r]] = Append(@, r)]
    /\ Go(resources, "scan")
    /\ UNCHANGED <<life, delayed, m_num, m_flag, pushed_by, wakeup, cand, stack, batch,
                   back, tasks, leave>>

Transfer ==
    LET r == cand[resources] IN
    /\ pc[resources] = "transfer"
    /\ local' = [local EXCEPT ![Owner[r]] = Append(@, r)]
    /\ Go(resources, IF Owner[r] = cooker THEN "wakeup_cooker_thread" ELSE "scan")
    /\ UNCHANGED <<life, delayed, m_num, m_flag, pushed_by, wakeup, cand, stack, batch,
                   back, tasks, leave>>

WakeupCooker ==
    /\ pc[resources] = "wakeup_cooker_thread"
    /\ wakeup' = [wakeup EXCEPT ![cooker] = TRUE]
    /\ Go(resources, "scan")
    /\ UNCHANGED <<life, lists, cand, stack, batch, back, tasks, leave>>

ScanEnds ==
    /\ pc[resources] = "scan"
    /\ delayed = << >>
    /\ Go(resources, "dispatched")
    /\ UNCHANGED <<life, lists, wakeup, cand, stack, batch, back, tasks, leave>>

EndDispatch ==
    /\ pc[resources] = "dispatched"
    /\ m_flag' = FALSE
    /\ Go(resources, "mount")
    /\ UNCHANGED <<life, delayed, local, m_num, pushed_by, wakeup, cand, stack, batch, back,
                   tasks, leave>>

(* execute_fs_task of a mount: first nothing may be left to delete ...     *)
WaitForDeletions ==
    /\ pc[resources] = "mount"
    /\ \E u \in User : mount[u] = "taken"
    /\ m_num # 0
    /\ Go(resources, "dispatch")
    /\ UNCHANGED <<life, lists, wakeup, cand, stack, batch, back, tasks, leave>>

(* ... then it is executed, and its result given to the thread that asked  *)
Execute(u) ==
    /\ pc[resources] = "mount"
    /\ mount[u] = "taken"
    /\ m_num = 0
    /\ mount' = [mount EXCEPT ![u] = "ready"]
    /\ client' = u
    /\ Go(resources, "mounted")
    /\ UNCHANGED <<life, lists, wakeup, cand, stack, batch, back, query, pending, again, leave>>

Executed ==
    /\ pc[resources] = "mounted"
    /\ pending' = pending \ {client}
    /\ Go(resources, "mount")
    /\ UNCHANGED <<life, lists, wakeup, cand, stack, batch, back, query, mount, client,
                   again, leave>>

NoMoreMounts ==
    /\ pc[resources] = "mount"
    /\ \A u \in User : mount[u] # "taken"
    /\ Go(resources, "init")
    /\ UNCHANGED <<life, lists, wakeup, cand, stack, batch, back, tasks, leave>>

(* init_new_queries: is the resource still there?                          *)
Find(u) ==
    LET r == Wanted[u] IN
    /\ pc[resources] = "init"
    /\ query[u] = "taken"
    /\ ~Locked(r)
    /\ IF r \in fat /\ refs[r] # {}
       THEN /\ cand' = [cand EXCEPT ![resources] = r]
            /\ Go(resources, "found")
            /\ client' = u
            /\ UNCHANGED query
       ELSE /\ query' = [query EXCEPT ![u] = "ready"]
            /\ UNCHANGED <<pc, cand, client>>
    /\ UNCHANGED <<life, lists, wakeup, stack, batch, back, mount, pending, again, leave>>

(* u gets a pointer to r, whether somebody still has one or not            *)
Take(u, r) ==
    /\ refs' = [refs EXCEPT ![r] = @ \cup {u}]
    /\ rescued' = IF refs[r] = {} THEN rescued \cup {r} ELSE rescued

(* then get_associated_ptr_helper takes a pointer and unlocks the node     *)
Reclaim ==
    /\ pc[resources] = "found"
    /\ Take(client, cand[resources])
    /\ query' = [query EXCEPT ![client] = "ready"]
    /\ Go(resources, "init")
    /\ UNCHANGED <<fat, deleted, lists, wakeup, cand, stack, batch, back, mount, pending,
                   client, again, leave>>

(* Mutation: the event is reset when the work is done, not before.         *)
TickEnds_ResetsEvent ==
    /\ pc[resources] = "init"
    /\ \A u \in User : query[u] # "taken"
    /\ wakeup' = [wakeup EXCEPT ![resources] = again]
    /\ Go(resources, "sleep")
    /\ UNCHANGED <<life, lists, cand, stack, batch, back, tasks, leave>>

TickEnds ==
    /\ pc[resources] = "init"
    /\ \A u \in User : query[u] # "taken"
    /\ wakeup' = [wakeup EXCEPT ![resources] = @ \/ again]
    /\ Go(resources, "sleep")
    /\ UNCHANGED <<life, lists, cand, stack, batch, back, tasks, leave>>

Manager ==
    \/ Wake \/ BeginDispatch \/ Scan \/ Transfer \/ WakeupCooker \/ ScanEnds \/ EndDispatch
    \/ WaitForDeletions \/ (\E u \in User : Execute(u)) \/ Executed \/ NoMoreMounts
    \/ (\E u \in User : Find(u)) \/ Reclaim \/ TickEnds
    \/ Dying(resources)

(* The cooker: cooker_tick_impl deletes what it finds, twice.              *)
CookerWakes ==
    /\ pc[cooker] = "sleep"
    /\ wakeup[cooker]
    /\ wakeup' = [wakeup EXCEPT ![cooker] = FALSE]
    /\ TakeLocal(cooker, "again")
    /\ UNCHANGED <<life, cand, stack, tasks, leave>>

CookerTakesAgain ==
    /\ pc[cooker] = "again"
    /\ TakeLocal(cooker, "sleep")
    /\ UNCHANGED <<life, wakeup, cand, stack, tasks, leave>>

Cooker == CookerWakes \/ CookerTakesAgain \/ Dying(cooker)

-----------------------------------------------------------------------------
(* The users *)

(* A query looks the resource up at once if no mount pends; what is not    *)
(* found is loaded anew, which is not modelled.                            *)
Ask(u) ==
    LET r == Wanted[u] IN
    /\ pc[u] = "idle"
    /\ query[u] = "none"
    /\ r # none /\ u \notin refs[r]
    /\ pending = {} /\ ~Locked(r)
    /\ IF r \in fat /\ refs[r] # {}
       THEN /\ query' = [query EXCEPT ![u] = "found"]
            /\ cand' = [cand EXCEPT ![u] = r]
            /\ Go(u, "found")
       ELSE /\ query' = [query EXCEPT ![u] = "done"]
            /\ UNCHANGED <<pc, cand>>
    /\ UNCHANGED <<life, lists, wakeup, stack, batch, back, mount, pending, client, again, leave>>

ReclaimAtOnce(u) ==
    /\ pc[u] = "found"
    /\ Take(u, cand[u])
    /\ query' = [query EXCEPT ![u] = "done"]
    /\ Go(u, "idle")
    /\ UNCHANGED <<fat, deleted, lists, wakeup, cand, stack, batch, back, mount, pending,
                   client, again, leave>>

(* otherwise it is left to the resources thread                            *)
AskLater(u) ==
    /\ pc[u] = "idle"
    /\ query[u] = "none"
    /\ Wanted[u] # none /\ u \notin refs[Wanted[u]]
    /\ pending # {}
    /\ query' = [query EXCEPT ![u] = "new"]
    /\ back' = [back EXCEPT ![u] = "idle"]
    /\ Go(u, "wakeup_resources_thread")
    /\ UNCHANGED <<life, lists, wakeup, cand, stack, batch, mount, pending, client, again, leave>>

(* query_mount_...: the constructor of the task counts it, under the mutex *)
(* a query holds that looks for its resource at once, ...                  *)
CreateMount(u) ==
    /\ pc[u] = "idle"
    /\ u \in Mounting /\ mount[u] = "none"
    /\ \A v \in User : pc[v] # "found"
    /\ mount' = [mount EXCEPT ![u] = "created"]
    /\ pending' = pending \cup {u}
    /\ Go(u, "add_fs_task")
    /\ UNCHANGED <<life, lists, wakeup, cand, stack, batch, back, query, client, again, leave>>

(* ... and add_fs_task leaves it to the resources thread                   *)
AddMount(u) ==
    /\ pc[u] = "add_fs_task"
    /\ mount' = [mount EXCEPT ![u] = "queued"]
    /\ back' = [back EXCEPT ![u] = "idle"]
    /\ Go(u, "wakeup_resources_thread")
    /\ UNCHANGED <<life, lists, wakeup, cand, stack, batch, query, pending, client, again, leave>>

(* dispatch_callbacks of the frame, if it has anything to do               *)
Dispatch(u) ==
    /\ pc[u] = "idle"
    /\ local[u] # << >> \/ mount[u] = "ready" \/ query[u] = "ready"
    /\ TakeLocal(u, "callbacks")
    /\ UNCHANGED <<life, wakeup, cand, stack, tasks, leave>>

(* Once a thread is leaving it holds m_mutex or tries to get it.           *)
Callbacks(u) ==
    /\ pc[u] = "callbacks"
    /\ mount' = [mount EXCEPT ![u] = IF @ = "ready" THEN "done" ELSE @]
    /\ query' = [query EXCEPT ![u] = IF @ = "ready" THEN "done" ELSE @]
    /\ Go(u, IF m_mutex = u THEN "local" ELSE IF u \in leaving THEN "try" ELSE "idle")
    /\ UNCHANGED <<life, lists, wakeup, cand, stack, batch, back, pending, client, again, leave>>

(* finalize_thread_usage: wait_and_dispatch_callbacks of a thread that     *)
(* has dropped its pointers                                                *)
Finalize(u) ==
    /\ pc[u] = "idle"
    /\ u \in Leaving
    /\ \A r \in Resource : u \notin refs[r]
    /\ leaving' = leaving \cup {u}
    /\ Go(u, "try")
    /\ UNCHANGED <<life, lists, wakeup, cand, stack, batch, back, tasks, m_mutex, seen>>

TryLock(u) ==
    /\ pc[u] = "try"
    /\ m_mutex = none
    /\ m_mutex' = u
    /\ Go(u, "local")
    /\ UNCHANGED <<life, lists, wakeup, cand, stack, batch, back, tasks, leaving, seen>>

(* it dispatches until it gets the mutex and while it cannot exit          *)
DispatchAndRetry(u) ==
    /\ pc[u] = "retry" \/ (pc[u] = "try" /\ m_mutex # none)
    /\ TakeLocal(u, "callbacks")
    /\ UNCHANGED <<life, wakeup, cand, stack, tasks, leave>>

(* thread_can_exit: first what the thread has to do itself is looked up,   *)
(* then the lists of the manager, its mounts, and at last its flag.        *)
CheckLocal(u) ==
    /\ pc[u] = "local"
    /\ seen' = [seen EXCEPT ![u] = local[u] = << >> /\ mount[u] # "ready" /\ query[u] # "ready"]
    /\ Go(u, "lists")
    /\ UNCHANGED <<life, lists, wakeup, cand, stack, batch, back, tasks, leaving, m_mutex>>

CheckLists(u) ==
    /\ pc[u] = "lists"
    /\ Go(u, IF delayed = << >> /\ \A v \in User : query[v] \in {"none", "done"}
             THEN "mounts" ELSE "retry")
    /\ UNCHANGED <<life, lists, wakeup, cand, stack, batch, back, tasks, leave>>

CheckMounts(u) ==
    /\ pc[u] = "mounts"
    /\ Go(u, IF pending = {} THEN "flag" ELSE "retry")
    /\ UNCHANGED <<life, lists, wakeup, cand, stack, batch, back, tasks, leave>>

CheckFlag(u) ==
    /\ pc[u] = "flag"
    /\ IF ~m_flag /\ seen[u]
       THEN Go(u, "exited") /\ m_mutex' = none
       ELSE Go(u, "retry") /\ UNCHANGED m_mutex
    /\ UNCHANGED <<life, lists, wakeup, cand, stack, batch, back, tasks, leaving, seen>>

(* what a user does of its own accord ...                                  *)
Chooses(u) == Ask(u) \/ AskLater(u) \/ CreateMount(u) \/ Finalize(u)
              \/ (\E r \in Resource : Release(u, r))

(* ... and what it goes on with                                            *)
Proceeds(u) ==
    \/ ReclaimAtOnce(u) \/ AddMount(u) \/ Dispatch(u) \/ Callbacks(u) \/ TryLock(u) \/ DispatchAndRetry(u)
    \/ CheckLocal(u) \/ CheckLists(u) \/ CheckMounts(u) \/ CheckFlag(u) \/ Dying(u)

Next == Manager \/ Cooker \/ \E u \in User : Chooses(u) \/ Proceeds(u)

(* Nobody has to drop a pointer, ask or leave.                             *)
Spec == Init /\ [][Next]_vars
FairSpec == Spec /\ WF_vars(Manager) /\ WF_vars(Cooker)
                 /\ \A u \in User : WF_vars(Proceeds(u))

-----------------------------------------------------------------------------
(* Properties *)

Labels == {"idle", "sleep", "destroy", "associated", "clean", "unregistered", "push",
           "twice", "destruct", "free", "batch", "dispatch", "scan", "transfer", "dispatched",
           "mount", "mounted", "init", "found", "again", "add_fs_task", "callbacks",
           "try", "retry", "local", "lists", "mounts", "flag", "exited",
           "wakeup_resources_thread", "wakeup_cooker_thread"}

TypeOK ==
    /\ refs \in [Resource -> SUBSET (Thread \cup Resource)]
    /\ fat \subseteq Cached /\ deleted \subseteq Resource /\ rescued \subseteq Cached
    /\ delayed \in Seq(Resource) /\ local \in [Thread -> Seq(Resource)]
    /\ m_num \in Nat /\ m_flag \in BOOLEAN
    /\ pushed_by \in [Resource -> Thread \cup {none}]
    /\ wakeup \in [{resources, cooker} -> BOOLEAN]
    /\ pc \in [Thread -> Labels] /\ back \in [Thread -> Labels]
    /\ cand \in [Thread -> Resource \cup {none}]
    /\ stack \in [Thread -> Seq(Resource)] /\ batch \in [Thread -> Seq(Resource)]
    /\ query \in [User -> {"none", "found", "new", "taken", "ready", "done"}]
    /\ mount \in [User -> {"none", "created", "queued", "taken", "ready", "done"}]
    /\ pending \subseteq User /\ client \in User \cup {none} /\ again \in BOOLEAN
    /\ leaving \subseteq User /\ m_mutex \in User \cup {none} /\ seen \in [User -> BOOLEAN]

In(r, s) == \E i \in 1..Len(s) : s[i] = r
Once(s) == \A i, j \in 1..Len(s) : s[i] = s[j] => i = j
One(b) == IF b THEN 1 ELSE 0

(* where a resource is that its thread has yet to delete                   *)
Pushing(r) == \E t \in Thread : pc[t] = "push" /\ cand[t] = r
Moving(r)  == pc[resources] = "transfer" /\ cand[resources] = r
Places(r)  == One(Pushing(r)) + One(In(r, delayed)) + One(Moving(r))
              + One(In(r, local[Owner[r]])) + One(In(r, batch[Owner[r]]))

Deleting(r) == \E t \in Thread : In(r, stack[t])

(* the delayed resources that are not gone                                 *)
Underway == {r \in Resource : pushed_by[r] # none /\ (r \in deleted => Deleting(r))}

(* A resource whose deletion is delayed is in one place only until it is   *)
(* deleted, it reaches only the thread it was created for, and the counter *)
(* that mounts wait for counts exactly those that are not gone.  Two       *)
(* threads are about to destroy one resource only if a lookup has got it   *)
(* while the first was, and its user has dropped it again meanwhile; and   *)
(* only one of them unregisters it: the other comes too late or has lost.  *)
OnePlace ==
    /\ Once(delayed)
    /\ \A t \in Thread : Once(local[t]) /\ Once(batch[t]) /\ Once(stack[t])
    /\ \A r \in Resource :
         Places(r) = One(pushed_by[r] # none /\ r \notin deleted /\ ~Deleting(r))
OwnThread ==
    \A t \in Thread, r \in Resource :
        In(r, local[t]) \/ In(r, batch[t]) \/ In(r, stack[t]) => Owner[r] = t
OneDestroyer ==
    /\ \A t, u \in Thread :
          /\ {pc[t], pc[u]} \subseteq DestroyLabels \cup {"push"}
          /\ cand[t] = cand[u] /\ t # u
          => cand[t] \in rescued /\ ~({pc[t], pc[u]} \subseteq {"unregistered", "push"})
    /\ \A t \in Thread : pc[t] = "twice" => cand[t] \in rescued
CountIsExact == m_num = Cardinality(Underway)

DeletionInv == TypeOK /\ OnePlace /\ OwnThread /\ OneDestroyer /\ CountIsExact

(* A resource somebody points to is not being deleted: it is reclaimed     *)
(* before its node forgets it, or not at all.                              *)
HeldIsAlive ==
    \A r \in Resource : refs[r] # {} =>
        r \notin deleted /\ pushed_by[r] = none /\ ~Deleting(r)

(* A thread that has left has nothing pending with the resources thread:   *)
(* what it was the last to point to is with the thread that deletes it.    *)
FinalizedMeansTransferred ==
    \A u \in User : pc[u] = "exited" =>
        \A r \in Resource : pushed_by[r] = u => ~In(r, delayed) /\ ~Moving(r)

(* No wake-up is lost.  While the resources thread sleeps, its event is    *)
(* not set and nobody is about to set it, no deletion is left to it, no    *)
(* mount and no query, not even one that had to wait for a mount; and so   *)
(* with the cooker and the resources it deletes.                           *)
SleepersHaveNothingToDo ==
    /\ /\ pc[resources] = "sleep" /\ ~wakeup[resources]
       /\ \A t \in Thread : pc[t] # "wakeup_resources_thread"
       => /\ delayed = << >>
          /\ \A u \in User : mount[u] \notin {"queued", "taken"} /\ query[u] \notin {"new", "taken"}
    /\ pc[cooker] = "sleep" /\ ~wakeup[cooker] /\ pc[resources] # "wakeup_cooker_thread"
       => local[cooker] = << >>

(* t has the condemned r to pass it on, or to run its destructor           *)
Keeps(t, r) ==
    \/ cand[t] = r /\ pc[t] \in {"unregistered", "push", "transfer"}
    \/ t = resources /\ In(r, delayed)
    \/ /\ t = Owner[r]
       /\ In(r, local[t]) \/ In(r, batch[t]) \/ (In(r, stack[t]) /\ r \notin deleted)
Keeper == [r \in Resource |-> {t \in Thread : Keeps(t, r)}]

(* what threads are about to delete that another thread has unregistered   *)
DeletedTwice == {r \in Resource : \E t \in Thread : pc[t] = "twice" /\ cand[t] = r}

(* Through the threads and lists it passes, and with the lookups and drops *)
(* that race its destruction, a resource lives and dies as ResourceLife    *)
(* says: it is condemned while nobody holds it, not given out again, in    *)
(* the hands of one thread at a time and destroyed by its own; and a       *)
(* second thread comes to delete it only if a lookup had rescued it.       *)
Life == INSTANCE ResourceLife WITH holders <- refs, keeper <- Keeper, gone <- deleted,
                                   twice <- DeletedTwice
ImplementsLife == Life!Spec

(* What is to be deleted is deleted, and mounts are executed, if nothing   *)
(* is deleted twice.  A resource is delayed and a user mounts once, so     *)
(* that in the end nothing is left.                                        *)
PendingEnds ==
    [](DeletedTwice = {}) =>
    <>[](pending = {} /\ \A r \in Resource : pushed_by[r] # none => r \in deleted)
=============================================================================
