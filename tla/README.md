# TLA+ models of the X-Ray 2.0 engine

This directory holds formal models of the concurrent core of the X-Ray 2.0 game
engine (`src/src/xray`), the TLC configurations that model-check them on small
instances, and TLAPS proofs of the results that hold for every instance.
Source paths below are relative to `src/src/xray`.

1. [Inventory of the system](#1-inventory-of-the-system)
2. [Plan](#2-plan)
3. [The modules and the code](#3-the-modules-and-the-code)
4. [The runs](#4-the-runs)
5. [The proofs](#5-the-proofs)
6. [What the models found](#6-what-the-models-found)
7. [Assumptions and what is not modelled](#7-assumptions-and-what-is-not-modelled)

## 1. Inventory of the system

The engine is a set of C++ libraries linked into one process. At run time the
process is a handful of long-lived threads - *render* (the main thread),
*logic*, *editor* (with `-editor`), *network*, *sound*, one *resources* thread
with its device threads, and the *task* workers - that exchange work through
intrusive lock-free queues, one-slot remote procedure calls, and the resources
manager. What is hard in it is the concurrency: none of these exchanges takes a
lock, and the start and stop of the process depend on the order in which the
threads answer one another. The numerical libraries (physics, animation,
collision, mathematics), the drawing code and the offline tools are larger and
sequential.

### Concurrent core

| component | state | operations | interacts with | what is hard | what makes it correct |
|---|---|---|---|---|---|
| intrusive SPSC queue (`intrusive_spsc_queue*.h`) | links inside the elements, `m_head`, `m_tail` | `push_back`, `pop_front`, `empty`, `push_null_node`, `pop_null_node` | every exchange of orders | producer and consumer interleave at each access; elements are freed and reused | a FIFO; no access to a freed element; the assertion of `pop_null_node` |
| MPSC, SPMC, MPMC queues (`intrusive_*_queue_inline.h`) | as above, links as lists of pushed and popped elements | as above | sound, resources, tasks | several producers race for `m_head` | a FIFO per producer, nothing lost |
| frame loop (`engine/sources/engine_world*.cpp`) | frame ids, frame-ended flags, game and application flags, destruction flag | `tick`, `logic_tick`, `draw_frame_logic`, `draw_frame_editor`, `on_before_editor_tick`, `exit` | command processors, rpc | two producers of one frame, switching between editing and playing, exit from any thread | whole frames, throttled producers, no thread waits for ever |
| render command processor (`render/base/sources/command_processor.cpp`) | SPSC queue of orders, wake-up event, frame id, queue of processed orders | `push_command`, `run`, `purge_orders`, `delete_processed_orders` | frame loop | the wake-up may be lost, orders are freed by the thread that made them | every order is executed once and freed |
| rpc (`engine/sources/rpc.cpp`) | one slot per thread: callback, break flag, `m_pending` | `run`, `run_remote_only`, `wait`, `process`, `try_process_single_call` | start-up, shutdown, editor | nothing but `m_pending` is synchronized | each call executed once, by the right loop, before its caller goes on |
| engine threads (`initialize`, loops, destructor of `engine_world`) | which worlds exist, where each thread is, who still has resources to release | one statement of the start or stop at a time | everything | worlds are created and destroyed by different threads, partly without waiting | no world is used before or after its life; start and stop come to an end |
| tasks (`core/sources/tasks_*.cpp`) | slots of the allocator, each in up to three lists and counted four times; per parent the number of its children and the event it sleeps on | `spawn_task`, grabbing from three lists, `task::execute`, `wait_for_all_children`, unlinking; worker activity, `pause`, garbage collection | libraries that spawn tasks, tasks-aware events and mutexes | parents that sleep without a lock, slots reused while others still hold the pointer | each task runs once, the reference count is exact, a wait returns when and only when the children are done |
| sound command processor (`sound/sources/sound_world_command_processor.cpp`) | seven queues of orders and callbacks | push, process, delete, `clear_resources` | logic, editor, sound and XAudio threads | four threads, tear-down of the queues | orders freed where they were made, empty queues at the end |
| resources manager (`core/sources/resources_manager*.cpp`, `resources_queries_result.cpp`) | queries in the lists of their user and of the resources thread; list and counter of delayed deletions; pending mounts; allocation, cooks, devices | query, create, translate, allocate, dispatch; delayed deletion, mount, leaving of a thread | every library that loads data | a query or a deletion changes its thread on the way; mounts and leaving threads wait for all of them | deletions reach their thread once, a mount starts with none left, every query is answered once |
| resource pointers (`resources_*_resource.cpp`, `resources_intrusive_base.cpp`, `resources_resource_ptr_inline.h`) | reference counts, the association with a node of the file tree, parent and child links | acquire, release, destroy, delete in the owner's thread | resources manager, file tree | the last release races a lookup that takes a new pointer | no use after the last release, one thread destroys |

### The rest

| component | contents | status |
|---|---|---|
| managed resources allocator | sequential allocator that defragments | not modelled: sequential, left to a later stage |
| device and disk manager | order of disk requests, file input and output | not modelled |
| virtual file system | tree of mounted nodes under locks | not modelled: mostly path handling and file input and output |
| memory allocators | wrappers of dlmalloc and ptmalloc | not modelled; the owner of an allocator decides which thread frees an order in FramePipeline |
| threading primitives | wrappers of the operating system | not modelled as such: an interlocked operation is one step, an event is a Boolean that a wait resets |
| tasks-aware events and mutexes | tell the task pool of a blocking wait | not modelled |
| command line, console, configuration | parsing | not modelled |
| logging, debugging, strings | diagnostics | not modelled; assertions of the modelled code are properties |
| mathematics and geometry | floating point | out of TLC's reach |
| containers and compressors | sequential library code | not modelled |
| render world and renderer | drawing with Direct3D | a frame is one step |
| network world | boost::asio | its thread is in EngineThreads, its tick is disabled in this build |
| input and user interface | used by the logic thread only | not modelled |
| game and engine user | content | its tick, enable flag and exit are in FramePipeline |
| physics, collision, animation, rtp | numerical code in the logic thread | not modelled |
| editor | managed user interface | its ticks, switches and calls are in FramePipeline |
| consoles (PlayStation 3, Xbox 360) | other `engine_world_*.cpp` files | not modelled: the models follow the Windows build |
| tools and exporters, third-party code | offline tools, SDKs, bundled libraries | not modelled |

## 2. Plan

The order follows the dependencies: what everything is built from comes first.

| step | modules | state |
|---|---|---|
| 1. the queue between two threads | `Fifo` (abstract), `IntrusiveSpscQueue`, `IntrusiveSpscQueueProofs` | done |
| 2. the frame loop over those queues | `FramePipeline`, `FramePipelineProofs` | done for the game and the editor; the single-core variants are left out |
| 3. calls between threads | `Rpc` (implements `Fifo` per slot), `RpcProofs` | done |
| 4. start and stop of the engine | `EngineThreads` (composes `Rpc`, and implements its specification), `EngineThreadsProofs`, `EngineWorldsProofs` | done for more than one core |
| 5. tasks | `Tasks`, `TasksProofs`, `TasksWaitProofs`: spawning, grabbing, waiting, reuse of slots | done but for the activity of the workers, pause, and garbage collection |
| 6. deletion of resources | `ResourceLife` (abstract), `Deletion`, `DeletionProofs`: last pointer, delayed deletion, mounts, lookups, threads that leave | done for unmanaged resources |
| 7. the way of a query | a query between its user, the resources thread, the cookers and the devices; abstract specification: answered once, by the thread that asked | not begun |
| 8. the multi-producer queue | a module against `Fifo`, with the stale `m_head` | not begun |
| 9. tear-down of the sound commands | the seven queues and their four threads, over the queues of steps 1 and 8 | not begun: nothing drives them in this build |

Tasks and resources went ahead of the multi-producer queue because no modelled
component uses that queue, while every library spawns tasks and drops
resources. The theorem still worth proving is that the multi-producer queue
implements `Fifo`.

## 3. The modules and the code

### Fifo

What a queue promises: `Put` appends an element, `Take` returns the first one.
Both `IntrusiveSpscQueue` and every slot of `Rpc` implement it.

### IntrusiveSpscQueue (`intrusive_spsc_queue_inline.h`)

| TLA+ | code |
|---|---|
| `next`, `m_head`, `m_tail` | the link member of each element, the two ends of the queue |
| `live`, `item_to_delete` | what is allocated; what `pop_front` handed back and the caller deletes later |
| `pushing` | the value `push_back` has linked and not stored to `m_head` yet |
| `PushNullNode`, `PopNullNode` | `push_null_node`, `pop_null_node` |
| `PushLink`, `PushAdvance` | the exchange that publishes the element; the assignment to `m_head` |
| `PopFront`, `DeleteItem` | `pop_front`; the caller's deletion of `item_to_delete` |
| `chain` (auxiliary) | the elements from `m_tail` on, in link order |

A deleted node may be pushed again; its link still holds the old value, which
is why `push_back` must clear it before it publishes the node. The queue always
owns one *null node* in front of its content, so that the two threads never
write the same pointer.

### FramePipeline (`engine/sources/engine_world*.cpp`, `render/base/sources/command_processor.cpp`)

The producers (logic, and editor with `-editor`) describe a frame as orders and
end it with a draw order; the render thread executes them and sends the
executed orders back to be freed.

| TLA+ | code |
|---|---|
| `m_orders[p]`, `null_node[p]` | the SPSC queue of the command processor of `p`, by its specification `Fifo` |
| `processed[p]`, `processed_null_node[p]` | `m_logic_processed_orders`, `m_editor_processed_orders`: whether there is something to free |
| `lead[p]` | `m_logic_frame_id` or `m_editor_frame_id`, minus the render thread's `frame_id` |
| `command_frame_ahead[p]` | whether `m_command_frame_id` is `frame_id + 1` |
| `m_logic_frame_ended`, `m_editor_frame_ended`, `m_game_enabled`, `m_game_paused_last`, `m_app_active`, `m_destruction_started` | the fields of that name |
| `enabled`, `call` | `m_enabled` of the game; the editor's call to the logic thread |
| `pc`, `pushing`, `sets_left`, `running`, `in_hand` | where each thread is, and its local variables |

`LogicTick` ... `LogicLeaves` are `logic_tick` and the loop of `logic`;
`EditorTick`, `EditorCountFrame` are `on_before_editor_tick`,
`on_after_editor_tick`; `EditorSwitches`, `EditorCalls`, `EditorGoesOn` are the
editor's change between editing and playing (`enable_game`, `load_level`,
`unload_level`); `TickLogic`, `TickEditor` are `tick`; `RunLooks` ... `RunDrew`
are `command_processor::run` with `draw_frame_logic` and `draw_frame_editor`
executed inside it; `PushRead`, `PushOrder` are the two halves of
`push_command`, which reads `empty()` before it pushes; `Exit` is
`engine_world::exit`; `ClearResources`, `PurgeOrders`, `DeleteAllProcessed`
and `Finalize` are the part of the destructor that empties the queues.
`ReadEmpty` may read TRUE of a filled queue, because the render thread may have
popped the null node whose link is read.

Orders other than draw orders do nothing to the frame loop and are one value,
`"set"`. A call from editor to logic is one variable here; `Rpc` models what is
behind it.

### Rpc (`engine/sources/rpc.cpp`)

| TLA+ | code |
|---|---|
| `m_callback`, `m_break_parameters`, `m_pending` | the slot of each thread |
| `calling[t]` | how far thread `t` is in `run`: waiting for the slot, the assertion, the two stores, raising `m_pending`, waiting for completion |
| `serving[s]` | how far the owner of slot `s` is in `process` or `try_process_single_call` |
| `executed` (auxiliary) | the callback a slot executed last |

Every access to the shared slot is a step of its own. `Caller` says which
threads call which slot; the theorems are about slots with one caller
(`OneCaller`).

### EngineThreads (`engine/sources/engine_world*.cpp`)

Extends `Rpc`. The render thread executes a *script* - `initialize`, `run`, the
destructor - that is a sequence of statements: call a thread (`Run`,
`RunRemoteOnly`, with the break and wait arguments the code passes), wait for a
thread, spawn one, or do something itself. `at[t]` is where each spawned thread
is: creating its modules, in its first (and, for the editor, second)
`rpc::process`, in its loop, in the last `rpc::process`. `worlds` are the
subsystems that exist; `Needs`, `Creates` and `Destroys` say what each function
uses, from what the code passes to it. Without an editor
the editor's slot belongs to the render thread, which then calls in place.
`lead` is what keeps the logic thread from ticking, as in FramePipeline.

Of the resources manager the module has what start and stop depend on. It is
coarser than Deletion, and has all threads of the engine.

| TLA+ | code |
|---|---|
| `queries` | the threads with queries whose callbacks they have not dispatched |
| `Delays`, `Drops`, `delayed` | `unmanaged_intrusive_base::destroy` of resources of other threads; the owners of what is in `m_delayed_delete_unmanaged_resources`. Every function that clears or destroys a world may drop resources of any thread (`LeavesDeletions`), and so may the callbacks and deletions of `dispatch_callbacks` |
| `HandsOver`, `deletions` | `dispatch_delete_delayed_unmanaged_resources`, whose flag makes it one step to those who leave; the threads with something in their own list |
| `Dispatches` | `dispatch_callbacks` |
| `Looks`, `looking`, `thread_can_exit` | the two parts of `thread_can_exit`: the lists of the thread first, then what the manager has for anybody |

### Tasks (`core/sources/tasks_*.cpp`, `tasks_task.h`)

A task is a slot of the `task_allocator`. It is referenced by the queue of all
tasks, the queue of its type, the list of its parent and its execution; whoever
drops the last reference gives the slot back, and the next `spawn_task` may
take it while others still hold the pointer.

| TLA+ | code |
|---|---|
| `state`, `refs`, `job`, `parent`, `children`, `counter`, `event` | `m_state`, `m_reference_counter`, `m_function`, `m_parent`, `m_children`, `m_child_counter`, `m_event_wait_for_children` |
| `pending`, `typed` | `m_pending_tasks` of the manager, `m_tasks` of the type |
| `signalled[t]` | whether `event_wait_for_children` of a thread is set |
| `stack[t]`, `pc[t]`, `script[s]` | the tasks a thread is executing, nested by its waits; what a function has still to do: rounds of spawning and waiting |
| `cand[t]`, `from[t]`, `seen[t]` | local variables: the task popped and its list, the event `on_child_task_ended` has read |
| `Spawn`, `PushPending`, `PushTyped` | `task_manager::spawn_task` and the constructor of `task` |
| `PopTyped`, `PopPending`, `PopChild`, `TryGrab`, `Drop` | `grab_next_task`, `grab_next_child`, the exchange of the state, the reference of the list |
| `Wait` ... `WaitEnds`, `GoOn` | `wait_for_all_children`, `execute_children`, `wait_for_task_list` with its event and its assertion |
| `Return`, `ChildEnded` ... `SetParentsEvent`, `MarkExecuted` | the end of `task::execute` and `on_child_task_ended`, one step per access |
| `Unlink`, `Finish` | `unlink_from_children` and the reference of the execution |

The order inside the queues is left open: the queues of the pool give no order
among producers, and no property needs one.

### Deletion (`core/sources/resources_manager*.cpp`, `resources_intrusive_base.cpp`)

The last pointer to a resource may be dropped in any thread, but a resource is
deleted by the thread it was created for. On its way there it passes the
resources thread, which mounts and leaving threads watch.

| TLA+ | code |
|---|---|
| `refs[r]` | who points to `r`; `m_reference_count` is its size |
| `fat` | the cached resources that are associated with their node of the file tree |
| `delayed`, `local[t]`, `batch[t]` | `m_delayed_delete_unmanaged_resources`, the list of the thread, the list `delete_delayed_unmanaged_resources` has taken |
| `m_num`, `m_flag` | `m_num_delay_delete_unmanaged_resources`, `m_dispatching_delay_delete_unmanaged_resources_flag` |
| `stack[t]`, `deleted` | the deletions a thread is in, nested because a destructor drops pointers; the resources whose destructor has begun |
| `query`, `mount`, `pending` | how far the query and the mount of each user are; `m_count_of_pending_mount_operations` |
| `rescued` (history) | the resources that a lookup got between its test of the count, which was not zero, and its own pointer, when the last pointer was dropped meanwhile |
| `leaving`, `m_mutex`, `seen` | the threads in `wait_and_dispatch_callbacks`, its mutex, `local_data_allows` |
| `Release`, `CheckCount`, `CheckFat`, `Clean` | dropping a pointer and `unmanaged_intrusive_base::destroy`: the count, the association, both again under the lock of the node; a thread that finds the association gone deletes the resource a second time (label `twice`) |
| `DeleteNow`, `CountDelayed`, `PushDelayed` | deletion in place, `push_delayed_delete_unmanaged_resource` |
| `wakeup`, `WakeupResources`, `WakeupCooker` | the events of the two threads; `wakeup_resources_thread`, `wakeup_cooker_thread`, each a step after the push it announces |
| `Destruct`, `Free`, `DeleteNext`, `TakeLocal` | `delete_unmanaged_resource`, `delete_delayed_unmanaged_resources` |
| `Wake` ... `TickEnds` | `resources_tick_impl`: `dispatch_delete_delayed_unmanaged_resources` (`BeginDispatch` ... `EndDispatch`), the mounts (`WaitForDeletions` ... `NoMoreMounts`), `init_new_queries` (`Find`, `Reclaim`) |
| `CookerWakes`, `CookerTakesAgain` | `cooker_tick_impl` |
| `Take` | the pointer `get_associated_ptr_helper` takes |
| `Ask`, `ReclaimAtOnce`, `AskLater`, `CreateMount`, `AddMount`, `Dispatch`, `Callbacks` | a user's query, mount and `dispatch_callbacks` |
| `Finalize` ... `CheckFlag` | `finalize_thread_usage`, `wait_and_dispatch_callbacks`, `thread_can_exit` |

A user may drop a pointer at any time, also while another thread is about to
destroy the resource it was looked up from. `Inner` lets a resource point to another one, so that a deletion starts the
next destruction in the middle of its own. `Wanted` is what a user looks up,
and a lookup may find a resource that is just being destroyed.

`ResourceLife` is what all this promises of a resource, without lists, labels
and locks: who holds it, which thread has it once it is condemned (`keeper`),
and whether it is gone. It is condemned only while nobody holds it, a lookup
gets it only while it is not condemned, it is handed on from one thread to the
resources thread and from there to its own, and that one destroys it, once. It
promises less of a resource that a lookup got when nobody held it any more
(`rescued`): when that pointer is dropped too soon, a second thread condemns the
resource again (`CondemnAgain`, `twice`), as the code does (section 6). Nothing
else leads there.
`Keeper` maps the threads' hands, lists and stacks to `keeper`: a thread has a
resource from `unregistered` on, where the node has forgotten it, until its
destructor runs.

## 4. The runs

Deadlock is checked in every run but those of Tasks and Deletion, where the
system may really stop: the user's function returns, or all users have done
what they wanted. Elsewhere a system that has come to its end stutters by an
explicit step.

| run | instance | what it shows |
|---|---|---|
| `spsc` | four nodes | the list invariant, no access to a freed node, the assertion of `pop_null_node`, refinement of `Fifo`, and that every element is popped |
| `frame_game` | no editor, up to 1 order in front of a draw | throttled producers, orders are freed, nobody pushes after the purge, no order is lost to a missed wake-up, `exit` stops every thread |
| `frame_editor` | editor, draw orders only, two switches, each after the last frame is shown | the counters agree with the queues, whole frames, one frame per tick; calls are answered |
| `rpc` | one caller, two slots, calls with and without break | the slot is never written while it is read; each call is executed once and in order; a caller goes on after its own call; `process` ends by the call that asked for it; every call comes back |
| `engine_game` | game, two threads that may have asked for resources | the throttle, the barrier in front of `clear_resources`, nothing left for the render thread at the end, that whoever the render thread waits for goes on without it, and that the engine stops |
| `engine_editor` | editor | no world is used before or after its life; the discipline of `Rpc`; `initialize` comes to its end |
| `tasks` | a worker and a user thread, three slots, nested waits | reference counts are exact, a task has one executor, a wait returns after its children have been executed, unlinking meets only tasks that are ended, threads do not wait in a circle, every wait ends |
| `deletion` | a user, a loader that leaves, three resources that hold one another, a mount and a lookup | a resource whose deletion is delayed is in one place until its own thread deletes it, never while somebody points to it; a second thread comes to destroy it only after a rescue; the counter is exact; who has left has nothing pending; no thread sleeps on work it was given; refinement of `ResourceLife`; mounts and deletions come to their end |
| `frame_exit_twice`, `frame_tick_disabled`, `rpc_rivals`, `tasks_wait_early` | small instances | the disagreements of section 6 |

**Bounds.** Four nodes are enough for the null node, two elements, and a freed
node that is recycled while the other three are in the queue; the safety part
is proved for any number. `MaxSets` bounds the orders in front of a draw:
with one, a run of the render thread meets an order that does not end its
frame; with none, the editor instance still has two frames per producer in
flight. `MaxLag` bounds how far `frame_id` may get ahead of a logic counter in
the editor build, where the editor can draw alone; the code has no such bound,
and only the sign of the difference is ever used. `MaxToggles = 2` lets the
user enter and leave the playing mode. `MaxLead = 4` is above the 2 the
throttle allows, so that a missing throttle shows. `MaxDelays = 1` bounds how
often deletions are left to other threads, for any set of them at a time:
once is enough for whoever looks for them too early, and the theorems have no
such bound on its value. `Asking` names the logic and the render thread in
`engine_game`, so that a thread that ends and the one that waits for it both
may have queries and be owed deletions, and nobody in `engine_editor`. Two slots let a call to one
thread overtake one to another. In `tasks` the root spawns two tasks and one of
them a third and waits too, so that a thread executes tasks within its own
wait, and a parent is itself a child that others wait for; the slot of
a task that is over can be taken by the third one while others still hold it.
`tasks_wait_early` needs two workers, one still at the end of the first child
while the other has not begun the second, and a single wait.
In `deletion` the material is looked up and belongs to a user, its texture to
the cooker, the buffer of the texture to the resources thread: every kind of
owner deletes, one deletion starts the next in another thread, and a lookup
meets a resource that is being destroyed. A thread has one pointer to a
resource, a user one lookup and one mount. Only the material has a user at first: a
resource that a user and another resource point to at once makes the run half
as long again. The theorems cover it; for `PendingEnds`, which no theorem
states, it is not checked.

**Fairness.** Threads are scheduled by the operating system, so each has weak
fairness on its next step; so has the resources thread, which EngineThreads
has as `HandsOver`. The wait of `command_processor::run` is timed (16 ms), so
its timeout is fair too; this is what repairs a lost wake-up. Nobody has to
quit, switch or activate a window, drop a pointer, ask, mount or leave: these
actions are not fair, and the properties that need one of them are stated from
it on.

Every checked property was also seen to fail on a version of the model with
one plausible mistake in it (the definitions marked *Mutation*): a guard
dropped, a flag not reset, two statements swapped.

## 5. The proofs

All theorems hold for every value of the constants; TLC checks the same
invariants on the instances above.

**IntrusiveSpscQueueProofs.** `ListIsWellFormed` is the inductive invariant
`TypeOK /\ ListOK`: the links from `m_tail` visit each element of `chain` once
and end at the element pushed last, which is `m_head` except between the
exchange and the assignment in `push_back`. The type alone is not inductive:
that a popped node is allocated follows only from its place in the chain.
`NoDanglingAccess` and `PopNullNodeAssertionHolds` are consequences.
`Refinement` shows that the initial state and every step map to `Fifo`, with
the exchange and the store to `m_tail` as the points where the operations take
effect.

**RpcProofs**, all under `OneCaller`. `SlotInvariant` is `RpcInv`: while a
caller is between its wait and raising `m_pending` the slot is its own
(`CallerOwnsSlot`), and from then on what the callee remembers agrees with the
slot (`CalleeKnowsCall`). The ownership is what makes the unsynchronized stores
safe, and with two callers it does not hold. From it follow `AssertionHolds`,
`StableSlot`, `Completion`, `LoopEnd`, and `SlotIsFifo`, which says that a slot
is a `Fifo` into which only the call of a posting caller gets.

**FramePipelineProofs**, with no assumption but the types of the bounds, with
and without the editor. `FrameInvariant` is the conjunction of
- `ProducersAreThrottled`: a producer that describes a frame was not ahead when
  it began; the bound on `lead` alone is not inductive, it needs where the
  producer is;
- `EndedFramesAreNotDrawn`: the ended flags are what the command processors'
  frame ids say, and `run` is only inside a queue whose frame has not ended;
- `PurgedLast`: the queues lose their null node when every producer is in its
  last `rpc::process`;
- `PushOK` and `TypeOK`.

`NullNodeIsThere`, `OrdersAreFreed` and `FramesAreWhole` follow from it. `CountersAgree` proves `FrameAccounting`, an induction of its
own over the number of draw orders in a queue (`DrawsOfAppend`, `DrawsOfTail`),
for the producer without whose frames nothing is drawn (`Main`): the logic in
the game, the editor with `-editor`. There a frame that the logic has ended is
drawn with the next frame of the editor, by whichever of the two comes last, so
the equation needs the flag of the ended frame as well (`Undrawn`), and
`EndedFramesAreNotDrawn` to know that the drawing takes exactly one. With the
throttle it bounds the queue: at most three draw orders wait in it.

**EngineThreadsProofs**, for the game and the editor alike, any slots, threads
and calls that include those of the script (`ScriptAssumption`).
`KeepsDiscipline` shows that every step of the engine is a step of Rpc or
leaves the slots alone, so that the theorems of RpcProofs hold of the engine
where `OneCaller` does. The script is a concatenation whose length depends on
the editor; what the proofs need of it is taken from its parts: which threads
each part spawns (`Part`, `PartsJoin`: no thread is spawned twice) and where
the statements of the barrier are (`BarrierInScript`).
`EngineTypes` and `NoTicksDuringClearing` follow, under `OneCaller` too, from
the inductive invariant `Where /\ Stopping`:
- `Where`: types, where a thread may be while it serves a call, and that a
  thread whose `spawn` is still ahead is unborn;
- `Stopping`: past `run` the engine is stopping, and a thread that is not yet on
  its way to its last `rpc::process` still owes the answer to the empty call of
  the barrier, or the render thread is about to post it (`Awaited`). The property
  alone is not inductive: it is the call that has not been answered that keeps
  the render thread at its `wait` while a thread is in a tick, and the answer
  comes only from a place from which a stopping thread does not go back.

`EngineCalls` puts the two modules together: of the engine with its script, not
of a client that calls as it likes, each call is executed once and completes
after it, loops end by the call that asked for it, a slot that is filled does
not change, and the assertion of `run` holds.

**EngineWorldsProofs** proves of the same model, under the same assumptions,
that worlds outlive their users (`WorldsOutlive`) and that nothing is left for
the render thread when the core is finalized (`NothingIsLeft`). Neither property is inductive: that a
thread finds a world depends on which call it serves, that on which call the
render thread may have made by now, and that on the script. So the proof goes
along the script:
- `ScriptSays` reads the statement at each place off the parts of the script, in
  the game and in the editor, whose statements are further down by `ed` and its
  multiples; `StatementAt` says the converse, which statement is where;
- `CallerIsAt` and `Filled`: the call under way is that of the statement the
  render thread is at, and a slot that is raised holds the call of some
  statement since which its thread has neither been waited for nor called again
  (`FilledAt`). `InTime` draws from it, for each part of the script, which
  statements can still have their call on its way (`WhileStarting` to
  `WhileFinalizing`);
- `Attending` adds where the threads are: `sound` and the editor create their
  modules in the first call they serve (`Begun`), the editor enters its loop
  when its window has been shown (`Shown`), a thread in its loop serves its last
  call there when the barrier waits for it, and the call to clear its resources
  after the loop (`Settling`), and a thread ends when its use is finalized
  (`Ending`);
- `Living` and `Settled` say of every statement what has been created, what has
  been destroyed, and that after the dispatching no query waits;
- `Handed` says who may still owe the render thread a deletion. Every other
  thread executes `finalize_thread_usage` after the last function that drops
  resources (`FinishingStatements`, `finishes_at`), and does not end it before it
  sees that the manager has nothing to hand over, to whomever (`ThreadHands`).
  So from the end of its call on, what it has dropped has reached its owner
  (`HandedThroughout`), and when all are waited for, the resources of the render
  thread are in its own list: the last `wait_and_dispatch_callbacks` finds them
  there, since nothing can be handed over between its two looks any more
  (`RenderLeavesNothing`). This is the order of the statements of the
  destructor; with a `thread_can_exit` that does not look at what the manager
  has yet to hand over it is false, as the mutant shows.

Each step keeps them (`RenderAttends`, `ThreadAttends`, `RenderLasts`,
`ThreadLasts`, `QuitsLast`, joined in `AttendsAndLasts`), and what a thread uses
is there in each state (`RenderFinds`, `CallsFind`, `TicksFind`, `LogicFinds`).

`AwaitedGoOn` is the core of the liveness of start and stop, and safety: there is
no deadlock between the threads, whoever the render thread waits for has a step
to take whatever the render thread does. It adds `Progressing`: a thread the
render thread waits for has been spawned (`Born`) and is released from
`thread_dispatch_callbacks` only after the render thread has dispatched its own
callbacks (`Releasing`, `Held`), so a call that has no end yet is never
one the render thread waits for; and a thread in its last `rpc::process` is told
to leave it (`Ended`). What is left to TLC is that fair threads then take
those steps.

**TasksProofs**, for any threads, slots and jobs. `TasksInvariant` is
`TasksInv`: each reference to a task is in one place, that is in its list or
with one thread on its way into or out of it (`PendingOnce`, `TypedOnce`,
`ChildOnce`), and the state of a task on a stack is what the program counter of
its thread says (`StackStates`). `CountsAreExact` (`RefsCountReferences`) and
`OneExecutor` (`EachTaskHasOneExecutor`) need each other: that a slot is not
reused under a thread that still executes it follows from the count, and that
the count drops once per reference from the places. `ParentsAreExecuting`
closes the circle for the lists of children, which belong to slots that may be
reused themselves.

**TasksWaitProofs** goes on from there to what a wait is for. `WaitInv` says
that the counter of a slot is exactly the number of children that still have to
be subtracted from it (`CounterIsExact`), although those children hold no
reference to the slot. That is sound because a slot is given back only when its
task owes nothing and is owed nothing (`ParentsStay`, `Waited`): no task returns
before a wait in which its counter was zero. With `JobsAreOwed` - a job that was
spawned is done, or a child is there to do it - `WaitsMeanDone` follows
(`WaitMeansDone`), and with `ChildrenKnowParent` that the assertion of
`unlink_from_child` holds (`UnlinkAssertionHolds`). Both hold while no assertion
has failed; that the assertion of the wait itself may fail is what
`tasks_wait_early` shows, and the proof rests on the assertion there.

`NoCircle` is about every group of blocked threads: one of them has a child that
any thread may grab, or is served by a thread outside the group. A thread that
waits executes other tasks meanwhile, so others may depend on a task that lies
under the one it sleeps in; what excludes the circle is that it takes only
children of the task it is executing (`TakesChildren`), and that a child is
younger than its parent. Tasks have no age in the code, and their slots are
reused. `Ages` says that there are ages that decrease from parent to child and
up every stack; each step has to say what the new ages are (`SpawnAges` gives
the reused slot one below all others, which is possible because its former
children are subtracted). In a group the thread with the least age
(`LeastNumber`) can only be served from outside. That somebody serves it
(`BlockedIsServed`) takes two more invariants: `Places`, where a task is to be
found by its state, and `Wakeups`, that a thread that subtracted the last
child is on its way to the event of the parent. Neither a new variable nor a
bound on the number of threads is needed.

**DeletionProofs**, for any threads and resources, any owners, any pointers
among the resources, and users that drop what they have at any time.
`DeletionInvariant` is the conjunction of
- `Basis`: types, and what each thread holds where it is;
- `Lists`: a resource whose deletion is delayed is in one place, which belongs
  to its thread, and the destructors of all resources of a stack but a new top
  have run (`Stacks`);
- `Held`: a resource that has not been destroyed points to its inner one
  (`Pointed`); what a node knows is alive (`Known`); and how far a destruction
  has got (`HandledAt`): until the node has forgotten the resource it is alive,
  and after that nobody points to it any more. This is why testing the count
  again under the lock of the node protects those who point to it;
- that of two threads about to destroy one resource the second comes by way of
  a lookup (`rescued`), and that the node lets only one of them unregister it:
  `OneDestroyer`, from where the destruction of each is (`HandledAt`);
- `CountIsExact`, over the cardinality of the delayed resources;
- `Checked`: a leaving thread that has found the list empty delays nothing more.

`DeletedOnceUnlessRescued`, `ReclaimedInTime` and `LeavesNothingBehind` follow from it
(`DeletionInv`, `HeldIsAlive`, `FinalizedMeansTransferred`).

`LivesAndDies` shows that every step maps to one of `ResourceLife` or leaves it
as it is. What carries it is `KeptOnce`: a condemned resource is with exactly
one thread and not deleted. Being an invariant, it holds after a step as well,
so that each lemma has to show only who has the resource of the step before and
after, and that nothing happens to the others (`KeptElsewhere`). A thread that
comes too late to unregister a resource is not one of those who have it: it maps
to `CondemnAgain`, for which a rescue must have come before (section 6).

`NoWakeupIsLost` does not need this invariant: `Announced` says
that whatever is left to a thread has been told to it, is being told (`Telling`),
or will be seen because the thread is still looking (`Scanning`, `ToldOf`).
The push and the event are two steps of the code, and the sleeper resets its
event when it wakes: the invariant says that no order of the two loses work.

**Only model-checked** is liveness (`EveryElementIsPopped`, `OrdersAreExecuted`,
`CallsAreServed`, `EngineStops` of both modules, `CallersProceed`,
`EngineStarts`, `WaitsEnd`, `PendingEnds`): reasoning about fairness and ENABLED
is beyond the prover. What can be said of it as safety is proved: `NoCircle`,
`AwaitedGoOn` and `NoWakeupIsLost` exclude the deadlocks and lost wake-ups on
which `WaitsEnd`, `EngineStarts` and `EngineStops`, and `PendingEnds` could fail
first.

## 6. What the models found

- `frame_exit_twice`: `engine_world::exit` asserts that it is called once. The
  render thread tests `m_destruction_started` before it calls it, the logic
  thread quits from a key of the game: both may do so for the same Alt+F4, and
  the assertion fails.
- `frame_tick_disabled`: when the editor leaves the playing mode, the logic
  thread disables the game in a call and the editor assigns `m_game_enabled`
  after that; in between the logic thread ticks a game that is disabled, which
  `game::tick` reports as something to fix.
- `rpc_rivals`: the wait for a free slot and the raising of `m_pending` are not
  atomic. Two callers of one slot may both pass the wait, and the assertion in
  `run` fails. The logic slot has two callers: the editor (`enable_game`,
  `load_level`, `unload_level`) and the render thread.
- `tasks_wait_early`: a child decrements the counter of its parent and only then
  looks for the parent's event. If the first child is done before the parent
  spawns the second, it finds the counter at zero; meanwhile the parent spawns
  the second child, and sleeps. The first child then reads the event of that
  wait and wakes the parent up while the second is still to be executed.
  `wait_for_task_list` asserts that this cannot be.

Met while modelling, with no statement in the repository they contradict:
a user who switches between editing and playing before the last frame is shown
can leave logic, editor and render thread waiting for each other
(`PatientUser` excludes it in `frame_editor`); if the window is not active
when it is shown, the logic of the game never gets ahead, never serves the call
of `enable_game`, and `initialize` waits for ever (`Foreground` excludes it).

Two hazards of the resources manager are part of the models, and the properties
say how far what is promised goes:
- *A rescued resource may be destroyed twice.* `destroy` tests the count
  (`resources_intrusive_base.cpp:61`), then the association with the node, then
  unregisters the resource under the lock of the node, if the count is still zero.
  A lookup that has tested the count before the last pointer was dropped takes
  its own after that. When it drops it again while the first thread has not yet
  tested the association, a second thread goes through `destroy`; of the two, one
  finds the resource no longer associated (line 71) and, like one that never was,
  deletes it (line 98). `OneDestroyer` and `ResourceLife` say that only a rescue
  leads there. What two deletions do to each other is undefined and not followed:
  the second thread stops at the label `twice`.
- *Deletions stay behind with a thread that has left.* `thread_can_exit` reads
  the lists of its own thread before the list of the manager and the flag
  (`resources_manager_cook.cpp:43` and after): a resource handed over in between
  stays with a thread that leaves, and so does whatever is dropped for a thread
  that has left already. The destructor of the engine makes this impossible for
  the render thread, which is proved (`NothingIsLeft`). It does not for the
  others: `NothingIsLeftBehind` claims nothing of their deletions. The manager
  reports such resources as `LEAKED` when it is destroyed
  (`resources_manager.cpp:90`); a mount would wait for them for ever.

A comment of `dispatch_delete_delayed_unmanaged_resources`
(`resources_manager.cpp:183-185`) says that a resource is not popped, so that the
list "stays non-empty while unmanaged_resource is not transfered to
thread_local_data", which "is needed for finalize_thread_usage to work
correctly". The code does pop it (line 201) before it pushes it to the list of
its thread (line 203); between the two only the flag of lines 179 and 209, which
`thread_can_exit` reads last, tells that something is on its way. With the flag
the purpose of the comment is met for what a leaving thread has *dropped*:
`FinalizedMeansTransferred` is checked and proved, and its mutant takes the flag
away. It is not met for what a leaving thread is *given*, the second hazard
above.

## 7. Assumptions and what is not modelled

- More than one core, the Windows build, and the default threading of the
  editor. With one core the render thread runs logic and editor in place; the
  key `editor_singlethread` never spawns the logic thread in this code.
- `OneCaller` (theorems about Rpc, and those of EngineThreads that rest on
  them): start and stop call every slot from the render thread only; that
  `EngineThreads` keeps to it is proved (`KeepsDiscipline`). `ScriptAssumption`:
  the slots and calls of Rpc are at least those of the script; TLC evaluates it
  for both modes.
- `PatientUser`, `Foreground`: as described in section 6. `Asking`: which
  threads may have queries of resources when the engine stops, and be left
  deletions; `MaxDelays`: how often. The theorems hold for any of them.
- Memory accesses take effect in program order, and aligned pointers and
  flags are read and written at once, as on x86.
- FramePipeline begins after `initialize` and knows orders by whether they end
  a frame. Orders for a later frame (`remove_frame_id`) do not occur in this
  build. The frame stamps that `delete_processed_orders` asserts are left out.
  `LogicTick` reads `m_game_enabled` and the activation of the window once, where
  the code (`engine_world_logic.cpp:193-195`) reads the former twice.
- EngineThreads leaves out the early destruction after a failed initialization
  of the core, and takes `dispatch_callbacks` of a thread as one step. The mutex
  of `wait_and_dispatch_callbacks` is left out: a thread that does not get it
  dispatches until it does, which can only delay it (Deletion has the mutex).
  Resources that belong to the cooker or the resources thread, and deletions
  that the running engine has left when `run` returns, are not in it; the
  latter come under the deletions that the functions after `run` may leave.
- Tasks has one task type. Workers are awake: how the `thread_pool` puts them
  to sleep, pauses them and ends them is left out, as is the garbage collection
  of slots, which runs only when all 950000 are taken; in the model a task is
  spawned when there is a free slot. A function waits once
  (`TasksAssumption`), because executing a child within a wait leaves
  `current_task` of the thread empty, on which a second `spawn_task` asserts.
  The lists are sets, and an element is popped from one in a step; their links,
  and the queues of the pool, are not modelled. `PopPending` tests that the typed
  queue had nothing and pops the pending one in a step, and does not compare the
  ages of tasks (`tasks_manager.cpp:235-244`), which only decides which queue is
  tried first. Threads execute children while they wait: the mode without
  (`execute_while_wait_for_children_false`, `tasks_thread_pool.cpp:236`) is left
  out.
- Deletion: every thread of the model has its `thread_local_data`, as every
  thread that queried has. What a lookup does not find is loaded anew, which is
  not modelled, nor are managed resources, the registry of names, pins,
  synchronous operations of the file system, and the destructor of the manager.
  A test of several lists in `thread_can_exit` is one step per lock or counter.
  `Wake` resets the event, reads the pending mounts and takes the lists of the
  tick in one step; that a tick leaves file system tasks alone while queries hold
  nodes of the tree (`resources_manager.cpp:298`) is left out, as those queries
  are. A thread that deletes a resource a second time stops at `twice`, and
  `PendingEnds` is stated of runs in which that does not happen.
- A thread's unwinding after its last call is answered is outside the models.
- The components listed as not modelled in section 1.
