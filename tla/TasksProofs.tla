---------------------------- MODULE TasksProofs ----------------------------
(***************************************************************************)
(* The reference counts of Tasks are exact, and a task has one executor,   *)
(* for any number of threads, slots and jobs.  The inductive invariant     *)
(* says where the four references of a task are: each list reference is in *)
(* the list or with one thread, and a task on a stack is in the state that *)
(* the program counter of its thread tells.                                *)
(***************************************************************************)
EXTENDS Tasks, SequenceTheorems, TLAPS

Labels == {"grab", "unlink", "over"} \cup Publishing \cup Trying \cup Working \cup Ending

Types ==
    /\ state \in [Task -> {"deallocated", "allocated", "grabbed", "captured",
                           "executed"}]
    /\ refs \in [Task -> Int]
    /\ children \in [Slot -> SUBSET Task]
    /\ pending \subseteq Task /\ typed \subseteq Task
    /\ pc \in [Thread -> Labels]
    /\ stack \in [Thread -> Seq(Slot)]
    /\ cand \in [Thread -> Task \cup {none}]
    /\ from \in [Thread -> {none, "pending", "typed", "children"}]

CandShape == \A t \in Thread :
    /\ pc[t] \in Publishing => cand[t] \in Task /\ from[t] = none
    /\ pc[t] \in Trying => cand[t] \in Task /\ from[t] # none
    /\ pc[t] \notin Publishing \cup Trying => cand[t] = none /\ from[t] = none

StackShape == \A t \in Thread :
    /\ pc[t] = "grab" => stack[t] = << >>
    /\ pc[t] \notin {"grab"} \cup Trying => stack[t] # << >>
    /\ \A i \in 1..Len(stack[t]) : stack[t][i] = root <=> t = user /\ i = 1
    /\ stack[user] # << >>
    /\ pc[t] \in Ending \cup {"unlink"} => top(t) # root

(* The state of the tasks a thread is executing.                           *)
StackStates == \A t \in Thread : \A i \in 1..Len(stack[t]) : stack[t][i] # root =>
    state[stack[t][i]] = IF i = Len(stack[t]) /\ pc[t] \in Ending THEN "captured"
                         ELSE IF i = Len(stack[t]) /\ pc[t] = "unlink" THEN "executed"
                         ELSE "grabbed"

(* A thread that has grabbed a task is going to execute it alone.          *)
GrabbedTask == \A t \in Thread : pc[t] = "grabbed" =>
    /\ state[cand[t]] = "grabbed"
    /\ \A u \in Thread : ~OnStack(u, cand[t])
    /\ \A u \in Thread \ {t} : ~(pc[u] = "grabbed" /\ cand[u] = cand[t])

(* A reference of a list is in one place.                                  *)
PendingOnce == \A s \in Task :
    /\ s \in pending => \A t \in Thread : ~HoldsPending(t, s)
    /\ \A t, u \in Thread : HoldsPending(t, s) /\ HoldsPending(u, s) => t = u

TypedOnce == \A s \in Task :
    /\ s \in typed => \A t \in Thread : ~HoldsTyped(t, s)
    /\ \A t, u \in Thread : HoldsTyped(t, s) /\ HoldsTyped(u, s) => t = u

ChildOnce == \A s \in Task :
    /\ \A p, q \in Slot : s \in children[p] /\ s \in children[q] => p = q
    /\ \A p \in Slot, t \in Thread : s \in children[p] => ~HoldsChild(t, s)
    /\ \A t, u \in Thread : HoldsChild(t, s) /\ HoldsChild(u, s) => t = u

(* Only a task that is being executed has children in its list.            *)
ParentsAreExecuting == \A p \in Task :
    children[p] # {} => \E t \in Thread : OnStack(t, p)

TasksInv ==
    /\ Types /\ CandShape /\ StackShape /\ StackStates /\ GrabbedTask
    /\ EachTaskHasOneExecutor /\ PendingOnce /\ TypedOnce /\ ChildOnce
    /\ ParentsAreExecuting /\ RefsCountReferences

USE DEF Thread, Slot

-----------------------------------------------------------------------------
(* Steps that move only the program counter, between labels at which the   *)
(* thread holds the same tasks.                                            *)
SameKind(l, m, atRoot) ==
    \/ l \in Working /\ m \in Working
    \/ l \in Ending /\ m \in Ending
    \/ atRoot /\ l \in Working /\ m = "over"

Locally(t, l) ==
    /\ SameKind(pc[t], l, top(t) = root)
    /\ Goto(t, l)
    /\ UNCHANGED <<state, refs, children, pending, typed, stack, cand, from>>

LEMMA InitTasks == ASSUME TasksAssumption, Init PROVE TasksInv
<1>0. \A t \in Thread :
        /\ pc[t] = IF t = user THEN "body" ELSE "grab"
        /\ stack[t] \in Seq(Slot) /\ (t # user => stack[t] = << >> /\ Len(stack[t]) = 0)
        /\ t = user => stack[t] # << >> /\ Len(stack[t]) = 1 /\ stack[t][1] = root
        /\ cand[t] = none /\ from[t] = none
  <2>1. \A t \in Thread : stack[t] = IF t = user THEN <<root>> ELSE << >>
    BY DEF Init
  <2>2. \A t \in Thread : /\ pc[t] = IF t = user THEN "body" ELSE "grab"
                          /\ cand[t] = none /\ from[t] = none
    BY DEF Init
  <2>3. <<root>> \in Seq(Slot) /\ << >> \in Seq(Slot) /\ <<root>> # << >>
        /\ Len(<<root>>) = 1 /\ <<root>>[1] = root /\ Len(<< >>) = 0
    OBVIOUS
  <2>4. ASSUME NEW t \in Thread, t # user
        PROVE  stack[t] \in Seq(Slot) /\ stack[t] = << >> /\ Len(stack[t]) = 0
    BY <2>1, <2>3, <2>4
  <2>5. /\ stack[user] \in Seq(Slot) /\ stack[user] # << >>
        /\ Len(stack[user]) = 1 /\ stack[user][1] = root
    BY <2>1, <2>3
  <2> QED BY <2>2, <2>4, <2>5
<1>1. Types
  <2>1. stack \in [Thread -> Seq(Slot)] /\ pc \in [Thread -> Labels]
    BY <1>0 DEF Init, Labels, Working
  <2>2. /\ cand \in [Thread -> Task \cup {none}]
        /\ from \in [Thread -> {none, "pending", "typed", "children"}]
        /\ children \in [Slot -> SUBSET Task] /\ refs \in [Task -> Int]
        /\ state \in [Task -> {"deallocated", "allocated", "grabbed", "captured", "executed"}]
    BY DEF Init
  <2> QED BY <2>1, <2>2 DEF Init, Types
<1>2. CandShape /\ StackShape /\ StackStates
  <2>1. CandShape
    BY <1>0 DEF CandShape, Publishing, Trying
  <2>2. StackShape
    BY <1>0 DEF TasksAssumption, StackShape, Trying, Ending
  <2>3. StackStates
    BY <1>0 DEF StackStates
  <2> QED BY <2>1, <2>2, <2>3
<1>3. GrabbedTask /\ EachTaskHasOneExecutor /\ PendingOnce /\ TypedOnce /\ ChildOnce /\ ParentsAreExecuting
  <2>1. GrabbedTask
    BY <1>0 DEF GrabbedTask
  <2>2. EachTaskHasOneExecutor
    BY <1>0 DEF EachTaskHasOneExecutor
  <2>3. PendingOnce /\ TypedOnce /\ ChildOnce /\ ParentsAreExecuting
    BY <1>0 DEF TasksAssumption, Init, PendingOnce, TypedOnce,
         ChildOnce, ParentsAreExecuting, HoldsPending, HoldsTyped, HoldsChild, Publishing
  <2> QED BY <2>1, <2>2, <2>3
<1>4. RefsCountReferences
  <2> SUFFICES ASSUME NEW s \in Task
               PROVE ~InPending(s) /\ ~InTyped(s) /\ ~InChildren(s) /\ ~Unfinished(s)
    BY DEF Init, RefsCountReferences, One
  <2>1. ~InPending(s) /\ ~InTyped(s) /\ ~InChildren(s)
    BY DEF TasksAssumption, Init, InPending, InTyped, InChildren, HoldsPending, HoldsTyped, HoldsChild
  <2>2. ~Unfinished(s)
    <3>1. state[s] = "deallocated"
      BY DEF Init
    <3>2. \A t \in Thread : ~OnStack(t, s)
      BY <1>0 DEF TasksAssumption, OnStack
    <3> QED BY <3>1, <3>2 DEF Unfinished
  <2> QED BY <2>1, <2>2
<1> QED BY <1>1, <1>2, <1>3, <1>4 DEF TasksInv

LEMMA LocalStep ==
    ASSUME TasksAssumption, TasksInv, NEW t \in Thread, NEW l \in Labels, Locally(t, l)
    PROVE  TasksInv'
<1>0. /\ pc' = [pc EXCEPT ![t] = l]
      /\ UNCHANGED <<state, refs, children, pending, typed, stack, cand, from>>
      /\ SameKind(pc[t], l, top(t) = root)
  BY DEF Locally, Goto
<1>1. /\ pc[t] \in {"unlink"} \cup Working \cup Ending
      /\ l \in {"unlink", "over"} \cup Working \cup Ending
  BY <1>0 DEF SameKind
<1>a. /\ pc[t] \notin {"grab"} \cup Publishing \cup Trying
      /\ l \notin {"grab"} \cup Publishing \cup Trying
  BY <1>1 DEF Publishing, Trying, Working, Ending
<1>2. Types'
  BY <1>0 DEF TasksInv, Types
<1>3. CandShape'
  BY <1>0, <1>a DEF TasksInv, Types, CandShape
<1>4. StackShape'
  BY <1>0, <1>1 DEF TasksInv, Types, StackShape, SameKind, Trying, Working, Ending, top
<1>5. StackStates'
  BY <1>0 DEF TasksInv, Types, StackStates, SameKind, top, Working, Ending
<1>6. GrabbedTask' /\ EachTaskHasOneExecutor' /\ ParentsAreExecuting'
  <2>1. GrabbedTask'
    BY <1>0, <1>a DEF TasksInv, Types, GrabbedTask, OnStack, Trying
  <2>2. EachTaskHasOneExecutor' /\ ParentsAreExecuting'
    BY <1>0 DEF TasksInv, EachTaskHasOneExecutor, ParentsAreExecuting, OnStack
  <2> QED BY <2>1, <2>2
<1>7. \A u \in Thread, s \in Task : /\ HoldsPending(u, s)' <=> HoldsPending(u, s)
                                    /\ HoldsTyped(u, s)' <=> HoldsTyped(u, s)
                                    /\ HoldsChild(u, s)' <=> HoldsChild(u, s)
  BY <1>0, <1>1 DEF TasksInv, Types, HoldsPending, HoldsTyped, HoldsChild, Publishing, Working, Ending
<1>8. PendingOnce' /\ TypedOnce' /\ ChildOnce'
  BY <1>0, <1>7 DEF TasksInv, PendingOnce, TypedOnce, ChildOnce
<1>9. RefsCountReferences'
  <2> SUFFICES ASSUME NEW s \in Task
               PROVE /\ InPending(s)' = InPending(s) /\ InTyped(s)' = InTyped(s)
                     /\ InChildren(s)' = InChildren(s) /\ Unfinished(s)' = Unfinished(s)
    BY <1>0 DEF TasksInv, RefsCountReferences, One
  <2>1. InPending(s)' = InPending(s) /\ InTyped(s)' = InTyped(s) /\ InChildren(s)' = InChildren(s)
    BY <1>0, <1>7 DEF InPending, InTyped, InChildren
  <2>2. Unfinished(s)' = Unfinished(s)
    BY <1>0 DEF Unfinished, OnStack
  <2> QED BY <2>1, <2>2
<1> QED BY <1>2, <1>3, <1>4, <1>5, <1>6, <1>8, <1>9 DEF TasksInv

-----------------------------------------------------------------------------
(* What the invariant says of the task on top of a stack, and of a slot.   *)

LEMMA TopFacts ==
    ASSUME TasksInv, NEW t \in Thread, stack[t] # << >>
    PROVE  /\ Len(stack[t]) \in Nat /\ Len(stack[t]) >= 1
           /\ top(t) = stack[t][Len(stack[t])] /\ top(t) \in Slot
           /\ OnStack(t, top(t))
           /\ top(t) = root <=> t = user /\ Len(stack[t]) = 1
<1>1. stack[t] \in Seq(Slot) /\ Len(stack[t]) \in Nat /\ Len(stack[t]) >= 1
  BY DEF TasksInv, Types
<1>2. stack[t][Len(stack[t])] = root <=> t = user /\ Len(stack[t]) = 1
  <2>1. Len(stack[t]) \in 1..Len(stack[t])
    BY <1>1
  <2> QED BY <2>1 DEF TasksInv, StackShape
<1> QED BY <1>1, <1>2 DEF top, OnStack

LEMMA SlotFacts ==
    ASSUME TasksInv, NEW s \in Task
    PROVE  /\ refs[s] \in Int
           /\ state[s] = "deallocated" =>
                 ~InPending(s) /\ ~InTyped(s) /\ ~InChildren(s) /\ ~Unfinished(s)
           /\ InPending(s) \/ InTyped(s) \/ InChildren(s) \/ Unfinished(s) => refs[s] >= 1
           /\ (InPending(s) \/ InTyped(s) \/ InChildren(s)) /\ Unfinished(s) => refs[s] >= 2
<1>1. refs[s] \in Int
  BY DEF TasksInv, Types
<1> QED BY <1>1 DEF TasksInv, RefsCountReferences, One

-----------------------------------------------------------------------------
(* spawn_task                                                              *)

LEMMA SpawnStep ==
    ASSUME TasksAssumption, TasksInv, NEW t \in Thread, Spawn(t)
    PROVE  TasksInv'
<1>1. PICK s \in Task :
        /\ state[s] = "deallocated"
        /\ state' = [state EXCEPT ![s] = "allocated"]
        /\ refs' = [refs EXCEPT ![s] = 4]
        /\ children' = [children EXCEPT ![s] = {}, ![top(t)] = @ \cup {s}]
        /\ cand' = [cand EXCEPT ![t] = s]
  BY DEF Spawn, references_held_by_system_count
<1>2. /\ pc[t] = "body" /\ pc' = [pc EXCEPT ![t] = "push_pending"]
      /\ UNCHANGED <<pending, typed, stack, from>>
  BY DEF Spawn, Goto, queues
<1>3. stack[t] # << >> /\ cand[t] = none /\ from[t] = none
  BY <1>2 DEF TasksInv, StackShape, CandShape, Publishing, Trying
<1>4. ~InPending(s) /\ ~InTyped(s) /\ ~InChildren(s) /\ ~Unfinished(s)
  BY <1>1, SlotFacts
<1>5. /\ \A u \in Thread : ~OnStack(u, s)
      /\ \A u \in Thread : ~HoldsPending(u, s) /\ ~HoldsTyped(u, s) /\ ~HoldsChild(u, s)
      /\ s \notin pending /\ s \notin typed /\ \A p \in Slot : s \notin children[p]
  BY <1>4 DEF Unfinished, InPending, InTyped, InChildren
<1>6. top(t) \in Slot /\ top(t) # s
  BY <1>3, <1>5, TopFacts
<1>7. children[s] = {}
  BY <1>5 DEF TasksInv, ParentsAreExecuting
<1>8. /\ \A p \in Slot \ {top(t)} : children'[p] = children[p]
      /\ children'[top(t)] = children[top(t)] \cup {s}
  BY <1>1, <1>6, <1>7 DEF TasksInv, Types
<1>9. Types'
  <2>1. children' \in [Slot -> SUBSET Task]
    BY <1>1, <1>6 DEF TasksInv, Types
  <2>2. refs' \in [Task -> Int]
    BY <1>1 DEF TasksInv, Types
  <2>3. state' \in [Task -> {"deallocated", "allocated", "grabbed", "captured", "executed"}]
    BY <1>1 DEF TasksInv, Types
  <2>4. cand' \in [Thread -> Task \cup {none}] /\ pc' \in [Thread -> Labels]
    BY <1>1, <1>2 DEF TasksInv, Types, Labels, Publishing
  <2> QED BY <1>2, <2>1, <2>2, <2>3, <2>4 DEF TasksInv, Types
<1>10. CandShape'
  BY <1>1, <1>2, <1>3 DEF TasksInv, Types, CandShape, Publishing, Trying
<1>11. StackShape'
  BY <1>2, <1>3 DEF TasksInv, Types, StackShape, Trying, Ending, top
<1>12. StackStates'
  <2> SUFFICES ASSUME NEW u \in Thread, NEW i \in 1..Len(stack[u]), stack[u][i] # root
               PROVE  state'[stack[u][i]] =
                        IF i = Len(stack[u]) /\ pc'[u] \in Ending THEN "captured"
                        ELSE IF i = Len(stack[u]) /\ pc'[u] = "unlink" THEN "executed"
                        ELSE "grabbed"
    BY <1>2 DEF StackStates
  <2>1. stack[u][i] # s
    BY <1>5 DEF OnStack
  <2>2. state'[stack[u][i]] = state[stack[u][i]]
    BY <1>1, <2>1 DEF TasksInv, Types
  <2>3. pc'[u] \in Ending <=> pc[u] \in Ending
    BY <1>2 DEF TasksInv, Types, Ending
  <2>4. pc'[u] = "unlink" <=> pc[u] = "unlink"
    BY <1>2 DEF TasksInv, Types
  <2> QED BY <2>2, <2>3, <2>4 DEF TasksInv, StackStates
<1>13. GrabbedTask' /\ EachTaskHasOneExecutor'
  <2>1. \A u \in Thread : pc'[u] = "grabbed" => pc[u] = "grabbed" /\ cand'[u] = cand[u] /\ u # t
    BY <1>1, <1>2 DEF TasksInv, Types
  <2>2. \A u \in Thread : pc[u] = "grabbed" => cand[u] \in Task /\ cand[u] # s
    BY <1>1 DEF TasksInv, GrabbedTask, CandShape, Trying
  <2>3. GrabbedTask'
    BY <1>1, <1>2, <2>1, <2>2 DEF TasksInv, Types, GrabbedTask, OnStack
  <2>4. EachTaskHasOneExecutor'
    BY <1>2 DEF TasksInv, EachTaskHasOneExecutor
  <2> QED BY <2>3, <2>4
<1>14. \A u \in Thread, x \in Task :
         /\ HoldsPending(u, x)' <=> HoldsPending(u, x) \/ (u = t /\ x = s)
         /\ HoldsTyped(u, x)' <=> HoldsTyped(u, x) \/ (u = t /\ x = s)
         /\ HoldsChild(u, x)' <=> HoldsChild(u, x)
  <2> SUFFICES ASSUME NEW u \in Thread, NEW x \in Task
               PROVE  /\ HoldsPending(u, x)' <=> HoldsPending(u, x) \/ (u = t /\ x = s)
                      /\ HoldsTyped(u, x)' <=> HoldsTyped(u, x) \/ (u = t /\ x = s)
                      /\ HoldsChild(u, x)' <=> HoldsChild(u, x)
    OBVIOUS
  <2>1. CASE u = t
    <3>1. cand'[t] = s /\ pc'[t] = "push_pending" /\ from'[t] = none /\ cand[t] # x
      BY <1>1, <1>2, <1>3 DEF TasksAssumption, TasksInv, Types
    <3> QED BY <1>3, <2>1, <3>1 DEF TasksAssumption, HoldsPending, HoldsTyped, HoldsChild, Publishing
  <2>2. CASE u # t
    <3>1. cand'[u] = cand[u] /\ pc'[u] = pc[u] /\ from'[u] = from[u]
      BY <1>1, <1>2, <2>2 DEF TasksInv, Types
    <3> QED BY <2>2, <3>1 DEF HoldsPending, HoldsTyped, HoldsChild
  <2> QED BY <2>1, <2>2
<1>15. PendingOnce' /\ TypedOnce'
  BY <1>2, <1>5, <1>14 DEF TasksInv, PendingOnce, TypedOnce
<1>16. ChildOnce'
  BY <1>5, <1>6, <1>8, <1>14 DEF TasksInv, ChildOnce
<1>17. ParentsAreExecuting'
  BY <1>2, <1>3, <1>8, TopFacts DEF TasksInv, ParentsAreExecuting, OnStack
<1>18. RefsCountReferences'
  <2> SUFFICES ASSUME NEW x \in Task
               PROVE  /\ refs'[x] = One(InPending(x)') + One(InTyped(x)')
                                    + One(InChildren(x)') + One(Unfinished(x)')
                      /\ refs'[x] = 0 <=> state'[x] = "deallocated"
    BY DEF RefsCountReferences
  <2>1. CASE x = s
    <3>1. InPending(s)' /\ InTyped(s)' /\ InChildren(s)'
      BY <1>6, <1>8, <1>14 DEF InPending, InTyped, InChildren
    <3>2. Unfinished(s)' /\ refs'[s] = 4 /\ state'[s] = "allocated"
      BY <1>1 DEF TasksInv, Types, Unfinished
    <3> QED BY <2>1, <3>1, <3>2 DEF One
  <2>2. CASE x # s
    <3>1. InPending(x)' = InPending(x) /\ InTyped(x)' = InTyped(x)
      BY <1>2, <1>14, <2>2 DEF InPending, InTyped
    <3>2. InChildren(x)' = InChildren(x)
      BY <1>6, <1>8, <1>14, <2>2 DEF InChildren
    <3>3. Unfinished(x)' = Unfinished(x) /\ refs'[x] = refs[x] /\ state'[x] = state[x]
      BY <1>1, <1>2, <2>2 DEF TasksInv, Types, Unfinished, OnStack
    <3> QED BY <3>1, <3>2, <3>3 DEF TasksInv, RefsCountReferences
  <2> QED BY <2>1, <2>2
<1> QED BY <1>9, <1>10, <1>11, <1>12, <1>13, <1>15, <1>16, <1>17, <1>18 DEF TasksInv

-----------------------------------------------------------------------------
(* Steps that move references between the lists and a thread.              *)

LEMMA ExecutorsStay ==
    ASSUME TasksInv, NEW t \in Thread, NEW l \in Labels \ ({"grabbed", "unlink"} \cup Ending),
           pc[t] \notin {"grabbed", "unlink"} \cup Ending,
           pc' = [pc EXCEPT ![t] = l], UNCHANGED <<state, stack>>,
           \A u \in Thread \ {t} : cand'[u] = cand[u]
    PROVE  StackStates' /\ GrabbedTask' /\ EachTaskHasOneExecutor'
<1>1. \A u \in Thread : /\ pc'[u] \in Ending <=> pc[u] \in Ending
                        /\ pc'[u] = "unlink" <=> pc[u] = "unlink"
                        /\ pc'[u] = "grabbed" <=> pc[u] = "grabbed"
                        /\ pc[u] = "grabbed" => u # t /\ cand'[u] = cand[u]
  BY DEF TasksInv, Types
<1>2. StackStates'
  BY <1>1 DEF TasksInv, StackStates
<1>3. GrabbedTask'
  BY <1>1 DEF TasksInv, GrabbedTask, OnStack
<1>4. EachTaskHasOneExecutor'
  BY DEF TasksInv, EachTaskHasOneExecutor
<1> QED BY <1>2, <1>3, <1>4

(* If no task enters or leaves a list as a whole, no count changes.        *)
LEMMA ReferencesStay ==
    ASSUME TasksInv, UNCHANGED <<state, refs, stack>>,
           \A s \in Task : /\ (InPending(s)' <=> InPending(s))
                           /\ (InTyped(s)' <=> InTyped(s))
                           /\ (InChildren(s)' <=> InChildren(s))
    PROVE  RefsCountReferences'
<1>1. \A s \in Task : Unfinished(s)' = Unfinished(s)
  BY DEF Unfinished, OnStack
<1> QED BY <1>1 DEF TasksInv, RefsCountReferences, One

LEMMA PushPendingStep ==
    ASSUME TasksAssumption, TasksInv, NEW t \in Thread, PushPending(t)
    PROVE  TasksInv'
<1>1. /\ pc[t] = "push_pending" /\ pc' = [pc EXCEPT ![t] = "push_typed"]
      /\ pending' = pending \cup {cand[t]}
      /\ UNCHANGED <<state, refs, children, typed, stack, cand, from>>
  BY DEF PushPending, Goto, memory
<1>2. cand[t] \in Task /\ from[t] = none /\ stack[t] # << >>
  BY <1>1 DEF TasksInv, CandShape, StackShape, Publishing, Trying
<1>3. Types' /\ CandShape' /\ StackShape'
  <2>1. Types' /\ CandShape'
    BY <1>1, <1>2 DEF TasksInv, Types, CandShape, Labels, Publishing, Trying
  <2>2. StackShape'
    BY <1>1, <1>2 DEF TasksInv, Types, StackShape, Publishing, Trying, Ending, top
  <2> QED BY <2>1, <2>2
<1>4. StackStates' /\ GrabbedTask' /\ EachTaskHasOneExecutor'
  <2>1. "push_typed" \in Labels \ ({"grabbed", "unlink"} \cup Ending) /\ pc[t] \notin {"grabbed", "unlink"} \cup Ending
    BY <1>1 DEF Labels, Publishing, Ending
  <2> QED BY <1>1, <2>1, ExecutorsStay
<1>5. \A u \in Thread, x \in Task :
         /\ HoldsPending(u, x)' <=> HoldsPending(u, x) /\ u # t
         /\ HoldsTyped(u, x)' <=> HoldsTyped(u, x)
         /\ HoldsChild(u, x)' <=> HoldsChild(u, x)
  <2> SUFFICES ASSUME NEW u \in Thread, NEW x \in Task
               PROVE  /\ HoldsPending(u, x)' <=> HoldsPending(u, x) /\ u # t
                      /\ HoldsTyped(u, x)' <=> HoldsTyped(u, x)
                      /\ HoldsChild(u, x)' <=> HoldsChild(u, x)
    OBVIOUS
  <2>1. CASE u = t
    <3>1. pc'[t] = "push_typed"
      BY <1>1 DEF TasksInv, Types
    <3> QED BY <1>1, <1>2, <2>1, <3>1 DEF TasksAssumption, HoldsPending, HoldsTyped, HoldsChild, Publishing
  <2>2. CASE u # t
    <3>1. pc'[u] = pc[u]
      BY <1>1, <2>2 DEF TasksInv, Types
    <3> QED BY <1>1, <2>2, <3>1 DEF HoldsPending, HoldsTyped, HoldsChild
  <2> QED BY <2>1, <2>2
<1>6. HoldsPending(t, cand[t])
  BY <1>1 DEF HoldsPending
<1>7. PendingOnce'
  BY <1>1, <1>2, <1>5, <1>6 DEF TasksInv, PendingOnce
<1>8. TypedOnce' /\ ChildOnce' /\ ParentsAreExecuting'
  BY <1>1, <1>5 DEF TasksInv, TypedOnce, ChildOnce, ParentsAreExecuting, OnStack
<1>9. RefsCountReferences'
  <2>1. \A x \in Task : (InPending(x)' <=> InPending(x))
    <3> SUFFICES ASSUME NEW x \in Task PROVE InPending(x)' <=> InPending(x)
      OBVIOUS
    <3>1. HoldsPending(t, x) => x = cand[t]
      BY DEF HoldsPending
    <3> QED BY <1>1, <1>5, <1>6, <3>1 DEF InPending
  <2>2. \A x \in Task : (InTyped(x)' <=> InTyped(x)) /\ (InChildren(x)' <=> InChildren(x))
    BY <1>1, <1>5 DEF InTyped, InChildren
  <2> QED BY <1>1, <2>1, <2>2, ReferencesStay
<1> QED BY <1>3, <1>4, <1>7, <1>8, <1>9 DEF TasksInv

LEMMA PushTypedStep ==
    ASSUME TasksAssumption, TasksInv, NEW t \in Thread, PushTyped(t)
    PROVE  TasksInv'
<1>1. /\ pc[t] = "push_typed" /\ pc' = [pc EXCEPT ![t] = "body"]
      /\ typed' = typed \cup {cand[t]} /\ cand' = [cand EXCEPT ![t] = none]
      /\ UNCHANGED <<state, refs, children, pending, stack, from>>
  BY DEF PushTyped, Goto, memory
<1>2. cand[t] \in Task /\ from[t] = none /\ stack[t] # << >>
  BY <1>1 DEF TasksInv, CandShape, StackShape, Publishing, Trying
<1>3. Types' /\ CandShape' /\ StackShape'
  BY <1>1, <1>2 DEF TasksInv, Types, CandShape, StackShape, Labels, Publishing, Trying, Working, Ending, top
<1>4. StackStates' /\ GrabbedTask' /\ EachTaskHasOneExecutor'
  <2>1. /\ "body" \in Labels \ ({"grabbed", "unlink"} \cup Ending)
        /\ pc[t] \notin {"grabbed", "unlink"} \cup Ending
        /\ \A u \in Thread \ {t} : cand'[u] = cand[u]
    BY <1>1 DEF TasksInv, Types, Labels, Working, Ending
  <2> QED BY <1>1, <2>1, ExecutorsStay
<1>5. \A u \in Thread, x \in Task :
         /\ HoldsPending(u, x)' <=> HoldsPending(u, x)
         /\ HoldsTyped(u, x)' <=> HoldsTyped(u, x) /\ u # t
         /\ HoldsChild(u, x)' <=> HoldsChild(u, x)
  <2> SUFFICES ASSUME NEW u \in Thread, NEW x \in Task
               PROVE  /\ HoldsPending(u, x)' <=> HoldsPending(u, x)
                      /\ HoldsTyped(u, x)' <=> HoldsTyped(u, x) /\ u # t
                      /\ HoldsChild(u, x)' <=> HoldsChild(u, x)
    OBVIOUS
  <2>1. CASE u = t
    <3>1. pc'[t] = "body" /\ cand'[t] # x
      BY <1>1 DEF TasksAssumption, TasksInv, Types
    <3> QED BY <1>1, <1>2, <2>1, <3>1 DEF TasksAssumption, HoldsPending, HoldsTyped, HoldsChild, Publishing
  <2>2. CASE u # t
    <3>1. pc'[u] = pc[u] /\ cand'[u] = cand[u]
      BY <1>1, <2>2 DEF TasksInv, Types
    <3> QED BY <1>1, <2>2, <3>1 DEF HoldsPending, HoldsTyped, HoldsChild
  <2> QED BY <2>1, <2>2
<1>6. HoldsTyped(t, cand[t])
  BY <1>1 DEF HoldsTyped, Publishing
<1>7. TypedOnce'
  BY <1>1, <1>2, <1>5, <1>6 DEF TasksInv, TypedOnce
<1>8. PendingOnce' /\ ChildOnce' /\ ParentsAreExecuting'
  BY <1>1, <1>5 DEF TasksInv, PendingOnce, ChildOnce, ParentsAreExecuting, OnStack
<1>9. RefsCountReferences'
  <2>1. \A x \in Task : (InTyped(x)' <=> InTyped(x))
    <3> SUFFICES ASSUME NEW x \in Task PROVE InTyped(x)' <=> InTyped(x)
      OBVIOUS
    <3>1. HoldsTyped(t, x) => x = cand[t]
      BY DEF HoldsTyped
    <3> QED BY <1>1, <1>5, <1>6, <3>1 DEF InTyped
  <2>2. \A x \in Task : (InPending(x)' <=> InPending(x)) /\ (InChildren(x)' <=> InChildren(x))
    BY <1>1, <1>5 DEF InPending, InChildren
  <2> QED BY <1>1, <2>1, <2>2, ReferencesStay
<1> QED BY <1>3, <1>4, <1>7, <1>8, <1>9 DEF TasksInv

(* A task that is popped is held by the thread instead of the list.        *)
PopFacts(t, s, list) ==
    /\ UNCHANGED <<state, refs, stack>>
    /\ \A u \in Thread, x \in Task :
         /\ HoldsPending(u, x)' <=> HoldsPending(u, x) \/ (list = "pending" /\ u = t /\ x = s)
         /\ HoldsTyped(u, x)' <=> HoldsTyped(u, x) \/ (list = "typed" /\ u = t /\ x = s)
         /\ HoldsChild(u, x)' <=> HoldsChild(u, x) \/ (list = "children" /\ u = t /\ x = s)

LEMMA PopStep ==
    ASSUME TasksAssumption, TasksInv, NEW t \in Thread, NEW s \in Task,
           NEW list \in {"pending", "typed", "children"},
           pc[t] \in {"grab", "children"}, Pop(t, s, list),
           pending' \subseteq pending, typed' \subseteq typed,
           children' \in [Slot -> SUBSET Task]
    PROVE  /\ PopFacts(t, s, list)
           /\ Types' /\ CandShape' /\ StackShape'
           /\ StackStates' /\ GrabbedTask' /\ EachTaskHasOneExecutor'
<1>1. /\ pc' = [pc EXCEPT ![t] = "try_grab"]
      /\ cand' = [cand EXCEPT ![t] = s] /\ from' = [from EXCEPT ![t] = list]
      /\ UNCHANGED <<state, refs, stack>>
  BY DEF Pop, Goto
<1>2. cand[t] = none /\ from[t] = none
  BY DEF TasksInv, CandShape, Publishing, Trying
<1>3. Types'
  <2>1. pc' \in [Thread -> Labels] /\ cand' \in [Thread -> Task \cup {none}]
    BY <1>1 DEF TasksInv, Types, Labels, Trying
  <2>2. from' \in [Thread -> {none, "pending", "typed", "children"}]
    BY <1>1 DEF TasksInv, Types
  <2> QED BY <1>1, <2>1, <2>2 DEF TasksInv, Types
<1>4. CandShape' /\ StackShape'
  <2>1. CandShape'
    BY <1>1 DEF TasksAssumption, TasksInv, Types, CandShape, Publishing, Trying
  <2>2. StackShape'
    BY <1>1 DEF TasksInv, Types, StackShape, Trying, Ending, top
  <2> QED BY <2>1, <2>2
<1>5. StackStates' /\ GrabbedTask' /\ EachTaskHasOneExecutor'
  <2>1. /\ "try_grab" \in Labels \ ({"grabbed", "unlink"} \cup Ending)
        /\ pc[t] \notin {"grabbed", "unlink"} \cup Ending
        /\ \A u \in Thread \ {t} : cand'[u] = cand[u]
    BY <1>1 DEF TasksInv, Types, Labels, Trying, Ending
  <2> QED BY <1>1, <2>1, ExecutorsStay
<1>6. PopFacts(t, s, list)
  <2> SUFFICES ASSUME NEW u \in Thread, NEW x \in Task
               PROVE  /\ HoldsPending(u, x)' <=> HoldsPending(u, x) \/ (list = "pending" /\ u = t /\ x = s)
                      /\ HoldsTyped(u, x)' <=> HoldsTyped(u, x) \/ (list = "typed" /\ u = t /\ x = s)
                      /\ HoldsChild(u, x)' <=> HoldsChild(u, x) \/ (list = "children" /\ u = t /\ x = s)
    BY <1>1 DEF PopFacts
  <2>1. CASE u = t
    <3>1. cand'[t] = s /\ from'[t] = list /\ pc'[t] = "try_grab" /\ cand[t] # x
      BY <1>1, <1>2 DEF TasksAssumption, TasksInv, Types
    <3> QED BY <2>1, <3>1 DEF HoldsPending, HoldsTyped, HoldsChild, Publishing
  <2>2. CASE u # t
    <3>1. cand'[u] = cand[u] /\ from'[u] = from[u] /\ pc'[u] = pc[u]
      BY <1>1, <2>2 DEF TasksInv, Types
    <3> QED BY <2>2, <3>1 DEF HoldsPending, HoldsTyped, HoldsChild
  <2> QED BY <2>1, <2>2
<1> QED BY <1>3, <1>4, <1>5, <1>6

LEMMA PopPendingStep ==
    ASSUME TasksAssumption, TasksInv, NEW t \in Thread, PopPending(t)
    PROVE  TasksInv'
<1>1. PICK s \in Task : s \in pending /\ Pop(t, s, "pending") /\ pending' = pending \ {s}
  BY DEF PopPending, TasksInv, Types
<1>2. pc[t] = "grab" /\ UNCHANGED <<typed, children>>
  BY DEF PopPending
<1>3. /\ PopFacts(t, s, "pending")
      /\ Types' /\ CandShape' /\ StackShape'
      /\ StackStates' /\ GrabbedTask' /\ EachTaskHasOneExecutor'
  <2>1. /\ typed' \subseteq typed /\ pending' \subseteq pending
        /\ children' \in [Slot -> SUBSET Task]
    BY <1>1, <1>2 DEF TasksInv, Types
  <2> QED BY <1>1, <1>2, <2>1, PopStep
<1>4. \A u \in Thread : ~HoldsPending(u, s)
  BY <1>1 DEF TasksInv, PendingOnce
<1>5. PendingOnce'
  BY <1>1, <1>3, <1>4 DEF TasksInv, PendingOnce, PopFacts
<1>6. TypedOnce' /\ ChildOnce' /\ ParentsAreExecuting'
  BY <1>2, <1>3 DEF TasksInv, TypedOnce, ChildOnce, ParentsAreExecuting, OnStack, PopFacts
<1>7. RefsCountReferences'
  <2>1. \A x \in Task : InPending(x)' <=> InPending(x)
    BY <1>1, <1>3 DEF InPending, PopFacts
  <2>2. \A x \in Task : (InTyped(x)' <=> InTyped(x)) /\ (InChildren(x)' <=> InChildren(x))
    BY <1>2, <1>3 DEF InTyped, InChildren, PopFacts
  <2> QED BY <1>3, <2>1, <2>2, ReferencesStay DEF PopFacts
<1> QED BY <1>3, <1>5, <1>6, <1>7 DEF TasksInv

LEMMA PopTypedStep ==
    ASSUME TasksAssumption, TasksInv, NEW t \in Thread, PopTyped(t)
    PROVE  TasksInv'
<1>1. PICK s \in Task : s \in typed /\ Pop(t, s, "typed") /\ typed' = typed \ {s}
  BY DEF PopTyped, TasksInv, Types
<1>2. pc[t] = "grab" /\ UNCHANGED <<pending, children>>
  BY DEF PopTyped
<1>3. /\ PopFacts(t, s, "typed")
      /\ Types' /\ CandShape' /\ StackShape'
      /\ StackStates' /\ GrabbedTask' /\ EachTaskHasOneExecutor'
  <2>1. /\ typed' \subseteq typed /\ pending' \subseteq pending
        /\ children' \in [Slot -> SUBSET Task]
    BY <1>1, <1>2 DEF TasksInv, Types
  <2> QED BY <1>1, <1>2, <2>1, PopStep
<1>4. \A u \in Thread : ~HoldsTyped(u, s)
  BY <1>1 DEF TasksInv, TypedOnce
<1>5. TypedOnce'
  BY <1>1, <1>3, <1>4 DEF TasksInv, TypedOnce, PopFacts
<1>6. PendingOnce' /\ ChildOnce' /\ ParentsAreExecuting'
  BY <1>2, <1>3 DEF TasksInv, PendingOnce, ChildOnce, ParentsAreExecuting, OnStack, PopFacts
<1>7. RefsCountReferences'
  <2>1. \A x \in Task : InTyped(x)' <=> InTyped(x)
    BY <1>1, <1>3 DEF InTyped, PopFacts
  <2>2. \A x \in Task : (InPending(x)' <=> InPending(x)) /\ (InChildren(x)' <=> InChildren(x))
    BY <1>2, <1>3 DEF InPending, InChildren, PopFacts
  <2> QED BY <1>3, <2>1, <2>2, ReferencesStay DEF PopFacts
<1> QED BY <1>3, <1>5, <1>6, <1>7 DEF TasksInv

LEMMA PopChildStep ==
    ASSUME TasksAssumption, TasksInv, NEW t \in Thread, PopChild(t)
    PROVE  TasksInv'
<1>0. pc[t] = "children" /\ UNCHANGED <<pending, typed>> /\ top(t) \in Slot
  <2>1. pc[t] = "children" /\ UNCHANGED <<pending, typed>>
    BY DEF PopChild, queues
  <2>2. stack[t] # << >>
    BY <2>1 DEF TasksInv, StackShape, Trying
  <2> QED BY <2>1, <2>2, TopFacts
<1>1. PICK s \in Task : /\ s \in children[top(t)] /\ Pop(t, s, "children")
                        /\ children' = [children EXCEPT ![top(t)] = @ \ {s}]
  BY <1>0 DEF PopChild, TasksInv, Types
<1>2. /\ children' \in [Slot -> SUBSET Task]
      /\ children'[top(t)] = children[top(t)] \ {s}
      /\ \A p \in Slot \ {top(t)} : children'[p] = children[p]
  BY <1>0, <1>1 DEF TasksInv, Types
<1>3. /\ PopFacts(t, s, "children")
      /\ Types' /\ CandShape' /\ StackShape'
      /\ StackStates' /\ GrabbedTask' /\ EachTaskHasOneExecutor'
  <2>1. typed \subseteq Task /\ pending \subseteq Task
    BY DEF TasksInv, Types
  <2> QED BY <1>0, <1>1, <1>2, <2>1, PopStep
<1>4. /\ \A u \in Thread : ~HoldsChild(u, s)
      /\ \A p \in Slot : s \in children[p] => p = top(t)
  BY <1>0, <1>1 DEF TasksInv, ChildOnce
<1>5. ChildOnce'
  BY <1>0, <1>2, <1>3, <1>4 DEF TasksInv, ChildOnce, PopFacts
<1>6. PendingOnce' /\ TypedOnce'
  BY <1>0, <1>3 DEF TasksInv, PendingOnce, TypedOnce, PopFacts
<1>7. ParentsAreExecuting'
  BY <1>0, <1>2, <1>3 DEF TasksInv, ParentsAreExecuting, OnStack, PopFacts
<1>8. RefsCountReferences'
  <2>1. \A x \in Task : InChildren(x)' <=> InChildren(x)
    BY <1>0, <1>1, <1>2, <1>3, <1>4 DEF InChildren, PopFacts
  <2>2. \A x \in Task : (InPending(x)' <=> InPending(x)) /\ (InTyped(x)' <=> InTyped(x))
    BY <1>0, <1>3 DEF InPending, InTyped, PopFacts
  <2> QED BY <1>3, <2>1, <2>2, ReferencesStay DEF PopFacts
<1> QED BY <1>3, <1>5, <1>6, <1>7, <1>8 DEF TasksInv

-----------------------------------------------------------------------------
(* Grabbing, and giving a reference back.                                  *)

LEMMA TryGrabStep ==
    ASSUME TasksAssumption, TasksInv, NEW t \in Thread, TryGrab(t)
    PROVE  TasksInv'
<1>1. /\ pc[t] = "try_grab" /\ pc' = [pc EXCEPT ![t] = IF state[cand[t]] = "allocated" THEN "grabbed" ELSE "lost"]
      /\ state' = IF state[cand[t]] = "allocated" THEN [state EXCEPT ![cand[t]] = "grabbed"] ELSE state
      /\ UNCHANGED <<refs, children, pending, typed, stack, cand, from>>
  BY DEF TryGrab, Goto, queues
<1>2. cand[t] \in Task /\ from[t] # none
  BY <1>1 DEF TasksInv, CandShape, Trying
<1>3. pc'[t] \in {"grabbed", "lost"} /\ \A u \in Thread \ {t} : pc'[u] = pc[u]
  BY <1>1 DEF TasksInv, Types
<1>4. Types' /\ CandShape' /\ StackShape'
  <2>1. pc' \in [Thread -> Labels]
    BY <1>1 DEF TasksInv, Types, Labels, Trying
  <2>2. state' \in [Task -> {"deallocated", "allocated", "grabbed", "captured", "executed"}]
    BY <1>1, <1>2 DEF TasksInv, Types
  <2>3. Types'
    BY <1>1, <2>1, <2>2 DEF TasksInv, Types
  <2>4. CandShape'
    BY <1>1, <1>2, <1>3 DEF TasksInv, CandShape, Publishing, Trying
  <2>5. StackShape'
    BY <1>1, <1>3 DEF TasksInv, StackShape, Trying, Ending, top
  <2> QED BY <2>3, <2>4, <2>5
<1>5. StackStates' /\ GrabbedTask' /\ EachTaskHasOneExecutor'
  <2>1. CASE state[cand[t]] # "allocated"
    <3>1. "lost" \in Labels \ ({"grabbed", "unlink"} \cup Ending) /\ pc[t] \notin {"grabbed", "unlink"} \cup Ending
      BY <1>1 DEF Labels, Trying, Ending
    <3> QED BY <1>1, <2>1, <3>1, ExecutorsStay
  <2>2. CASE state[cand[t]] = "allocated"
    <3>1. \A u \in Thread : ~OnStack(u, cand[t])
      BY <1>2, <2>2 DEF TasksAssumption, TasksInv, StackStates, OnStack
    <3>2. \A u \in Thread : pc[u] = "grabbed" => cand[u] # cand[t]
      BY <2>2 DEF TasksInv, GrabbedTask
    <3>3. /\ state'[cand[t]] = "grabbed" /\ \A x \in Task \ {cand[t]} : state'[x] = state[x]
      BY <1>1, <1>2, <2>2 DEF TasksInv, Types
    <3>4. StackStates'
      <4> SUFFICES ASSUME NEW u \in Thread, NEW i \in 1..Len(stack[u]), stack[u][i] # root
                   PROVE  state'[stack[u][i]] =
                            IF i = Len(stack[u]) /\ pc'[u] \in Ending THEN "captured"
                            ELSE IF i = Len(stack[u]) /\ pc'[u] = "unlink" THEN "executed"
                            ELSE "grabbed"
        BY <1>1 DEF StackStates
      <4>1. stack[u][i] \in Task \ {cand[t]}
        BY <3>1 DEF TasksInv, Types, OnStack
      <4>2. (pc'[u] \in Ending <=> pc[u] \in Ending) /\ (pc'[u] = "unlink" <=> pc[u] = "unlink")
        BY <1>1, <1>3 DEF Ending
      <4> QED BY <3>3, <4>1, <4>2 DEF TasksInv, StackStates
    <3>5. GrabbedTask'
      <4> SUFFICES ASSUME NEW u \in Thread, pc'[u] = "grabbed"
                   PROVE  /\ state'[cand[u]] = "grabbed"
                          /\ \A v \in Thread : ~OnStack(v, cand[u])
                          /\ \A v \in Thread \ {u} : ~(pc'[v] = "grabbed" /\ cand[v] = cand[u])
        BY <1>1 DEF GrabbedTask, OnStack
      <4>1. CASE u = t
        BY <1>3, <3>1, <3>2, <3>3, <4>1
      <4>2. CASE u # t
        <5>1. pc[u] = "grabbed" /\ cand[u] \in Task \ {cand[t]}
          BY <1>3, <3>2, <4>2 DEF TasksInv, CandShape, Trying
        <5> QED BY <1>3, <3>3, <4>2, <5>1 DEF TasksInv, GrabbedTask
      <4> QED BY <4>1, <4>2
    <3>6. EachTaskHasOneExecutor'
      BY <1>1 DEF TasksInv, EachTaskHasOneExecutor
    <3> QED BY <3>4, <3>5, <3>6
  <2> QED BY <2>1, <2>2
<1>6. \A u \in Thread, x \in Task : /\ HoldsPending(u, x)' <=> HoldsPending(u, x)
                                    /\ HoldsTyped(u, x)' <=> HoldsTyped(u, x)
                                    /\ HoldsChild(u, x)' <=> HoldsChild(u, x)
  BY <1>1, <1>3 DEF HoldsPending, HoldsTyped, HoldsChild, Publishing
<1>7. PendingOnce' /\ TypedOnce' /\ ChildOnce' /\ ParentsAreExecuting'
  BY <1>1, <1>6 DEF TasksInv, PendingOnce, TypedOnce, ChildOnce, ParentsAreExecuting, OnStack
<1>8. RefsCountReferences'
  <2> SUFFICES ASSUME NEW x \in Task
               PROVE  /\ InPending(x)' <=> InPending(x)
                      /\ InTyped(x)' <=> InTyped(x)
                      /\ InChildren(x)' <=> InChildren(x)
                      /\ Unfinished(x)' <=> Unfinished(x)
                      /\ state'[x] = "deallocated" <=> state[x] = "deallocated"
    BY <1>1 DEF TasksInv, RefsCountReferences, One
  <2>1. /\ InPending(x)' <=> InPending(x)
        /\ InTyped(x)' <=> InTyped(x)
        /\ InChildren(x)' <=> InChildren(x)
    BY <1>1, <1>6 DEF InPending, InTyped, InChildren
  <2>2. \/ state'[x] = state[x]
        \/ state[x] = "allocated" /\ state'[x] = "grabbed"
    BY <1>1, <1>2 DEF TasksInv, Types
  <2>3. Unfinished(x)' <=> Unfinished(x)
    BY <1>1, <2>2 DEF Unfinished, OnStack
  <2> QED BY <2>1, <2>2, <2>3
<1> QED BY <1>4, <1>5, <1>7, <1>8 DEF TasksInv

LEMMA ReleaseFacts ==
    ASSUME TasksInv, NEW s \in Task, Release(s),
           InPending(s) \/ InTyped(s) \/ InChildren(s)
    PROVE  /\ refs' \in [Task -> Int]
           /\ state' \in [Task -> {"deallocated", "allocated", "grabbed", "captured", "executed"}]
           /\ \A x \in Task \ {s} : refs'[x] = refs[x] /\ state'[x] = state[x]
           /\ refs'[s] = refs[s] - 1
           /\ Unfinished(s) => state' = state
           /\ ~Unfinished(s) => state'[s] \in {"deallocated", "executed"}
           /\ state'[s] = "deallocated" <=> refs'[s] = 0
<1>1. refs[s] >= 1 /\ refs[s] \in Int /\ (Unfinished(s) => refs[s] >= 2)
  BY SlotFacts
<1>2. state[s] # "deallocated"
  BY <1>1 DEF TasksInv, RefsCountReferences
<1>3. ~Unfinished(s) => state[s] = "executed"
  BY <1>2 DEF TasksInv, Types, Unfinished
<1> QED BY <1>1, <1>2, <1>3 DEF Release, TasksInv, Types

(* A list loses a task, and the count follows.                             *)
LEMMA CountFollows ==
    ASSUME TasksInv, NEW s \in Task, Release(s),
           InPending(s) \/ InTyped(s) \/ InChildren(s),
           \A x \in Task \ {s} : /\ InPending(x)' <=> InPending(x)
                                 /\ InTyped(x)' <=> InTyped(x)
                                 /\ InChildren(x)' <=> InChildren(x),
           \A x \in Task : Unfinished(x)' <=> Unfinished(x),
           \/ /\ InPending(s) /\ ~InPending(s)'
              /\ (InTyped(s)' <=> InTyped(s)) /\ (InChildren(s)' <=> InChildren(s))
           \/ /\ InTyped(s) /\ ~InTyped(s)'
              /\ (InPending(s)' <=> InPending(s)) /\ (InChildren(s)' <=> InChildren(s))
           \/ /\ InChildren(s) /\ ~InChildren(s)'
              /\ (InPending(s)' <=> InPending(s)) /\ (InTyped(s)' <=> InTyped(s))
    PROVE  RefsCountReferences'
<1>1. /\ \A x \in Task \ {s} : refs'[x] = refs[x] /\ state'[x] = state[x]
      /\ refs'[s] = refs[s] - 1 /\ (state'[s] = "deallocated" <=> refs'[s] = 0)
  BY ReleaseFacts
<1>2. refs[s] \in Int
  BY SlotFacts
<1>3. ASSUME NEW x \in Task \ {s}
      PROVE  /\ refs'[x] = One(InPending(x)') + One(InTyped(x)')
                           + One(InChildren(x)') + One(Unfinished(x)')
             /\ refs'[x] = 0 <=> state'[x] = "deallocated"
  BY <1>1, <1>3 DEF TasksInv, RefsCountReferences, One
<1>4. refs'[s] = One(InPending(s)') + One(InTyped(s)')
                 + One(InChildren(s)') + One(Unfinished(s)')
  BY <1>1, <1>2 DEF TasksInv, RefsCountReferences, One
<1> QED BY <1>1, <1>3, <1>4 DEF RefsCountReferences

LEMMA DropStep ==
    ASSUME TasksAssumption, TasksInv, NEW t \in Thread, Drop(t)
    PROVE  TasksInv'
<1>0. PICK s : s = cand[t]
  OBVIOUS
<1>1. /\ pc[t] \in {"grabbed", "lost"} /\ Release(s)
      /\ cand' = [cand EXCEPT ![t] = none] /\ from' = [from EXCEPT ![t] = none]
      /\ UNCHANGED <<children, pending, typed>>
      /\ pc[t] = "grabbed" => /\ stack' = [stack EXCEPT ![t] = Append(@, s)]
                              /\ pc' = [pc EXCEPT ![t] = "body"]
      /\ pc[t] = "lost" => /\ stack' = stack
                           /\ pc' = [pc EXCEPT ![t] = IF stack[t] = << >> THEN "grab" ELSE "children"]
  BY <1>0 DEF Drop, Goto, queues
<1>2. /\ s \in Task /\ s # root /\ s # none
      /\ from[t] \in {"pending", "typed", "children"}
  BY <1>0, <1>1 DEF TasksAssumption, TasksInv, CandShape, Types, Trying
<1>3. /\ HoldsPending(t, s) <=> from[t] = "pending"
      /\ HoldsTyped(t, s) <=> from[t] = "typed"
      /\ HoldsChild(t, s) <=> from[t] = "children"
  BY <1>0, <1>1 DEF HoldsPending, HoldsTyped, HoldsChild, Publishing
<1>4. InPending(s) \/ InTyped(s) \/ InChildren(s)
  BY <1>2, <1>3 DEF InPending, InTyped, InChildren
<1>5. /\ refs' \in [Task -> Int]
      /\ state' \in [Task -> {"deallocated", "allocated", "grabbed", "captured", "executed"}]
      /\ \A x \in Task \ {s} : refs'[x] = refs[x] /\ state'[x] = state[x]
      /\ Unfinished(s) => state' = state
      /\ ~Unfinished(s) => state'[s] \in {"deallocated", "executed"}
  BY <1>1, <1>2, <1>4, ReleaseFacts
<1>6. /\ pc'[t] \in {"body", "grab", "children"} /\ pc' \in [Thread -> Labels]
      /\ pc'[t] = "body" => pc[t] = "grabbed"
      /\ pc'[t] = "grab" => pc[t] = "lost" /\ stack[t] = << >>
      /\ pc'[t] = "children" => pc[t] = "lost" /\ stack[t] # << >>
      /\ cand'[t] = none /\ from'[t] = none
      /\ \A u \in Thread \ {t} : pc'[u] = pc[u] /\ cand'[u] = cand[u] /\ from'[u] = from[u]
  <2>1. pc' \in [Thread -> Labels]
    BY <1>1 DEF TasksInv, Types, Labels, Working
  <2> QED BY <1>1, <2>1 DEF TasksInv, Types
(* The stacks: the task is put on that of its thread, or all stay.         *)
<1>7. /\ stack' \in [Thread -> Seq(Slot)]
      /\ \A u \in Thread \ {t} : stack'[u] = stack[u]
      /\ pc[t] = "lost" => stack' = stack
      /\ pc[t] = "grabbed" => /\ Len(stack'[t]) = Len(stack[t]) + 1
                              /\ stack'[t][Len(stack'[t])] = s /\ stack'[t] # << >>
      /\ Len(stack[t]) \in Nat
      /\ \A i \in 1..Len(stack[t]) : stack'[t][i] = stack[t][i]
  <2>1. stack \in [Thread -> Seq(Slot)]
    BY DEF TasksInv, Types
  <2>2. CASE pc[t] = "lost"
    BY <1>1, <2>1, <2>2
  <2>3. CASE pc[t] = "grabbed"
    <3>1. stack' = [stack EXCEPT ![t] = Append(stack[t], s)]
      BY <1>1, <2>3
    <3>2. Append(stack[t], s) \in Seq(Slot)
      BY <1>2, <2>1
    <3>3. stack'[t] = Append(stack[t], s) /\ \A u \in Thread \ {t} : stack'[u] = stack[u]
      BY <2>1, <3>1
    <3>4. stack' \in [Thread -> Seq(Slot)]
      BY <2>1, <3>1, <3>2
    <3>5. /\ Len(Append(stack[t], s)) = Len(stack[t]) + 1 /\ Append(stack[t], s) # << >>
          /\ Append(stack[t], s)[Len(stack[t]) + 1] = s
          /\ Len(stack[t]) \in Nat
          /\ \A i \in 1..Len(stack[t]) : Append(stack[t], s)[i] = stack[t][i]
      BY <1>2, <2>1
    <3> QED BY <2>3, <3>3, <3>4, <3>5
  <2> QED BY <1>1, <2>2, <2>3
<1>8. \A u \in Thread, x \in Task \ {s} : OnStack(u, x)' <=> OnStack(u, x)
  <2>0. \A u \in Thread \ {t}, x \in Task \ {s} : OnStack(u, x)' <=> OnStack(u, x)
    BY <1>7 DEF OnStack
  <2> SUFFICES ASSUME NEW x \in Task \ {s} PROVE OnStack(t, x)' <=> OnStack(t, x)
    BY <2>0
  <2>1. CASE pc[t] = "lost"
    BY <1>7, <2>1 DEF OnStack
  <2>2. CASE pc[t] = "grabbed"
    <3>1. 1..Len(stack'[t]) = 1..Len(stack[t]) \cup {Len(stack'[t])}
      BY <1>7, <2>2
    <3> QED BY <1>7, <2>2, <3>1 DEF OnStack
  <2> QED BY <1>1, <2>1, <2>2
<1>9. pc[t] = "grabbed" => /\ state[s] = "grabbed" /\ Unfinished(s) /\ OnStack(t, s)'
                           /\ \A u \in Thread : ~OnStack(u, s)
                           /\ \A u \in Thread \ {t} : ~(pc[u] = "grabbed" /\ cand[u] = s)
  <2> SUFFICES ASSUME pc[t] = "grabbed"
               PROVE  /\ state[s] = "grabbed" /\ Unfinished(s) /\ OnStack(t, s)'
                      /\ \A u \in Thread : ~OnStack(u, s)
                      /\ \A u \in Thread \ {t} : ~(pc[u] = "grabbed" /\ cand[u] = s)
    OBVIOUS
  <2>1. OnStack(t, s)'
    <3>1. Len(stack'[t]) \in 1..Len(stack'[t])
      BY <1>7
    <3> QED BY <1>7, <3>1 DEF OnStack
  <2> QED BY <1>0, <2>1 DEF TasksInv, GrabbedTask, Unfinished
<1>10. \A x \in Task : Unfinished(x)' <=> Unfinished(x)
  <2>1. \A x \in Task \ {s} : Unfinished(x)' <=> Unfinished(x)
    BY <1>5, <1>8 DEF Unfinished
  <2>2. Unfinished(s)' <=> Unfinished(s)
    <3>1. CASE pc[t] = "grabbed"
      BY <1>5, <1>9, <3>1 DEF Unfinished
    <3>2. CASE pc[t] = "lost"
      BY <1>5, <1>7, <3>2 DEF Unfinished, OnStack
    <3> QED BY <1>1, <3>1, <3>2
  <2> QED BY <2>1, <2>2
<1>11. \A u \in Thread, x \in Task : OnStack(u, x) \/ (pc[u] = "grabbed" /\ cand[u] = x) => state'[x] = state[x]
  BY <1>5 DEF Unfinished, TasksInv, GrabbedTask
<1>12. Types' /\ CandShape'
  <2>1. cand' \in [Thread -> Task \cup {none}] /\ from' \in [Thread -> {none, "pending", "typed", "children"}]
    BY <1>1 DEF TasksInv, Types
  <2>2. Types'
    BY <1>1, <1>5, <1>6, <1>7, <2>1 DEF TasksInv, Types
  <2>3. CandShape'
    BY <1>6 DEF TasksInv, CandShape, Publishing, Trying
  <2> QED BY <2>2, <2>3
<1>13. StackShape'
  <2> SUFFICES ASSUME NEW u \in Thread
               PROVE  /\ pc'[u] = "grab" => stack'[u] = << >>
                      /\ pc'[u] \notin {"grab"} \cup Trying => stack'[u] # << >>
                      /\ \A i \in 1..Len(stack'[u]) : stack'[u][i] = root <=> u = user /\ i = 1
                      /\ stack'[user] # << >>
    <3>1. \A v \in Thread : pc'[v] \in Ending \cup {"unlink"} => stack'[v][Len(stack'[v])] # root
      <4>1. pc'[t] \notin Ending \cup {"unlink"}
        BY <1>6 DEF Ending
      <4>2. \A v \in Thread \ {t} : pc'[v] = pc[v] /\ stack'[v] = stack[v]
        BY <1>6, <1>7
      <4> QED BY <4>1, <4>2 DEF TasksInv, StackShape, top
    <3> QED BY <3>1 DEF StackShape, top
  <2>1. stack[user] # << >>
    BY DEF TasksInv, StackShape
  <2>2. stack'[user] # << >>
    <3>1. CASE user = t /\ pc[t] = "grabbed"
      BY <1>7, <3>1
    <3>2. CASE user # t \/ pc[t] = "lost"
      BY <1>7, <2>1, <3>2
    <3> QED BY <1>1, <3>1, <3>2
  <2>3. CASE u # t \/ pc[t] = "lost"
    <3>1. stack'[u] = stack[u]
      BY <1>1, <1>7, <2>3
    <3> QED BY <1>1, <1>6, <2>2, <2>3, <3>1 DEF TasksInv, StackShape
  <2>4. CASE u = t /\ pc[t] = "grabbed"
    <3>1. \A i \in 1..Len(stack[t]) : stack[t][i] = root <=> t = user /\ i = 1
      BY DEF TasksInv, StackShape
    <3>2. t = user => Len(stack[t]) >= 1
      <4>1. stack[user] \in Seq(Slot)
        BY DEF TasksInv, Types
      <4> QED BY <2>1, <4>1
    <3>3. \A i \in 1..Len(stack'[t]) : stack'[t][i] = root <=> t = user /\ i = 1
      BY <1>2, <1>7, <2>4, <3>1, <3>2
    <3> QED BY <1>6, <1>7, <2>2, <2>4, <3>3
  <2> QED BY <1>1, <2>3, <2>4
<1>14. StackStates'
  <2> SUFFICES ASSUME NEW u \in Thread, NEW i \in 1..Len(stack'[u]), stack'[u][i] # root
               PROVE  state'[stack'[u][i]] =
                        IF i = Len(stack'[u]) /\ pc'[u] \in Ending THEN "captured"
                        ELSE IF i = Len(stack'[u]) /\ pc'[u] = "unlink" THEN "executed"
                        ELSE "grabbed"
    BY DEF StackStates
  <2>1. CASE u # t
    <3>1. stack'[u] = stack[u] /\ pc'[u] = pc[u]
      BY <1>6, <1>7, <2>1
    <3>2. stack[u][i] \in Task /\ OnStack(u, stack[u][i])
      BY <3>1 DEF TasksInv, Types, OnStack
    <3> QED BY <1>11, <3>1, <3>2 DEF TasksInv, StackStates
  <2>2. CASE u = t /\ i \in 1..Len(stack[t])
    <3>1. stack'[t][i] = stack[t][i] /\ stack[t][i] \in Task /\ OnStack(t, stack[t][i])
      BY <1>7, <2>2 DEF TasksInv, Types, OnStack
    <3>2. state[stack[t][i]] = "grabbed"
      BY <1>1, <2>2, <3>1 DEF TasksInv, StackStates, Ending
    <3>3. pc'[t] \notin {"unlink"} \cup Ending
      BY <1>6 DEF Ending
    <3> QED BY <1>11, <2>2, <3>1, <3>2, <3>3
  <2>3. CASE u = t /\ i \notin 1..Len(stack[t])
    <3>1. pc[t] = "grabbed" /\ stack'[t][i] = s
      BY <1>1, <1>7, <2>3
    <3>2. pc'[t] \notin {"unlink"} \cup Ending
      BY <1>6 DEF Ending
    <3>3. state'[s] = "grabbed"
      BY <1>0, <1>2, <1>9, <1>11, <3>1
    <3> QED BY <2>3, <3>1, <3>2, <3>3
  <2> QED BY <2>1, <2>2, <2>3
<1>15. GrabbedTask'
  <2> SUFFICES ASSUME NEW u \in Thread, pc'[u] = "grabbed"
               PROVE  /\ state'[cand'[u]] = "grabbed"
                      /\ \A v \in Thread : \A i \in 1..Len(stack'[v]) : stack'[v][i] # cand'[u]
                      /\ \A v \in Thread \ {u} : ~(pc'[v] = "grabbed" /\ cand'[v] = cand'[u])
    BY DEF GrabbedTask, OnStack
  <2>0. PICK y : y = cand[u]
    OBVIOUS
  <2>1. u # t /\ pc[u] = "grabbed" /\ cand'[u] = y /\ y \in Task
    BY <1>6, <2>0 DEF TasksInv, CandShape, Trying
  <2>2. state'[y] = "grabbed"
    BY <1>11, <2>0, <2>1 DEF TasksInv, GrabbedTask
  <2>3. \A v \in Thread : ~OnStack(v, y)'
    <3>1. CASE y # s
      BY <1>8, <2>0, <2>1, <3>1 DEF TasksInv, GrabbedTask
    <3>2. CASE y = s
      <4>1. pc[t] = "lost"
        BY <1>1, <1>9, <2>0, <2>1, <3>2
      <4> QED BY <1>7, <2>0, <2>1, <4>1 DEF TasksInv, GrabbedTask, OnStack
    <3> QED BY <3>1, <3>2
  <2>4. \A v \in Thread \ {u} : ~(pc'[v] = "grabbed" /\ cand'[v] = y)
    BY <1>6, <2>0, <2>1 DEF TasksInv, GrabbedTask
  <2> QED BY <2>1, <2>2, <2>3, <2>4 DEF OnStack
<1>16. EachTaskHasOneExecutor'
  <2>1. CASE pc[t] = "lost"
    BY <1>7, <2>1 DEF TasksInv, EachTaskHasOneExecutor
  <2>2. CASE pc[t] = "grabbed"
    <3>1. \A u \in Thread : \A i \in 1..Len(stack[u]) : stack[u][i] # s
      BY <1>9, <2>2 DEF OnStack
    <3>2. 1..Len(stack'[t]) = 1..Len(stack[t]) \cup {Len(stack'[t])}
      BY <1>7, <2>2
    <3>3. \A u \in Thread : \A i \in 1..Len(stack'[u]) :
            \/ i \in 1..Len(stack[u]) /\ stack'[u][i] = stack[u][i]
            \/ u = t /\ i = Len(stack'[t]) /\ stack'[u][i] = s
      BY <1>7, <2>2, <3>2
    <3> QED BY <3>1, <3>3 DEF TasksInv, EachTaskHasOneExecutor
  <2> QED BY <1>1, <2>1, <2>2
<1>17. \A u \in Thread, x \in Task : /\ HoldsPending(u, x)' <=> HoldsPending(u, x) /\ u # t
                                     /\ HoldsTyped(u, x)' <=> HoldsTyped(u, x) /\ u # t
                                     /\ HoldsChild(u, x)' <=> HoldsChild(u, x) /\ u # t
  <2>1. \A x \in Task : ~HoldsPending(t, x)' /\ ~HoldsTyped(t, x)' /\ ~HoldsChild(t, x)'
    BY <1>6 DEF TasksAssumption, HoldsPending, HoldsTyped, HoldsChild
  <2>2. \A u \in Thread \ {t}, x \in Task : /\ HoldsPending(u, x)' <=> HoldsPending(u, x)
                                            /\ HoldsTyped(u, x)' <=> HoldsTyped(u, x)
                                            /\ HoldsChild(u, x)' <=> HoldsChild(u, x)
    BY <1>6 DEF HoldsPending, HoldsTyped, HoldsChild
  <2> QED BY <2>1, <2>2
<1>18. PendingOnce' /\ TypedOnce' /\ ChildOnce'
  BY <1>1, <1>17 DEF TasksInv, PendingOnce, TypedOnce, ChildOnce
<1>19. ParentsAreExecuting'
  <2>1. \A u \in Thread, p \in Task : OnStack(u, p) => OnStack(u, p)'
    <3>1. \A u \in Thread : OnStack(u, s) => OnStack(u, s)'
      BY <1>1, <1>7, <1>9 DEF OnStack
    <3> QED BY <1>8, <3>1
  <2> QED BY <1>1, <2>1 DEF TasksInv, ParentsAreExecuting
<1>20. RefsCountReferences'
  <2>1. \A x \in Task \ {s} : ~HoldsPending(t, x) /\ ~HoldsTyped(t, x) /\ ~HoldsChild(t, x)
    BY <1>0 DEF HoldsPending, HoldsTyped, HoldsChild
  <2>2. \A x \in Task \ {s} : /\ InPending(x)' <=> InPending(x)
                              /\ InTyped(x)' <=> InTyped(x)
                              /\ InChildren(x)' <=> InChildren(x)
    BY <1>1, <1>17, <2>1 DEF InPending, InTyped, InChildren
  <2>3. /\ InPending(s)' <=> InPending(s) /\ from[t] # "pending"
        /\ InTyped(s)' <=> InTyped(s) /\ from[t] # "typed"
        /\ InChildren(s)' <=> InChildren(s) /\ from[t] # "children"
    <3>1. InPending(s)' <=> InPending(s) /\ from[t] # "pending"
      BY <1>1, <1>2, <1>3, <1>17 DEF InPending, TasksInv, PendingOnce
    <3>2. InTyped(s)' <=> InTyped(s) /\ from[t] # "typed"
      BY <1>1, <1>2, <1>3, <1>17 DEF InTyped, TasksInv, TypedOnce
    <3>3. InChildren(s)' <=> InChildren(s) /\ from[t] # "children"
      BY <1>1, <1>2, <1>3, <1>17 DEF InChildren, TasksInv, ChildOnce
    <3> QED BY <3>1, <3>2, <3>3
  <2>4. /\ from[t] = "pending" => InPending(s)
        /\ from[t] = "typed" => InTyped(s)
        /\ from[t] = "children" => InChildren(s)
    BY <1>3 DEF InPending, InTyped, InChildren
  <2> QED BY <1>1, <1>2, <1>4, <1>10, <2>2, <2>3, <2>4, CountFollows
<1> QED BY <1>12, <1>13, <1>14, <1>15, <1>16, <1>18, <1>19, <1>20 DEF TasksInv

-----------------------------------------------------------------------------
(* The end of a task.                                                      *)

(* The thread moves the task on top of its stack to the next state.        *)
LEMMA TopMoves ==
    ASSUME TasksAssumption, TasksInv, NEW t \in Thread, NEW l, NEW v,
           stack[t] # << >>, top(t) # root,
           \/ pc[t] = "body" /\ l = "ended" /\ v = "captured"
           \/ pc[t] = "mark" /\ l = "unlink" /\ v = "executed",
           pc' = [pc EXCEPT ![t] = l], state' = [state EXCEPT ![top(t)] = v],
           UNCHANGED <<refs, children, pending, typed, stack, cand, from>>
    PROVE  TasksInv'
<1>1. PICK s : s = top(t)
  OBVIOUS
<1>2. /\ s \in Task /\ Len(stack[t]) \in 1..Len(stack[t]) /\ s = stack[t][Len(stack[t])]
      /\ OnStack(t, s)
  BY <1>1, TopFacts
<1>3. state[s] \in {"grabbed", "captured"}
  BY <1>1, <1>2 DEF TasksInv, StackStates, Ending
<1>4. /\ \A u \in Thread \ {t} : ~OnStack(u, s)
      /\ \A i \in 1..Len(stack[t]) : stack[t][i] = s => i = Len(stack[t])
  BY <1>2 DEF TasksInv, EachTaskHasOneExecutor, OnStack
<1>5. state'[s] = v /\ \A x \in Task \ {s} : state'[x] = state[x]
  BY <1>1, <1>2 DEF TasksInv, Types
<1>6. /\ pc'[t] = l /\ \A u \in Thread \ {t} : pc'[u] = pc[u]
      /\ l \notin {"grab"} \cup Publishing \cup Trying
      /\ pc[t] \notin {"grab"} \cup Publishing \cup Trying
  BY DEF TasksInv, Types, Publishing, Trying
<1>7. Types'
  <2>1. pc' \in [Thread -> Labels]
    BY DEF TasksInv, Types, Labels, Ending
  <2>2. state' \in [Task -> {"deallocated", "allocated", "grabbed", "captured", "executed"}]
    BY <1>1, <1>2 DEF TasksInv, Types
  <2> QED BY <2>1, <2>2 DEF TasksInv, Types
<1>8. CandShape' /\ StackShape'
  BY <1>6 DEF TasksInv, CandShape, StackShape, Ending, top
<1>9. StackStates'
  <2> SUFFICES ASSUME NEW u \in Thread, NEW i \in 1..Len(stack[u]), stack[u][i] # root
               PROVE  state'[stack[u][i]] =
                        IF i = Len(stack[u]) /\ pc'[u] \in Ending THEN "captured"
                        ELSE IF i = Len(stack[u]) /\ pc'[u] = "unlink" THEN "executed"
                        ELSE "grabbed"
    BY DEF StackStates
  <2>1. CASE u = t /\ i = Len(stack[t])
    BY <1>2, <1>5, <1>6, <2>1 DEF Ending
  <2>2. CASE u = t /\ i # Len(stack[t])
    <3>1. stack[t][i] \in Task \ {s}
      BY <1>4, <2>2 DEF TasksInv, Types
    <3> QED BY <1>5, <2>2, <3>1 DEF TasksInv, StackStates
  <2>3. CASE u # t
    <3>1. stack[u][i] \in Task \ {s}
      BY <1>4, <2>3 DEF TasksInv, Types, OnStack
    <3> QED BY <1>5, <1>6, <2>3, <3>1 DEF TasksInv, StackStates
  <2> QED BY <2>1, <2>2, <2>3
<1>10. GrabbedTask' /\ EachTaskHasOneExecutor'
  <2>1. \A u \in Thread : pc'[u] = "grabbed" <=> pc[u] = "grabbed"
    BY <1>6 DEF Trying
  <2>2. \A u \in Thread : pc[u] = "grabbed" => state'[cand[u]] = state[cand[u]]
    BY <1>2, <1>5 DEF TasksInv, GrabbedTask, CandShape, Trying
  <2>3. GrabbedTask'
    BY <2>1, <2>2 DEF TasksInv, GrabbedTask, OnStack
  <2> QED BY <2>3 DEF TasksInv, EachTaskHasOneExecutor
<1>11. \A u \in Thread, x \in Task : /\ HoldsPending(u, x)' <=> HoldsPending(u, x)
                                     /\ HoldsTyped(u, x)' <=> HoldsTyped(u, x)
                                     /\ HoldsChild(u, x)' <=> HoldsChild(u, x)
  BY <1>6 DEF HoldsPending, HoldsTyped, HoldsChild, Publishing
<1>12. PendingOnce' /\ TypedOnce' /\ ChildOnce' /\ ParentsAreExecuting'
  BY <1>11 DEF TasksInv, PendingOnce, TypedOnce, ChildOnce, ParentsAreExecuting, OnStack
<1>13. RefsCountReferences'
  <2> SUFFICES ASSUME NEW x \in Task
               PROVE  /\ InPending(x)' <=> InPending(x)
                      /\ InTyped(x)' <=> InTyped(x)
                      /\ InChildren(x)' <=> InChildren(x)
                      /\ Unfinished(x)' <=> Unfinished(x)
                      /\ state'[x] = "deallocated" <=> state[x] = "deallocated"
    BY DEF TasksInv, RefsCountReferences, One
  <2>1. /\ InPending(x)' <=> InPending(x)
        /\ InTyped(x)' <=> InTyped(x)
        /\ InChildren(x)' <=> InChildren(x)
    BY <1>11 DEF InPending, InTyped, InChildren
  <2>2. CASE x = s
    BY <1>2, <1>3, <1>5, <2>1, <2>2 DEF Unfinished, OnStack
  <2>3. CASE x # s
    BY <1>5, <2>1, <2>3 DEF Unfinished, OnStack
  <2> QED BY <2>2, <2>3
<1> QED BY <1>7, <1>8, <1>9, <1>10, <1>12, <1>13 DEF TasksInv

LEMMA ReturnStep ==
    ASSUME TasksAssumption, TasksInv, NEW t \in Thread, Return(t)
    PROVE  TasksInv'
<1>1. pc[t] = "body" /\ UNCHANGED <<refs, children, pending, typed, stack, cand, from>>
  BY DEF Return, queues
<1>2. CASE top(t) = root
  <2>1. Locally(t, "over") /\ "over" \in Labels
    BY <1>1, <1>2 DEF Return, Locally, SameKind, Working, Labels
  <2> QED BY <2>1, LocalStep
<1>3. CASE top(t) # root
  <2>1. pc' = [pc EXCEPT ![t] = "ended"] /\ state' = [state EXCEPT ![top(t)] = "captured"]
    BY <1>3 DEF Return, Goto
  <2>2. stack[t] # << >>
    BY <1>1 DEF TasksInv, StackShape, Trying
  <2> QED BY <1>1, <1>3, <2>1, <2>2, TopMoves
<1> QED BY <1>2, <1>3

LEMMA MarkExecutedStep ==
    ASSUME TasksAssumption, TasksInv, NEW t \in Thread, MarkExecuted(t)
    PROVE  TasksInv'
<1>1. /\ pc[t] = "mark" /\ pc' = [pc EXCEPT ![t] = "unlink"]
      /\ state' = [state EXCEPT ![top(t)] = "executed"]
      /\ UNCHANGED <<refs, children, pending, typed, stack, cand, from>>
  BY DEF MarkExecuted, Goto, queues
<1>2. stack[t] # << >>
  BY <1>1 DEF TasksInv, StackShape, Trying
<1>3. top(t) # root
  BY <1>1 DEF TasksInv, StackShape, Ending
<1> QED BY <1>1, <1>2, <1>3, TopMoves

LEMMA UnlinkStep ==
    ASSUME TasksAssumption, TasksInv, NEW t \in Thread, Unlink(t)
    PROVE  TasksInv'
<1>0. pc[t] \in {"waited", "unlink"} /\ UNCHANGED <<pending, typed, pc, stack, cand, from>> /\ top(t) \in Slot
  <2>1. pc[t] \in {"waited", "unlink"} /\ UNCHANGED <<pending, typed, pc, stack, cand, from>>
    BY DEF Unlink, queues, threads
  <2>2. stack[t] # << >>
    BY <2>1 DEF TasksInv, StackShape, Trying
  <2> QED BY <2>1, <2>2, TopFacts
<1>1. PICK s \in Task : /\ s \in children[top(t)] /\ Release(s) /\ state[s] = "executed"
                        /\ children' = [children EXCEPT ![top(t)] = @ \ {s}]
  BY <1>0 DEF Unlink, TasksInv, Types
<1>2. /\ children' \in [Slot -> SUBSET Task]
      /\ children'[top(t)] = children[top(t)] \ {s}
      /\ \A p \in Slot \ {top(t)} : children'[p] = children[p]
  BY <1>0, <1>1 DEF TasksInv, Types
<1>3. /\ \A u \in Thread : ~HoldsChild(u, s)
      /\ \A p \in Slot : s \in children[p] => p = top(t)
  BY <1>0, <1>1 DEF TasksInv, ChildOnce
<1>4. InChildren(s)
  BY <1>0, <1>1 DEF InChildren
<1>5. /\ refs' \in [Task -> Int]
      /\ state' \in [Task -> {"deallocated", "allocated", "grabbed", "captured", "executed"}]
      /\ \A x \in Task \ {s} : state'[x] = state[x]
      /\ Unfinished(s) => state' = state
      /\ ~Unfinished(s) => state'[s] \in {"deallocated", "executed"}
  BY <1>1, <1>4, ReleaseFacts
<1>6. \A u \in Thread, x \in Task : OnStack(u, x) \/ (pc[u] = "grabbed" /\ cand[u] = x) => state'[x] = state[x]
  BY <1>5 DEF Unfinished, TasksInv, GrabbedTask
<1>7. Types' /\ CandShape' /\ StackShape'
  BY <1>0, <1>2, <1>5 DEF TasksInv, Types, CandShape, StackShape, top
<1>8. StackStates'
  <2> SUFFICES ASSUME NEW u \in Thread, NEW i \in 1..Len(stack[u]), stack[u][i] # root
               PROVE  state'[stack[u][i]] = state[stack[u][i]]
    BY <1>0 DEF TasksInv, StackStates
  <2>1. stack[u][i] \in Task /\ OnStack(u, stack[u][i])
    BY DEF TasksInv, Types, OnStack
  <2> QED BY <1>6, <2>1
<1>9. GrabbedTask' /\ EachTaskHasOneExecutor' /\ PendingOnce' /\ TypedOnce'
  <2>1. \A u \in Thread : pc[u] = "grabbed" => state'[cand[u]] = state[cand[u]]
    BY <1>6 DEF TasksInv, CandShape, Trying
  <2>2. GrabbedTask'
    BY <1>0, <2>1 DEF TasksInv, GrabbedTask, OnStack
  <2>3. EachTaskHasOneExecutor' /\ PendingOnce' /\ TypedOnce'
    BY <1>0 DEF TasksInv, EachTaskHasOneExecutor, PendingOnce, TypedOnce, HoldsPending, HoldsTyped
  <2> QED BY <2>2, <2>3
<1>10. ChildOnce' /\ ParentsAreExecuting'
  <2>1. \A p \in Slot : children'[p] \subseteq children[p]
    BY <1>2
  <2> QED BY <1>0, <2>1 DEF TasksInv, ChildOnce, HoldsChild, ParentsAreExecuting, OnStack
<1>11. RefsCountReferences'
  <2>1. \A x \in Task : (InPending(x)' <=> InPending(x)) /\ (InTyped(x)' <=> InTyped(x))
    BY <1>0 DEF InPending, InTyped, HoldsPending, HoldsTyped
  <2>2. /\ ~InChildren(s)'
        /\ \A x \in Task \ {s} : InChildren(x)' <=> InChildren(x)
    BY <1>0, <1>2, <1>3 DEF InChildren, HoldsChild
  <2>3. \A x \in Task : Unfinished(x)' <=> Unfinished(x)
    BY <1>0, <1>5 DEF Unfinished, OnStack
  <2> QED BY <1>1, <1>4, <2>1, <2>2, <2>3, CountFollows
<1> QED BY <1>7, <1>8, <1>9, <1>10, <1>11 DEF TasksInv

LEMMA FinishStep ==
    ASSUME TasksAssumption, TasksInv, NEW t \in Thread, Finish(t)
    PROVE  TasksInv'
<1>0. /\ pc[t] = "unlink" /\ children[top(t)] = {}
      /\ stack[t] # << >> /\ top(t) # root
      /\ UNCHANGED <<children, pending, typed, cand, from>>
  BY DEF Finish, queues, TasksInv, StackShape, Trying
<1>1. PICK s : s = top(t)
  OBVIOUS
<1>2. /\ s \in Task /\ Len(stack[t]) \in 1..Len(stack[t]) /\ s = stack[t][Len(stack[t])]
      /\ Len(stack[t]) \in Nat /\ OnStack(t, s) /\ (Len(stack[t]) = 1 => t # user)
  BY <1>0, <1>1, TopFacts
<1>3. /\ Release(s) /\ stack' = [stack EXCEPT ![t] = SubSeq(@, 1, Len(@) - 1)]
      /\ \/ Len(stack[t]) = 1 /\ pc' = [pc EXCEPT ![t] = "grab"]
         \/ Len(stack[t]) # 1 /\ pc' = [pc EXCEPT ![t] = "children"]
         \/ Len(stack[t]) # 1 /\ pc' = [pc EXCEPT ![t] = "arm"]
  BY <1>1 DEF Finish, Goto
<1>4. /\ pc' \in [Thread -> Labels] /\ \A u \in Thread \ {t} : pc'[u] = pc[u]
      /\ pc'[t] \in {"grab", "children", "arm"} /\ (pc'[t] = "grab" <=> Len(stack[t]) = 1)
  <2>1. pc' \in [Thread -> Labels]
    BY <1>3 DEF TasksInv, Types, Labels, Working
  <2> QED BY <1>3, <2>1 DEF TasksInv, Types
<1>5. /\ stack' \in [Thread -> Seq(Slot)] /\ \A u \in Thread \ {t} : stack'[u] = stack[u]
      /\ Len(stack'[t]) = Len(stack[t]) - 1
      /\ \A i \in 1..Len(stack'[t]) : stack'[t][i] = stack[t][i]
      /\ stack'[t] = << >> <=> Len(stack[t]) = 1
  <2>1. stack \in [Thread -> Seq(Slot)] /\ stack[t] \in Seq(Slot)
    BY DEF TasksInv, Types
  <2>2. PICK q : q = SubSeq(stack[t], 1, Len(stack[t]) - 1)
    OBVIOUS
  <2>3. /\ q \in Seq(Slot) /\ Len(q) = Len(stack[t]) - 1
        /\ \A i \in 1..Len(q) : q[i] = stack[t][i]
    BY <1>2, <2>1, <2>2
  <2>4. q = << >> <=> Len(stack[t]) = 1
    <3>1. q = << >> <=> Len(q) = 0
      BY <2>3, EmptySeq
    <3> QED BY <1>2, <2>3, <3>1
  <2>5. stack' = [stack EXCEPT ![t] = q]
    BY <1>3, <2>2
  <2> QED BY <2>1, <2>3, <2>4, <2>5
<1>6. /\ \A u \in Thread \ {t} : ~OnStack(u, s)
      /\ \A i \in 1..Len(stack[t]) : stack[t][i] = s => i = Len(stack[t])
  BY <1>2 DEF TasksInv, EachTaskHasOneExecutor, OnStack
<1>7. \A u \in Thread, x \in Task : OnStack(u, x)' <=> OnStack(u, x) /\ x # s
  <2>1. \A u \in Thread \ {t}, x \in Task : OnStack(u, x)' <=> OnStack(u, x) /\ x # s
    BY <1>5, <1>6 DEF OnStack
  <2>2. 1..Len(stack'[t]) = 1..Len(stack[t]) \ {Len(stack[t])}
    BY <1>2, <1>5
  <2>3. \A x \in Task : OnStack(t, x)' <=> OnStack(t, x) /\ x # s
    BY <1>2, <1>5, <1>6, <2>2 DEF OnStack
  <2> QED BY <2>1, <2>3
<1>8. state[s] = "executed" /\ Unfinished(s) /\ refs[s] \in Int /\ refs[s] >= 1
  <2>1. state[s] = "executed"
    BY <1>0, <1>2, <1>1 DEF TasksInv, StackStates, Ending
  <2> QED BY <1>2, <2>1, SlotFacts DEF Unfinished
<1>9. /\ refs' \in [Task -> Int]
      /\ state' \in [Task -> {"deallocated", "allocated", "grabbed", "captured", "executed"}]
      /\ \A x \in Task \ {s} : refs'[x] = refs[x] /\ state'[x] = state[x]
      /\ refs'[s] = refs[s] - 1 /\ state'[s] \in {"deallocated", "executed"}
      /\ state'[s] = "deallocated" <=> refs'[s] = 0
  BY <1>2, <1>3, <1>8 DEF Release, TasksInv, Types
<1>10. Types' /\ CandShape'
  <2>1. Types'
    BY <1>0, <1>4, <1>5, <1>9 DEF TasksInv, Types
  <2>2. CandShape'
    BY <1>0, <1>4 DEF TasksInv, CandShape, Publishing, Trying
  <2> QED BY <2>1, <2>2
<1>11. StackShape'
  <2> SUFFICES ASSUME NEW u \in Thread
               PROVE  /\ pc'[u] = "grab" => stack'[u] = << >>
                      /\ pc'[u] \notin {"grab"} \cup Trying => stack'[u] # << >>
                      /\ \A i \in 1..Len(stack'[u]) : stack'[u][i] = root <=> u = user /\ i = 1
                      /\ stack'[user] # << >>
                      /\ pc'[u] \in Ending \cup {"unlink"} => stack'[u][Len(stack'[u])] # root
    BY DEF StackShape, top
  <2>1. stack'[user] # << >>
    BY <1>2, <1>5 DEF TasksInv, StackShape
  <2>2. CASE u # t
    <3>1. stack'[u] = stack[u] /\ pc'[u] = pc[u]
      BY <1>4, <1>5, <2>2
    <3> QED BY <2>1, <3>1 DEF TasksInv, StackShape, top
  <2>3. CASE u = t
    <3>1. \A i \in 1..Len(stack'[t]) : i \in 1..Len(stack[t])
      BY <1>2, <1>5
    <3>2. \A i \in 1..Len(stack'[t]) : stack'[t][i] = root <=> t = user /\ i = 1
      <4>1. \A i \in 1..Len(stack[t]) : stack[t][i] = root <=> t = user /\ i = 1
        BY DEF TasksInv, StackShape
      <4> QED BY <1>5, <3>1, <4>1
    <3>3. pc'[t] \notin Ending \cup {"unlink"}
      BY <1>4 DEF Ending
    <3> QED BY <1>4, <1>5, <2>1, <2>3, <3>2, <3>3
  <2> QED BY <2>2, <2>3
<1>12. StackStates'
  <2> SUFFICES ASSUME NEW u \in Thread, NEW i \in 1..Len(stack'[u]), stack'[u][i] # root
               PROVE  state'[stack'[u][i]] =
                        IF i = Len(stack'[u]) /\ pc'[u] \in Ending THEN "captured"
                        ELSE IF i = Len(stack'[u]) /\ pc'[u] = "unlink" THEN "executed"
                        ELSE "grabbed"
    BY DEF StackStates
  <2>1. CASE u # t
    <3>1. stack'[u] = stack[u] /\ pc'[u] = pc[u]
      BY <1>4, <1>5, <2>1
    <3>2. stack[u][i] \in Task \ {s}
      BY <1>6, <2>1, <3>1 DEF TasksInv, Types, OnStack
    <3>3. state'[stack[u][i]] = state[stack[u][i]]
      BY <1>9, <3>2
    <3>4. i \in 1..Len(stack[u]) /\ stack[u][i] # root
      BY <3>1
    <3> QED BY <3>1, <3>3, <3>4 DEF TasksInv, StackStates
  <2>2. CASE u = t
    <3>1. i \in 1..Len(stack[t]) /\ i # Len(stack[t]) /\ stack'[t][i] = stack[t][i]
      BY <1>2, <1>5, <2>2
    <3>2. stack[t][i] \in Task \ {s}
      BY <1>6, <2>2, <3>1 DEF TasksInv, Types
    <3>3. state[stack[t][i]] = "grabbed"
      BY <3>1, <3>2, <2>2 DEF TasksAssumption, TasksInv, StackStates
    <3>4. pc'[t] \notin {"unlink"} \cup Ending
      BY <1>4 DEF Ending
    <3> QED BY <1>9, <2>2, <3>1, <3>2, <3>3, <3>4
  <2> QED BY <2>1, <2>2
<1>13. GrabbedTask'
  <2>1. \A u \in Thread : pc'[u] = "grabbed" => pc[u] = "grabbed"
    BY <1>4
  <2>2. \A u \in Thread : pc[u] = "grabbed" => cand[u] \in Task \ {s}
    BY <1>2 DEF TasksInv, GrabbedTask, CandShape, Trying
  <2>3. \A u, v \in Thread : pc[u] = "grabbed" => ~OnStack(v, cand[u])
    BY DEF TasksInv, GrabbedTask
  <2>4. ASSUME NEW u \in Thread, NEW v \in Thread, pc[u] = "grabbed"
        PROVE  \A i \in 1..Len(stack'[v]) : stack'[v][i] # cand[u]
    <3>1. PICK y \in Task \ {s} : y = cand[u]
      BY <2>2, <2>4
    <3>2. ~OnStack(v, y)'
      BY <1>7, <2>3, <2>4, <3>1
    <3> QED BY <3>1, <3>2 DEF OnStack
  <2>5. \A u \in Thread : pc[u] = "grabbed" => state'[cand[u]] = "grabbed"
    BY <1>9, <2>2 DEF TasksInv, GrabbedTask
  <2>6. \A u, v \in Thread : pc'[u] = "grabbed" /\ pc'[v] = "grabbed" /\ cand[u] = cand[v] => u = v
    BY <2>1 DEF TasksInv, GrabbedTask
  <2> QED BY <1>0, <2>1, <2>4, <2>5, <2>6 DEF GrabbedTask, OnStack
<1>14. EachTaskHasOneExecutor'
  <2>1. \A i \in 1..Len(stack'[t]) : i \in 1..Len(stack[t]) /\ stack'[t][i] = stack[t][i]
    <3>1. \A i \in 1..Len(stack'[t]) : i \in 1..Len(stack[t])
      BY <1>2, <1>5
    <3>2. \A i \in 1..Len(stack'[t]) : stack'[t][i] = stack[t][i]
      BY <1>5
    <3> QED BY <3>1, <3>2
  <2>2. \A u \in Thread : \A i \in 1..Len(stack'[u]) : i \in 1..Len(stack[u]) /\ stack'[u][i] = stack[u][i]
    BY <1>5, <2>1
  <2> QED BY <2>2 DEF TasksInv, EachTaskHasOneExecutor
<1>15. \A u \in Thread, x \in Task : /\ HoldsPending(u, x)' <=> HoldsPending(u, x)
                                     /\ HoldsTyped(u, x)' <=> HoldsTyped(u, x)
                                     /\ HoldsChild(u, x)' <=> HoldsChild(u, x)
  BY <1>0, <1>4 DEF HoldsPending, HoldsTyped, HoldsChild, Publishing
<1>16. PendingOnce' /\ TypedOnce' /\ ChildOnce'
  BY <1>0, <1>15 DEF TasksInv, PendingOnce, TypedOnce, ChildOnce
<1>17. ParentsAreExecuting'
  BY <1>0, <1>1, <1>7 DEF TasksInv, ParentsAreExecuting
<1>18. RefsCountReferences'
  <2>1. \A x \in Task : /\ InPending(x)' <=> InPending(x)
                        /\ InTyped(x)' <=> InTyped(x)
                        /\ InChildren(x)' <=> InChildren(x)
    BY <1>0, <1>15 DEF InPending, InTyped, InChildren
  <2>2. /\ ~Unfinished(s)'
        /\ \A x \in Task \ {s} : Unfinished(x)' <=> Unfinished(x)
    BY <1>2, <1>7, <1>9 DEF Unfinished
  <2>3. ASSUME NEW x \in Task \ {s}
        PROVE  /\ refs'[x] = One(InPending(x)') + One(InTyped(x)')
                             + One(InChildren(x)') + One(Unfinished(x)')
               /\ refs'[x] = 0 <=> state'[x] = "deallocated"
    BY <1>9, <2>1, <2>2, <2>3 DEF TasksInv, RefsCountReferences, One
  <2>4. refs'[s] = One(InPending(s)') + One(InTyped(s)')
                   + One(InChildren(s)') + One(Unfinished(s)')
    BY <1>2, <1>8, <1>9, <2>1, <2>2 DEF TasksInv, RefsCountReferences, One
  <2> QED BY <1>2, <1>9, <2>3, <2>4 DEF RefsCountReferences
<1> QED BY <1>10, <1>11, <1>12, <1>13, <1>14, <1>16, <1>17, <1>18 DEF TasksInv

-----------------------------------------------------------------------------

LEMMA LocalActions ==
    ASSUME TasksAssumption, TasksInv, NEW t \in Thread,
           \/ Wait(t) \/ NoChildren(t) \/ SetEvent(t) \/ ResetEvent(t) \/ Recheck(t)
           \/ Sleep(t) \/ WaitEnds(t) \/ GoOn(t)
           \/ ChildEnded(t) \/ ReadCounter(t) \/ ReadEvent(t) \/ SetParentsEvent(t)
    PROVE  TasksInv'
<1>1. CASE Wait(t) \/ NoChildren(t) \/ WaitEnds(t) \/ GoOn(t)
  <2>1. \E l \in {"children", "arm", "waited", "body"} : Locally(t, l)
    BY <1>1 DEF Wait, NoChildren, WaitEnds, GoOn, AfterWait, Locally, Goto, SameKind, Working, memory, queues
  <2> QED BY <2>1, LocalStep DEF Labels, Working
<1>2. CASE SetEvent(t) \/ ResetEvent(t) \/ Recheck(t) \/ Sleep(t)
  <2>1. \E l \in {"reset", "recheck", "sleep", "assert"} : Locally(t, l)
    BY <1>2 DEF SetEvent, ResetEvent, Recheck, Sleep, Locally, Goto, SameKind, Working, memory, queues
  <2> QED BY <2>1, LocalStep DEF Labels, Working
<1>3. CASE ChildEnded(t) \/ ReadCounter(t) \/ ReadEvent(t) \/ SetParentsEvent(t)
  <2>1. \E l \in {"read_counter", "read_event", "set_event", "mark"} : Locally(t, l)
    BY <1>3 DEF ChildEnded, ReadCounter, ReadEvent, SetParentsEvent, Locally, Goto, SameKind, Ending, memory, queues
  <2> QED BY <2>1, LocalStep DEF Labels, Ending
<1> QED BY <1>1, <1>2, <1>3

LEMMA TasksNext == ASSUME TasksAssumption, TasksInv, [Next]_vars PROVE TasksInv'
<1>1. CASE UNCHANGED vars
  <2>1. UNCHANGED <<state, refs, children, pending, typed, pc, stack, cand, from>>
    BY <1>1 DEF vars, memory, queues, threads
  <2>2. /\ Types' /\ CandShape' /\ StackShape' /\ StackStates' /\ GrabbedTask'
        /\ EachTaskHasOneExecutor'
    BY <2>1 DEF TasksInv, Types, CandShape, StackShape, StackStates, GrabbedTask,
         EachTaskHasOneExecutor, OnStack, top
  <2>3. PendingOnce' /\ TypedOnce' /\ ChildOnce' /\ ParentsAreExecuting'
    BY <2>1 DEF TasksInv, PendingOnce, TypedOnce, ChildOnce, ParentsAreExecuting,
         HoldsPending, HoldsTyped, HoldsChild, OnStack
  <2>4. RefsCountReferences'
    BY <2>1, ReferencesStay DEF InPending, InTyped, InChildren, HoldsPending, HoldsTyped, HoldsChild
  <2> QED BY <2>2, <2>3, <2>4 DEF TasksInv
<1>2. CASE \E t \in Thread : Running /\ Step(t)
  <2>1. PICK t \in Thread : Step(t)
    BY <1>2
  <2>2. CASE Spawn(t) \/ PushPending(t) \/ PushTyped(t)
    BY <2>2, SpawnStep, PushPendingStep, PushTypedStep
  <2>3. CASE PopTyped(t) \/ PopPending(t) \/ PopChild(t) \/ TryGrab(t) \/ Drop(t)
    BY <2>3, PopTypedStep, PopPendingStep, PopChildStep, TryGrabStep, DropStep
  <2>4. CASE \/ Wait(t) \/ NoChildren(t) \/ SetEvent(t) \/ ResetEvent(t) \/ Recheck(t)
             \/ Sleep(t) \/ WaitEnds(t) \/ GoOn(t)
             \/ ChildEnded(t) \/ ReadCounter(t) \/ ReadEvent(t) \/ SetParentsEvent(t)
    BY <2>4, LocalActions
  <2>5. CASE Return(t) \/ MarkExecuted(t) \/ Unlink(t) \/ Finish(t)
    BY <2>5, ReturnStep, MarkExecutedStep, UnlinkStep, FinishStep
  <2> QED BY <2>1, <2>2, <2>3, <2>4, <2>5 DEF Step
<1> QED BY <1>1, <1>2 DEF Next

(* The inductive invariant holds in every reachable state of spawn_task,   *)
(* of the threads that grab tasks and of wait_for_all_children.            *)
THEOREM TasksInvariant == ASSUME TasksAssumption PROVE Spec => []TasksInv
<1>1. Init => TasksInv
  BY InitTasks
<1>2. TasksInv /\ [Next]_vars => TasksInv'
  BY TasksNext
<1> QED BY <1>1, <1>2, PTL DEF Spec

(* decrement_reference_count_and_deallocate_when_zero gives a slot back    *)
(* exactly when no list and no thread refers to its task any more.         *)
THEOREM CountsAreExact == ASSUME TasksAssumption PROVE Spec => []RefsCountReferences
<1>1. TasksInv => RefsCountReferences
  BY DEF TasksInv
<1> QED BY <1>1, TasksInvariant, PTL

(* Of the threads that pop a task from its three lists one executes it, on *)
(* the slot it was spawned in.                                             *)
THEOREM OneExecutor == ASSUME TasksAssumption PROVE Spec => []EachTaskHasOneExecutor
<1>1. TasksInv => EachTaskHasOneExecutor
  BY DEF TasksInv
<1> QED BY <1>1, TasksInvariant, PTL
=============================================================================
