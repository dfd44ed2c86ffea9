-------------------------- MODULE TasksWaitProofs --------------------------
(***************************************************************************)
(* What a parent may rely on when its wait returns, for any number of      *)
(* threads, slots and jobs: its children have been executed.  The counter  *)
(* of a slot is the number of children that are still to be subtracted     *)
(* from it, although the tasks that subtract hold no reference to the slot *)
(* and although the slot may be used by one task after another.            *)
(***************************************************************************)
EXTENDS TasksProofs, FiniteSetTheorems, WellFoundedInduction

(* A task nobody has executed, or one that still has to be subtracted from *)
(* the counter of its parent.                                              *)
Undone(s) == state[s] \in {"allocated", "grabbed"}
Owes(s) == Undone(s) \/ \E t \in Thread : pc[t] = "ended" /\ top(t) = s
Owing(p) == {s \in Task : parent[s] = p /\ Owes(s)}

WaitTypes ==
    /\ parent \in [Task -> Slot \cup {none}]
    /\ counter \in [Slot -> Int]
    /\ script \in [Slot -> Seq(SUBSET Job)]
    /\ job \in [Task -> Job \cup {none}]

CounterIsExact == \A p \in Slot :
    IsFiniteSet(Owing(p)) /\ counter[p] = Cardinality(Owing(p))

(* A parent does not go away before its children are subtracted.           *)
ParentsStay == \A s \in Task : Owes(s) =>
    parent[s] \in Slot /\ \E t \in Thread : OnStack(t, parent[s])

(* No child is left after a wait, and a task does not return without one.  *)
WaitedAt(t) ==
    /\ pc[t] \in {"waited", "over", "unlink"} \cup Ending => Owing(top(t)) = {}
    /\ pc[t] \in {"body"} \cup Publishing /\ script[top(t)] = << >> => Owing(top(t)) = {}
Waited == \A t \in Thread : WaitedAt(t)

InUse(p) == p = root \/ state[p] # "deallocated"

(* A job a task has spawned is done, or a child of the task is to do it.   *)
Owed(p, j) == j \in done \/ \E s \in Task : Undone(s) /\ parent[s] = p /\ job[s] = j
JobsAreOwed == \A p \in Slot : InUse(p) => \A j \in Spawned(p) : Owed(p, j)

ChildrenKnowParent == \A p \in Slot : \A s \in children[p] : parent[s] = p

WaitInv == /\ WaitTypes /\ CounterIsExact /\ ParentsStay /\ Waited
           /\ JobsAreOwed /\ ChildrenKnowParent

USE DEF Thread, Slot

-----------------------------------------------------------------------------
(* What a function has still to spawn                                      *)

LEMMA OneJobLess ==
    ASSUME NEW r \in Seq(SUBSET Job), r # << >>, NEW j
    PROVE  /\ <<Head(r) \ {j}>> \o Tail(r) \in Seq(SUBSET Job)
           /\ <<Head(r) \ {j}>> \o Tail(r) # << >>
           /\ JobsOf(r) \subseteq JobsOf(<<Head(r) \ {j}>> \o Tail(r)) \cup {j}
<1> DEFINE n == <<Head(r) \ {j}>> \o Tail(r)
<1>1. /\ Head(r) \in SUBSET Job /\ Tail(r) \in Seq(SUBSET Job) /\ Len(r) \in Nat /\ Len(r) >= 1
      /\ Len(Tail(r)) = Len(r) - 1 /\ Head(r) = r[1]
      /\ \A i \in 1..Len(Tail(r)) : Tail(r)[i] = r[i + 1]
  OBVIOUS
<1>2. <<Head(r) \ {j}>> \in Seq(SUBSET Job) /\ Len(<<Head(r) \ {j}>>) = 1
  BY <1>1
<1>3. n \in Seq(SUBSET Job) /\ Len(n) = Len(r)
  BY <1>1, <1>2
<1>4. n[1] = r[1] \ {j} /\ \A i \in 2..Len(r) : n[i] = r[i]
  BY <1>1, <1>2
<1>5. JobsOf(r) \subseteq JobsOf(n) \cup {j}
  <2> SUFFICES ASSUME NEW i \in 1..Len(r), NEW x \in r[i], x # j
               PROVE  \E k \in 1..Len(n) : x \in n[k]
    BY DEF JobsOf
  <2>1. x \in n[i] /\ i \in 1..Len(n)
    BY <1>1, <1>3, <1>4
  <2> QED BY <2>1
<1>6. n # << >>
  BY <1>1, <1>3
<1> HIDE DEF n
<1> QED BY <1>3, <1>5, <1>6 DEF n

LEMMA OneRoundLess ==
    ASSUME NEW r \in Seq(SUBSET Job), r # << >>, Head(r) = {}
    PROVE  Tail(r) \in Seq(SUBSET Job) /\ JobsOf(r) \subseteq JobsOf(Tail(r))
<1>1. /\ Tail(r) \in Seq(SUBSET Job) /\ Len(r) \in Nat /\ Len(r) >= 1
      /\ Len(Tail(r)) = Len(r) - 1 /\ r[1] = {}
      /\ \A i \in 1..Len(Tail(r)) : Tail(r)[i] = r[i + 1]
  OBVIOUS
<1>2. JobsOf(r) \subseteq JobsOf(Tail(r))
  <2> SUFFICES ASSUME NEW i \in 1..Len(r), NEW x \in r[i]
               PROVE  \E k \in 1..Len(Tail(r)) : x \in Tail(r)[k]
    BY DEF JobsOf
  <2>1. i # 1
    BY <1>1
  <2>2. i - 1 \in 1..Len(Tail(r)) /\ Tail(r)[i - 1] = r[i]
    BY <1>1, <2>1
  <2> QED BY <2>2
<1> QED BY <1>1, <1>2

-----------------------------------------------------------------------------
(* The invariant holds initially.                                          *)

LEMMA InitWait == ASSUME TasksAssumption, Init PROVE WaitInv
<1>1. /\ \A s \in Task : ~Undone(s) /\ ~Owes(s)
      /\ \A p \in Slot : Owing(p) = {} /\ counter[p] = 0 /\ children[p] = {}
  <2>1. \A s \in Task : ~Undone(s) /\ ~Owes(s)
    BY DEF Init, Undone, Owes
  <2>2. \A p \in Slot : counter[p] = 0 /\ children[p] = {}
    BY DEF Init
  <2> QED BY <2>1, <2>2 DEF Owing
<1>2. WaitTypes
  <2>1. \A s \in Slot : (IF s = root THEN Rounds[root] ELSE << >>) \in Seq(SUBSET Job)
    BY DEF TasksAssumption
  <2>2. /\ script = [s \in Slot |-> IF s = root THEN Rounds[root] ELSE << >>]
        /\ parent = [s \in Task |-> none] /\ job = [s \in Task |-> none]
        /\ counter = [s \in Slot |-> 0]
    BY DEF Init
  <2> QED BY <2>1, <2>2 DEF WaitTypes
<1>3. CounterIsExact
  BY <1>1, FS_EmptySet DEF CounterIsExact
<1>4. Waited
  <2> SUFFICES ASSUME NEW t \in Thread PROVE WaitedAt(t)
    BY DEF Waited
  <2>1. CASE t = user
    <3>1. top(t) = root
      <4>1. stack[t] = <<root>>
        BY <2>1 DEF Init
      <4> QED BY <4>1 DEF top
    <3> QED BY <1>1, <3>1 DEF WaitedAt
  <2>2. CASE t # user
    <3>1. pc[t] = "grab"
      BY <2>2 DEF Init
    <3> QED BY <3>1 DEF WaitedAt, Publishing, Ending
  <2> QED BY <2>1, <2>2
<1>5. JobsAreOwed
  <2> SUFFICES ASSUME NEW p \in Slot, InUse(p) PROVE Spawned(p) = {}
    BY DEF JobsAreOwed
  <2>1. p = root
    BY DEF InUse, Init
  <2>2. script[root] = Rounds[root]
    BY DEF Init
  <2> QED BY <2>1, <2>2 DEF Spawned
<1>6. ParentsStay /\ ChildrenKnowParent
  BY <1>1 DEF ParentsStay, ChildrenKnowParent
<1> QED BY <1>2, <1>3, <1>4, <1>5, <1>6 DEF WaitInv

-----------------------------------------------------------------------------
(* Steps that neither spawn a task nor end one.                            *)

LEMMA OwingStays ==
    ASSUME NEW t \in Thread, parent' = parent, pc[t] # "ended", pc'[t] # "ended",
           \A s \in Task : Undone(s)' <=> Undone(s),
           \A u \in Thread \ {t} : pc'[u] = pc[u] /\ stack'[u] = stack[u]
    PROVE  /\ \A s \in Task : Owes(s)' <=> Owes(s)
           /\ \A p \in Slot : Owing(p)' = Owing(p)
<1>1. ASSUME NEW s \in Task PROVE Owes(s)' <=> Owes(s)
  BY DEF Owes, top
<1> QED BY <1>1 DEF Owing

LEMMA OwingFacts ==
    ASSUME TasksInv, NEW t \in Thread, pc[t] \notin {"grab"} \cup Trying
    PROVE  stack[t] # << >> /\ top(t) \in Slot /\ InUse(top(t)) /\ OnStack(t, top(t))
<1>1. stack[t] # << >>
  BY DEF TasksInv, StackShape
<1>2. top(t) \in Slot /\ OnStack(t, top(t)) /\ Len(stack[t]) \in 1..Len(stack[t])
      /\ top(t) = stack[t][Len(stack[t])]
  BY <1>1, TopFacts
<1>3. top(t) # root => state[top(t)] # "deallocated"
  BY <1>2 DEF TasksInv, StackStates
<1> QED BY <1>1, <1>2, <1>3 DEF InUse

LEMMA TopsDiffer ==
    ASSUME TasksInv, NEW t \in Thread, NEW u \in Thread \ {t}, stack[u] # << >>,
           stack[t] # << >>
    PROVE  top(u) \in Slot \ {top(t)}
<1>1. /\ Len(stack[t]) \in 1..Len(stack[t]) /\ top(t) = stack[t][Len(stack[t])]
      /\ Len(stack[u]) \in 1..Len(stack[u]) /\ top(u) = stack[u][Len(stack[u])]
      /\ top(u) \in Slot
  BY TopFacts
<1> QED BY <1>1 DEF TasksInv, EachTaskHasOneExecutor

LEMMA QuietStep ==
    ASSUME TasksInv, WaitInv, NEW t \in Thread,
           UNCHANGED <<parent, job, counter, done>>,
           script' \in [Slot -> Seq(SUBSET Job)],
           \A p \in Slot : JobsOf(script[p]) \subseteq JobsOf(script'[p]),
           \A u \in Thread \ {t} : stack[u] # << >> => script'[top(u)] = script[top(u)],
           \A s \in Task : Undone(s)' <=> Undone(s),
           \A s \in Task : state[s] = "deallocated" => state'[s] = "deallocated",
           pc[t] # "ended", pc'[t] # "ended",
           \A u \in Thread \ {t} : pc'[u] = pc[u] /\ stack'[u] = stack[u],
           \A p \in Slot : children'[p] \subseteq children[p],
           \A p \in Slot : Owing(p) # {} /\ OnStack(t, p) => OnStack(t, p)',
           (\A p \in Slot : Owing(p)' = Owing(p)) => WaitedAt(t)'
    PROVE  WaitInv'
<1>1. /\ \A s \in Task : Owes(s)' <=> Owes(s)
      /\ \A p \in Slot : Owing(p)' = Owing(p)
  BY OwingStays
<1>2. WaitTypes' /\ CounterIsExact' /\ ChildrenKnowParent'
  BY <1>1 DEF WaitInv, WaitTypes, CounterIsExact, ChildrenKnowParent
<1>3. ParentsStay'
  <2> SUFFICES ASSUME NEW s \in Task, Owes(s)
               PROVE  parent[s] \in Slot /\ \E u \in Thread : OnStack(u, parent[s])'
    BY <1>1 DEF ParentsStay
  <2>1. PICK u \in Thread : OnStack(u, parent[s]) /\ parent[s] \in Slot
    BY DEF WaitInv, ParentsStay
  <2>2. Owing(parent[s]) # {}
    BY DEF Owing
  <2>3. OnStack(u, parent[s])'
    <3>1. CASE u = t
      BY <2>1, <2>2, <3>1
    <3>2. CASE u # t
      BY <2>1, <3>2 DEF OnStack
    <3> QED BY <3>1, <3>2
  <2> QED BY <2>1, <2>3
<1>4. Waited'
  <2>1. ASSUME NEW u \in Thread, u # t PROVE WaitedAt(u)'
    <3>1. CASE pc[u] \in {"grab"} \cup Trying
      BY <2>1, <3>1 DEF WaitedAt, Trying, Publishing, Ending
    <3>2. CASE pc[u] \notin {"grab"} \cup Trying
      <4>1. top(u) \in Slot /\ stack[u] # << >> /\ top(u)' = top(u)
        BY <2>1, <3>2, OwingFacts DEF top
      <4>2. Owing(top(u))' = Owing(top(u))
            /\ script'[top(u)] = script[top(u)] /\ pc'[u] = pc[u]
        BY <1>1, <2>1, <4>1
      <4> QED BY <4>1, <4>2 DEF WaitInv, Waited, WaitedAt
    <3> QED BY <3>1, <3>2
  <2> QED BY <1>1, <2>1 DEF Waited
<1>5. JobsAreOwed'
  <2> SUFFICES ASSUME NEW p \in Slot, InUse(p)', NEW j \in Spawned(p)'
               PROVE  Owed(p, j)'
    BY DEF JobsAreOwed
  <2>1. InUse(p)
    BY DEF InUse
  <2>2. j \in Spawned(p)
    BY DEF Spawned
  <2>3. Owed(p, j)
    BY <2>1, <2>2 DEF WaitInv, JobsAreOwed
  <2> QED BY <2>3 DEF Owed
<1> QED BY <1>2, <1>3, <1>4, <1>5 DEF WaitInv

(* Steps that change no state and no script, and no stack.                 *)
LEMMA StillStep ==
    ASSUME TasksInv, WaitInv, NEW t \in Thread, NEW l,
           UNCHANGED <<state, parent, job, counter, done, stack, script>>,
           pc[t] # "ended", l # "ended", Goto(t, l),
           \A p \in Slot : children'[p] \subseteq children[p],
           (\A p \in Slot : Owing(p)' = Owing(p)) => WaitedAt(t)'
    PROVE  WaitInv'
<1>1. pc'[t] = l /\ \A u \in Thread \ {t} : pc'[u] = pc[u]
  BY DEF Goto, TasksInv, Types
<1>2. script' \in [Slot -> Seq(SUBSET Job)]
  BY DEF WaitInv, WaitTypes
<1>3. \A s \in Task : Undone(s)' <=> Undone(s)
  BY DEF Undone
<1>4. /\ \A u \in Thread \ {t} : stack[u] # << >> => script'[top(u)] = script[top(u)]
      /\ \A p \in Slot : OnStack(t, p) => OnStack(t, p)'
      /\ \A u \in Thread \ {t} : stack'[u] = stack[u]
      /\ \A p \in Slot : JobsOf(script[p]) \subseteq JobsOf(script'[p])
  BY DEF OnStack
<1> QED BY <1>1, <1>2, <1>3, <1>4, QuietStep

LEMMA ServingSteps ==
    ASSUME TasksAssumption, TasksInv, WaitInv, NEW t \in Thread,
           \/ PushPending(t) \/ PushTyped(t) \/ PopTyped(t) \/ PopPending(t) \/ PopChild(t)
           \/ SetEvent(t) \/ ResetEvent(t) \/ Recheck(t) \/ Sleep(t)
    PROVE  WaitInv'
<1>1. UNCHANGED <<state, parent, job, counter, done, stack, script>>
  BY DEF PushPending, PushTyped, PopTyped, PopPending, PopChild, Pop, SetEvent, ResetEvent,
         Recheck, Sleep, memory
<1>2. PICK l \in {"push_typed", "body", "try_grab", "reset", "recheck", "sleep", "assert"} :
        /\ Goto(t, l) /\ pc[t] # "ended"
        /\ l \in {"push_typed", "body"} => pc[t] \in Publishing
  BY DEF PushPending, PushTyped, PopTyped, PopPending, PopChild, Pop, SetEvent, ResetEvent,
         Recheck, Sleep, Publishing
<1>3. \A p \in Slot : children'[p] \subseteq children[p]
  <2>1. CASE PopChild(t)
    BY <2>1 DEF PopChild, TasksInv, Types
  <2>2. CASE ~PopChild(t)
    BY <2>2 DEF PushPending, PushTyped, PopTyped, PopPending, SetEvent, ResetEvent, Recheck,
                Sleep, memory
  <2> QED BY <2>1, <2>2
<1>4. ASSUME \A p \in Slot : Owing(p)' = Owing(p) PROVE WaitedAt(t)'
  <2>1. pc'[t] = l
    BY <1>2 DEF Goto, TasksInv, Types
  <2>2. CASE l \in {"push_typed", "body"}
    <3>1. top(t) \in Slot
      BY <1>2, <2>2, OwingFacts DEF Publishing, Trying
    <3>2. top(t)' = top(t) /\ Owing(top(t))' = Owing(top(t)) /\ script' = script
      BY <1>1, <1>4, <3>1 DEF top
    <3> QED BY <1>2, <2>1, <2>2, <3>2 DEF WaitInv, Waited, WaitedAt, Publishing, Ending
  <2>3. CASE l \notin {"push_typed", "body"}
    BY <2>1, <2>3 DEF WaitedAt, Publishing, Ending
  <2> QED BY <2>2, <2>3
<1> QED BY <1>1, <1>2, <1>3, <1>4, StillStep

(* A wait returns when the counter is zero.                                *)
LEMMA WaitReturns ==
    ASSUME TasksAssumption, TasksInv, WaitInv, Running', NEW t \in Thread,
           NoChildren(t) \/ WaitEnds(t) \/ GoOn(t)
    PROVE  WaitInv'
<1>1. /\ UNCHANGED <<state, parent, job, counter, done, stack, script, children>>
      /\ pc[t] \in {"children", "assert", "waited"}
  BY DEF NoChildren, WaitEnds, GoOn, memory
<1>2. PICK l \in {"arm", "waited", "body"} : Goto(t, l)
        /\ (l # "arm" => pc[t] = "waited" \/ counter[top(t)] = 0)
  BY DEF NoChildren, WaitEnds, GoOn, AfterWait, Running
<1>3. pc[t] # "grab" => top(t) \in Slot
  BY <1>1, OwingFacts DEF Trying
<1>4. l # "arm" => Owing(top(t)) = {}
  <2>1. CASE pc[t] = "waited"
    BY <2>1 DEF WaitInv, Waited, WaitedAt
  <2>2. CASE counter[top(t)] = 0
    BY <1>1, <1>3, <2>2, FS_EmptySet DEF WaitInv, CounterIsExact
  <2> QED BY <1>2, <2>1, <2>2
<1>5. ASSUME \A p \in Slot : Owing(p)' = Owing(p) PROVE WaitedAt(t)'
  <2>1. pc'[t] = l /\ top(t)' = top(t)
    BY <1>1, <1>2 DEF Goto, TasksInv, Types, top
  <2>2. Owing(top(t))' = Owing(top(t))
    BY <1>1, <1>3, <1>5, <2>1
  <2> QED BY <1>4, <2>1, <2>2 DEF WaitedAt, Publishing, Ending
<1>6. \A p \in Slot : children'[p] \subseteq children[p]
  BY <1>1
<1> QED BY <1>1, <1>2, <1>5, <1>6, StillStep

LEMMA EndingSteps ==
    ASSUME TasksAssumption, TasksInv, WaitInv, NEW t \in Thread,
           ReadCounter(t) \/ ReadEvent(t) \/ SetParentsEvent(t)
    PROVE  WaitInv'
<1>1. /\ UNCHANGED <<state, parent, job, counter, done, stack, script, children>>
      /\ pc[t] \in Ending \ {"ended"}
  BY DEF ReadCounter, ReadEvent, SetParentsEvent, memory, Ending
<1>2. PICK l \in Ending \ {"ended"} : Goto(t, l)
  BY DEF ReadCounter, ReadEvent, SetParentsEvent, Ending
<1>3. ASSUME \A p \in Slot : Owing(p)' = Owing(p) PROVE WaitedAt(t)'
  <2>1. pc'[t] = l /\ top(t)' = top(t)
    BY <1>1, <1>2 DEF Goto, TasksInv, Types, top
  <2>2. top(t) \in Slot
    BY <1>1, OwingFacts DEF Ending, Trying
  <2>3. Owing(top(t))' = {}
    BY <1>1, <1>3, <2>1, <2>2 DEF WaitInv, Waited, WaitedAt
  <2> QED BY <2>1, <2>3 DEF WaitedAt
<1>4. \A p \in Slot : children'[p] \subseteq children[p]
  BY <1>1
<1> QED BY <1>1, <1>2, <1>3, <1>4, StillStep

LEMMA WaitStep ==
    ASSUME TasksAssumption, TasksInv, WaitInv, NEW t \in Thread, Wait(t)
    PROVE  WaitInv'
<1>1. /\ UNCHANGED <<state, parent, job, counter, done, stack, children>>
      /\ pc[t] = "body" /\ pc' = [pc EXCEPT ![t] = "children"]
      /\ script[top(t)] # << >> /\ Head(script[top(t)]) = {}
      /\ script' = [script EXCEPT ![top(t)] = Tail(script[top(t)])]
  BY DEF Wait, Goto, memory
<1>2. top(t) \in Slot /\ OnStack(t, top(t))
  BY <1>1, OwingFacts DEF Trying
<1>3. /\ Tail(script[top(t)]) \in Seq(SUBSET Job)
      /\ JobsOf(script[top(t)]) \subseteq JobsOf(Tail(script[top(t)]))
  BY <1>1, <1>2, OneRoundLess DEF WaitInv, WaitTypes
<1>4. /\ script' \in [Slot -> Seq(SUBSET Job)]
      /\ \A p \in Slot \ {top(t)} : script'[p] = script[p]
      /\ script'[top(t)] = Tail(script[top(t)])
  BY <1>1, <1>2, <1>3 DEF WaitInv, WaitTypes
<1>5. \A p \in Slot : JobsOf(script[p]) \subseteq JobsOf(script'[p])
  <2>1. ASSUME NEW p \in Slot, p # top(t) PROVE JobsOf(script[p]) \subseteq JobsOf(script'[p])
    BY <1>4, <2>1
  <2> QED BY <1>3, <1>4, <2>1
<1>6. \A u \in Thread \ {t} : stack[u] # << >> => script'[top(u)] = script[top(u)]
  <2> SUFFICES ASSUME NEW u \in Thread \ {t}, stack[u] # << >> PROVE top(u) \in Slot \ {top(t)}
    BY <1>4
  <2>1. stack[t] # << >>
    BY <1>1, OwingFacts DEF Trying
  <2> QED BY <2>1, TopsDiffer
<1>7. pc'[t] = "children" /\ \A u \in Thread \ {t} : pc'[u] = pc[u] /\ stack'[u] = stack[u]
  BY <1>1 DEF TasksInv, Types
<1>8. WaitedAt(t)'
  BY <1>7 DEF WaitedAt, Publishing, Ending
<1>9. \A s \in Task : /\ Undone(s)' <=> Undone(s)
                      /\ state[s] = "deallocated" => state'[s] = "deallocated"
  BY <1>1 DEF Undone
<1>10. \A p \in Slot : OnStack(t, p) => OnStack(t, p)'
  BY <1>1 DEF OnStack
<1>11. \A p \in Slot : children'[p] \subseteq children[p]
  BY <1>1
<1> QED BY <1>1, <1>4, <1>5, <1>6, <1>7, <1>8, <1>9, <1>10, <1>11, QuietStep

(* Steps of a thread that change the state of a task, or its own stack.    *)
LEMMA StateStep ==
    ASSUME TasksInv, WaitInv, NEW t \in Thread, NEW l,
           UNCHANGED <<parent, job, counter, done, script>>,
           pc[t] # "ended", l # "ended", pc' = [pc EXCEPT ![t] = l],
           \A u \in Thread \ {t} : stack'[u] = stack[u],
           \A s \in Task : /\ Undone(s)' <=> Undone(s)
                           /\ state[s] = "deallocated" => state'[s] = "deallocated",
           \A p \in Slot : children'[p] \subseteq children[p],
           \A p \in Slot : Owing(p) # {} /\ OnStack(t, p) => OnStack(t, p)',
           (\A p \in Slot : Owing(p)' = Owing(p)) => WaitedAt(t)'
    PROVE  WaitInv'
<1>1. pc'[t] = l /\ \A u \in Thread \ {t} : pc'[u] = pc[u]
  BY DEF TasksInv, Types
<1>2. script' \in [Slot -> Seq(SUBSET Job)]
  BY DEF WaitInv, WaitTypes
<1>3. /\ \A u \in Thread \ {t} : stack[u] # << >> => script'[top(u)] = script[top(u)]
      /\ \A p \in Slot : JobsOf(script[p]) \subseteq JobsOf(script'[p])
  OBVIOUS
<1> QED BY <1>1, <1>2, <1>3, QuietStep

LEMMA TryGrabWait ==
    ASSUME TasksAssumption, TasksInv, WaitInv, NEW t \in Thread, TryGrab(t)
    PROVE  WaitInv'
<1>1. /\ UNCHANGED <<parent, job, counter, done, script, stack, children>>
      /\ pc[t] = "try_grab"
      /\ \/ /\ state[cand[t]] = "allocated" /\ state' = [state EXCEPT ![cand[t]] = "grabbed"]
            /\ pc' = [pc EXCEPT ![t] = "grabbed"]
         \/ state' = state /\ pc' = [pc EXCEPT ![t] = "lost"]
  BY DEF TryGrab, Goto
<1>2. PICK l \in {"grabbed", "lost"} : pc' = [pc EXCEPT ![t] = l]
  BY <1>1
<1>3. \A s \in Task : /\ Undone(s)' <=> Undone(s)
                      /\ state[s] = "deallocated" => state'[s] = "deallocated"
  BY <1>1 DEF Undone, TasksInv, Types
<1>4. WaitedAt(t)'
  <2>1. pc'[t] = l
    BY <1>2 DEF TasksInv, Types
  <2> QED BY <2>1 DEF WaitedAt, Publishing, Ending
<1>5. /\ \A p \in Slot : OnStack(t, p) => OnStack(t, p)'
      /\ \A p \in Slot : children'[p] \subseteq children[p]
      /\ \A u \in Thread \ {t} : stack'[u] = stack[u]
  BY <1>1 DEF OnStack
<1> QED BY <1>1, <1>2, <1>3, <1>4, <1>5, StateStep

LEMMA MarkExecutedWait ==
    ASSUME TasksAssumption, TasksInv, WaitInv, NEW t \in Thread, MarkExecuted(t)
    PROVE  WaitInv'
<1>1. /\ UNCHANGED <<parent, job, counter, done, script, stack, children>>
      /\ pc[t] = "mark" /\ pc' = [pc EXCEPT ![t] = "unlink"]
      /\ state' = [state EXCEPT ![top(t)] = "executed"]
  BY DEF MarkExecuted, Goto, queues
<1>2. /\ stack[t] # << >> /\ top(t) \in Task
      /\ Len(stack[t]) \in 1..Len(stack[t]) /\ top(t) = stack[t][Len(stack[t])]
  <2>1. stack[t] # << >> /\ top(t) # root
    BY <1>1 DEF TasksInv, StackShape, Trying, Ending
  <2> QED BY <2>1, TopFacts
<1>3. state[top(t)] = "captured"
  BY <1>1, <1>2 DEF TasksAssumption, TasksInv, StackStates, Ending
<1>4. \A s \in Task : /\ Undone(s)' <=> Undone(s)
                      /\ state[s] = "deallocated" => state'[s] = "deallocated"
  BY <1>1, <1>2, <1>3 DEF Undone, TasksInv, Types
<1>5. ASSUME \A p \in Slot : Owing(p)' = Owing(p) PROVE WaitedAt(t)'
  <2>1. pc'[t] = "unlink" /\ top(t)' = top(t)
    BY <1>1 DEF TasksInv, Types, top
  <2>2. Owing(top(t))' = {}
    BY <1>1, <1>2, <1>5, <2>1 DEF WaitInv, Waited, WaitedAt, Ending
  <2> QED BY <2>1, <2>2 DEF WaitedAt, Publishing
<1>6. /\ \A p \in Slot : OnStack(t, p) => OnStack(t, p)'
      /\ \A p \in Slot : children'[p] \subseteq children[p]
      /\ \A u \in Thread \ {t} : stack'[u] = stack[u]
  BY <1>1 DEF OnStack
<1> QED BY <1>1, <1>4, <1>5, <1>6, StateStep

LEMMA UnlinkWait ==
    ASSUME TasksAssumption, TasksInv, WaitInv, NEW t \in Thread, Unlink(t)
    PROVE  WaitInv'
<1>0. /\ pc[t] \in {"waited", "unlink"}
      /\ UNCHANGED <<parent, job, counter, done, script, stack, pc>>
  BY DEF Unlink, queues, threads
<1>1. top(t) \in Slot
  BY <1>0, OwingFacts DEF Trying
<1>2. PICK s \in Task : /\ s \in children[top(t)] /\ Release(s) /\ state[s] = "executed"
                        /\ children' = [children EXCEPT ![top(t)] = @ \ {s}]
  BY <1>1 DEF Unlink, TasksInv, Types
<1>3. /\ \A p \in Slot : children'[p] \subseteq children[p]
      /\ state' = state \/ state' = [state EXCEPT ![s] = "deallocated"]
  BY <1>1, <1>2 DEF TasksInv, Types, Release
<1>4. \A x \in Task : /\ Undone(x)' <=> Undone(x)
                      /\ state[x] = "deallocated" => state'[x] = "deallocated"
  BY <1>2, <1>3 DEF Undone, TasksInv, Types
<1>5. ASSUME \A p \in Slot : Owing(p)' = Owing(p) PROVE WaitedAt(t)'
  <2>1. pc'[t] = pc[t] /\ top(t)' = top(t)
    BY <1>0 DEF top
  <2>2. Owing(top(t))' = {}
    BY <1>0, <1>1, <1>5, <2>1 DEF WaitInv, Waited, WaitedAt
  <2> QED BY <2>1, <2>2 DEF WaitedAt
<1>6. pc' = [pc EXCEPT ![t] = pc[t]] /\ \A p \in Slot : OnStack(t, p) => OnStack(t, p)'
  BY <1>0 DEF TasksInv, Types, OnStack
<1> QED BY <1>0, <1>3, <1>4, <1>5, <1>6, StateStep

LEMMA DropWait ==
    ASSUME TasksAssumption, TasksInv, WaitInv, NEW t \in Thread, Drop(t)
    PROVE  WaitInv'
<1>0. PICK s : s = cand[t]
  OBVIOUS
<1>1. /\ pc[t] \in {"grabbed", "lost"} /\ Release(s)
      /\ UNCHANGED <<children, parent, job, counter, done, script>>
      /\ pc[t] = "grabbed" => stack' = [stack EXCEPT ![t] = Append(stack[t], s)]
      /\ pc[t] = "lost" => stack' = stack
  BY <1>0 DEF Drop
<1>2. PICK l \in {"body", "grab", "children"} :
        pc' = [pc EXCEPT ![t] = l] /\ (l = "body" => pc[t] = "grabbed")
  BY DEF Drop, Goto
<1>3. /\ s \in Task /\ from[t] \in {"pending", "typed", "children"}
  BY <1>0, <1>1 DEF TasksAssumption, TasksInv, CandShape, Types, Trying
<1>4. InPending(s) \/ InTyped(s) \/ InChildren(s)
  BY <1>0, <1>3 DEF InPending, InTyped, InChildren, HoldsPending, HoldsTyped, HoldsChild
<1>5. \A x \in Task : /\ Undone(x)' <=> Undone(x)
                      /\ state[x] = "deallocated" => state'[x] = "deallocated"
  <2>1. /\ \A x \in Task \ {s} : state'[x] = state[x]
        /\ Unfinished(s) => state' = state
        /\ ~Unfinished(s) => state'[s] \in {"deallocated", "executed"}
    BY <1>1, <1>3, <1>4, ReleaseFacts
  <2>2. state[s] # "deallocated" /\ (~Unfinished(s) => ~Undone(s))
    BY <1>3, <1>4, SlotFacts DEF Unfinished, Undone
  <2> QED BY <2>1, <2>2 DEF Undone
<1>6. /\ \A u \in Thread \ {t} : stack'[u] = stack[u]
      /\ \A p \in Slot : OnStack(t, p) => OnStack(t, p)'
      /\ pc[t] = "grabbed" => top(t)' = s
  <2>1. CASE pc[t] = "grabbed"
    <3>1. stack'[t] = Append(stack[t], s) /\ \A u \in Thread \ {t} : stack'[u] = stack[u]
      BY <1>1, <2>1 DEF TasksInv, Types
    <3>2. stack[t] \in Seq(Slot) /\ s \in Slot
      BY <1>3 DEF TasksInv, Types
    <3>3. /\ Len(stack[t]) \in Nat /\ Len(stack'[t]) = Len(stack[t]) + 1
          /\ \A i \in 1..Len(stack[t]) : stack'[t][i] = stack[t][i] /\ i \in 1..Len(stack'[t])
          /\ stack'[t][Len(stack[t]) + 1] = s
      BY <3>1, <3>2
    <3> QED BY <3>1, <3>3 DEF OnStack, top
  <2>2. CASE pc[t] = "lost"
    BY <1>1, <2>2 DEF OnStack
  <2> QED BY <1>1, <2>1, <2>2
<1>7. ASSUME \A p \in Slot : Owing(p)' = Owing(p) PROVE WaitedAt(t)'
  <2>1. pc'[t] = l
    BY <1>2 DEF TasksInv, Types
  <2>2. CASE l = "body"
    <3>1. \A u \in Thread : ~OnStack(u, s)
      BY <1>0, <1>2, <2>2 DEF TasksInv, GrabbedTask
    <3>2. Owing(s) = {}
      BY <3>1 DEF WaitInv, ParentsStay, Owing
    <3> QED BY <1>2, <1>3, <1>6, <1>7, <2>2, <3>2 DEF WaitedAt
  <2>3. CASE l # "body"
    BY <2>1, <2>3 DEF WaitedAt, Publishing, Ending
  <2> QED BY <2>2, <2>3
<1>8. \A p \in Slot : children'[p] \subseteq children[p]
  BY <1>1
<1>9. pc[t] # "ended" /\ l # "ended"
  BY <1>1
<1> QED BY <1>1, <1>2, <1>5, <1>6, <1>7, <1>8, <1>9, StateStep

(* A task that is over owes nothing, and no child owes it anything.        *)
LEMMA FinishWait ==
    ASSUME TasksAssumption, TasksInv, WaitInv, NEW t \in Thread, Finish(t)
    PROVE  WaitInv'
<1>0. PICK s : s = top(t)
  OBVIOUS
<1>1. /\ pc[t] = "unlink" /\ Release(s)
      /\ UNCHANGED <<children, parent, job, counter, done, script>>
      /\ stack' = [stack EXCEPT ![t] = SubSeq(stack[t], 1, Len(stack[t]) - 1)]
  BY <1>0 DEF Finish
<1>2. PICK l \in {"grab", "children", "arm"} : pc' = [pc EXCEPT ![t] = l]
  BY DEF Finish, Goto
<1>3. /\ stack[t] # << >> /\ s \in Task
      /\ Len(stack[t]) \in 1..Len(stack[t]) /\ s = stack[t][Len(stack[t])]
  <2>1. stack[t] # << >> /\ top(t) # root
    BY <1>1 DEF TasksInv, StackShape, Trying
  <2> QED BY <1>0, <2>1, TopFacts
<1>4. state[s] = "executed" /\ Owing(s) = {}
  <2>1. state[s] = "executed"
    BY <1>1, <1>3 DEF TasksAssumption, TasksInv, StackStates, Ending
  <2> QED BY <1>0, <1>1, <2>1 DEF WaitInv, Waited, WaitedAt
<1>5. \A x \in Task : /\ Undone(x)' <=> Undone(x)
                      /\ state[x] = "deallocated" => state'[x] = "deallocated"
  BY <1>1, <1>3, <1>4 DEF Release, Undone, TasksInv, Types
<1>6. /\ \A u \in Thread \ {t} : stack'[u] = stack[u]
      /\ \A p \in Slot : OnStack(t, p) /\ p # s => OnStack(t, p)'
  <2>1. stack'[t] = SubSeq(stack[t], 1, Len(stack[t]) - 1)
        /\ \A u \in Thread \ {t} : stack'[u] = stack[u]
    BY <1>1 DEF TasksInv, Types
  <2>2. stack[t] \in Seq(Slot) /\ Len(stack[t]) \in Nat /\ Len(stack[t]) >= 1
    BY <1>3 DEF TasksInv, Types
  <2>3. /\ Len(stack'[t]) = Len(stack[t]) - 1
        /\ \A i \in 1..Len(stack[t]) - 1 : stack'[t][i] = stack[t][i]
    BY <2>1, <2>2
  <2>4. ASSUME NEW p \in Slot, OnStack(t, p), p # s PROVE OnStack(t, p)'
    <3>1. PICK i \in 1..Len(stack[t]) : stack[t][i] = p
      BY <2>4 DEF OnStack
    <3>2. i \in 1..Len(stack[t]) - 1
      BY <1>3, <2>2, <2>4, <3>1
    <3> QED BY <2>3, <3>1, <3>2 DEF OnStack
  <2> QED BY <2>1, <2>4
<1>7. WaitedAt(t)'
  <2>1. pc'[t] = l
    BY <1>2 DEF TasksInv, Types
  <2> QED BY <2>1 DEF WaitedAt, Publishing, Ending
<1>8. /\ \A p \in Slot : children'[p] \subseteq children[p]
      /\ \A p \in Slot : Owing(p) # {} /\ OnStack(t, p) => OnStack(t, p)'
  BY <1>1, <1>4, <1>6
<1>9. pc[t] # "ended" /\ l # "ended"
  BY <1>1
<1> QED BY <1>1, <1>2, <1>5, <1>6, <1>7, <1>8, <1>9, StateStep

-----------------------------------------------------------------------------
(* The end of a task.                                                      *)

LEMMA ReturnWait ==
    ASSUME TasksAssumption, TasksInv, WaitInv, NEW t \in Thread, Return(t)
    PROVE  WaitInv'
<1>0. PICK s : s = top(t)
  OBVIOUS
<1>1. /\ pc[t] = "body" /\ script[s] = << >>
      /\ UNCHANGED <<parent, job, children, counter, stack, script>>
  BY <1>0 DEF Return
<1>2. /\ stack[t] # << >> /\ s \in Slot /\ OnStack(t, s)
      /\ Len(stack[t]) \in 1..Len(stack[t]) /\ s = stack[t][Len(stack[t])]
  <2>1. stack[t] # << >>
    BY <1>1 DEF TasksInv, StackShape, Trying
  <2> QED BY <1>0, <2>1, TopFacts
<1>3. Owing(s) = {}
  BY <1>0, <1>1 DEF WaitInv, Waited, WaitedAt
<1>4. CASE s = root
  <2>1. Goto(t, "over") /\ UNCHANGED <<state, done>>
    BY <1>0, <1>4 DEF Return
  <2>2. ASSUME \A p \in Slot : Owing(p)' = Owing(p) PROVE WaitedAt(t)'
    <3>1. pc'[t] = "over" /\ top(t)' = s /\ Owing(s)' = {}
      BY <1>0, <1>1, <1>2, <1>3, <2>1, <2>2 DEF Goto, TasksInv, Types, top
    <3> QED BY <3>1 DEF WaitedAt, Publishing
  <2>3. \A p \in Slot : children'[p] \subseteq children[p]
    BY <1>1
  <2> QED BY <1>1, <2>1, <2>2, <2>3, StillStep
<1>5. CASE s # root
  <2>1. /\ state' = [state EXCEPT ![s] = "captured"] /\ done' = done \cup {job[s]}
        /\ pc' = [pc EXCEPT ![t] = "ended"]
    BY <1>0, <1>5 DEF Return, Goto
  <2>2. s \in Task /\ state[s] = "grabbed"
    BY <1>1, <1>2, <1>5 DEF TasksInv, StackStates, Ending
  <2>3. /\ pc'[t] = "ended" /\ \A u \in Thread \ {t} : pc'[u] = pc[u]
        /\ state'[s] = "captured" /\ \A x \in Task \ {s} : state'[x] = state[x]
        /\ \A u \in Thread : top(u)' = top(u)
    BY <1>1, <2>1, <2>2 DEF TasksInv, Types, top
  <2>4. \A x \in Task : Owes(x)' <=> Owes(x)
    <3>1. Owes(s)' /\ Owes(s)
      BY <1>0, <2>2, <2>3 DEF Owes, Undone
    <3>2. ASSUME NEW x \in Task, x # s PROVE Owes(x)' <=> Owes(x)
      <4>1. Undone(x)' <=> Undone(x)
        BY <2>3, <3>2 DEF Undone
      <4>2. \A u \in Thread : (pc'[u] = "ended" /\ top(u)' = x) <=> (pc[u] = "ended" /\ top(u) = x)
        BY <1>0, <2>3, <3>2
      <4> QED BY <4>1, <4>2 DEF Owes
    <3> QED BY <3>1, <3>2
  <2>5. \A p \in Slot : Owing(p)' = Owing(p)
    BY <1>1, <2>4 DEF Owing
  <2>6. WaitTypes' /\ CounterIsExact' /\ ChildrenKnowParent'
    BY <1>1, <2>5 DEF WaitInv, WaitTypes, CounterIsExact, ChildrenKnowParent
  <2>7. ParentsStay'
    BY <1>1, <2>4 DEF WaitInv, ParentsStay, OnStack
  <2>8. Waited'
    <3>1. WaitedAt(t)'
      BY <1>0, <1>2, <1>3, <2>3, <2>5 DEF WaitedAt, Publishing
    <3>2. ASSUME NEW u \in Thread, u # t PROVE WaitedAt(u)'
      <4>1. CASE pc[u] \in {"grab"} \cup Trying
        BY <2>3, <3>2, <4>1 DEF WaitedAt, Trying, Publishing, Ending
      <4>2. CASE pc[u] \notin {"grab"} \cup Trying
        <5>1. top(u) \in Slot
          BY <4>2, OwingFacts
        <5>2. Owing(top(u))' = Owing(top(u)) /\ top(u)' = top(u) /\ pc'[u] = pc[u]
          BY <2>3, <2>5, <3>2, <5>1
        <5> QED BY <1>1, <5>2 DEF WaitInv, Waited, WaitedAt
      <4> QED BY <4>1, <4>2
    <3> QED BY <3>1, <3>2 DEF Waited
  <2>9. JobsAreOwed'
    <3> SUFFICES ASSUME NEW p \in Slot, InUse(p)', NEW j \in Spawned(p)'
                 PROVE  Owed(p, j)'
      BY DEF JobsAreOwed
    <3>1. InUse(p)
      BY <2>2, <2>3 DEF InUse
    <3>2. j \in Spawned(p)
      BY <1>1 DEF Spawned
    <3>3. Owed(p, j)
      BY <3>1, <3>2 DEF WaitInv, JobsAreOwed
    <3>4. ASSUME NEW x \in Task, Undone(x), parent[x] = p, job[x] = j PROVE Owed(p, j)'
      BY <1>1, <2>1, <2>3, <3>4 DEF Owed, Undone
    <3> QED BY <2>1, <3>3, <3>4 DEF Owed
  <2> QED BY <2>6, <2>7, <2>8, <2>9 DEF WaitInv
<1> QED BY <1>4, <1>5

LEMMA ChildEndedWait ==
    ASSUME TasksAssumption, TasksInv, WaitInv, NEW t \in Thread, ChildEnded(t)
    PROVE  WaitInv'
<1>0. PICK s : s = top(t)
  OBVIOUS
<1>1. /\ pc[t] = "ended" /\ pc' = [pc EXCEPT ![t] = "read_counter"]
      /\ counter' = [counter EXCEPT ![parent[s]] = counter[parent[s]] - 1]
      /\ UNCHANGED <<state, parent, job, children, stack, script, done>>
  BY <1>0 DEF ChildEnded, Goto
<1>2. /\ stack[t] # << >> /\ s \in Task /\ OnStack(t, s)
      /\ Len(stack[t]) \in 1..Len(stack[t]) /\ s = stack[t][Len(stack[t])]
  <2>1. stack[t] # << >> /\ top(t) # root
    BY <1>1 DEF TasksInv, StackShape, Trying, Ending
  <2> QED BY <1>0, <2>1, TopFacts
<1>3. state[s] = "captured" /\ Owes(s)
  BY <1>0, <1>1, <1>2 DEF TasksAssumption, TasksInv, StackStates, Ending, Owes
<1>4. parent[s] \in Slot
  BY <1>2, <1>3 DEF WaitInv, ParentsStay
<1>5. /\ pc'[t] = "read_counter" /\ \A u \in Thread \ {t} : pc'[u] = pc[u]
      /\ \A u \in Thread : top(u)' = top(u)
  BY <1>1 DEF TasksInv, Types, top
<1>6. ~Owes(s)'
  <2>1. \A u \in Thread : pc[u] = "ended" /\ top(u) = s => u = t
    <3> SUFFICES ASSUME NEW u \in Thread, pc[u] = "ended", top(u) = s PROVE u = t
      OBVIOUS
    <3>1. stack[u] # << >>
      BY DEF TasksInv, StackShape, Trying
    <3> QED BY <1>0, <1>2, <3>1, TopsDiffer
  <2> QED BY <1>1, <1>3, <1>5, <2>1 DEF Owes, Undone
<1>7. \A x \in Task \ {s} : Owes(x)' <=> Owes(x)
  BY <1>0, <1>1, <1>5 DEF Owes, Undone
<1>8. /\ Owing(parent[s])' = Owing(parent[s]) \ {s} /\ s \in Owing(parent[s])
      /\ \A p \in Slot \ {parent[s]} : Owing(p)' = Owing(p)
  BY <1>1, <1>2, <1>3, <1>6, <1>7 DEF Owing
<1>9. CounterIsExact'
  <2>1. /\ counter'[parent[s]] = counter[parent[s]] - 1
        /\ \A p \in Slot \ {parent[s]} : counter'[p] = counter[p]
    BY <1>1, <1>4 DEF WaitInv, WaitTypes
  <2>2. /\ IsFiniteSet(Owing(parent[s]) \ {s})
        /\ Cardinality(Owing(parent[s]) \ {s}) = Cardinality(Owing(parent[s])) - 1
    BY <1>4, <1>8, FS_RemoveElement DEF WaitInv, CounterIsExact
  <2>3. IsFiniteSet(Owing(parent[s]))' /\ counter'[parent[s]] = Cardinality(Owing(parent[s])')
    BY <1>1, <1>4, <1>8, <2>1, <2>2 DEF WaitInv, CounterIsExact
  <2>4. ASSUME NEW p \in Slot, p # parent[s]
        PROVE  IsFiniteSet(Owing(p))' /\ counter'[p] = Cardinality(Owing(p)')
    BY <1>8, <2>1, <2>4 DEF WaitInv, CounterIsExact
  <2> QED BY <1>1, <2>3, <2>4 DEF CounterIsExact
<1>10. WaitTypes' /\ ChildrenKnowParent'
  BY <1>1, <1>4 DEF WaitInv, WaitTypes, ChildrenKnowParent
<1>11. ParentsStay'
  <2>1. \A x \in Task : Owes(x)' => Owes(x)
    BY <1>6, <1>7
  <2> QED BY <1>1, <2>1 DEF WaitInv, ParentsStay, OnStack
<1>12. Waited'
  <2> SUFFICES ASSUME NEW u \in Thread PROVE WaitedAt(u)'
    BY DEF Waited
  <2>1. CASE pc[u] \in {"grab"} \cup Trying
    <3>1. u # t
      BY <1>1, <2>1 DEF Trying
    <3> QED BY <1>5, <2>1, <3>1 DEF WaitedAt, Trying, Publishing, Ending
  <2>2. CASE pc[u] \notin {"grab"} \cup Trying
    <3>1. top(u) \in Slot
      BY <2>2, OwingFacts
    <3>2. Owing(top(u))' \subseteq Owing(top(u)) /\ top(u)' = top(u)
      <4>1. top(u)' = top(u)
        BY <1>5
      <4>2. \A x \in Task : Owes(x)' => Owes(x)
        BY <1>6, <1>7
      <4> QED BY <1>1, <4>1, <4>2 DEF Owing
    <3> QED BY <1>1, <1>5, <3>2 DEF WaitInv, Waited, WaitedAt, Ending, Publishing
  <2> QED BY <2>1, <2>2
<1>13. JobsAreOwed'
  BY <1>1 DEF WaitInv, JobsAreOwed, InUse, Spawned, Owed, Undone
<1> QED BY <1>9, <1>10, <1>11, <1>12, <1>13 DEF WaitInv

-----------------------------------------------------------------------------
(* spawn_task takes a slot nobody uses, and adds its task to the parent.   *)

LEMMA SpawnWait ==
    ASSUME TasksAssumption, TasksInv, WaitInv, NEW t \in Thread, Spawn(t)
    PROVE  WaitInv'
<1>0. PICK p : p = top(t)
  OBVIOUS
<1>1. PICK j \in Head(script[p]), s \in Task :
        /\ state[s] = "deallocated"
        /\ state' = [state EXCEPT ![s] = "allocated"]
        /\ job' = [job EXCEPT ![s] = j]
        /\ parent' = [parent EXCEPT ![s] = p]
        /\ children' = [children EXCEPT ![s] = {}, ![p] = @ \cup {s}]
        /\ counter' = [counter EXCEPT ![s] = 0, ![p] = @ + 1]
        /\ script' = [script EXCEPT ![s] = Rounds[j],
                                    ![p] = <<Head(@) \ {j}>> \o Tail(@)]
  BY <1>0 DEF Spawn
<1>2. /\ pc[t] = "body" /\ pc' = [pc EXCEPT ![t] = "push_pending"] /\ script[p] # << >>
      /\ UNCHANGED <<stack, done>>
  BY <1>0 DEF Spawn, Goto
<1>3. stack[t] # << >> /\ p \in Slot /\ InUse(p) /\ OnStack(t, p)
  BY <1>0, <1>2, OwingFacts DEF Trying
<1>4. /\ \A u \in Thread : ~OnStack(u, s)
      /\ \A q \in Slot : s \notin children[q]
  BY <1>1, SlotFacts DEF Unfinished, InChildren
<1>5. p # s /\ children[s] = {} /\ ~Owes(s) /\ Owing(s) = {}
  <2>1. p # s /\ children[s] = {}
    BY <1>3, <1>4 DEF TasksInv, ParentsAreExecuting
  <2>2. \A u \in Thread : pc[u] = "ended" => top(u) # s
    <3> SUFFICES ASSUME NEW u \in Thread, pc[u] = "ended", top(u) = s PROVE FALSE
      OBVIOUS
    <3> QED BY <1>4, OwingFacts DEF Trying
  <2>3. ~Owes(s)
    BY <1>1, <2>2 DEF Owes, Undone
  <2> QED BY <1>4, <2>1, <2>3 DEF WaitInv, ParentsStay, Owing
<1>6. /\ script[p] \in Seq(SUBSET Job) /\ script[s] \in Seq(SUBSET Job)
      /\ j \in Job /\ Rounds[j] \in Seq(SUBSET Job)
  <2>1. script[p] \in Seq(SUBSET Job) /\ script[s] \in Seq(SUBSET Job)
    BY <1>3 DEF WaitInv, WaitTypes
  <2>2. Head(script[p]) \in SUBSET Job
    BY <1>2, <2>1
  <2> QED BY <2>1, <2>2 DEF TasksAssumption
<1>7. /\ script' \in [Slot -> Seq(SUBSET Job)]
      /\ script'[s] = Rounds[j] /\ script'[p] # << >>
      /\ JobsOf(script[p]) \subseteq JobsOf(script'[p]) \cup {j}
      /\ \A q \in Slot \ {p, s} : script'[q] = script[q]
  <2>1. /\ script'[p] = <<Head(script[p]) \ {j}>> \o Tail(script[p])
        /\ script'[s] = Rounds[j]
        /\ \A q \in Slot \ {p, s} : script'[q] = script[q]
        /\ DOMAIN script' = Slot
    BY <1>1, <1>3, <1>5 DEF WaitInv, WaitTypes
  <2>2. /\ script'[p] \in Seq(SUBSET Job) /\ script'[p] # << >>
        /\ JobsOf(script[p]) \subseteq JobsOf(script'[p]) \cup {j}
    <3>1. /\ <<Head(script[p]) \ {j}>> \o Tail(script[p]) \in Seq(SUBSET Job)
          /\ <<Head(script[p]) \ {j}>> \o Tail(script[p]) # << >>
          /\ JobsOf(script[p]) \subseteq
               JobsOf(<<Head(script[p]) \ {j}>> \o Tail(script[p])) \cup {j}
      BY <1>2, <1>6, OneJobLess
    <3>2. script'[p] = <<Head(script[p]) \ {j}>> \o Tail(script[p])
      BY <2>1
    <3> QED BY <3>1, <3>2 DEF JobsOf
  <2>3. ASSUME NEW q \in Slot PROVE script'[q] \in Seq(SUBSET Job)
    BY <1>6, <2>1, <2>2, <2>3 DEF WaitInv, WaitTypes
  <2>4. script' = [q \in Slot |-> script'[q]]
    BY <1>1, <2>1 DEF WaitInv, WaitTypes
  <2> QED BY <2>1, <2>2, <2>3, <2>4
<1>8. /\ state'[s] = "allocated" /\ \A x \in Task \ {s} : state'[x] = state[x]
      /\ job'[s] = j /\ \A x \in Task \ {s} : job'[x] = job[x]
      /\ parent'[s] = p /\ \A x \in Task \ {s} : parent'[x] = parent[x]
      /\ counter'[s] = 0 /\ counter'[p] = counter[p] + 1
      /\ \A q \in Slot \ {p, s} : counter'[q] = counter[q]
      /\ children'[s] = {} /\ children'[p] = children[p] \cup {s}
      /\ \A q \in Slot \ {p, s} : children'[q] = children[q]
  BY <1>1, <1>3, <1>5 DEF WaitInv, WaitTypes, TasksInv, Types
<1>9. /\ pc'[t] = "push_pending" /\ \A u \in Thread \ {t} : pc'[u] = pc[u]
      /\ \A u \in Thread : top(u)' = top(u)
  BY <1>2 DEF TasksInv, Types, top
<1>10. Owes(s)' /\ \A x \in Task \ {s} : Owes(x)' <=> Owes(x)
  BY <1>2, <1>8, <1>9 DEF Owes, Undone
<1>11. /\ Owing(p)' = Owing(p) \cup {s} /\ s \notin Owing(p)
       /\ \A q \in Slot \ {p} : Owing(q)' = Owing(q)
  BY <1>5, <1>8, <1>10 DEF Owing
<1>12. CounterIsExact'
  <2>1. /\ IsFiniteSet(Owing(p) \cup {s})
        /\ Cardinality(Owing(p) \cup {s}) = Cardinality(Owing(p)) + 1
    BY <1>3, <1>11, FS_AddElement DEF WaitInv, CounterIsExact
  <2>2. IsFiniteSet(Owing(p))' /\ counter'[p] = Cardinality(Owing(p)')
    BY <1>3, <1>8, <1>11, <2>1 DEF WaitInv, CounterIsExact
  <2>3. IsFiniteSet(Owing(s))' /\ counter'[s] = Cardinality(Owing(s)')
    <3>1. Owing(s)' = {} /\ counter'[s] = 0
      BY <1>5, <1>8, <1>11
    <3> QED BY <3>1, FS_EmptySet
  <2>4. ASSUME NEW q \in Slot, q # p, q # s
        PROVE  IsFiniteSet(Owing(q))' /\ counter'[q] = Cardinality(Owing(q)')
    BY <1>8, <1>11, <2>4 DEF WaitInv, CounterIsExact
  <2> QED BY <1>1, <1>0, <2>2, <2>3, <2>4 DEF CounterIsExact
<1>13. WaitTypes'
  <2>1. parent' \in [Task -> Slot \cup {none}] /\ job' \in [Task -> Job \cup {none}]
    BY <1>1, <1>3, <1>6 DEF WaitInv, WaitTypes
  <2>2. counter' \in [Slot -> Int]
    BY <1>1, <1>3 DEF WaitInv, WaitTypes
  <2> QED BY <1>7, <2>1, <2>2 DEF WaitTypes
<1>14. ChildrenKnowParent'
  <2> SUFFICES ASSUME NEW q \in Slot, NEW x \in children'[q] PROVE parent'[x] = q
    BY DEF ChildrenKnowParent
  <2>1. CASE x = s
    BY <1>4, <1>8, <2>1
  <2>2. CASE x # s
    <3>1. x \in children[q] /\ x \in Task
      BY <1>8, <2>2 DEF TasksInv, Types
    <3> QED BY <1>8, <2>2, <3>1 DEF WaitInv, ChildrenKnowParent
  <2> QED BY <2>1, <2>2
<1>15. ParentsStay'
  <2>2. parent'[s] \in Slot /\ \E u \in Thread : OnStack(u, parent'[s])
    BY <1>3, <1>8
  <2>3. ASSUME NEW x \in Task, x # s, Owes(x)
        PROVE  parent'[x] \in Slot /\ \E u \in Thread : OnStack(u, parent'[x])
    BY <1>8, <2>3 DEF WaitInv, ParentsStay
  <2>4. \A x \in Task : Owes(x)' =>
           parent'[x] \in Slot /\ \E u \in Thread : OnStack(u, parent'[x])
    BY <1>10, <2>2, <2>3
  <2>5. \A x \in Task : Owes(x)' =>
           parent'[x] \in Slot /\ \E u \in Thread : OnStack(u, parent[x])'
    BY <1>2, <2>4 DEF OnStack
  <2> QED BY <2>5 DEF ParentsStay
<1>16. Waited'
  <2>1. WaitedAt(t)'
    BY <1>0, <1>7, <1>9 DEF WaitedAt, Publishing, Ending
  <2>2. ASSUME NEW u \in Thread, u # t PROVE WaitedAt(u)'
    <3>1. CASE pc[u] \in {"grab"} \cup Trying
      BY <1>9, <2>2, <3>1 DEF WaitedAt, Trying, Publishing, Ending
    <3>2. CASE pc[u] \notin {"grab"} \cup Trying
      <4>1. top(u) \in Slot /\ top(u) # p /\ top(u) # s
        BY <1>0, <1>3, <1>4, <2>2, <3>2, OwingFacts, TopsDiffer
      <4>2. /\ Owing(top(u))' = Owing(top(u)) /\ script'[top(u)] = script[top(u)]
            /\ top(u)' = top(u) /\ pc'[u] = pc[u]
        BY <1>7, <1>9, <1>11, <2>2, <4>1
      <4> QED BY <4>2 DEF WaitInv, Waited, WaitedAt
    <3> QED BY <3>1, <3>2
  <2> QED BY <2>1, <2>2 DEF Waited
<1>17. JobsAreOwed'
  <2> SUFFICES ASSUME NEW q \in Slot, InUse(q)', NEW k \in Spawned(q)'
               PROVE  Owed(q, k)'
    BY DEF JobsAreOwed
  <2>1. CASE q = s
    BY <1>7, <1>8, <2>1 DEF TasksAssumption, Spawned
  <2>2. CASE q = p /\ k = j
    BY <1>8, <2>2 DEF Owed, Undone
  <2>3. CASE q # s /\ ~(q = p /\ k = j)
    <3>1. InUse(q)
      BY <1>8, <2>3 DEF InUse
    <3>2. k \in Spawned(q)
      <4>1. job'[q] = job[q] \/ q = root
        BY <1>8, <2>3
      <4>2. k \notin JobsOf(script[q])
        BY <1>7, <2>3 DEF Spawned
      <4> QED BY <4>1, <4>2 DEF Spawned
    <3>3. Owed(q, k)
      BY <3>1, <3>2 DEF WaitInv, JobsAreOwed
    <3>4. ASSUME NEW x \in Task, Undone(x), parent[x] = q, job[x] = k PROVE Owed(q, k)'
      <4>1. x # s
        BY <1>1, <3>4 DEF Undone
      <4> QED BY <1>8, <3>4, <4>1 DEF Owed, Undone
    <3> QED BY <1>2, <3>3, <3>4 DEF Owed
  <2> QED BY <2>1, <2>2, <2>3
<1> QED BY <1>12, <1>13, <1>14, <1>15, <1>16, <1>17 DEF WaitInv

-----------------------------------------------------------------------------
LEMMA WaitNext ==
    ASSUME TasksAssumption, TasksInv, Running => WaitInv, [Next]_vars, Running'
    PROVE  WaitInv'
<1>1. CASE UNCHANGED vars
  <2>1. UNCHANGED <<state, parent, job, counter, children, script, done, pc, stack>> /\ WaitInv
    BY <1>1 DEF vars, memory, threads, Running
  <2>2. \A s \in Task : (Owes(s)' <=> Owes(s)) /\ (Undone(s)' <=> Undone(s))
    BY <2>1 DEF Owes, Undone, top
  <2>3. \A p : Owing(p)' = Owing(p)
    BY <2>1, <2>2 DEF Owing
  <2>4. WaitTypes' /\ CounterIsExact' /\ ParentsStay' /\ ChildrenKnowParent'
    <3>1. WaitTypes' /\ ChildrenKnowParent'
      BY <2>1 DEF WaitInv, WaitTypes, ChildrenKnowParent
    <3>2. CounterIsExact'
      BY <2>1, <2>3 DEF WaitInv, CounterIsExact
    <3>3. ParentsStay'
      BY <2>1, <2>2 DEF WaitInv, ParentsStay, OnStack
    <3> QED BY <3>1, <3>2, <3>3
  <2>5. Waited'
    BY <2>1, <2>3 DEF WaitInv, Waited, WaitedAt, top
  <2>6. JobsAreOwed'
    BY <2>1, <2>2 DEF WaitInv, JobsAreOwed, InUse, Spawned, Owed
  <2> QED BY <2>4, <2>5, <2>6 DEF WaitInv
<1>2. ASSUME NEW t \in Thread, Running, Step(t) PROVE WaitInv'
  <2>0. WaitInv
    BY <1>2
  <2>1. CASE \/ PushPending(t) \/ PushTyped(t) \/ PopTyped(t) \/ PopPending(t) \/ PopChild(t)
             \/ SetEvent(t) \/ ResetEvent(t) \/ Recheck(t) \/ Sleep(t)
    BY <2>0, <2>1, ServingSteps
  <2>2. CASE NoChildren(t) \/ WaitEnds(t) \/ GoOn(t)
    BY <2>0, <2>2, WaitReturns
  <2>3. CASE ReadCounter(t) \/ ReadEvent(t) \/ SetParentsEvent(t)
    BY <2>0, <2>3, EndingSteps
  <2>4. CASE Spawn(t) \/ Wait(t) \/ TryGrab(t) \/ Drop(t)
    BY <2>0, <2>4, SpawnWait, WaitStep, TryGrabWait, DropWait
  <2>5. CASE Return(t) \/ ChildEnded(t) \/ MarkExecuted(t) \/ Unlink(t) \/ Finish(t)
    BY <2>0, <2>5, ReturnWait, ChildEndedWait, MarkExecutedWait, UnlinkWait, FinishWait
  <2> QED BY <1>2, <2>1, <2>2, <2>3, <2>4, <2>5 DEF Step
<1> QED BY <1>1, <1>2 DEF Next

LEMMA WaitInvariant == ASSUME TasksAssumption PROVE Spec => [](Running => WaitInv)
<1>1. Init => (Running => WaitInv)
  BY InitWait
<1>2. TasksInv /\ (Running => WaitInv) /\ [Next]_vars => (Running => WaitInv)'
  BY WaitNext DEF Running
<1> QED BY <1>1, <1>2, TasksInvariant, PTL DEF Spec

(* What a job that is done has spawned is done too.                        *)
JobsAreWhole == \A j \in done : JobsOf(Rounds[j]) \subseteq done

LEMMA WholeNext ==
    ASSUME TasksAssumption, TasksInv, Running => WaitInv, JobsAreWhole, [Next]_vars
    PROVE  JobsAreWhole'
<1>1. CASE done' = done
  BY <1>1 DEF JobsAreWhole
<1>2. CASE done' # done
  <2>1. PICK t \in Thread : Running /\ Return(t)
    BY <1>2 DEF Next, Step, vars, Spawn, PushPending, PushTyped, PopTyped, PopPending,
         PopChild, Pop, TryGrab, Drop, Wait, NoChildren, SetEvent, ResetEvent, Recheck, Sleep,
         WaitEnds, ChildEnded, ReadCounter, ReadEvent, SetParentsEvent, MarkExecuted, Unlink,
         Finish, GoOn
  <2>2. /\ pc[t] = "body" /\ script[top(t)] = << >> /\ top(t) # root
        /\ done' = done \cup {job[top(t)]}
    BY <1>2, <2>1 DEF Return
  <2>3. top(t) \in Slot /\ InUse(top(t)) /\ Owing(top(t)) = {}
    BY <2>1, <2>2, OwingFacts DEF Trying, WaitInv, Waited, WaitedAt
  <2>4. ASSUME NEW k \in JobsOf(Rounds[job[top(t)]]) PROVE k \in done
    <3>1. k \notin JobsOf(script[top(t)])
      <4>1. Len(<< >>) = 0
        OBVIOUS
      <4> QED BY <2>2, <4>1 DEF JobsOf
    <3>2. k \in Spawned(top(t))
      BY <2>2, <3>1 DEF Spawned
    <3>3. Owed(top(t), k)
      BY <2>1, <2>3, <3>2 DEF WaitInv, JobsAreOwed
    <3> QED BY <2>3, <3>3 DEF Owed, Owing, Owes
  <2> QED BY <2>2, <2>4 DEF JobsAreWhole
<1> QED BY <1>1, <1>2

LEMMA WholeInvariant == ASSUME TasksAssumption PROVE Spec => []JobsAreWhole
<1>1. Init => JobsAreWhole
  BY DEF Init, JobsAreWhole
<1>2. TasksInv /\ (Running => WaitInv) /\ JobsAreWhole /\ [Next]_vars => JobsAreWhole'
  BY WholeNext
<1> QED BY <1>1, <1>2, TasksInvariant, WaitInvariant, PTL DEF Spec

(* When wait_for_all_children returns, and while its caller ends, the jobs *)
(* it had spawned have been executed, whoever executed them and whether    *)
(* the caller slept or not.                                                *)
THEOREM WaitsMeanDone == ASSUME TasksAssumption PROVE Spec => []WaitMeansDone
<1>1. TasksInv /\ (Running => WaitInv) /\ JobsAreWhole => WaitMeansDone
  <2> SUFFICES ASSUME TasksInv, WaitInv, JobsAreWhole, NEW t \in Thread,
                      pc[t] \in {"waited", "ended", "unlink", "over"},
                      NEW j \in Spawned(top(t))
               PROVE  j \in done
    BY DEF WaitMeansDone, JobsAreWhole
  <2>1. top(t) \in Slot /\ InUse(top(t))
    BY OwingFacts DEF Trying
  <2>2. Owing(top(t)) = {}
    BY DEF WaitInv, Waited, WaitedAt, Ending
  <2>3. Owed(top(t), j)
    BY <2>1 DEF WaitInv, JobsAreOwed
  <2> QED BY <2>2, <2>3 DEF Owed, Owing, Owes
<1> QED BY <1>1, TasksInvariant, WaitInvariant, WholeInvariant, PTL

(* unlink_from_child asserts that a child is ended: it is, whenever its    *)
(* parent unlinks its children.                                            *)
THEOREM UnlinkAssertionHolds == ASSUME TasksAssumption PROVE Spec => []UnlinkedChildrenAreEnded
<1>1. TasksInv /\ (Running => WaitInv) => UnlinkedChildrenAreEnded
  <2> SUFFICES ASSUME TasksInv, WaitInv, NEW t \in Thread, pc[t] \in {"waited", "unlink"},
                      NEW s \in children[top(t)]
               PROVE  state[s] \in {"captured", "executed"}
    BY DEF UnlinkedChildrenAreEnded
  <2>1. top(t) \in Slot
    BY OwingFacts DEF Trying
  <2>2. s \in Task /\ parent[s] = top(t)
    BY <2>1 DEF WaitInv, ChildrenKnowParent, TasksInv, Types
  <2>3. ~Undone(s)
    BY <2>2 DEF WaitInv, Waited, WaitedAt, Owing, Owes
  <2>4. state[s] # "deallocated"
    BY <2>1, <2>2, SlotFacts DEF InChildren
  <2> QED BY <2>2, <2>3, <2>4 DEF Undone, TasksInv, Types
<1> QED BY <1>1, TasksInvariant, WaitInvariant, PTL

-----------------------------------------------------------------------------
(* The types of what neither invariant speaks of.                          *)

OtherTypes ==
    /\ event \in [Slot -> Thread \cup {none}]
    /\ signalled \in [Thread -> BOOLEAN] /\ last_task_type \subseteq Thread
    /\ seen \in [Thread -> Thread \cup {none}]
    /\ done \subseteq Job
    /\ failed \in {"nothing", "no_children_to_execute", "null"}
    /\ \A s \in Task : state[s] # "deallocated" => parent[s] \in Slot /\ job[s] \in Job

LEMMA TopIsKnown ==
    ASSUME TasksInv, OtherTypes, NEW t \in Thread,
           pc[t] \in Ending \/ (pc[t] = "body" /\ top(t) # root)
    PROVE  top(t) \in Task /\ parent[top(t)] \in Slot /\ job[top(t)] \in Job
<1>1. pc[t] \notin {"grab"} \cup Trying /\ top(t) # root
  BY DEF TasksInv, StackShape, Ending, Trying
<1>2. top(t) \in Task /\ state[top(t)] # "deallocated"
  BY <1>1, OwingFacts DEF InUse
<1> QED BY <1>2 DEF OtherTypes

LEMMA OthersInStep ==
    ASSUME TasksAssumption, TasksInv, WaitInv, OtherTypes, NEW t \in Thread, Step(t)
    PROVE  OtherTypes'
<1>1. event' \in [Slot -> Thread \cup {none}]
  <2>1. CASE SetEvent(t) \/ WaitEnds(t) \/ Spawn(t)
    BY <2>1 DEF SetEvent, WaitEnds, Spawn, OtherTypes
  <2>2. CASE ~(SetEvent(t) \/ WaitEnds(t) \/ Spawn(t))
    BY <2>2 DEF Step, PushPending, PushTyped, PopTyped, PopPending, PopChild, Pop, TryGrab,
         Drop, Wait, NoChildren, ResetEvent, Recheck, Sleep, Return, ChildEnded, ReadCounter,
         ReadEvent, SetParentsEvent, MarkExecuted, Unlink, Finish, GoOn, memory, OtherTypes
  <2> QED BY <2>1, <2>2
<1>2. signalled' \in [Thread -> BOOLEAN] /\ failed' \in {"nothing", "no_children_to_execute", "null"}
  <2>1. CASE ResetEvent(t) \/ Sleep(t) \/ WaitEnds(t) \/ SetParentsEvent(t)
    BY <2>1 DEF ResetEvent, Sleep, WaitEnds, SetParentsEvent, OtherTypes
  <2>2. CASE ~(ResetEvent(t) \/ Sleep(t) \/ WaitEnds(t) \/ SetParentsEvent(t))
    BY <2>2 DEF Step, Spawn, PushPending, PushTyped, PopTyped, PopPending, PopChild, Pop,
         TryGrab, Drop, Wait, NoChildren, SetEvent, Recheck, Return, ChildEnded, ReadCounter,
         ReadEvent, MarkExecuted, Unlink, Finish, GoOn, threads, OtherTypes
  <2> QED BY <2>1, <2>2
<1>3. seen' \in [Thread -> Thread \cup {none}] /\ last_task_type' \subseteq Thread
  <2>1. CASE ReadEvent(t)
    <3>1. parent[top(t)] \in Slot
      BY <2>1, TopIsKnown DEF ReadEvent, Ending
    <3> QED BY <2>1, <3>1 DEF ReadEvent, OtherTypes
  <2>2. CASE SetParentsEvent(t) \/ Drop(t)
    BY <2>2 DEF SetParentsEvent, Drop, OtherTypes
  <2>3. CASE ~(ReadEvent(t) \/ SetParentsEvent(t) \/ Drop(t))
    BY <2>3 DEF Step, Spawn, PushPending, PushTyped, PopTyped, PopPending, PopChild, Pop,
         TryGrab, Wait, NoChildren, SetEvent, ResetEvent, Recheck, Sleep, WaitEnds, Return,
         ChildEnded, ReadCounter, MarkExecuted, Unlink, Finish, GoOn, threads, OtherTypes
  <2> QED BY <2>1, <2>2, <2>3
<1>4. done' \subseteq Job
  <2>1. CASE Return(t)
    BY <2>1, TopIsKnown DEF Return, OtherTypes
  <2>2. CASE ~Return(t)
    BY <2>2 DEF Step, Spawn, PushPending, PushTyped, PopTyped, PopPending, PopChild, Pop,
         TryGrab, Drop, Wait, NoChildren, SetEvent, ResetEvent, Recheck, Sleep, WaitEnds,
         ChildEnded, ReadCounter, ReadEvent, SetParentsEvent, MarkExecuted, Unlink, Finish,
         GoOn, OtherTypes
  <2> QED BY <2>1, <2>2
<1>5. \A s \in Task : state'[s] # "deallocated" => parent'[s] \in Slot /\ job'[s] \in Job
  <2>1. CASE Spawn(t)
    <3>1. top(t) \in Slot /\ script[top(t)] \in Seq(SUBSET Job)
      BY <2>1, OwingFacts DEF Spawn, Trying, WaitInv, WaitTypes
    <3>2. PICK j \in Head(script[top(t)]), s \in Task :
            /\ state' = [state EXCEPT ![s] = "allocated"]
            /\ job' = [job EXCEPT ![s] = j]
            /\ parent' = [parent EXCEPT ![s] = top(t)]
      BY <2>1 DEF Spawn
    <3>3. j \in Job
      <4>1. Head(script[top(t)]) \in SUBSET Job
        BY <2>1, <3>1 DEF Spawn
      <4> QED BY <4>1
    <3> QED BY <3>1, <3>2, <3>3 DEF OtherTypes, WaitInv, WaitTypes, TasksInv, Types
  <2>2. CASE ~Spawn(t)
    <3>1. parent' = parent /\ job' = job
      BY <2>2 DEF Step, PushPending, PushTyped, PopTyped, PopPending, PopChild, Pop, TryGrab,
         Drop, Wait, NoChildren, SetEvent, ResetEvent, Recheck, Sleep, WaitEnds, Return,
         ChildEnded, ReadCounter, ReadEvent, SetParentsEvent, MarkExecuted, Unlink, Finish,
         GoOn, memory
    <3>2. \A s \in Task : state'[s] # "deallocated" => state[s] # "deallocated"
      <4>1. CASE TryGrab(t)
        BY <4>1 DEF TryGrab, TasksInv, Types
      <4>2. CASE Return(t)
        <5>1. pc[t] = "body" /\ (top(t) # root => top(t) \in Task /\ state[top(t)] # "deallocated")
          BY <4>2, OwingFacts DEF Return, InUse, Trying
        <5> QED BY <4>2, <5>1 DEF Return, TasksInv, Types
      <4>3. CASE MarkExecuted(t)
        <5>1. state[top(t)] # "deallocated" \/ top(t) = root
          BY <4>3, OwingFacts DEF MarkExecuted, InUse, Trying
        <5> QED BY <4>3, <5>1 DEF MarkExecuted, TasksInv, Types
      <4>4. CASE Drop(t) \/ Unlink(t) \/ Finish(t)
        <5>1. PICK s : Release(s)
          BY <4>4 DEF Drop, Unlink, Finish
        <5> QED BY <5>1 DEF Release, TasksInv, Types
      <4>5. CASE ~(TryGrab(t) \/ Return(t) \/ MarkExecuted(t) \/ Drop(t) \/ Unlink(t) \/ Finish(t))
        BY <2>2, <4>5 DEF Step, PushPending, PushTyped, PopTyped, PopPending, PopChild, Pop,
           Wait, NoChildren, SetEvent, ResetEvent, Recheck, Sleep, WaitEnds, ChildEnded,
           ReadCounter, ReadEvent, SetParentsEvent, GoOn, memory
      <4> QED BY <4>1, <4>2, <4>3, <4>4, <4>5
    <3> QED BY <3>1, <3>2 DEF OtherTypes
  <2> QED BY <2>1, <2>2
<1> QED BY <1>1, <1>2, <1>3, <1>4, <1>5 DEF OtherTypes

LEMMA TypesNext ==
    ASSUME TasksAssumption, TasksInv, Running => WaitInv, Running' => WaitInv',
           WaitTypes, OtherTypes, [Next]_vars
    PROVE  WaitTypes' /\ OtherTypes'
<1>1. CASE UNCHANGED vars
  BY <1>1 DEF vars, memory, threads, WaitTypes, OtherTypes
<1>2. ASSUME NEW t \in Thread, Running, Step(t) PROVE WaitTypes' /\ OtherTypes'
  <2>1. OtherTypes'
    BY <1>2, OthersInStep
  <2>2. CASE Running'
    BY <2>1, <2>2 DEF WaitInv
  <2>3. CASE ~Running'
    <3>1. WaitEnds(t) \/ SetParentsEvent(t)
      BY <1>2, <2>3 DEF Running, Step, Spawn, PushPending, PushTyped, PopTyped, PopPending,
         PopChild, Pop, TryGrab, Drop, Wait, NoChildren, SetEvent, ResetEvent, Recheck, Sleep,
         Return, ChildEnded, ReadCounter, ReadEvent, MarkExecuted, Unlink, Finish, GoOn
    <3>2. UNCHANGED <<parent, counter, script, job>>
      BY <3>1 DEF WaitEnds, SetParentsEvent, memory
    <3> QED BY <2>1, <3>2 DEF WaitTypes
  <2> QED BY <2>1, <2>2, <2>3
<1> QED BY <1>1, <1>2 DEF Next

LEMMA TypesInvariant == ASSUME TasksAssumption PROVE Spec => [](WaitTypes /\ OtherTypes)
<1>1. Init => WaitTypes /\ OtherTypes
  <2> SUFFICES ASSUME Init PROVE WaitTypes /\ OtherTypes
    OBVIOUS
  <2>1. WaitTypes
    BY InitWait DEF WaitInv
  <2>2. /\ event = [s \in Slot |-> none] /\ signalled = [t \in Thread |-> FALSE]
        /\ last_task_type = {} /\ seen = [t \in Thread |-> none]
        /\ done = {} /\ failed = "nothing" /\ \A s \in Task : state[s] = "deallocated"
    BY DEF Init
  <2> QED BY <2>1, <2>2 DEF OtherTypes
<1>2. TasksInv /\ (Running => WaitInv) /\ (Running => WaitInv)'
        /\ (WaitTypes /\ OtherTypes) /\ [Next]_vars
      => (WaitTypes /\ OtherTypes)'
  <2> SUFFICES ASSUME TasksInv, Running => WaitInv, Running' => WaitInv', WaitTypes,
                      OtherTypes, [Next]_vars
               PROVE  WaitTypes' /\ OtherTypes'
    OBVIOUS
  <2> QED BY TypesNext
<1> QED BY <1>1, <1>2, TasksInvariant, WaitInvariant, PTL DEF Spec

(* The types of the tasks and the threads; in particular a task is never   *)
(* referenced more often than by its three lists and its execution.        *)
THEOREM TaskTypes == ASSUME TasksAssumption PROVE Spec => []TasksTypeOK
<1>1. TasksInv /\ WaitTypes /\ OtherTypes => TasksTypeOK
  <2> SUFFICES ASSUME TasksInv, WaitTypes, OtherTypes PROVE TasksTypeOK
    OBVIOUS
  <2>1. \A s \in Task : refs[s] \in 0..4
    BY DEF TasksInv, RefsCountReferences, One
  <2>2. refs \in [Task -> 0..4]
    BY <2>1 DEF TasksInv, Types
  <2> QED BY <2>2 DEF TasksInv, Types, Labels, WaitTypes, OtherTypes, TasksTypeOK
<1> QED BY <1>1, TasksInvariant, TypesInvariant, PTL

-----------------------------------------------------------------------------
(* The order on the naturals, for a choice of the youngest.                *)

LEMMA LeastNumber ==
    ASSUME NEW S \in SUBSET Nat, S # {}
    PROVE  \E n \in S : \A m \in S : n <= m
<1> DEFINE R == {ss \in Nat \X Nat : ss[1] < ss[2]}
<1>1. IsWellFoundedOn(R, Nat)
  BY NatLessThanWellFounded DEF OpToRel
<1> HIDE DEF R
<1>2. \E x \in S : \A y \in S : ~ (<<y, x>> \in R)
  BY <1>1, WFMin
<1>3. \A x, y \in Nat : <<y, x>> \in R <=> y < x
  BY DEF R
<1>4. PICK n \in S : \A m \in S : ~ (<<m, n>> \in R)
  BY <1>2
<1>5. ASSUME NEW m \in S PROVE n <= m
  <2>1. n \in Nat /\ m \in Nat /\ ~(m < n)
    BY <1>3, <1>4
  <2> QED BY <2>1
<1> QED BY <1>5

-----------------------------------------------------------------------------
(* Where a task is found, by its state.                                    *)

Executing(u, s) == OnStack(u, s) \/ (pc[u] = "grabbed" /\ cand[u] = s)

PlaceOf(s) ==
    /\ state[s] = "allocated" => InPending(s)
    /\ state[s] = "grabbed" => \E u \in Thread : Executing(u, s)
    /\ state[s] = "captured" => \E u \in Thread : WillMark(u, s)

Places ==
    /\ \A s \in Task : PlaceOf(s)
    /\ \A t \in Thread : pc[t] = "lost" => state[cand[t]] # "allocated"

(* A step of a thread that leaves the queue of all tasks alone.            *)
LEMMA PlacesKept ==
    ASSUME TasksInv, Places, NEW t \in Thread, NEW l,
           pending' = pending, pc' = [pc EXCEPT ![t] = l],
           \A u \in Thread \ {t} : cand'[u] = cand[u] /\ from'[u] = from[u] /\ stack'[u] = stack[u],
           \A s \in Task : state'[s] = state[s] \/ PlaceOf(s)',
           \A u \in Thread : pc[u] = "lost" /\ state'[cand[u]] = "allocated" => state[cand[u]] = "allocated",
           l = "lost" => state'[cand'[t]] # "allocated",
           \A s \in Task : state[s] = "allocated" /\ HoldsPending(t, s) => HoldsPending(t, s)',
           \A s \in Task : state[s] = "grabbed" /\ state'[s] = "grabbed" /\ Executing(t, s) => Executing(t, s)',
           \A s \in Task : state[s] = "captured" /\ state'[s] = "captured" /\ WillMark(t, s) => WillMark(t, s)'
    PROVE  Places'
<1>1. pc'[t] = l /\ \A u \in Thread \ {t} : pc'[u] = pc[u]
  BY DEF TasksInv, Types
<1>2. \A u \in Thread \ {t} : top(u)' = top(u)
  BY DEF top
<1>3. ASSUME NEW s \in Task PROVE PlaceOf(s)'
  <2>1. CASE state'[s] # state[s]
    BY <2>1
  <2>2. CASE state'[s] = state[s]
    <3>1. state[s] = "allocated" => InPending(s)'
      BY <1>1, <2>2 DEF Places, PlaceOf, InPending, HoldsPending
    <3>2. state[s] = "grabbed" => \E u \in Thread : Executing(u, s)'
      BY <1>1, <2>2 DEF Places, PlaceOf, Executing, OnStack
    <3>3. state[s] = "captured" => \E u \in Thread : WillMark(u, s)'
      <4> SUFFICES ASSUME state[s] = "captured" PROVE \E u \in Thread : WillMark(u, s)'
        OBVIOUS
      <4>1. PICK u \in Thread : WillMark(u, s)
        BY DEF Places, PlaceOf
      <4>2. WillMark(u, s)'
        <5>1. CASE u = t
          BY <2>2, <4>1, <5>1
        <5>2. CASE u # t
          BY <1>1, <1>2, <4>1, <5>2 DEF WillMark
        <5> QED BY <5>1, <5>2
      <4> QED BY <4>2
    <3> QED BY <2>2, <3>1, <3>2, <3>3 DEF PlaceOf
  <2> QED BY <2>1, <2>2
<1>4. ASSUME NEW u \in Thread, pc'[u] = "lost" PROVE state'[cand'[u]] # "allocated"
  BY <1>1, <1>4 DEF Places
<1> QED BY <1>3, <1>4 DEF Places

(* Steps that move only the program counter, and keep the tasks they hold. *)
LEMMA LocalPlaces ==
    ASSUME TasksAssumption, TasksInv, Places, NEW t \in Thread,
           \/ Wait(t) \/ NoChildren(t) \/ SetEvent(t) \/ ResetEvent(t) \/ Recheck(t)
           \/ Sleep(t) \/ WaitEnds(t) \/ ChildEnded(t) \/ ReadCounter(t) \/ ReadEvent(t)
           \/ SetParentsEvent(t) \/ GoOn(t) \/ (Return(t) /\ top(t) = root)
    PROVE  Places'
<1>1. UNCHANGED <<state, pending, cand, from, stack>>
  BY DEF Wait, NoChildren, SetEvent, ResetEvent, Recheck, Sleep, WaitEnds, ChildEnded,
         ReadCounter, ReadEvent, SetParentsEvent, GoOn, Return, memory, queues
<1>2. PICK l \in {"body", "children", "arm", "waited", "reset", "recheck", "sleep", "assert",
                  "over", "read_counter", "read_event", "set_event", "mark"} :
        /\ pc' = [pc EXCEPT ![t] = l]
        /\ pc[t] \in Working \cup (Ending \ {"mark"})
        /\ (pc[t] \in Ending => l \in Ending)
  BY DEF Wait, NoChildren, SetEvent, ResetEvent, Recheck, Sleep, WaitEnds, ChildEnded,
         ReadCounter, ReadEvent, SetParentsEvent, GoOn, Return, Goto, AfterWait, Working,
         Ending
<1>3. pc'[t] = l /\ top(t)' = top(t)
  BY <1>1, <1>2 DEF TasksInv, Types, top
<1>4. pc[t] \notin {"grabbed", "push_pending", "lost"}
  BY <1>2 DEF Working, Ending
<1>5. /\ \A s \in Task : HoldsPending(t, s) => HoldsPending(t, s)'
      /\ \A s \in Task : Executing(t, s) => Executing(t, s)'
      /\ \A s \in Task : WillMark(t, s) => WillMark(t, s)'
  BY <1>1, <1>2, <1>3, <1>4 DEF HoldsPending, Executing, OnStack, WillMark
<1> QED BY <1>1, <1>2, <1>5, PlacesKept

LEMMA PopPlaces ==
    ASSUME TasksAssumption, TasksInv, Places, NEW t \in Thread,
           PopTyped(t) \/ PopPending(t) \/ PopChild(t)
    PROVE  Places'
<1>1. PICK s : \E list \in {"pending", "typed", "children"} :
        /\ Pop(t, s, list) /\ pc[t] \in {"grab", "children"}
        /\ list # "pending" => pending' = pending
        /\ list = "pending" => pending' = pending \ {s}
  BY DEF PopTyped, PopPending, PopChild, queues
<1>2. PICK list \in {"pending", "typed", "children"} :
        /\ cand' = [cand EXCEPT ![t] = s] /\ from' = [from EXCEPT ![t] = list]
        /\ pc' = [pc EXCEPT ![t] = "try_grab"] /\ UNCHANGED <<state, stack>>
        /\ list # "pending" => pending' = pending
        /\ list = "pending" => pending' = pending \ {s}
  BY <1>1 DEF Pop, Goto
<1>3. /\ pc'[t] = "try_grab" /\ cand'[t] = s /\ from'[t] = list
      /\ \A u \in Thread \ {t} : pc'[u] = pc[u] /\ cand'[u] = cand[u] /\ from'[u] = from[u]
      /\ \A u \in Thread : top(u)' = top(u)
  BY <1>2 DEF TasksInv, Types, top
<1>4. cand[t] = none /\ from[t] = none /\ none \notin Task
  BY <1>1 DEF TasksAssumption, TasksInv, CandShape, Publishing, Trying
<1>5. \A x \in Task : InPending(x) => InPending(x)'
  BY <1>2, <1>3, <1>4 DEF InPending, HoldsPending
<1>6. \A x \in Task : \A u \in Thread : /\ Executing(u, x) => Executing(u, x)'
                                        /\ WillMark(u, x) => WillMark(u, x)'
  <2> SUFFICES ASSUME NEW x \in Task, NEW u \in Thread
               PROVE  (Executing(u, x) => Executing(u, x)') /\ (WillMark(u, x) => WillMark(u, x)')
    OBVIOUS
  <2>1. CASE u = t
    BY <1>1, <1>2, <1>3, <2>1 DEF Executing, OnStack, WillMark, Ending
  <2>2. CASE u # t
    BY <1>2, <1>3, <2>2 DEF Executing, OnStack, WillMark
  <2> QED BY <2>1, <2>2
<1>7. \A x \in Task : PlaceOf(x)'
  BY <1>2, <1>5, <1>6 DEF Places, PlaceOf
<1>8. \A u \in Thread : pc'[u] = "lost" => state'[cand'[u]] # "allocated"
  BY <1>2, <1>3 DEF Places
<1> QED BY <1>7, <1>8 DEF Places

LEMMA PublishPlaces ==
    ASSUME TasksAssumption, TasksInv, Places, NEW t \in Thread, PushPending(t) \/ PushTyped(t)
    PROVE  Places'
<1>1. /\ pc[t] \in {"push_pending", "push_typed"} /\ UNCHANGED <<state, from, stack>>
      /\ cand' = [cand EXCEPT ![t] = cand'[t]]
      /\ \/ pc[t] = "push_pending" /\ pending' = pending \cup {cand[t]}
         \/ pc[t] = "push_typed" /\ pending' = pending
  BY DEF PushPending, PushTyped, memory, TasksInv, Types
<1>2. PICK l \in {"push_typed", "body"} : pc' = [pc EXCEPT ![t] = l]
  BY DEF PushPending, PushTyped, Goto
<1>3. /\ pc'[t] = l /\ \A u \in Thread \ {t} : pc'[u] = pc[u] /\ cand'[u] = cand[u]
      /\ \A u \in Thread : top(u)' = top(u) /\ from'[u] = from[u] /\ stack'[u] = stack[u]
  BY <1>1, <1>2 DEF TasksInv, Types, top
<1>4. from[t] = none /\ none # "pending"
  BY <1>1 DEF TasksAssumption, TasksInv, CandShape, Publishing
<1>5. \A x \in Task : InPending(x) => InPending(x)'
  BY <1>1, <1>3, <1>4 DEF InPending, HoldsPending
<1>6. \A x \in Task : \A u \in Thread : /\ Executing(u, x) => Executing(u, x)'
                                        /\ WillMark(u, x) => WillMark(u, x)'
  <2> SUFFICES ASSUME NEW x \in Task, NEW u \in Thread
               PROVE  (Executing(u, x) => Executing(u, x)') /\ (WillMark(u, x) => WillMark(u, x)')
    OBVIOUS
  <2>1. CASE u = t
    BY <1>1, <1>2, <1>3, <2>1 DEF Executing, OnStack, WillMark, Ending
  <2>2. CASE u # t
    BY <1>2, <1>3, <2>2 DEF Executing, OnStack, WillMark
  <2> QED BY <2>1, <2>2
<1>7. \A x \in Task : PlaceOf(x)'
  BY <1>1, <1>5, <1>6 DEF Places, PlaceOf
<1>8. \A u \in Thread : pc'[u] = "lost" => state'[cand'[u]] # "allocated"
  BY <1>1, <1>2, <1>3 DEF Places
<1> QED BY <1>7, <1>8 DEF Places

LEMMA SpawnPlaces ==
    ASSUME TasksAssumption, TasksInv, Places, NEW t \in Thread, Spawn(t)
    PROVE  Places'
<1>1. PICK s \in Task :
        /\ state[s] = "deallocated" /\ state' = [state EXCEPT ![s] = "allocated"]
        /\ cand' = [cand EXCEPT ![t] = s]
  BY DEF Spawn
<1>2. /\ pc[t] = "body" /\ pc' = [pc EXCEPT ![t] = "push_pending"]
      /\ UNCHANGED <<pending, from, stack>>
  BY DEF Spawn, Goto, queues
<1>3. /\ pc'[t] = "push_pending" /\ cand'[t] = s /\ state'[s] = "allocated"
      /\ \A x \in Task \ {s} : state'[x] = state[x]
      /\ \A u \in Thread \ {t} : pc'[u] = pc[u] /\ cand'[u] = cand[u]
  BY <1>1, <1>2 DEF TasksInv, Types
<1>4. \A u \in Thread : pc[u] = "lost" => cand[u] \in Task /\ cand[u] # s
  <2> SUFFICES ASSUME NEW u \in Thread, pc[u] = "lost" PROVE cand[u] \in Task /\ cand[u] # s
    OBVIOUS
  <2>1. cand[u] \in Task /\ from[u] \in {"pending", "typed", "children"}
    BY DEF TasksInv, CandShape, Types, Trying
  <2>2. ~InPending(s) /\ ~InTyped(s) /\ ~InChildren(s)
    BY <1>1, SlotFacts
  <2> QED BY <2>1, <2>2 DEF InPending, InTyped, InChildren, HoldsPending, HoldsTyped, HoldsChild
<1>5. PlaceOf(s)'
  <2>1. HoldsPending(t, s)'
    BY <1>3 DEF HoldsPending
  <2> QED BY <1>3, <2>1 DEF PlaceOf, InPending
<1>6. cand[t] = none /\ none \notin Task
  BY <1>2 DEF TasksAssumption, TasksInv, CandShape, Publishing, Trying
<1>7. \A x \in Task : /\ ~HoldsPending(t, x)
                      /\ Executing(t, x) => Executing(t, x)'
                      /\ ~WillMark(t, x)
  BY <1>2, <1>6 DEF HoldsPending, Executing, OnStack, WillMark, Ending
<1>8. \A u \in Thread : pc[u] = "lost" /\ state'[cand[u]] = "allocated" => state[cand[u]] = "allocated"
  BY <1>3, <1>4
<1>9. \A x \in Task : state'[x] = state[x] \/ PlaceOf(x)'
  BY <1>3, <1>5
<1> QED BY <1>1, <1>2, <1>3, <1>7, <1>8, <1>9, PlacesKept

LEMMA TryGrabPlaces ==
    ASSUME TasksAssumption, TasksInv, Places, NEW t \in Thread, TryGrab(t)
    PROVE  Places'
<1>0. PICK s : s = cand[t]
  OBVIOUS
<1>1. /\ pc[t] = "try_grab" /\ UNCHANGED <<pending, cand, from, stack>> /\ s \in Task
  BY <1>0 DEF TryGrab, queues, TasksInv, CandShape, Trying
<1>2. CASE state[s] = "allocated"
  <2>1. state' = [state EXCEPT ![s] = "grabbed"] /\ pc' = [pc EXCEPT ![t] = "grabbed"]
    BY <1>0, <1>2 DEF TryGrab, Goto
  <2>2. /\ state'[s] = "grabbed" /\ \A x \in Task \ {s} : state'[x] = state[x]
        /\ pc'[t] = "grabbed" /\ cand'[t] = s
    BY <1>0, <1>1, <2>1 DEF TasksInv, Types
  <2>3. \A x \in Task : state'[x] = state[x] \/ PlaceOf(x)'
    <3>1. Executing(t, s)'
      BY <2>2 DEF Executing
    <3> QED BY <2>2, <3>1 DEF PlaceOf
  <2>4. \A u \in Thread : pc[u] = "lost" /\ state'[cand[u]] = "allocated" => state[cand[u]] = "allocated"
    <3> SUFFICES ASSUME NEW u \in Thread, pc[u] = "lost"
                 PROVE  state'[cand[u]] = "allocated" => state[cand[u]] = "allocated"
      OBVIOUS
    <3>1. cand[u] \in Task
      BY DEF TasksInv, CandShape, Trying
    <3> QED BY <2>2, <3>1
  <2>5. \A x \in Task : /\ HoldsPending(t, x) => HoldsPending(t, x)'
                        /\ Executing(t, x) => Executing(t, x)'
                        /\ ~WillMark(t, x)
    BY <1>1 DEF HoldsPending, Executing, OnStack, WillMark, Ending
  <2> QED BY <1>1, <2>1, <2>3, <2>4, <2>5, PlacesKept
<1>3. CASE state[s] # "allocated"
  <2>1. state' = state /\ pc' = [pc EXCEPT ![t] = "lost"]
    BY <1>0, <1>3 DEF TryGrab, Goto
  <2>2. \A x \in Task : /\ HoldsPending(t, x) => HoldsPending(t, x)'
                        /\ Executing(t, x) => Executing(t, x)'
                        /\ ~WillMark(t, x)
    BY <1>1 DEF HoldsPending, Executing, OnStack, WillMark, Ending
  <2>3. state'[cand'[t]] # "allocated"
    BY <1>0, <1>1, <1>3, <2>1
  <2> QED BY <1>1, <2>1, <2>2, <2>3, PlacesKept
<1> QED BY <1>2, <1>3

LEMMA DropPlaces ==
    ASSUME TasksAssumption, TasksInv, Places, NEW t \in Thread, Drop(t)
    PROVE  Places'
<1>0. PICK s : s = cand[t]
  OBVIOUS
<1>1. /\ pc[t] \in {"grabbed", "lost"} /\ Release(s) /\ pending' = pending
      /\ cand' = [cand EXCEPT ![t] = none] /\ from' = [from EXCEPT ![t] = none]
      /\ pc[t] = "grabbed" => stack' = [stack EXCEPT ![t] = Append(stack[t], s)]
      /\ pc[t] = "lost" => stack' = stack
  BY <1>0 DEF Drop, queues
<1>2. PICK l \in {"body", "grab", "children"} :
        pc' = [pc EXCEPT ![t] = l] /\ (l = "body" <=> pc[t] = "grabbed")
  BY DEF Drop, Goto
<1>3. /\ s \in Task /\ from[t] \in {"pending", "typed", "children"}
  BY <1>0, <1>1 DEF TasksAssumption, TasksInv, CandShape, Types, Trying
<1>4. state[s] # "allocated"
  BY <1>0, <1>1 DEF Places, TasksInv, GrabbedTask
<1>5. \A x \in Task : state'[x] = state[x] \/ state'[x] \in {"deallocated", "executed"}
  BY <1>1, <1>3 DEF Release, TasksInv, Types
<1>6. \A u \in Thread \ {t} : stack'[u] = stack[u] /\ cand'[u] = cand[u] /\ from'[u] = from[u]
  BY <1>1 DEF TasksInv, Types
<1>7. \A x \in Task : Executing(t, x) => Executing(t, x)'
  <2>1. CASE pc[t] = "grabbed"
    <3>1. stack'[t] = Append(stack[t], s) /\ stack[t] \in Seq(Slot) /\ s \in Slot
      BY <1>1, <1>3, <2>1 DEF TasksInv, Types
    <3>2. /\ Len(stack[t]) \in Nat /\ Len(stack'[t]) = Len(stack[t]) + 1
          /\ \A i \in 1..Len(stack[t]) : stack'[t][i] = stack[t][i] /\ i \in 1..Len(stack'[t])
          /\ stack'[t][Len(stack[t]) + 1] = s /\ Len(stack[t]) + 1 \in 1..Len(stack'[t])
      BY <3>1
    <3> QED BY <1>0, <3>2 DEF Executing, OnStack
  <2>2. CASE pc[t] = "lost"
    BY <1>1, <2>2 DEF Executing, OnStack
  <2> QED BY <1>1, <2>1, <2>2
<1>8. \A u \in Thread : pc[u] = "lost" /\ state'[cand[u]] = "allocated" => state[cand[u]] = "allocated"
  <2> SUFFICES ASSUME NEW u \in Thread, pc[u] = "lost"
               PROVE  state'[cand[u]] = "allocated" => state[cand[u]] = "allocated"
    OBVIOUS
  <2>1. cand[u] \in Task
    BY DEF TasksInv, CandShape, Trying
  <2> QED BY <1>5, <2>1
<1>9. /\ \A x \in Task : state'[x] = state[x] \/ PlaceOf(x)'
      /\ \A x \in Task : state[x] = "allocated" => ~HoldsPending(t, x)
      /\ \A x \in Task : ~WillMark(t, x)
  BY <1>0, <1>1, <1>4, <1>5 DEF PlaceOf, HoldsPending, WillMark, Ending
<1> QED BY <1>1, <1>2, <1>6, <1>7, <1>8, <1>9, PlacesKept

LEMMA ReturnPlaces ==
    ASSUME TasksAssumption, TasksInv, Places, NEW t \in Thread, Return(t), top(t) # root
    PROVE  Places'
<1>0. PICK s : s = top(t)
  OBVIOUS
<1>1. /\ pc[t] = "body" /\ pc' = [pc EXCEPT ![t] = "ended"]
      /\ state' = [state EXCEPT ![s] = "captured"]
      /\ UNCHANGED <<pending, cand, from, stack>>
  BY <1>0 DEF Return, Goto, queues
<1>2. stack[t] # << >> /\ s \in Task /\ state[s] # "deallocated"
  BY <1>0, <1>1, OwingFacts DEF Trying, InUse
<1>3. /\ state'[s] = "captured" /\ \A x \in Task \ {s} : state'[x] = state[x]
      /\ pc'[t] = "ended" /\ top(t)' = s /\ stack'[t] # << >>
  BY <1>0, <1>1, <1>2 DEF TasksInv, Types, top
<1>4. \A x \in Task : state'[x] = state[x] \/ PlaceOf(x)'
  <2>1. WillMark(t, s)'
    BY <1>3 DEF WillMark, Ending
  <2> QED BY <1>3, <2>1 DEF PlaceOf
<1>5. \A u \in Thread : pc[u] = "lost" /\ state'[cand[u]] = "allocated" => state[cand[u]] = "allocated"
  <2> SUFFICES ASSUME NEW u \in Thread, pc[u] = "lost"
               PROVE  state'[cand[u]] = "allocated" => state[cand[u]] = "allocated"
    OBVIOUS
  <2>1. cand[u] \in Task
    BY DEF TasksInv, CandShape, Trying
  <2> QED BY <1>3, <2>1
<1>6. \A x \in Task : /\ HoldsPending(t, x) => HoldsPending(t, x)'
                      /\ Executing(t, x) => Executing(t, x)'
                      /\ ~WillMark(t, x)
  BY <1>1 DEF HoldsPending, Executing, OnStack, WillMark, Ending
<1> QED BY <1>1, <1>4, <1>5, <1>6, PlacesKept

LEMMA EndPlaces ==
    ASSUME TasksAssumption, TasksInv, Places, NEW t \in Thread,
           MarkExecuted(t) \/ Unlink(t) \/ Finish(t)
    PROVE  Places'
<1>0. PICK s : s = top(t)
  OBVIOUS
<1>1. /\ pc[t] \in {"mark", "unlink", "waited"} /\ UNCHANGED <<pending, cand, from>>
      /\ \/ pc[t] = "mark" /\ state' = [state EXCEPT ![s] = "executed"] /\ stack' = stack
         \/ pc[t] # "mark" /\ stack' = stack
         \/ /\ pc[t] = "unlink"
            /\ stack' = [stack EXCEPT ![t] = SubSeq(stack[t], 1, Len(stack[t]) - 1)]
  BY <1>0 DEF MarkExecuted, Unlink, Finish, queues, threads
<1>2. PICK l \in {"unlink", "waited", "grab", "children", "arm"} : pc' = [pc EXCEPT ![t] = l]
  <2>1. CASE MarkExecuted(t) \/ Finish(t)
    BY <2>1 DEF MarkExecuted, Finish, Goto
  <2>2. CASE Unlink(t)
    <3>1. pc' = pc /\ pc[t] \in {"unlink", "waited"}
      BY <2>2 DEF Unlink, threads
    <3> QED BY <3>1 DEF TasksInv, Types
  <2> QED BY <2>1, <2>2
<1>3. /\ stack[t] # << >> /\ (pc[t] # "waited" => s \in Task)
      /\ Len(stack[t]) \in 1..Len(stack[t]) /\ s = stack[t][Len(stack[t])]
      /\ stack[t] \in Seq(Slot)
  <2>1. stack[t] # << >> /\ (pc[t] # "waited" => top(t) # root)
    BY <1>1 DEF TasksInv, StackShape, Trying, Ending
  <2> QED BY <1>0, <2>1, TopFacts DEF TasksInv, Types
<1>4. /\ pc[t] = "mark" => state[s] = "captured"
      /\ pc[t] = "unlink" => state[s] = "executed"
  BY <1>1, <1>3 DEF TasksAssumption, TasksInv, StackStates, Ending
<1>5. \A x \in Task : state'[x] = state[x] \/ (state'[x] \in {"deallocated", "executed"})
  <2>1. CASE MarkExecuted(t)
    BY <1>0, <2>1 DEF MarkExecuted, TasksInv, Types
  <2>2. CASE Unlink(t) \/ Finish(t)
    <3>1. PICK x : Release(x)
      BY <2>2 DEF Unlink, Finish
    <3> QED BY <3>1 DEF Release, TasksInv, Types
  <2> QED BY <2>1, <2>2
<1>6. \A u \in Thread \ {t} : stack'[u] = stack[u]
  BY <1>1 DEF TasksInv, Types
<1>7. \A x \in Task : state[x] = "grabbed" /\ Executing(t, x) => Executing(t, x)'
  <2> SUFFICES ASSUME NEW x \in Task, state[x] = "grabbed", Executing(t, x)
               PROVE  OnStack(t, x)'
    BY DEF Executing
  <2>1. PICK i \in 1..Len(stack[t]) : stack[t][i] = x
    BY <1>1 DEF Executing, OnStack
  <2>2. CASE stack' = stack
    BY <2>1, <2>2 DEF OnStack
  <2>3. CASE pc[t] = "unlink" /\ stack'[t] = SubSeq(stack[t], 1, Len(stack[t]) - 1)
    <3>1. i # Len(stack[t])
      BY <1>3, <1>4, <2>1, <2>3
    <3>2. /\ Len(stack[t]) \in Nat /\ Len(stack[t]) >= 1
          /\ Len(stack'[t]) = Len(stack[t]) - 1
          /\ \A k \in 1..Len(stack[t]) - 1 : stack'[t][k] = stack[t][k]
      BY <1>3, <2>3
    <3>3. i \in 1..Len(stack[t]) - 1
      BY <3>1, <3>2
    <3> QED BY <2>1, <3>2, <3>3 DEF OnStack
  <2> QED BY <1>1, <2>2, <2>3 DEF TasksInv, Types
<1>8. \A x \in Task : WillMark(t, x) => state'[x] # "captured"
  BY <1>0, <1>1, <1>3, <1>4 DEF WillMark, Ending, TasksInv, Types
<1>9. \A u \in Thread : pc[u] = "lost" /\ state'[cand[u]] = "allocated" => state[cand[u]] = "allocated"
  <2> SUFFICES ASSUME NEW u \in Thread, pc[u] = "lost"
               PROVE  state'[cand[u]] = "allocated" => state[cand[u]] = "allocated"
    OBVIOUS
  <2>1. cand[u] \in Task
    BY DEF TasksInv, CandShape, Trying
  <2> QED BY <1>5, <2>1
<1>10. \A x \in Task : HoldsPending(t, x) => HoldsPending(t, x)'
  BY <1>1 DEF HoldsPending
<1>11. \A x \in Task : state'[x] = state[x] \/ PlaceOf(x)'
  BY <1>5 DEF PlaceOf
<1> QED BY <1>1, <1>2, <1>6, <1>7, <1>8, <1>9, <1>10, <1>11, PlacesKept

LEMMA PlacesNext == ASSUME TasksAssumption, TasksInv, Places, [Next]_vars PROVE Places'
<1>1. CASE UNCHANGED vars
  <2>1. UNCHANGED <<state, pending, cand, from, pc, stack>>
    BY <1>1 DEF vars, memory, queues, threads
  <2> QED BY <2>1 DEF Places, PlaceOf, InPending, HoldsPending, Executing, OnStack, WillMark, top
<1>2. ASSUME NEW t \in Thread, Step(t) PROVE Places'
  BY <1>2, LocalPlaces, PopPlaces, PublishPlaces, SpawnPlaces, TryGrabPlaces, DropPlaces,
     ReturnPlaces, EndPlaces DEF Step
<1> QED BY <1>1, <1>2 DEF Next

LEMMA PlacesInvariant == ASSUME TasksAssumption PROVE Spec => []Places
<1>1. Init => Places
  BY DEF Init, Places, PlaceOf
<1>2. TasksInv /\ Places /\ [Next]_vars => Places'
  BY PlacesNext
<1> QED BY <1>1, <1>2, TasksInvariant, PTL DEF Spec

-----------------------------------------------------------------------------
(* A wakeup that is due is on its way.                                     *)

(* The thread u has subtracted the last child of what t is executing, and  *)
(* is going to set the event of t.                                         *)
Wakes(u, t) ==
    /\ pc[u] \in {"read_counter", "read_event", "set_event"} /\ parent[top(u)] = top(t)
    /\ pc[u] = "set_event" => seen[u] = t

Armed(t) == pc[t] \in {"reset", "recheck", "sleep", "assert"} => event[top(t)] = t

Awaited(t) == pc[t] = "sleep" /\ ~signalled[t] =>
    counter[top(t)] # 0 \/ \E u \in Thread : Wakes(u, t)

Wakeups == \A t \in Thread : Armed(t) /\ Awaited(t)

(* Steps that touch neither the events nor the counters.                   *)
LEMMA WakeupsKept ==
    ASSUME TasksInv, Wakeups, NEW t \in Thread, NEW l,
           UNCHANGED <<parent, counter, event, seen, signalled>>,
           pc' = [pc EXCEPT ![t] = l],
           l \notin {"reset", "recheck", "sleep", "assert"},
           pc[t] \notin {"read_counter", "read_event", "set_event"},
           \A u \in Thread \ {t} : stack'[u] = stack[u]
    PROVE  Wakeups'
<1>1. pc'[t] = l /\ \A u \in Thread \ {t} : pc'[u] = pc[u] /\ top(u)' = top(u)
  BY DEF TasksInv, Types, top
<1>2. ASSUME NEW u \in Thread, u # t PROVE Armed(u)'
  BY <1>1, <1>2 DEF Wakeups, Armed
<1>3. ASSUME NEW u \in Thread, u # t PROVE Awaited(u)'
  <2>1. \A x \in Thread : Wakes(x, u) => Wakes(x, u)'
    BY <1>1, <1>3 DEF Wakes
  <2> QED BY <1>1, <1>3, <2>1 DEF Wakeups, Awaited
<1>4. Armed(t)' /\ Awaited(t)'
  BY <1>1 DEF Armed, Awaited
<1> QED BY <1>2, <1>3, <1>4 DEF Wakeups

LEMMA QuietWakeups ==
    ASSUME TasksAssumption, TasksInv, Wakeups, NEW t \in Thread,
           \/ PushPending(t) \/ PushTyped(t) \/ PopTyped(t) \/ PopPending(t) \/ PopChild(t)
           \/ TryGrab(t) \/ Drop(t) \/ Wait(t) \/ NoChildren(t) \/ Return(t)
           \/ MarkExecuted(t) \/ Unlink(t) \/ Finish(t) \/ GoOn(t)
    PROVE  Wakeups'
<1>1. UNCHANGED <<parent, counter, event, seen, signalled>>
  BY DEF PushPending, PushTyped, PopTyped, PopPending, PopChild, Pop, TryGrab, Drop, Wait,
         NoChildren, Return, MarkExecuted, Unlink, Finish, GoOn, memory, threads
<1>2. PICK l \in {"push_typed", "body", "try_grab", "grabbed", "lost", "grab", "children", "arm",
                  "waited", "over", "ended", "unlink"} :
        /\ pc' = [pc EXCEPT ![t] = l]
        /\ pc[t] \notin {"read_counter", "read_event", "set_event"}
  <2>1. CASE Unlink(t)
    <3>1. pc' = pc /\ pc[t] \in {"waited", "unlink"}
      BY <2>1 DEF Unlink, threads
    <3> QED BY <3>1 DEF TasksInv, Types
  <2>2. CASE ~Unlink(t)
    BY <2>2 DEF PushPending, PushTyped, PopTyped, PopPending, PopChild, Pop, TryGrab, Drop,
           Wait, NoChildren, Return, MarkExecuted, Finish, GoOn, Goto, AfterWait
  <2> QED BY <2>1, <2>2
<1>3. \A u \in Thread \ {t} : stack'[u] = stack[u]
  <2>1. \/ stack' = stack \/ stack' = [stack EXCEPT ![t] = stack'[t]]
    BY DEF PushPending, PushTyped, PopTyped, PopPending, PopChild, Pop, TryGrab, Drop, Wait,
         NoChildren, Return, MarkExecuted, Unlink, Finish, GoOn, threads, TasksInv, Types
  <2> QED BY <2>1 DEF TasksInv, Types
<1> QED BY <1>1, <1>2, <1>3, WakeupsKept

(* A new task is in no stack, and is not the parent of anything on one.    *)
LEMMA SpawnWakeups ==
    ASSUME TasksAssumption, TasksInv, WaitInv, Wakeups, NEW t \in Thread, Spawn(t)
    PROVE  Wakeups'
<1>0. PICK p : p = top(t)
  OBVIOUS
<1>1. PICK s \in Task :
        /\ state[s] = "deallocated"
        /\ parent' = [parent EXCEPT ![s] = p]
        /\ counter' = [counter EXCEPT ![s] = 0, ![p] = @ + 1]
        /\ event' = [event EXCEPT ![s] = none]
  BY <1>0 DEF Spawn
<1>2. /\ pc[t] = "body" /\ pc' = [pc EXCEPT ![t] = "push_pending"]
      /\ UNCHANGED <<stack, seen, signalled>>
  BY DEF Spawn, Goto
<1>3. stack[t] # << >> /\ p \in Slot
  BY <1>0, <1>2, OwingFacts DEF Trying
<1>4. \A u \in Thread : ~OnStack(u, s)
  BY <1>1, SlotFacts DEF Unfinished
<1>5. \A u \in Thread \ {t} : pc[u] \notin {"grab"} \cup Trying =>
        top(u) \in Slot /\ top(u) # p /\ top(u) # s
  BY <1>0, <1>3, <1>4, OwingFacts, TopsDiffer
<1>6. /\ pc'[t] = "push_pending" /\ \A u \in Thread \ {t} : pc'[u] = pc[u]
      /\ \A u \in Thread : top(u)' = top(u)
  BY <1>2 DEF TasksInv, Types, top
<1>7. /\ DOMAIN counter = Slot /\ DOMAIN parent = Task
      /\ \A q \in Slot \ {p, s} : counter'[q] = counter[q] /\ event'[q] = event[q]
      /\ \A q \in Task \ {s} : parent'[q] = parent[q]
  <2>1. DOMAIN counter = Slot /\ DOMAIN parent = Task
    BY DEF WaitInv, WaitTypes
  <2>2. \A q \in Slot \ {p, s} : counter'[q] = counter[q]
    BY <1>1, <2>1
  <2>3. \A q \in Slot \ {p, s} : event'[q] = event[q]
    BY <1>1
  <2> QED BY <1>1, <2>1, <2>2, <2>3
<1>8. ASSUME NEW u \in Thread, u # t PROVE Armed(u)' /\ Awaited(u)'
  <2>1. CASE pc[u] \in {"reset", "recheck", "sleep", "assert"}
    <3>1. top(u) \in Slot \ {p, s}
      BY <1>5, <1>8, <2>1 DEF Trying
    <3>2. Armed(u)'
      BY <1>6, <1>7, <1>8, <3>1 DEF Wakeups, Armed
    <3>3. \A x \in Thread : Wakes(x, u) => Wakes(x, u)'
      <4> SUFFICES ASSUME NEW x \in Thread, Wakes(x, u) PROVE Wakes(x, u)'
        OBVIOUS
      <4>1. pc[x] \in {"read_counter", "read_event", "set_event"} /\ x # t
        BY <1>2 DEF Wakes
      <4>2. top(x) \in Slot \ {s} /\ top(x) # root
        BY <1>5, <4>1 DEF TasksInv, StackShape, Trying, Ending
      <4>3. parent'[top(x)] = parent[top(x)]
        BY <1>7, <4>2
      <4> QED BY <1>2, <1>6, <1>8, <4>1, <4>3 DEF Wakes
    <3>4. counter'[top(u)] = counter[top(u)]
      BY <1>7, <3>1
    <3> QED BY <1>2, <1>6, <1>8, <3>2, <3>3, <3>4 DEF Wakeups, Awaited
  <2>2. CASE pc[u] \notin {"reset", "recheck", "sleep", "assert"}
    BY <1>6, <1>8, <2>2 DEF Armed, Awaited
  <2> QED BY <2>1, <2>2
<1>9. Armed(t)' /\ Awaited(t)'
  BY <1>6 DEF Armed, Awaited
<1> QED BY <1>8, <1>9 DEF Wakeups

(* A parent arms its event before it sleeps, and withdraws it afterwards.  *)
LEMMA ArmingWakeups ==
    ASSUME TasksAssumption, TasksInv, WaitInv, OtherTypes, Wakeups, NEW t \in Thread,
           SetEvent(t) \/ ResetEvent(t) \/ Recheck(t) \/ Sleep(t) \/ WaitEnds(t)
    PROVE  Wakeups'
<1>1. /\ pc[t] \in {"arm", "reset", "recheck", "sleep", "assert"}
      /\ UNCHANGED <<parent, counter, stack, seen>>
  BY DEF SetEvent, ResetEvent, Recheck, Sleep, WaitEnds, memory
<1>2. stack[t] # << >> /\ top(t) \in Slot
  BY <1>1, OwingFacts DEF Trying
<1>3. PICK l : pc' = [pc EXCEPT ![t] = l]
  BY DEF SetEvent, ResetEvent, Recheck, Sleep, WaitEnds, Goto
<1>4. /\ pc'[t] = l /\ \A u \in Thread \ {t} : pc'[u] = pc[u]
      /\ \A u \in Thread : top(u)' = top(u)
  BY <1>1, <1>3 DEF TasksInv, Types, top
<1>5. /\ \A u \in Thread \ {t} : signalled'[u] = signalled[u]
      /\ \A p \in Slot \ {top(t)} : event'[p] = event[p]
  BY DEF SetEvent, ResetEvent, Recheck, Sleep, WaitEnds, memory, OtherTypes
<1>6. \A u, x \in Thread : Wakes(x, u) => Wakes(x, u)'
  BY <1>1, <1>4 DEF Wakes
<1>7. ASSUME NEW u \in Thread, u # t PROVE Armed(u)' /\ Awaited(u)'
  <2>1. pc[u] \in {"reset", "recheck", "sleep", "assert"} => top(u) \in Slot \ {top(t)}
    BY <1>2, <1>7, OwingFacts, TopsDiffer DEF Trying
  <2>2. Armed(u)'
    BY <1>4, <1>5, <1>7, <2>1 DEF Wakeups, Armed
  <2>3. Awaited(u)'
    BY <1>1, <1>4, <1>5, <1>6, <1>7 DEF Wakeups, Awaited
  <2> QED BY <2>2, <2>3
<1>8. Armed(t)'
  <2>1. CASE SetEvent(t)
    BY <1>2, <1>4, <2>1 DEF SetEvent, Armed, OtherTypes
  <2>2. CASE ResetEvent(t) \/ Recheck(t) \/ Sleep(t)
    <3>1. event' = event /\ pc[t] \in {"reset", "recheck", "sleep"}
      BY <2>2 DEF ResetEvent, Recheck, Sleep, memory
    <3> QED BY <1>4, <3>1 DEF Wakeups, Armed
  <2>3. CASE WaitEnds(t)
    <3>1. pc'[t] \in {"waited", "body"}
      BY <2>3 DEF WaitEnds, Goto, AfterWait, TasksInv, Types
    <3> QED BY <3>1 DEF Armed
  <2> QED BY <2>1, <2>2, <2>3
<1>9. Awaited(t)'
  <2>1. CASE Recheck(t)
    BY <1>1, <1>4, <2>1 DEF Recheck, Goto, Awaited, TasksInv, Types
  <2>2. CASE ~Recheck(t)
    <3>1. pc'[t] # "sleep"
      BY <2>2 DEF SetEvent, ResetEvent, Sleep, WaitEnds, Goto, AfterWait, TasksInv, Types
    <3> QED BY <3>1 DEF Awaited
  <2> QED BY <2>1, <2>2
<1> QED BY <1>7, <1>8, <1>9 DEF Wakeups

(* The end of a child: it subtracts itself, reads the counter and then the *)
(* event, and sets the event it has read.                                  *)
LEMMA EndingWakeups ==
    ASSUME TasksAssumption, TasksInv, WaitInv, OtherTypes, Wakeups, NEW t \in Thread,
           ChildEnded(t) \/ ReadCounter(t) \/ ReadEvent(t) \/ SetParentsEvent(t),
           Running'
    PROVE  Wakeups'
<1>1. /\ pc[t] \in {"ended", "read_counter", "read_event", "set_event"}
      /\ UNCHANGED <<parent, event, stack>>
  BY DEF ChildEnded, ReadCounter, ReadEvent, SetParentsEvent, memory
<1>2. PICK l \in {"read_counter", "read_event", "set_event", "mark"} :
        pc' = [pc EXCEPT ![t] = l]
  BY DEF ChildEnded, ReadCounter, ReadEvent, SetParentsEvent, Goto
<1>3. /\ pc'[t] = l /\ \A u \in Thread \ {t} : pc'[u] = pc[u]
      /\ \A u \in Thread : top(u)' = top(u)
  BY <1>1, <1>2 DEF TasksInv, Types, top
<1>4. top(t) \in Task /\ parent[top(t)] \in Slot
  BY <1>1, TopIsKnown DEF Ending
<1>5. \A u \in Thread : Armed(u)'
  BY <1>1, <1>3 DEF Wakeups, Armed
<1>6. ASSUME NEW u \in Thread, pc'[u] = "sleep", ~signalled'[u]
      PROVE  counter'[top(u)] # 0 \/ \E x \in Thread : Wakes(x, u)'
  <2>1. u # t /\ pc[u] = "sleep" /\ top(u) \in Slot /\ event[top(u)] = u
    <3>1. u # t /\ pc[u] = "sleep"
      BY <1>3, <1>6
    <3> QED BY <3>1, OwingFacts DEF Wakeups, Armed, Trying
  <2>2. CASE ChildEnded(t)
    <3>1. /\ counter' = [counter EXCEPT ![parent[top(t)]] = @ - 1] /\ l = "read_counter"
          /\ UNCHANGED <<seen, signalled>> /\ pc[t] = "ended"
      BY <1>1, <1>3, <2>2 DEF ChildEnded, Goto, TasksInv, Types
    <3>2. CASE parent[top(t)] = top(u)
      <4>1. Wakes(t, u)'
        BY <1>1, <1>3, <3>1, <3>2 DEF Wakes
      <4> QED BY <4>1
    <3>3. CASE parent[top(t)] # top(u)
      <4>1. counter'[top(u)] = counter[top(u)]
        BY <1>4, <2>1, <3>1, <3>3 DEF WaitInv, WaitTypes
      <4>2. \A x \in Thread : Wakes(x, u) => Wakes(x, u)'
        BY <1>1, <1>3, <3>1 DEF Wakes
      <4> QED BY <1>6, <2>1, <3>1, <4>1, <4>2 DEF Wakeups, Awaited
    <3> QED BY <3>2, <3>3
  <2>3. CASE ReadCounter(t)
    <3>1. /\ UNCHANGED <<counter, seen, signalled>> /\ pc[t] = "read_counter"
          /\ l = IF counter[parent[top(t)]] = 0 THEN "read_event" ELSE "mark"
      BY <1>1, <1>3, <2>3 DEF ReadCounter, Goto, memory, TasksInv, Types
    <3>2. ASSUME NEW x \in Thread, Wakes(x, u), counter[top(u)] = 0 PROVE Wakes(x, u)'
      BY <1>1, <1>3, <3>1, <3>2 DEF Wakes
    <3> QED BY <1>6, <2>1, <3>1, <3>2, <1>3 DEF Wakeups, Awaited
  <2>4. CASE ReadEvent(t)
    <3>1. /\ UNCHANGED <<counter, signalled>> /\ pc[t] = "read_event"
          /\ seen' = [seen EXCEPT ![t] = event[parent[top(t)]]]
          /\ l = IF event[parent[top(t)]] # none THEN "set_event" ELSE "mark"
      BY <1>1, <1>3, <2>4 DEF ReadEvent, Goto, memory, TasksInv, Types
    <3>2. ASSUME NEW x \in Thread, Wakes(x, u) PROVE Wakes(x, u)'
      <4>1. CASE x # t
        BY <1>1, <1>3, <3>1, <3>2, <4>1 DEF Wakes, OtherTypes
      <4>2. CASE x = t
        <5>1. event[parent[top(t)]] = u /\ u # none
          BY <2>1, <3>2, <4>2 DEF Wakes, TasksAssumption
        <5> QED BY <1>1, <1>3, <3>1, <3>2, <4>2, <5>1 DEF Wakes, OtherTypes
      <4> QED BY <4>1, <4>2
    <3> QED BY <1>3, <1>6, <2>1, <3>1, <3>2 DEF Wakeups, Awaited
  <2>5. CASE SetParentsEvent(t)
    <3>1. PICK e \in {seen[t], event[parent[top(t)]]} :
            IF e = none THEN failed' = "null"
            ELSE signalled' = [signalled EXCEPT ![e] = TRUE]
      BY <2>5 DEF SetParentsEvent
    <3>2. /\ pc[t] = "set_event" /\ counter' = counter /\ l = "mark"
          /\ seen' = [seen EXCEPT ![t] = none]
          /\ e # none /\ signalled' = [signalled EXCEPT ![e] = TRUE]
      BY <1>3, <2>5, <3>1 DEF SetParentsEvent, Goto, memory, TasksInv, Types, Running
    <3>3. ~signalled[u]
      BY <1>6, <3>2 DEF OtherTypes
    <3>4. ASSUME NEW x \in Thread, Wakes(x, u) PROVE Wakes(x, u)'
      <4>1. x # t
        <5> SUFFICES ASSUME x = t PROVE FALSE
          OBVIOUS
        <5>1. e = u
          BY <2>1, <3>1, <3>2, <3>4 DEF Wakes
        <5> QED BY <1>6, <3>2, <5>1 DEF OtherTypes
      <4> QED BY <1>1, <1>3, <3>2, <3>4, <4>1 DEF Wakes, OtherTypes
    <3> QED BY <1>3, <2>1, <3>2, <3>3, <3>4 DEF Wakeups, Awaited
  <2> QED BY <2>2, <2>3, <2>4, <2>5
<1>7. ASSUME NEW u \in Thread PROVE Awaited(u)'
  <2>1. top(u)' = top(u)
    BY <1>3
  <2> QED BY <1>6, <2>1 DEF Awaited
<1> QED BY <1>5, <1>7 DEF Wakeups

LEMMA WakeupsNext ==
    ASSUME TasksAssumption, TasksInv, WaitInv, OtherTypes, Wakeups, [Next]_vars, Running'
    PROVE  Wakeups'
<1>1. CASE UNCHANGED vars
  <2>1. UNCHANGED <<parent, counter, event, seen, signalled, pc, stack>>
    BY <1>1 DEF vars, memory, threads
  <2> QED BY <2>1 DEF Wakeups, Armed, Awaited, Wakes, top
<1>2. ASSUME NEW t \in Thread, Step(t) PROVE Wakeups'
  BY <1>2, QuietWakeups, SpawnWakeups, ArmingWakeups, EndingWakeups DEF Step
<1> QED BY <1>1, <1>2 DEF Next

-----------------------------------------------------------------------------
(* Nobody is his own ancestor: there are ages such that a child is younger *)
(* than its parent, and that every task on a stack is younger than those   *)
(* below it.  A parent is not freed before its children are subtracted, so *)
(* a slot that is used again starts with an age of its own.                *)

(* What a thread takes while it executes a task is a child of that task.   *)
TakesChildren == \A t \in Thread :
    pc[t] \in Trying /\ stack[t] # << >> => parent[cand[t]] = top(t)

AgesAre(age, m) ==
    /\ age \in [Slot -> Int] /\ m \in Int /\ \A p \in Slot : m <= age[p]
    /\ \A s \in Task : Owes(s) => age[s] < age[parent[s]]
    /\ \A t \in Thread : \A i, k \in 1..Len(stack[t]) :
          i < k => age[stack[t][k]] < age[stack[t][i]]

Ages == TakesChildren /\ \E age, m : AgesAre(age, m)

LEMMA AgesKept ==
    ASSUME Ages, TakesChildren', parent' = parent, \A s \in Task : Owes(s)' => Owes(s),
           \A u \in Thread : \/ stack'[u] = stack[u]
                             \/ /\ Len(stack'[u]) \in Nat /\ Len(stack[u]) \in Nat
                                /\ Len(stack'[u]) <= Len(stack[u])
                                /\ \A i \in 1..Len(stack'[u]) : stack'[u][i] = stack[u][i]
    PROVE  Ages'
<1>1. PICK age, m : AgesAre(age, m)
  BY DEF Ages
<1>2. ASSUME NEW u \in Thread, NEW i \in 1..Len(stack'[u]), NEW k \in 1..Len(stack'[u]), i < k
      PROVE  age[stack'[u][k]] < age[stack'[u][i]]
  <2>1. CASE stack'[u] = stack[u]
    BY <1>1, <1>2, <2>1 DEF AgesAre
  <2>2. CASE stack'[u] # stack[u]
    <3>1. /\ i \in 1..Len(stack[u]) /\ k \in 1..Len(stack[u])
          /\ stack'[u][i] = stack[u][i] /\ stack'[u][k] = stack[u][k]
      BY <2>2
    <3> QED BY <1>1, <1>2, <3>1 DEF AgesAre
  <2> QED BY <2>1, <2>2
<1>3. AgesAre(age, m)'
  BY <1>1, <1>2 DEF AgesAre
<1> QED BY <1>3 DEF Ages

(* Steps that keep the stacks, and do not make a thread take a task.       *)
LEMMA QuietAges ==
    ASSUME TasksAssumption, TasksInv, Ages, NEW t \in Thread,
           \/ PushPending(t) \/ PushTyped(t) \/ TryGrab(t) \/ Wait(t) \/ NoChildren(t)
           \/ SetEvent(t) \/ ResetEvent(t) \/ Recheck(t) \/ Sleep(t) \/ WaitEnds(t)
           \/ Return(t) \/ ChildEnded(t) \/ ReadCounter(t) \/ ReadEvent(t)
           \/ SetParentsEvent(t) \/ MarkExecuted(t) \/ Unlink(t) \/ GoOn(t)
    PROVE  Ages'
<1>1. UNCHANGED <<parent, stack>>
  BY DEF PushPending, PushTyped, TryGrab, Wait, NoChildren, SetEvent, ResetEvent, Recheck,
         Sleep, WaitEnds, Return, ChildEnded, ReadCounter, ReadEvent, SetParentsEvent,
         MarkExecuted, Unlink, GoOn, memory, threads
<1>2. /\ \A u \in Thread \ {t} : pc'[u] = pc[u] /\ cand'[u] = cand[u]
      /\ pc'[t] \in Trying => pc[t] \in Trying /\ cand'[t] = cand[t]
  <2>1. CASE PushPending(t) \/ PushTyped(t)
    BY <2>1 DEF PushPending, PushTyped, Goto, Trying, TasksInv, Types
  <2>2. CASE TryGrab(t)
    BY <2>2 DEF TryGrab, Goto, Trying, TasksInv, Types
  <2>3. CASE Unlink(t)
    BY <2>3 DEF Unlink, threads
  <2>4. CASE ~(PushPending(t) \/ PushTyped(t) \/ TryGrab(t) \/ Unlink(t))
    BY <2>4 DEF Wait, NoChildren, SetEvent, ResetEvent, Recheck, Sleep, WaitEnds, Return,
           ChildEnded, ReadCounter, ReadEvent, SetParentsEvent, MarkExecuted, GoOn,
           Goto, AfterWait, Trying, TasksInv, Types
  <2> QED BY <2>1, <2>2, <2>3, <2>4
<1>3. TakesChildren'
  <2> SUFFICES ASSUME NEW u \in Thread, pc'[u] \in Trying, stack[u] # << >>
               PROVE  parent[cand'[u]] = top(u)
    BY <1>1 DEF TakesChildren, top
  <2>1. pc[u] \in Trying /\ cand'[u] = cand[u]
    BY <1>2
  <2> QED BY <2>1 DEF Ages, TakesChildren
<1>4. ASSUME NEW s \in Task, Owes(s)' PROVE Owes(s)
  <2>1. CASE Undone(s)'
    <3>1. CASE TryGrab(t)
      BY <2>1, <3>1 DEF TryGrab, Undone, Owes, TasksInv, Types
    <3>2. CASE MarkExecuted(t) \/ Return(t)
      BY <2>1, <3>2 DEF MarkExecuted, Return, Undone, Owes, TasksInv, Types
    <3>3. CASE Unlink(t)
      <4>1. PICK x : Release(x)
        BY <3>3 DEF Unlink
      <4> QED BY <2>1, <4>1 DEF Release, Undone, Owes, TasksInv, Types
    <3>4. CASE ~(TryGrab(t) \/ MarkExecuted(t) \/ Return(t) \/ Unlink(t))
      <4>1. state' = state
        BY <3>4 DEF PushPending, PushTyped, Wait, NoChildren, SetEvent, ResetEvent, Recheck,
           Sleep, WaitEnds, ChildEnded, ReadCounter, ReadEvent, SetParentsEvent, GoOn, memory
      <4> QED BY <2>1, <4>1 DEF Undone, Owes
    <3> QED BY <3>1, <3>2, <3>3, <3>4
  <2>2. ASSUME NEW u \in Thread, pc'[u] = "ended", top(u)' = s PROVE Owes(s)
    <3>1. top(u) = s
      BY <1>1, <2>2 DEF top
    <3>2. CASE pc[u] = "ended"
      BY <3>1, <3>2 DEF Owes
    <3>3. CASE pc[u] # "ended"
      <4>1. Return(t) /\ u = t
        BY <2>2, <3>3 DEF PushPending, PushTyped, TryGrab, Wait, NoChildren, SetEvent,
           ResetEvent, Recheck, Sleep, WaitEnds, Return, ChildEnded, ReadCounter, ReadEvent,
           SetParentsEvent, MarkExecuted, Unlink, GoOn, threads, Goto, AfterWait, TasksInv, Types
      <4>2. /\ pc[t] = "body" /\ stack[t] # << >>
            /\ Len(stack[t]) \in 1..Len(stack[t]) /\ s = stack[t][Len(stack[t])]
        <5>1. pc[t] = "body" /\ stack[t] # << >>
          BY <4>1, OwingFacts DEF Return, Trying
        <5> QED BY <3>1, <4>1, <5>1, TopFacts
      <4>3. state[s] = "grabbed"
        BY <4>2 DEF TasksAssumption, TasksInv, StackStates, Ending
      <4> QED BY <4>3 DEF Owes, Undone
    <3> QED BY <3>2, <3>3
  <2> QED BY <1>4, <2>1, <2>2 DEF Owes
<1> QED BY <1>1, <1>3, <1>4, AgesKept

LEMMA PopAges ==
    ASSUME TasksAssumption, TasksInv, WaitInv, Ages, NEW t \in Thread,
           PopTyped(t) \/ PopPending(t) \/ PopChild(t)
    PROVE  Ages'
<1>1. PICK s : /\ UNCHANGED <<state, parent, stack>>
               /\ pc' = [pc EXCEPT ![t] = "try_grab"] /\ cand' = [cand EXCEPT ![t] = s]
               /\ pc[t] = "grab" \/ (pc[t] = "children" /\ s \in children[top(t)])
  BY DEF PopTyped, PopPending, PopChild, Pop, Goto
<1>2. /\ \A u \in Thread \ {t} : pc'[u] = pc[u] /\ cand'[u] = cand[u]
      /\ pc'[t] = "try_grab" /\ cand'[t] = s /\ \A u \in Thread : top(u)' = top(u)
  BY <1>1 DEF TasksInv, Types, top
<1>3. stack[t] # << >> => parent[s] = top(t)
  <2>1. CASE pc[t] = "grab"
    BY <2>1 DEF TasksInv, StackShape
  <2>2. CASE pc[t] = "children" /\ s \in children[top(t)]
    <3>1. top(t) \in Slot
      BY <2>2, OwingFacts DEF Trying
    <3> QED BY <2>2, <3>1 DEF WaitInv, ChildrenKnowParent
  <2> QED BY <1>1, <2>1, <2>2
<1>4. TakesChildren'
  <2> SUFFICES ASSUME NEW u \in Thread, pc'[u] \in Trying, stack[u] # << >>
               PROVE  parent[cand'[u]] = top(u)
    BY <1>1, <1>2 DEF TakesChildren
  <2> QED BY <1>2, <1>3 DEF Ages, TakesChildren
<1>5. \A x \in Task : Owes(x)' => Owes(x)
  BY <1>1, <1>2 DEF Owes, Undone
<1> QED BY <1>1, <1>4, <1>5, AgesKept

(* A task that is executed on top of another one is younger.               *)
LEMMA DropAges ==
    ASSUME TasksAssumption, TasksInv, WaitInv, Ages, NEW t \in Thread, Drop(t)
    PROVE  Ages'
<1>0. PICK s : s = cand[t]
  OBVIOUS
<1>1. /\ pc[t] \in {"grabbed", "lost"} /\ Release(s) /\ parent' = parent
      /\ cand' = [cand EXCEPT ![t] = none]
      /\ pc[t] = "grabbed" => stack' = [stack EXCEPT ![t] = Append(stack[t], s)]
      /\ pc[t] = "lost" => stack' = stack
  BY <1>0 DEF Drop
<1>2. PICK l \in {"body", "grab", "children"} : pc' = [pc EXCEPT ![t] = l]
  BY DEF Drop, Goto
<1>3. /\ pc'[t] = l /\ \A u \in Thread \ {t} : pc'[u] = pc[u] /\ cand'[u] = cand[u]
      /\ \A u \in Thread \ {t} : stack'[u] = stack[u] /\ top(u)' = top(u)
  BY <1>1, <1>2 DEF TasksInv, Types, top
<1>4. s \in Task
  BY <1>0, <1>1 DEF TasksInv, CandShape, Trying
<1>5. TakesChildren'
  <2> SUFFICES ASSUME NEW u \in Thread, pc'[u] \in Trying, stack'[u] # << >>
               PROVE  parent[cand'[u]] = top(u)'
    BY <1>1 DEF TakesChildren
  <2>1. u # t
    BY <1>3 DEF Trying
  <2> QED BY <1>3, <2>1 DEF Ages, TakesChildren
<1>6. \A x \in Task : Owes(x)' => Owes(x)
  <2>1. \A x \in Task : Undone(x)' => Undone(x)
    BY <1>1, <1>4 DEF Release, Undone, TasksInv, Types
  <2>2. \A u \in Thread : pc'[u] = "ended" => pc[u] = "ended" /\ top(u)' = top(u)
    BY <1>3
  <2> QED BY <2>1, <2>2 DEF Owes
<1>7. CASE pc[t] = "lost"
  BY <1>1, <1>5, <1>6, <1>7, AgesKept
<1>8. CASE pc[t] = "grabbed"
  <2>1. PICK age, m : AgesAre(age, m)
    BY DEF Ages
  <2>2. /\ stack[t] \in Seq(Slot) /\ Len(stack[t]) \in Nat /\ stack'[t] = Append(stack[t], s)
        /\ Len(stack'[t]) = Len(stack[t]) + 1 /\ stack'[t][Len(stack[t]) + 1] = s
        /\ \A i \in 1..Len(stack[t]) : stack'[t][i] = stack[t][i] /\ stack[t][i] \in Slot
    <3>1. stack[t] \in Seq(Slot) /\ stack'[t] = Append(stack[t], s) /\ s \in Slot
      BY <1>1, <1>4, <1>8 DEF TasksInv, Types
    <3> QED BY <3>1
  <2>3. Owes(s)
    BY <1>0, <1>8 DEF TasksInv, GrabbedTask, Owes, Undone
  <2>4. ASSUME NEW i \in 1..Len(stack[t]) PROVE age[s] < age[stack[t][i]]
    <3>1. stack[t] # << >>
      BY <2>4
    <3>2. parent[s] = top(t) /\ top(t) = stack[t][Len(stack[t])] /\ top(t) \in Slot
      BY <1>0, <1>8, <3>1, TopFacts DEF Ages, TakesChildren, Trying
    <3>3. age[s] < age[top(t)] /\ age[s] \in Int /\ age[top(t)] \in Int /\ age[stack[t][i]] \in Int
      BY <1>4, <2>1, <2>2, <2>3, <3>2 DEF AgesAre
    <3>4. CASE i = Len(stack[t])
      BY <3>2, <3>3, <3>4
    <3>5. CASE i # Len(stack[t])
      <4>1. i < Len(stack[t]) /\ Len(stack[t]) \in 1..Len(stack[t])
        BY <2>2, <3>5
      <4>2. age[stack[t][Len(stack[t])]] < age[stack[t][i]]
        BY <2>1, <4>1 DEF AgesAre
      <4> QED BY <3>2, <3>3, <4>2
    <3> QED BY <3>4, <3>5
  <2>5. ASSUME NEW i \in 1..Len(stack'[t]), NEW k \in 1..Len(stack'[t]), i < k
        PROVE  age[stack'[t][k]] < age[stack'[t][i]]
    <3>1. i \in 1..Len(stack[t])
      BY <2>2, <2>5
    <3>2. CASE k = Len(stack[t]) + 1
      BY <2>2, <2>4, <3>1, <3>2
    <3>3. CASE k # Len(stack[t]) + 1
      <4>1. k \in 1..Len(stack[t])
        BY <2>2, <3>3
      <4> QED BY <2>1, <2>2, <2>5, <3>1, <4>1 DEF AgesAre
    <3> QED BY <3>2, <3>3
  <2>6. AgesAre(age, m)'
    <3>1. \A x \in Task : Owes(x)' => age[x] < age[parent'[x]]
      BY <1>1, <1>6, <2>1 DEF AgesAre
    <3>2. \A u \in Thread : \A i, k \in 1..Len(stack'[u]) :
            i < k => age[stack'[u][k]] < age[stack'[u][i]]
      BY <1>3, <2>1, <2>5 DEF AgesAre
    <3> QED BY <2>1, <3>1, <3>2 DEF AgesAre
  <2> QED BY <1>5, <2>6 DEF Ages
<1> QED BY <1>1, <1>7, <1>8

LEMMA FinishAges ==
    ASSUME TasksAssumption, TasksInv, Ages, NEW t \in Thread, Finish(t)
    PROVE  Ages'
<1>1. /\ pc[t] = "unlink" /\ Release(top(t)) /\ parent' = parent /\ cand' = cand
      /\ stack' = [stack EXCEPT ![t] = SubSeq(stack[t], 1, Len(stack[t]) - 1)]
  BY DEF Finish
<1>2. PICK l \in {"grab", "children", "arm"} : pc' = [pc EXCEPT ![t] = l]
  BY DEF Finish, Goto
<1>3. /\ pc'[t] = l /\ \A u \in Thread \ {t} : pc'[u] = pc[u]
      /\ \A u \in Thread \ {t} : stack'[u] = stack[u] /\ top(u)' = top(u)
      /\ stack'[t] = SubSeq(stack[t], 1, Len(stack[t]) - 1)
  BY <1>1, <1>2 DEF TasksInv, Types, top
<1>4. stack[t] # << >> /\ stack[t] \in Seq(Slot) /\ top(t) \in Task
  <2>1. stack[t] # << >> /\ top(t) # root
    BY <1>1 DEF TasksInv, StackShape, Trying
  <2> QED BY <2>1, TopFacts DEF TasksInv, Types
<1>5. TakesChildren'
  <2> SUFFICES ASSUME NEW u \in Thread, pc'[u] \in Trying, stack'[u] # << >>
               PROVE  parent[cand[u]] = top(u)'
    BY <1>1 DEF TakesChildren
  <2> QED BY <1>3 DEF Ages, TakesChildren, Trying
<1>6. \A x \in Task : Owes(x)' => Owes(x)
  <2>1. \A x \in Task : Undone(x)' => Undone(x)
    BY <1>1, <1>4 DEF Release, Undone, TasksInv, Types
  <2>2. \A u \in Thread : pc'[u] = "ended" => pc[u] = "ended" /\ top(u)' = top(u)
    BY <1>3
  <2> QED BY <2>1, <2>2 DEF Owes
<1>7. /\ Len(stack'[t]) \in Nat /\ Len(stack[t]) \in Nat /\ Len(stack'[t]) <= Len(stack[t])
      /\ \A i \in 1..Len(stack'[t]) : stack'[t][i] = stack[t][i]
  <2>1. Len(stack[t]) \in Nat /\ Len(stack[t]) >= 1
    BY <1>4
  <2>2. /\ Len(stack'[t]) = Len(stack[t]) - 1
        /\ \A i \in 1..Len(stack[t]) - 1 : stack'[t][i] = stack[t][i]
    BY <1>3, <1>4, <2>1
  <2> QED BY <2>1, <2>2
<1> QED BY <1>1, <1>3, <1>5, <1>6, <1>7, AgesKept

(* A new task is the youngest.                                             *)
LEMMA SpawnAges ==
    ASSUME TasksAssumption, TasksInv, WaitInv, Ages, NEW t \in Thread, Spawn(t)
    PROVE  Ages'
<1>0. PICK p : p = top(t)
  OBVIOUS
<1>1. PICK s \in Task :
        /\ state[s] = "deallocated" /\ state' = [state EXCEPT ![s] = "allocated"]
        /\ parent' = [parent EXCEPT ![s] = p] /\ cand' = [cand EXCEPT ![t] = s]
  BY <1>0 DEF Spawn
<1>2. /\ pc[t] = "body" /\ pc' = [pc EXCEPT ![t] = "push_pending"] /\ stack' = stack
  BY DEF Spawn, Goto
<1>3. stack[t] # << >> /\ p \in Slot /\ OnStack(t, p)
  BY <1>0, <1>2, OwingFacts DEF Trying
<1>4. \A u \in Thread : ~OnStack(u, s)
  BY <1>1, SlotFacts DEF Unfinished
<1>5. /\ pc'[t] = "push_pending" /\ cand'[t] = s
      /\ \A u \in Thread \ {t} : pc'[u] = pc[u] /\ cand'[u] = cand[u]
      /\ \A u \in Thread : top(u)' = top(u)
      /\ \A x \in Task \ {s} : state'[x] = state[x] /\ parent'[x] = parent[x]
      /\ parent'[s] = p
  BY <1>1, <1>2 DEF TasksInv, Types, top, WaitInv, WaitTypes
<1>6. TakesChildren'
  <2> SUFFICES ASSUME NEW u \in Thread, pc'[u] \in Trying, stack[u] # << >>
               PROVE  parent'[cand'[u]] = top(u)
    BY <1>2, <1>5 DEF TakesChildren
  <2>1. u # t /\ pc[u] \in Trying
    BY <1>5 DEF Trying
  <2>2. cand[u] \in Task /\ from[u] \in {"pending", "typed", "children"}
    BY <2>1 DEF TasksInv, CandShape, Types
  <2>3. ~InPending(s) /\ ~InTyped(s) /\ ~InChildren(s)
    BY <1>1, SlotFacts
  <2>4. cand[u] # s
    BY <2>2, <2>3 DEF InPending, InTyped, InChildren, HoldsPending, HoldsTyped, HoldsChild
  <2> QED BY <1>5, <2>1, <2>2, <2>4 DEF Ages, TakesChildren
<1>7. PICK age, m : AgesAre(age, m)
  BY DEF Ages
<1> DEFINE new == [age EXCEPT ![s] = m - 1]
<1>8. /\ new \in [Slot -> Int] /\ m - 1 \in Int /\ new[s] = m - 1
      /\ \A q \in Slot \ {s} : new[q] = age[q] /\ m <= age[q] /\ age[q] \in Int
  BY <1>7 DEF AgesAre
<1> HIDE DEF new
<1>9. \A q \in Slot : m - 1 <= new[q]
  <2> SUFFICES ASSUME NEW q \in Slot PROVE m - 1 <= new[q]
    OBVIOUS
  <2>1. m \in Int
    BY <1>7 DEF AgesAre
  <2> QED BY <1>8, <2>1
<1>10. \A x \in Task \ {s} : Owes(x)' => Owes(x) /\ parent[x] \in Slot \ {s}
  <2> SUFFICES ASSUME NEW x \in Task \ {s}, Owes(x)' PROVE Owes(x) /\ parent[x] \in Slot \ {s}
    OBVIOUS
  <2>1. Owes(x)
    <3>1. \A u \in Thread : pc'[u] = "ended" => pc[u] = "ended" /\ top(u)' = top(u)
      BY <1>5
    <3> QED BY <1>5, <3>1 DEF Owes, Undone
  <2> QED BY <1>4, <2>1 DEF WaitInv, ParentsStay
<1>11. p # s
  BY <1>3, <1>4
<1>12. ASSUME NEW x \in Task, Owes(x)' PROVE new[x] < new[parent'[x]]
  <2>1. CASE x = s
    <3>1. m \in Int /\ new[p] = age[p] /\ m <= age[p] /\ age[p] \in Int
      BY <1>3, <1>7, <1>8, <1>11 DEF AgesAre
    <3> QED BY <1>5, <1>8, <2>1, <3>1
  <2>2. CASE x # s
    <3>1. Owes(x) /\ parent[x] \in Slot \ {s} /\ parent'[x] = parent[x]
      BY <1>5, <1>10, <1>12, <2>2
    <3>2. age[x] < age[parent[x]]
      BY <1>7, <3>1 DEF AgesAre
    <3> QED BY <1>8, <2>2, <3>1, <3>2
  <2> QED BY <2>1, <2>2
<1>13. ASSUME NEW u \in Thread, NEW i \in 1..Len(stack[u]), NEW k \in 1..Len(stack[u]), i < k
       PROVE  new[stack[u][k]] < new[stack[u][i]]
  <2>1. stack[u][i] \in Slot \ {s} /\ stack[u][k] \in Slot \ {s}
    <3>1. stack[u] \in Seq(Slot)
      BY DEF TasksInv, Types
    <3> QED BY <1>4, <3>1 DEF OnStack
  <2>2. age[stack[u][k]] < age[stack[u][i]]
    BY <1>7, <1>13 DEF AgesAre
  <2> QED BY <1>8, <2>1, <2>2
<1>14. AgesAre(new, m - 1)'
  BY <1>2, <1>8, <1>9, <1>12, <1>13 DEF AgesAre
<1> QED BY <1>6, <1>14 DEF Ages

LEMMA AgesNext ==
    ASSUME TasksAssumption, TasksInv, WaitInv, Ages, [Next]_vars PROVE Ages'
<1>1. CASE UNCHANGED vars
  <2>1. UNCHANGED <<state, parent, pc, stack, cand>>
    BY <1>1 DEF vars, memory, threads
  <2>2. TakesChildren' /\ \A s \in Task : Owes(s)' => Owes(s)
    BY <2>1 DEF Ages, TakesChildren, Owes, Undone, top
  <2> QED BY <2>1, <2>2, AgesKept
<1>2. ASSUME NEW t \in Thread, Step(t) PROVE Ages'
  BY <1>2, QuietAges, PopAges, DropAges, FinishAges, SpawnAges DEF Step
<1> QED BY <1>1, <1>2 DEF Next

LEMMA InitAges == ASSUME TasksAssumption, Init PROVE Ages
<1>1. TakesChildren
  BY DEF Init, TakesChildren, Trying
<1>2. \A s \in Task : ~Owes(s)
  BY DEF Init, Undone, Owes
<1>3. \A t \in Thread : Len(stack[t]) \in {0, 1}
  <2> SUFFICES ASSUME NEW t \in Thread PROVE Len(stack[t]) \in {0, 1}
    OBVIOUS
  <2>1. stack[t] = IF t = user THEN <<root>> ELSE << >>
    BY DEF Init
  <2>2. Len(<<root>>) = 1 /\ Len(<< >>) = 0
    OBVIOUS
  <2>3. CASE t = user
    BY <2>1, <2>2, <2>3
  <2>4. CASE t # user
    BY <2>1, <2>2, <2>4
  <2> QED BY <2>3, <2>4
<1>4. \A t \in Thread : \A i, k \in 1..Len(stack[t]) : ~(i < k)
  <2> SUFFICES ASSUME NEW t \in Thread, NEW i \in 1..Len(stack[t]), NEW k \in 1..Len(stack[t])
               PROVE  ~(i < k)
    OBVIOUS
  <2>1. CASE Len(stack[t]) = 0
    BY <2>1
  <2>2. CASE Len(stack[t]) = 1
    <3>1. i = 1 /\ k = 1
      BY <2>2
    <3> QED BY <3>1
  <2> QED BY <1>3, <2>1, <2>2
<1>5. AgesAre([p \in Slot |-> 0], 0)
  BY <1>2, <1>4 DEF AgesAre
<1> QED BY <1>1, <1>5 DEF Ages

LEMMA WakeInvariant == ASSUME TasksAssumption PROVE Spec => [](Running => Wakeups /\ Ages)
<1>1. Init => (Running => Wakeups /\ Ages)
  <2> SUFFICES ASSUME Init PROVE Wakeups /\ Ages
    OBVIOUS
  <2>1. \A t \in Thread : pc[t] \in {"body", "grab"}
    BY DEF Init
  <2> QED BY <2>1, InitAges DEF Wakeups, Armed, Awaited
<1>2. TasksInv /\ (Running => WaitInv) /\ OtherTypes /\ (Running => Wakeups /\ Ages)
        /\ [Next]_vars
      => (Running => Wakeups /\ Ages)'
  <2> SUFFICES ASSUME TasksInv, Running => WaitInv, OtherTypes, Running => Wakeups /\ Ages,
                      [Next]_vars, Running'
               PROVE  Wakeups' /\ Ages'
    OBVIOUS
  <2>1. Running
    BY DEF Next, Running, vars
  <2> QED BY <2>1, WakeupsNext, AgesNext
<1> QED BY <1>1, <1>2, TasksInvariant, WaitInvariant, TypesInvariant, PTL DEF Spec

-----------------------------------------------------------------------------
(* A blocked thread is served by a thread that executes a younger task.    *)

LEMMA BlockedIsServed ==
    ASSUME TasksAssumption, TasksInv, WaitInv, Places, Wakeups,
           NEW age, NEW m, AgesAre(age, m), NEW t \in Thread, Blocked(t)
    PROVE  \/ HasChildToGrab(t)
           \/ \E u \in Thread :
                 /\ Serves(u, t)
                 /\ Blocked(u) => top(u) \in Slot /\ age[top(u)] < age[top(t)]
<1>1. top(t) \in Slot
  BY OwingFacts DEF Blocked, Trying
<1>2. ASSUME NEW u \in Thread, pc[u] \in Ending PROVE ~Blocked(u)
  BY <1>2 DEF Blocked, Ending
<1>3. CASE pc[t] = "sleep"
  <2>1. CASE counter[top(t)] # 0
    <3>1. Owing(top(t)) # {}
      BY <1>1, <2>1, FS_EmptySet DEF WaitInv, CounterIsExact
    <3>2. PICK s \in Task : parent[s] = top(t) /\ Owes(s)
      BY <3>1 DEF Owing
    <3>3. CASE state[s] = "allocated"
      BY <3>2, <3>3 DEF Places, PlaceOf, HasChildToGrab
    <3>4. CASE state[s] = "grabbed"
      <4>1. PICK u \in Thread : Executing(u, s)
        BY <3>4 DEF Places, PlaceOf
      <4>2. Serves(u, t)
        BY <1>3, <3>2, <3>4, <4>1 DEF Executing, WillWake, Serves
      <4>3. ASSUME Blocked(u) PROVE top(u) \in Slot /\ age[top(u)] < age[top(t)]
        <5>1. OnStack(u, s) /\ stack[u] # << >>
          BY <4>1, <4>3, OwingFacts DEF Executing, Blocked, Trying
        <5>2. PICK i \in 1..Len(stack[u]) : stack[u][i] = s
          BY <5>1 DEF OnStack
        <5>3. /\ Len(stack[u]) \in Nat /\ top(u) = stack[u][Len(stack[u])] /\ top(u) \in Slot
              /\ Len(stack[u]) \in 1..Len(stack[u])
          BY <5>1, TopFacts
        <5>4. age[s] < age[top(t)] /\ age[s] \in Int /\ age[top(t)] \in Int /\ age[top(u)] \in Int
          BY <1>1, <3>2, <5>3 DEF AgesAre
        <5>5. CASE i = Len(stack[u])
          BY <5>2, <5>3, <5>4, <5>5
        <5>6. CASE i # Len(stack[u])
          <6>1. i < Len(stack[u])
            BY <5>3, <5>6
          <6>2. age[stack[u][Len(stack[u])]] < age[stack[u][i]]
            BY <5>3, <6>1 DEF AgesAre
          <6> QED BY <5>2, <5>3, <5>4, <6>2
        <5> QED BY <5>5, <5>6
      <4> QED BY <4>2, <4>3
    <3>5. ASSUME NEW u \in Thread, pc[u] = "ended", top(u) = s
          PROVE  Serves(u, t) /\ ~Blocked(u)
      <4>1. stack[u] # << >>
        BY <3>5 DEF TasksInv, StackShape, Trying
      <4> QED BY <1>2, <1>3, <3>2, <3>5, <4>1 DEF Serves, WillWake, Ending
    <3> QED BY <3>2, <3>3, <3>4, <3>5 DEF Owes, Undone
  <2>2. CASE counter[top(t)] = 0
    <3>1. PICK u \in Thread : Wakes(u, t)
      BY <1>3, <2>2 DEF Blocked, Wakeups, Awaited
    <3>2. pc[u] \in Ending
      BY <3>1 DEF Wakes, Ending
    <3>3. stack[u] # << >> /\ top(u) \in Task
      <4>1. stack[u] # << >> /\ top(u) # root
        BY <3>2 DEF TasksInv, StackShape, Trying, Ending
      <4> QED BY <4>1, TopFacts
    <3>4. Serves(u, t)
      BY <1>3, <2>2, <3>1, <3>3 DEF Wakes, Serves, WillWake
    <3> QED BY <1>2, <3>2, <3>4
  <2> QED BY <2>1, <2>2
<1>4. CASE pc[t] # "sleep"
  <2>1. /\ pc[t] \in {"waited", "unlink"} /\ children[top(t)] # {}
        /\ \A s \in children[top(t)] : state[s] # "executed"
    BY <1>4 DEF Blocked
  <2>2. PICK s : s \in children[top(t)]
    BY <2>1
  <2>3. s \in Task /\ parent[s] = top(t)
    BY <1>1, <2>2 DEF WaitInv, ChildrenKnowParent, TasksInv, Types
  <2>4. ~Undone(s) /\ state[s] # "deallocated"
    BY <1>1, <2>1, <2>2, <2>3, SlotFacts DEF WaitInv, Waited, WaitedAt, Owing, Owes, InChildren
  <2>5. state[s] = "captured"
    BY <2>1, <2>2, <2>3, <2>4 DEF Undone, TasksInv, Types
  <2>6. PICK u \in Thread : WillMark(u, s)
    BY <2>3, <2>5 DEF Places, PlaceOf
  <2>7. Serves(u, t) /\ ~Blocked(u)
    BY <1>2, <1>4, <2>2, <2>3, <2>6 DEF Serves, WillMark
  <2> QED BY <2>7
<1> QED BY <1>3, <1>4

(* Of the threads of a group that are blocked, the one that executes the   *)
(* youngest task can be served only from outside.                          *)
THEOREM NoCircle == ASSUME TasksAssumption PROVE Spec => []NobodyWaitsInACircle
<1>1. TasksInv /\ (Running => WaitInv) /\ Places /\ (Running => Wakeups /\ Ages)
      => NobodyWaitsInACircle
  <2> SUFFICES ASSUME TasksInv, WaitInv, Places, Wakeups, Ages,
                      NEW W \in SUBSET {t \in Thread : Blocked(t)}, W # {}
               PROVE  \E t \in W : HasChildToGrab(t) \/ \E u \in Thread \ W : Serves(u, t)
    BY DEF NobodyWaitsInACircle
  <2>1. PICK age, m : AgesAre(age, m)
    BY DEF Ages
  <2>2. \A t \in W : /\ t \in Thread /\ Blocked(t) /\ top(t) \in Slot
                     /\ age[top(t)] - m \in Nat /\ age[top(t)] \in Int
    <3> SUFFICES ASSUME NEW t \in W
                 PROVE  /\ t \in Thread /\ Blocked(t) /\ top(t) \in Slot
                        /\ age[top(t)] - m \in Nat /\ age[top(t)] \in Int
      OBVIOUS
    <3>1. t \in Thread /\ Blocked(t) /\ top(t) \in Slot
      BY OwingFacts DEF Blocked, Trying
    <3>2. age[top(t)] \in Int /\ m \in Int /\ m <= age[top(t)]
      BY <2>1, <3>1 DEF AgesAre
    <3> QED BY <3>1, <3>2
  <2> DEFINE S == {age[top(t)] - m : t \in W}
  <2>3. S \in SUBSET Nat /\ S # {}
    BY <2>2
  <2>4. PICK n \in S : \A k \in S : n <= k
    BY <2>3, LeastNumber
  <2>5. PICK t \in W : n = age[top(t)] - m
    BY <2>4
  <2>6. \A u \in W : ~(age[top(u)] < age[top(t)])
    <3> SUFFICES ASSUME NEW u \in W PROVE ~(age[top(u)] < age[top(t)])
      OBVIOUS
    <3>1. n <= age[top(u)] - m /\ m \in Int
      BY <2>1, <2>4 DEF AgesAre
    <3> QED BY <2>2, <2>5, <3>1
  <2>7. t \in Thread /\ Blocked(t)
    BY <2>2
  <2>8. \/ HasChildToGrab(t)
        \/ \E u \in Thread :
              /\ Serves(u, t)
              /\ Blocked(u) => top(u) \in Slot /\ age[top(u)] < age[top(t)]
    BY <2>1, <2>7, BlockedIsServed
  <2> QED BY <2>2, <2>6, <2>8
<1>2. Spec => []Places
  BY PlacesInvariant
<1> QED BY <1>1, <1>2, TasksInvariant, WaitInvariant, WakeInvariant, PTL

=============================================================================
