--------------------------- MODULE DeletionProofs ---------------------------
(***************************************************************************)
(* The safety properties of Deletion for any threads and resources.  The   *)
(* inductive invariant follows a resource on its way: somebody points to   *)
(* it and its node knows it; then a thread is about to destroy it, and     *)
(* nobody but a lookup can get it back; then it is in one list; then on    *)
(* one stack.  Once it was got back, more threads may be about to destroy  *)
(* it, of which one unregisters it and the others come too late.           *)
(* That no wake-up is lost is proved apart from this.                      *)
(***************************************************************************)
EXTENDS Deletion, FiniteSetTheorems, SequenceTheorems, TLAPS

Hands  == DestroyLabels \cup {"push"}
Dyings == Hands \cup {"twice", "destruct", "free", "batch", "wakeup_resources_thread"}

(* What the variables of a thread hold where it is.                        *)
ShapeAt(t) ==
    /\ pc[t] \in Hands \cup {"found", "transfer"} => cand[t] \in Resource
    /\ pc[t] = "found" => cand[t] \in Cached
    /\ pc[t] \in {"destruct", "free"} => stack[t] # << >>
    /\ pc[t] = "batch" => stack[t] = << >> /\ batch[t] # << >>
    /\ pc[t] \notin Dyings => stack[t] = << >> /\ batch[t] = << >>
    /\ back[t] \in {"idle", "callbacks", "sleep", "again", "scan"}
    /\ pc[t] = "transfer" => t = resources
Shape == \A t \in Thread : ShapeAt(t)

(* The flag is raised while the list is dispatched.                        *)
ManagerShape ==
    /\ pc[resources] \in Dyings \cup {"scan", "transfer", "wakeup_cooker_thread", "dispatched"} =>
          m_flag /\ back[resources] = "scan"
    /\ pc[resources] \in {"found", "mounted"} => client \in User

(* A thread that has seen the list empty pushes nothing until it has left. *)
Checked ==
    \A u \in User, r \in Resource :
        pc[u] \in {"mounts", "flag", "exited"} /\ pushed_by[r] = u =>
            ~In(r, delayed) /\ (pc[u] = "exited" => ~Moving(r))

(* The destructors of all resources of a stack but a new top have run.     *)
Stacks ==
    \A t \in Thread, r \in Resource : In(r, stack[t]) =>
        (r \notin deleted <=> pc[t] = "destruct" /\ r = top(t))

Pointed ==
    \A q \in Resource : Inner[q] # none /\ q \notin deleted => q \in refs[Inner[q]]

Alive(r) == pushed_by[r] = none /\ r \notin deleted /\ ~Deleting(r)

(* What a node is associated with can be given out.                        *)
Known ==
    /\ \A r \in Cached : refs[r] # {} => r \in fat
    /\ \A r \in fat : Alive(r)
    /\ \A t \in Thread : pc[t] = "found" => cand[t] \in fat

(* A resource that is being destroyed: only users can get it back, and     *)
(* nobody any more once its node has forgotten it.  If it was got back,    *)
(* another thread may have made the node forget it.                        *)
HandledAt(t) ==
    /\ pc[t] \in Hands => refs[cand[t]] \subseteq User
    /\ pc[t] \in Hands /\ cand[t] \notin rescued => refs[cand[t]] = {}
    /\ pc[t] \in {"destroy", "associated", "clean"} =>
          IF cand[t] \in Cached \ fat THEN cand[t] \in rescued ELSE Alive(cand[t])
    /\ pc[t] \in {"associated", "clean"} => cand[t] \in Cached
    /\ pc[t] \in {"unregistered", "push"} =>
          /\ refs[cand[t]] = {} /\ cand[t] \notin fat
          /\ cand[t] \notin deleted /\ ~Deleting(cand[t])
    /\ pc[t] = "unregistered" => pushed_by[cand[t]] = none
    /\ pc[t] = "push" => pushed_by[cand[t]] = t
Handled == \A t \in Thread : HandledAt(t)

Basis == TypeOK /\ Shape /\ ManagerShape
Lists == OnePlace /\ OwnThread /\ Stacks
Held  == Pointed /\ Known /\ Handled /\ OneDestroyer /\ HeldIsAlive

Inv == Basis /\ Lists /\ Held /\ CountIsExact /\ Checked

(* t is not about to destroy x, or another thread has unregistered it.     *)
TooLate(t, x) ==
    pc[t] \in Hands /\ cand[t] = x => x \in Cached /\ pc[t] \notin {"unregistered", "push"}

USE DEF Thread

-----------------------------------------------------------------------------
(* Sequences without repetition *)

LEMMA InSeq ==
    ASSUME NEW S, NEW s \in Seq(S), NEW x, In(x, s)
    PROVE  x \in S
BY ElementOfSeq DEF In

LEMMA InAppend ==
    ASSUME NEW S, NEW s \in Seq(S), NEW x \in S
    PROVE  /\ Append(s, x) \in Seq(S) /\ Append(s, x) # << >>
           /\ \A y : In(y, Append(s, x)) <=> In(y, s) \/ y = x
           /\ Once(s) /\ ~In(x, s) => Once(Append(s, x))
           /\ Append(s, x)[Len(Append(s, x))] = x
<1>1. /\ Append(s, x) \in Seq(S) /\ Len(s) \in Nat /\ Len(Append(s, x)) = Len(s) + 1
      /\ Append(s, x)[Len(s) + 1] = x
      /\ \A i \in 1..Len(s) : Append(s, x)[i] = s[i]
  OBVIOUS
<1>2. \A y : In(y, Append(s, x)) <=> In(y, s) \/ y = x
  BY <1>1 DEF In
<1>3. Once(s) /\ ~In(x, s) => Once(Append(s, x))
  BY <1>1 DEF In, Once
<1>4. Append(s, x) # << >>
  BY <1>1, EmptySeq
<1> QED BY <1>1, <1>2, <1>3, <1>4

LEMMA InTail ==
    ASSUME NEW S, NEW s \in Seq(S), s # << >>, Once(s)
    PROVE  /\ Head(s) \in S /\ Tail(s) \in Seq(S) /\ Once(Tail(s)) /\ In(Head(s), s)
           /\ \A y : In(y, Tail(s)) <=> In(y, s) /\ y # Head(s)
<1>1. /\ Head(s) \in S /\ Tail(s) \in Seq(S) /\ Len(s) \in Nat /\ Len(s) >= 1
      /\ Len(Tail(s)) = Len(s) - 1 /\ Head(s) = s[1]
      /\ \A i \in 1..Len(Tail(s)) : Tail(s)[i] = s[i + 1]
  BY HeadTailProperties, EmptySeq
<1>2. Once(Tail(s)) /\ In(Head(s), s)
  BY <1>1 DEF Once, In
<1>3. ASSUME NEW y
      PROVE  In(y, Tail(s)) <=> In(y, s) /\ y # Head(s)
  <2>1. ASSUME In(y, Tail(s)) PROVE In(y, s) /\ y # Head(s)
    <3>1. PICK i \in 1..Len(Tail(s)) : s[i + 1] = y
      BY <1>1, <2>1 DEF In
    <3>2. i + 1 \in 1..Len(s) /\ i + 1 # 1 /\ 1 \in 1..Len(s)
      BY <1>1
    <3> QED BY <3>1, <3>2, <1>1 DEF In, Once
  <2>2. ASSUME In(y, s), y # Head(s) PROVE In(y, Tail(s))
    <3>1. PICK i \in 1..Len(s) : s[i] = y
      BY <2>2 DEF In
    <3>2. i - 1 \in 1..Len(Tail(s)) /\ (i - 1) + 1 = i
      BY <1>1, <2>2, <3>1
    <3> QED BY <3>1, <3>2, <1>1 DEF In
  <2> QED BY <2>1, <2>2
<1> QED BY <1>1, <1>2, <1>3

LEMMA InFront ==
    ASSUME NEW S, NEW s \in Seq(S), s # << >>, Once(s)
    PROVE  /\ s[Len(s)] \in S /\ Front(s) \in Seq(S) /\ Once(Front(s)) /\ In(s[Len(s)], s)
           /\ \A y : In(y, Front(s)) <=> In(y, s) /\ y # s[Len(s)]
           /\ Front(s) = << >> <=> ~(Len(s) > 1)
<1>1. Len(s) \in Nat /\ Len(s) >= 1 /\ \A i \in 1..Len(s) : s[i] \in S
  BY EmptySeq, ElementOfSeq
<1>2. /\ Front(s) \in Seq(S) /\ Len(Front(s)) = Len(s) - 1
      /\ \A i \in 1..(Len(s) - 1) : Front(s)[i] = s[i]
  <2> DEFINE n == Len(s) - 1
  <2>1. n \in Int /\ n + 1 = Len(s) /\ n >= 0 /\ 1 \in Int /\ \A i \in 1..n : s[i] \in S
    BY <1>1
  <2> HIDE DEF n
  <2>2. /\ SubSeq(s, 1, n) \in Seq(S)
        /\ Len(SubSeq(s, 1, n)) = IF 1 <= n THEN n - 1 + 1 ELSE 0
        /\ \A i \in 1..(n - 1 + 1) : SubSeq(s, 1, n)[i] = s[1 + i - 1]
    BY <2>1, SubSeqProperties
  <2>3. /\ SubSeq(s, 1, n) \in Seq(S) /\ Len(SubSeq(s, 1, n)) = n
        /\ \A i \in 1..n : SubSeq(s, 1, n)[i] = s[i]
    BY <2>1, <2>2
  <2> QED BY <2>3 DEF n, Front
<1>3. Once(Front(s)) /\ In(s[Len(s)], s)
  BY <1>1, <1>2 DEF Once, In
<1>4. \A y : In(y, Front(s)) <=> In(y, s) /\ y # s[Len(s)]
  BY <1>1, <1>2 DEF Once, In
<1>5. Front(s) = << >> <=> ~(Len(s) > 1)
  BY <1>1, <1>2, EmptySeq
<1> QED BY <1>1, <1>2, <1>3, <1>4, <1>5

LEMMA InSingle ==
    ASSUME NEW S, NEW x \in S
    PROVE  /\ << x >> \in Seq(S) /\ << x >> # << >> /\ Once(<< x >>)
           /\ \A y : In(y, << x >>) <=> y = x
           /\ << x >>[Len(<< x >>)] = x
BY DEF In, Once

LEMMA InEmpty == Once(<< >>) /\ \A y : ~In(y, << >>)
BY DEF In, Once

-----------------------------------------------------------------------------
(* Types, and what the variables of a thread hold *)

LEMMA RestIsLabel ==
    ASSUME TypeOK, NEW t \in Thread
    PROVE  Rest(t) \in Labels
BY DEF TypeOK, Rest, Labels

LEMMA TypesOfTake ==
    ASSUME TypeOK, NEW u \in User, NEW r \in Cached, r \in Resource, Take(u, r)
    PROVE  refs' \in [Resource -> SUBSET (Thread \cup Resource)] /\ rescued' \subseteq Cached
BY DEF Take, TypeOK

LEMMA TypesOfManager ==
    ASSUME DeletionAssumption, TypeOK, Shape, ManagerShape, Lists,
           \/ Wake \/ BeginDispatch \/ Scan \/ Transfer \/ WakeupCooker \/ ScanEnds
           \/ EndDispatch \/ WaitForDeletions \/ (\E u \in User : Execute(u)) \/ Executed
           \/ NoMoreMounts \/ (\E u \in User : Find(u)) \/ Reclaim \/ TickEnds
    PROVE  TypeOK'
<1>1. CASE Wake
  BY <1>1 DEF Wake, Go, TypeOK, Labels, life, lists, leave
<1>2. CASE BeginDispatch
  BY <1>2 DEF BeginDispatch, Go, TypeOK, Labels, life, tasks, leave
<1>3. CASE Scan
  <2>1. Head(delayed) \in Resource /\ Tail(delayed) \in Seq(Resource)
    BY <1>3, InTail DEF Scan, TypeOK, Lists, OnePlace
  <2>2. PICK r \in Resource : r = Head(delayed)
    BY <2>1
  <2>3. PICK s \in Seq(Resource) : s = << r >>
    BY InSingle
  <2>4. stack' = [stack EXCEPT ![resources] = s] \/ stack' = stack
    BY <1>3, <2>2, <2>3, Zenon DEF Scan
  <2>5. cand' = [cand EXCEPT ![resources] = r] \/ cand' = cand
    BY <1>3, <2>2, Zenon DEF Scan
  <2>6. pc' = [pc EXCEPT ![resources] = "destruct"] \/ pc' = [pc EXCEPT ![resources] = "transfer"]
    BY <1>3, Zenon DEF Scan, Go
  <2>7. delayed' \in Seq(Resource)
        /\ UNCHANGED <<life, local, m_num, m_flag, pushed_by, wakeup, batch, back, tasks, leave>>
    BY <1>3, <2>1, Zenon DEF Scan
  <2>8. stack' \in [Thread -> Seq(Resource)]
    BY <2>4 DEF TypeOK
  <2>9. cand' \in [Thread -> Resource \cup {none}]
    BY <2>5 DEF TypeOK
  <2>10. pc' \in [Thread -> Labels]
    BY <2>6 DEF TypeOK, Labels
  <2> QED BY <2>7, <2>8, <2>9, <2>10 DEF TypeOK, life, tasks, leave
<1>4. CASE Transfer
  <2>1. cand[resources] \in Resource
    BY <1>4 DEF Transfer, Shape, ShapeAt
  <2>2. Owner[cand[resources]] \in Thread
    BY <2>1 DEF DeletionAssumption
  <2>3. local[Owner[cand[resources]]] \in Seq(Resource)
    BY <2>2 DEF TypeOK
  <2>4. Append(local[Owner[cand[resources]]], cand[resources]) \in Seq(Resource)
    BY <2>1, <2>3, InAppend
  <2> QED BY <1>4, <2>1, <2>4 DEF Transfer, Go, TypeOK, Labels, life, tasks, leave
<1>5. CASE ScanEnds
  BY <1>5 DEF ScanEnds, Go, TypeOK, Labels, life, lists, tasks, leave
<1>6. CASE EndDispatch
  BY <1>6 DEF EndDispatch, Go, TypeOK, Labels, life, tasks, leave
<1>7. CASE WaitForDeletions
  BY <1>7 DEF WaitForDeletions, Go, TypeOK, Labels, life, lists, tasks, leave
<1>8. ASSUME NEW u \in User, Execute(u) PROVE TypeOK'
  BY <1>8 DEF Execute, Go, TypeOK, Labels, life, lists, leave
<1>9. CASE Executed
  BY <1>9 DEF Executed, Go, TypeOK, Labels, life, lists, leave
<1>10. CASE NoMoreMounts
  BY <1>10 DEF NoMoreMounts, Go, TypeOK, Labels, life, lists, tasks, leave
<1>11. ASSUME NEW u \in User, Find(u) PROVE TypeOK'
  <2>1. Wanted[u] \in Resource \cup {none}
    BY DEF DeletionAssumption
  <2>2. pc' = pc \/ pc' = [pc EXCEPT ![resources] = "found"]
    BY <1>11 DEF Find, Go
  <2>3. cand' = cand \/ cand' = [cand EXCEPT ![resources] = Wanted[u]]
    BY <1>11 DEF Find
  <2>4. client' \in {client, u} /\ (query' = query \/ query' = [query EXCEPT ![u] = "ready"])
    BY <1>11 DEF Find
  <2>5. UNCHANGED <<life, lists, wakeup, stack, batch, back, mount, pending, again, leave>>
    BY <1>11 DEF Find
  <2>6. cand' \in [Thread -> Resource \cup {none}]
    BY <2>1, <2>3 DEF TypeOK
  <2>7. pc' \in [Thread -> Labels]
    BY <2>2 DEF TypeOK, Labels
  <2>8. client' \in User \cup {none}
        /\ query' \in [User -> {"none", "found", "new", "taken", "ready", "done"}]
    BY <2>4 DEF TypeOK
  <2> QED BY <2>5, <2>6, <2>7, <2>8 DEF TypeOK, life, lists, leave
<1>12. CASE Reclaim
  <2>1. cand[resources] \in Cached /\ cand[resources] \in Resource /\ client \in User
    BY <1>12 DEF Reclaim, Shape, ShapeAt, ManagerShape
  <2>2. Take(client, cand[resources])
    BY <1>12 DEF Reclaim
  <2>3. refs' \in [Resource -> SUBSET (Thread \cup Resource)] /\ rescued' \subseteq Cached
    BY <2>1, <2>2, TypesOfTake
  <2> QED BY <1>12, <2>1, <2>3 DEF Reclaim, Go, TypeOK, Labels, lists, leave
<1>13. CASE TickEnds
  BY <1>13 DEF TickEnds, Go, TypeOK, Labels, life, lists, tasks, leave
<1>14. CASE WakeupCooker
  BY <1>14 DEF WakeupCooker, Go, TypeOK, Labels, life, lists, tasks, leave
<1> QED BY <1>1, <1>2, <1>3, <1>4, <1>5, <1>6, <1>7, <1>8, <1>9, <1>10, <1>11, <1>12, <1>13,
           <1>14

LEMMA TypesOfTakeLocal ==
    ASSUME TypeOK, NEW t \in Thread,
           NEW then \in {"callbacks", "again", "sleep"}, TakeLocal(t, then)
    PROVE  /\ pc' \in [Thread -> Labels] /\ back' \in [Thread -> Labels]
           /\ local' \in [Thread -> Seq(Resource)] /\ batch' \in [Thread -> Seq(Resource)]
           /\ UNCHANGED <<delayed, m_num, m_flag, pushed_by>>
<1>1. local[t] \in Seq(Resource) /\ << >> \in Seq(Resource)
  BY EmptySeq DEF TypeOK
<1>2. local' \in [Thread -> Seq(Resource)] /\ batch' \in [Thread -> Seq(Resource)]
  BY <1>1 DEF TakeLocal, TypeOK
<1>3. pc' \in [Thread -> Labels] /\ back' \in [Thread -> Labels]
  BY DEF TakeLocal, Go, TypeOK, Labels
<1> QED BY <1>2, <1>3 DEF TakeLocal

LEMMA TypesOfCooker ==
    ASSUME TypeOK, CookerWakes \/ CookerTakesAgain
    PROVE  TypeOK'
<1>1. CASE CookerWakes
  <2>1. TakeLocal(cooker, "again")
    BY <1>1 DEF CookerWakes
  <2>2. wakeup' \in [{resources, cooker} -> BOOLEAN]
    BY <1>1 DEF CookerWakes, TypeOK
  <2> QED BY <1>1, <2>1, <2>2, TypesOfTakeLocal DEF CookerWakes, TypeOK, life, tasks, leave
<1>2. CASE CookerTakesAgain
  <2>1. TakeLocal(cooker, "sleep")
    BY <1>2 DEF CookerTakesAgain
  <2> QED BY <1>2, <2>1, TypesOfTakeLocal DEF CookerTakesAgain, TypeOK, life, tasks, leave
<1> QED BY <1>1, <1>2

LEMMA TypesOfDrop ==
    ASSUME TypeOK, NEW t \in Thread, NEW p, NEW r \in Resource, NEW l \in Labels,
           Drop(t, p, r, l)
    PROVE  /\ refs' \in [Resource -> SUBSET (Thread \cup Resource)]
           /\ cand' \in [Thread -> Resource \cup {none}] /\ pc' \in [Thread -> Labels]
<1>1. refs' \in [Resource -> SUBSET (Thread \cup Resource)]
  <2>1. refs[r] \ {p} \in SUBSET (Thread \cup Resource)
    BY DEF TypeOK
  <2> QED BY <2>1 DEF Drop, TypeOK
<1>2. cand' \in [Thread -> Resource \cup {none}]
  BY DEF Drop, TypeOK
<1>3. pc' \in [Thread -> Labels]
  <2>1. "destroy" \in Labels
    BY DEF Labels
  <2> QED BY <2>1 DEF Drop, Go, TypeOK
<1> QED BY <1>1, <1>2, <1>3

LEMMA TypesOfUser ==
    ASSUME DeletionAssumption, TypeOK, Shape, NEW u \in User,
           \/ Chooses(u) \/ ReclaimAtOnce(u) \/ AddMount(u) \/ Dispatch(u) \/ Callbacks(u)
           \/ TryLock(u) \/ DispatchAndRetry(u) \/ CheckLocal(u) \/ CheckLists(u)
           \/ CheckMounts(u) \/ CheckFlag(u)
    PROVE  TypeOK'
<1>1. CASE Ask(u)
  <2>1. Wanted[u] \in Resource \cup {none}
    BY DEF DeletionAssumption
  <2>2. pc' = pc \/ pc' = [pc EXCEPT ![u] = "found"]
    BY <1>1 DEF Ask, Go
  <2>3. cand' = cand \/ cand' = [cand EXCEPT ![u] = Wanted[u]]
    BY <1>1 DEF Ask
  <2>4. query' = [query EXCEPT ![u] = "found"] \/ query' = [query EXCEPT ![u] = "done"]
    BY <1>1 DEF Ask
  <2>5. UNCHANGED <<life, lists, wakeup, stack, batch, back, mount, pending, client, again, leave>>
    BY <1>1 DEF Ask
  <2>6. cand' \in [Thread -> Resource \cup {none}]
    BY <2>1, <2>3 DEF TypeOK
  <2>7. pc' \in [Thread -> Labels]
    BY <2>2 DEF TypeOK, Labels
  <2>8. query' \in [User -> {"none", "found", "new", "taken", "ready", "done"}]
    BY <2>4 DEF TypeOK
  <2> QED BY <2>5, <2>6, <2>7, <2>8 DEF TypeOK, life, lists, leave
<1>2. CASE AskLater(u)
  BY <1>2 DEF AskLater, Go, TypeOK, Labels, life, lists, leave
<1>3. CASE CreateMount(u)
  BY <1>3 DEF CreateMount, Go, TypeOK, Labels, life, lists, leave
<1>4. CASE Finalize(u)
  BY <1>4 DEF Finalize, Go, TypeOK, Labels, life, lists, tasks
<1>5. ASSUME NEW r \in Resource, Release(u, r) PROVE TypeOK'
  <2>1. Drop(u, u, r, "idle") /\ "idle" \in Labels
    BY <1>5 DEF Release, Labels
  <2>2. back' \in [Thread -> Labels]
    BY <1>5 DEF Release, TypeOK, Labels
  <2>3. UNCHANGED <<fat, deleted, rescued, lists, wakeup, stack, batch, tasks, leave>>
    BY <1>5 DEF Release
  <2>4. /\ refs' \in [Resource -> SUBSET (Thread \cup Resource)]
        /\ cand' \in [Thread -> Resource \cup {none}] /\ pc' \in [Thread -> Labels]
    BY <2>1, TypesOfDrop
  <2> QED BY <2>2, <2>3, <2>4 DEF TypeOK, lists, tasks, leave
<1>6. CASE ReclaimAtOnce(u)
  <2>1. cand[u] \in Cached /\ cand[u] \in Resource /\ Take(u, cand[u])
    BY <1>6 DEF ReclaimAtOnce, Shape, ShapeAt
  <2>2. refs' \in [Resource -> SUBSET (Thread \cup Resource)] /\ rescued' \subseteq Cached
    BY <2>1, TypesOfTake
  <2> QED BY <1>6, <2>2 DEF ReclaimAtOnce, Go, TypeOK, Labels, lists, leave
<1>7. CASE AddMount(u)
  BY <1>7 DEF AddMount, Go, TypeOK, Labels, life, lists, leave
<1>8. CASE Dispatch(u)
  <2>1. TakeLocal(u, "callbacks")
    BY <1>8 DEF Dispatch
  <2> QED BY <1>8, <2>1, TypesOfTakeLocal DEF Dispatch, TypeOK, life, tasks, leave
<1>9. CASE Callbacks(u)
  BY <1>9 DEF Callbacks, Go, TypeOK, Labels, life, lists, leave
<1>10. CASE TryLock(u)
  BY <1>10 DEF TryLock, Go, TypeOK, Labels, life, lists, tasks
<1>11. CASE DispatchAndRetry(u)
  <2>1. TakeLocal(u, "callbacks")
    BY <1>11 DEF DispatchAndRetry
  <2> QED BY <1>11, <2>1, TypesOfTakeLocal DEF DispatchAndRetry, TypeOK, life, tasks, leave
<1>12. CASE CheckLocal(u)
  BY <1>12 DEF CheckLocal, Go, TypeOK, Labels, life, lists, tasks
<1>13. CASE CheckLists(u)
  BY <1>13 DEF CheckLists, Go, TypeOK, Labels, life, lists, tasks, leave
<1>14. CASE CheckMounts(u)
  BY <1>14 DEF CheckMounts, Go, TypeOK, Labels, life, lists, tasks, leave
<1>15. CASE CheckFlag(u)
  <2>1. pc' = [pc EXCEPT ![u] = "exited"] \/ pc' = [pc EXCEPT ![u] = "retry"]
    BY <1>15 DEF CheckFlag, Go
  <2>2. m_mutex' \in {m_mutex, none}
        /\ UNCHANGED <<life, lists, wakeup, cand, stack, batch, back, tasks, leaving, seen>>
    BY <1>15 DEF CheckFlag
  <2>3. pc' \in [Thread -> Labels]
    BY <2>1 DEF TypeOK, Labels
  <2> QED BY <2>2, <2>3 DEF TypeOK, life, lists, tasks
<1> QED BY <1>1, <1>2, <1>3, <1>4, <1>5, <1>6, <1>7, <1>8, <1>9, <1>10, <1>11, <1>12,
           <1>13, <1>14, <1>15 DEF Chooses

(* The counter is positive while a delayed resource is not gone.           *)
LEMMA UnderwayIsFinite ==
    ASSUME DeletionAssumption
    PROVE  IsFiniteSet(Underway)
<1>1. Underway \subseteq Resource
  BY DEF Underway
<1> QED BY <1>1, FS_Subset DEF DeletionAssumption

LEMMA TopOfStack ==
    ASSUME TypeOK, Lists, NEW t \in Thread, stack[t] # << >>
    PROVE  top(t) \in Resource /\ In(top(t), stack[t]) /\ Owner[top(t)] = t /\ Deleting(top(t))
<1>1. stack[t] \in Seq(Resource) /\ Once(stack[t])
  BY DEF TypeOK, Lists, OnePlace
<1>2. top(t) \in Resource /\ In(top(t), stack[t])
  BY <1>1, InFront DEF top
<1> QED BY <1>2 DEF Deleting, Lists, OwnThread

LEMMA CounterIsPositive ==
    ASSUME DeletionAssumption, TypeOK, Lists, CountIsExact, NEW t \in Thread,
           stack[t] # << >>, pushed_by[top(t)] # none
    PROVE  m_num \in Nat /\ m_num > 0
<1>1. top(t) \in Underway
  BY TopOfStack DEF Underway
<1>2. IsFiniteSet(Underway) /\ Cardinality(Underway) \in Nat
  BY UnderwayIsFinite, FS_CardinalityType
<1>3. Cardinality(Underway) # 0
  BY <1>1, <1>2, FS_EmptySet
<1> QED BY <1>2, <1>3 DEF CountIsExact

LEMMA TypesOfDying ==
    ASSUME DeletionAssumption, Inv, NEW t \in Thread, Dying(t)
    PROVE  TypeOK'
<1>0. TypeOK /\ Shape /\ Lists /\ CountIsExact /\ Rest(t) \in Labels
  BY RestIsLabel DEF Inv, Basis
<1>1. CASE CheckCount(t)
  BY <1>0, <1>1 DEF CheckCount, Go, TypeOK, Labels, life, lists, tasks, leave
<1>2. CASE CheckFat(t)
  BY <1>0, <1>2 DEF CheckFat, Go, TypeOK, Labels, life, lists, tasks, leave
<1>3. CASE Clean(t)
  <2>1. pc' = [pc EXCEPT ![t] = "unregistered"] \/ pc' = [pc EXCEPT ![t] = Rest(t)]
    BY <1>3 DEF Clean, Go
  <2>2. pc' \in [Thread -> Labels]
    <3>1. "unregistered" \in Labels
      BY DEF Labels
    <3>2. pc \in [Thread -> Labels]
      BY <1>0 DEF TypeOK
    <3> QED BY <1>0, <2>1, <3>1, <3>2
  <2>3. fat' \subseteq fat
    BY <1>3 DEF Clean
  <2>4. UNCHANGED <<refs, deleted, rescued, lists, wakeup, cand, stack, batch, back, tasks, leave>>
    BY <1>3 DEF Clean
  <2> QED BY <1>0, <2>2, <2>3, <2>4 DEF TypeOK, lists, tasks, leave
<1>4. CASE DeleteNow(t)
  <2>1. cand[t] \in Resource /\ stack[t] \in Seq(Resource)
    BY <1>0, <1>4 DEF DeleteNow, Shape, ShapeAt, Hands, DestroyLabels, TypeOK
  <2>2. Append(stack[t], cand[t]) \in Seq(Resource)
    BY <2>1, InAppend
  <2> QED BY <1>0, <1>4, <2>2 DEF DeleteNow, Go, TypeOK, Labels, life, lists, tasks, leave
<1>5. CASE CountDelayed(t)
  <2>1. pc' = [pc EXCEPT ![t] = "push"] /\ pushed_by' = [pushed_by EXCEPT ![cand[t]] = t]
        /\ m_num' = m_num + 1
    BY <1>5 DEF CountDelayed, Go
  <2>2. pc' \in [Thread -> Labels]
    BY <1>0, <2>1 DEF TypeOK, Labels
  <2>3. pushed_by' \in [Resource -> Thread \cup {none}] /\ m_num' \in Nat
    <3>1. pushed_by \in [Resource -> Thread \cup {none}] /\ m_num \in Nat
      BY <1>0 DEF TypeOK
    <3>2. m_num' \in Nat
      BY <2>1, <3>1
    <3> QED BY <2>1, <3>1, <3>2
  <2>4. UNCHANGED <<life, delayed, local, m_flag, wakeup, cand, stack, batch, back,
                    tasks, leave>>
    BY <1>5 DEF CountDelayed
  <2> QED BY <1>0, <2>2, <2>3, <2>4 DEF TypeOK, life, tasks, leave
<1>6. CASE PushDelayed(t)
  <2>1. cand[t] \in Resource /\ delayed \in Seq(Resource)
    BY <1>0, <1>6 DEF PushDelayed, Shape, ShapeAt, Hands, TypeOK
  <2>2. Append(delayed, cand[t]) \in Seq(Resource)
    BY <2>1, InAppend
  <2> QED BY <1>0, <1>6, <2>2 DEF PushDelayed, Go, TypeOK, Labels, life, tasks, leave
<1>7. CASE Destruct(t)
  <2>1. top(t) \in Resource /\ Inner[top(t)] \in Resource \cup {none} /\ "free" \in Labels
    BY <1>0, <1>7, TopOfStack DEF Destruct, Shape, ShapeAt, DeletionAssumption, Labels
  <2>2. /\ refs' \in [Resource -> SUBSET (Thread \cup Resource)]
        /\ cand' \in [Thread -> Resource \cup {none}] /\ pc' \in [Thread -> Labels]
    <3>1. CASE Inner[top(t)] # none
      BY <1>0, <1>7, <2>1, <3>1, TypesOfDrop DEF Destruct
    <3>2. CASE Inner[top(t)] = none
      <4>1. pc' = [pc EXCEPT ![t] = "free"] /\ UNCHANGED <<refs, cand>>
        BY <1>7, <3>2 DEF Destruct, Go
      <4> QED BY <1>0, <2>1, <4>1 DEF TypeOK
    <3> QED BY <3>1, <3>2
  <2>3. deleted' \subseteq Resource
    BY <1>0, <1>7, <2>1 DEF Destruct, TypeOK
  <2>4. UNCHANGED <<fat, rescued, lists, wakeup, stack, batch, back, tasks, leave>>
    BY <1>7 DEF Destruct
  <2> QED BY <1>0, <2>2, <2>3, <2>4 DEF TypeOK, lists, tasks, leave
<1>8. CASE Free(t)
  <2>1. stack[t] # << >> /\ Front(stack[t]) \in Seq(Resource)
    BY <1>0, <1>8, InFront DEF Free, Shape, ShapeAt, TypeOK, Lists, OnePlace
  <2>2. m_num' \in Nat
    BY <1>0, <1>8, <2>1, CounterIsPositive DEF Free, TypeOK
  <2>3. stack' \in [Thread -> Seq(Resource)]
    BY <1>0, <1>8, <2>1 DEF Free, TypeOK
  <2>4. pc' \in [Thread -> Labels]
    BY <1>0, <1>8 DEF Free, Go, TypeOK, Labels
  <2> QED BY <1>0, <1>8, <2>2, <2>3, <2>4 DEF Free, TypeOK, life, tasks, leave
<1>9. CASE DeleteNext(t)
  <2>1. batch[t] # << >> /\ Head(batch[t]) \in Resource /\ Tail(batch[t]) \in Seq(Resource)
    BY <1>0, <1>9, InTail DEF DeleteNext, Shape, ShapeAt, TypeOK, Lists, OnePlace
  <2>2. << Head(batch[t]) >> \in Seq(Resource)
    BY <2>1, InSingle
  <2>3. stack' \in [Thread -> Seq(Resource)] /\ batch' \in [Thread -> Seq(Resource)]
    BY <1>0, <1>9, <2>1, <2>2 DEF DeleteNext, TypeOK
  <2>4. pc' \in [Thread -> Labels]
    BY <1>0, <1>9 DEF DeleteNext, Go, TypeOK, Labels
  <2> QED BY <1>0, <1>9, <2>3, <2>4 DEF DeleteNext, TypeOK, life, lists, tasks, leave
<1>10. CASE WakeupResources(t)
  <2>1. pc' \in [Thread -> Labels]
    BY <1>0, <1>10 DEF WakeupResources, Go, TypeOK
  <2>2. wakeup' \in [{resources, cooker} -> BOOLEAN]
    BY <1>0, <1>10 DEF WakeupResources, TypeOK
  <2> QED BY <1>0, <1>10, <2>1, <2>2 DEF WakeupResources, TypeOK, life, lists, tasks, leave
<1> QED BY <1>1, <1>2, <1>3, <1>4, <1>5, <1>6, <1>7, <1>8, <1>9, <1>10 DEF Dying

-----------------------------------------------------------------------------
(* Steps that move one thread *)

(* The other threads stay where they are.                                  *)
Moves(t) ==
    \A u \in Thread \ {t} :
        /\ pc'[u] = pc[u] /\ cand'[u] = cand[u] /\ back'[u] = back[u]
        /\ stack'[u] = stack[u] /\ batch'[u] = batch[u]

LEMMA ShapeOfMove ==
    ASSUME Shape, NEW t \in Thread, Moves(t), ShapeAt(t)'
    PROVE  Shape'
BY DEF Shape, ShapeAt, Moves

(* Steps of a thread that has no resource in its hands.                    *)
Quiet == {"idle", "sleep", "dispatch", "scan", "dispatched", "mount", "mounted", "init",
          "again", "add_fs_task", "callbacks", "try", "retry", "local", "lists", "mounts",
          "flag", "exited", "wakeup_cooker_thread"}

Quietly(t) ==
    /\ Moves(t) /\ pc[t] \in Quiet /\ pc'[t] \in Quiet \cup {"wakeup_resources_thread"}
    /\ back'[t] \in {back[t], "scan", "idle"}
    /\ UNCHANGED <<refs, fat, deleted, rescued, delayed, local, m_num, pushed_by, cand, stack, batch>>

(* ... and steps that leave the lists and the stacks alone.                *)
Calmly(t) ==
    /\ Moves(t)
    /\ pc[t] \notin {"push", "transfer", "destruct"}
    /\ pc'[t] \notin {"push", "transfer", "destruct"}
    /\ UNCHANGED <<deleted, delayed, local, m_num, pushed_by, stack, batch>>

LEMMA QuietIsCalm ==
    ASSUME NEW t \in Thread, Quietly(t)
    PROVE  Calmly(t)
BY DEF Quietly, Calmly, Quiet

LEMMA CalmLists ==
    ASSUME DeletionAssumption, Inv, NEW t \in Thread, Calmly(t)
    PROVE  Lists' /\ CountIsExact' /\ \A r \in Resource : Deleting(r)' <=> Deleting(r)
<1>1. /\ UNCHANGED <<deleted, delayed, local, m_num, pushed_by, stack, batch>>
      /\ \A u \in Thread \ {t} : pc'[u] = pc[u] /\ cand'[u] = cand[u]
      /\ pc[t] \notin {"push", "transfer", "destruct"}
      /\ pc'[t] \notin {"push", "transfer", "destruct"}
  BY DEF Calmly, Moves
<1>2. \A r \in Resource : /\ Deleting(r)' <=> Deleting(r)
                          /\ Pushing(r)' <=> Pushing(r)
                          /\ Moving(r)' <=> Moving(r)
  BY <1>1 DEF Deleting, Pushing, Moving
<1>3. OnePlace'
  <2>1. \A r \in Resource : Places(r)' = Places(r)
    BY <1>1, <1>2 DEF Places, One
  <2>2. OnePlace
    BY DEF Inv, Lists
  <2> QED BY <1>1, <1>2, <2>1, <2>2 DEF OnePlace, One
<1>4. OwnThread' /\ Stacks'
  BY <1>1 DEF Inv, Lists, OwnThread, Stacks, top
<1>5. CountIsExact'
  <2>1. Underway' = Underway
    BY <1>1, <1>2 DEF Underway
  <2> QED BY <1>1, <2>1 DEF Inv, CountIsExact
<1> QED BY <1>2, <1>3, <1>4, <1>5 DEF Lists

LEMMA QuietHeld ==
    ASSUME DeletionAssumption, Inv, NEW t \in Thread, Quietly(t)
    PROVE  Held' /\ Shape'
<1>1. /\ \A u \in Thread \ {t} : pc'[u] = pc[u]
      /\ pc[t] \in Quiet /\ pc'[t] \in Quiet \cup {"wakeup_resources_thread"}
      /\ UNCHANGED <<refs, fat, deleted, rescued, delayed, local, m_num, pushed_by, cand, stack, batch>>
  BY DEF Quietly, Moves
<1>2. \A r \in Resource : Deleting(r)' <=> Deleting(r)
  BY <1>1 DEF Deleting
<1>3. pc'[t] \notin Hands \cup {"found", "twice"}
  BY <1>1 DEF Hands, DestroyLabels, Quiet
<1>4. \A u \in Thread : pc'[u] \in Hands \cup {"found"} => pc'[u] = pc[u] /\ cand[u] \in Resource
  BY <1>1, <1>3 DEF Inv, Basis, Shape, ShapeAt
<1>5. \A r \in Resource : Alive(r)' <=> Alive(r)
  BY <1>1, <1>2 DEF Alive
<1>6. Pointed' /\ HeldIsAlive'
  BY <1>1, <1>2 DEF Inv, Held, Pointed, HeldIsAlive
<1>7. Known'
  <2>1. fat \subseteq Resource
    BY DEF Inv, Basis, TypeOK, DeletionAssumption
  <2> QED BY <1>1, <1>4, <1>5, <2>1 DEF Inv, Held, Known
<1>8. Handled'
  BY <1>1, <1>2, <1>4, <1>5 DEF Inv, Held, Handled, HandledAt, Hands, DestroyLabels
<1>9. OneDestroyer'
  BY <1>1, <1>3, <1>4 DEF Inv, Held, OneDestroyer, Hands, DestroyLabels
<1>10. Shape'
  <2>1. ShapeAt(t)
    BY DEF Inv, Basis, Shape
  <2>2. ShapeAt(t)'
    BY <1>1, <2>1 DEF ShapeAt, Quietly, Quiet, Hands, Dyings, DestroyLabels
  <2> QED BY <2>2, ShapeOfMove DEF Quietly, Inv, Basis
<1> QED BY <1>6, <1>7, <1>8, <1>9, <1>10 DEF Held

LEMMA CheckedKept ==
    ASSUME Checked, NEW t \in Thread, Moves(t), UNCHANGED <<delayed, pushed_by>>,
           pc'[t] \notin {"mounts", "flag", "exited", "transfer"}
    PROVE  Checked'
BY DEF Checked, Moves, Moving

LEMMA ManagerShapeKept ==
    ASSUME ManagerShape, NEW t \in Thread, t # resources, Moves(t), UNCHANGED <<m_flag, client>>
    PROVE  ManagerShape'
BY DEF ManagerShape, Moves

LEMMA QuietManager ==
    ASSUME DeletionAssumption, Inv,
           \/ Wake \/ BeginDispatch \/ WakeupCooker \/ ScanEnds \/ EndDispatch \/ WaitForDeletions
           \/ (\E u \in User : Execute(u)) \/ Executed \/ NoMoreMounts \/ TickEnds
    PROVE  Quietly(resources) /\ ManagerShape' /\ Checked'
<1>0. /\ pc \in [Thread -> Labels] /\ back \in [Thread -> Labels] /\ resources \in Thread
      /\ ManagerShape /\ Checked
  BY DEF Inv, Basis, TypeOK
<1>1. Quietly(resources)
  <2>1. CASE Wake
    BY <1>0, <2>1 DEF Wake, Go, life, lists, Quietly, Quiet, Moves
  <2>2. CASE BeginDispatch
    BY <1>0, <2>2 DEF BeginDispatch, Go, life, Quietly, Quiet, Moves
  <2>3. CASE ScanEnds
    BY <1>0, <2>3 DEF ScanEnds, Go, life, lists, tasks, Quietly, Quiet, Moves
  <2>4. CASE EndDispatch
    BY <1>0, <2>4 DEF EndDispatch, Go, life, Quietly, Quiet, Moves
  <2>5. CASE WaitForDeletions
    BY <1>0, <2>5 DEF WaitForDeletions, Go, life, lists, tasks, Quietly, Quiet, Moves
  <2>6. ASSUME NEW u \in User, Execute(u) PROVE Quietly(resources)
    BY <1>0, <2>6 DEF Execute, Go, life, lists, Quietly, Quiet, Moves
  <2>7. CASE Executed
    BY <1>0, <2>7 DEF Executed, Go, life, lists, Quietly, Quiet, Moves
  <2>8. CASE NoMoreMounts
    BY <1>0, <2>8 DEF NoMoreMounts, Go, life, lists, tasks, Quietly, Quiet, Moves
  <2>9. CASE TickEnds
    BY <1>0, <2>9 DEF TickEnds, Go, life, lists, tasks, Quietly, Quiet, Moves
  <2>10. CASE WakeupCooker
    BY <1>0, <2>10 DEF WakeupCooker, Go, life, lists, tasks, Quietly, Quiet, Moves
  <2> QED BY <2>1, <2>2, <2>3, <2>4, <2>5, <2>6, <2>7, <2>8, <2>9, <2>10
<1>2. ManagerShape'
  <2>1. CASE Wake
    BY <1>0, <2>1 DEF Wake, Go, lists, ManagerShape, Dyings, Hands, DestroyLabels
  <2>2. CASE BeginDispatch
    BY <1>0, <2>2 DEF BeginDispatch, Go, ManagerShape, Dyings, Hands, DestroyLabels
  <2>3. CASE ScanEnds
    BY <1>0, <2>3 DEF ScanEnds, Go, lists, tasks, ManagerShape, Dyings, Hands, DestroyLabels
  <2>4. CASE EndDispatch
    BY <1>0, <2>4 DEF EndDispatch, Go, ManagerShape, Dyings, Hands, DestroyLabels
  <2>5. CASE WaitForDeletions
    BY <1>0, <2>5 DEF WaitForDeletions, Go, lists, tasks, ManagerShape, Dyings, Hands, DestroyLabels
  <2>6. ASSUME NEW u \in User, Execute(u) PROVE ManagerShape'
    BY <1>0, <2>6 DEF Execute, Go, ManagerShape, Dyings, Hands, DestroyLabels
  <2>7. CASE Executed
    BY <1>0, <2>7 DEF Executed, Go, lists, ManagerShape, Dyings, Hands, DestroyLabels
  <2>8. CASE NoMoreMounts
    BY <1>0, <2>8 DEF NoMoreMounts, Go, lists, tasks, ManagerShape, Dyings, Hands, DestroyLabels
  <2>9. CASE TickEnds
    BY <1>0, <2>9 DEF TickEnds, Go, lists, tasks, ManagerShape, Dyings, Hands, DestroyLabels
  <2>10. CASE WakeupCooker
    BY <1>0, <2>10 DEF WakeupCooker, Go, lists, tasks, ManagerShape, Dyings, Hands, DestroyLabels
  <2> QED BY <2>1, <2>2, <2>3, <2>4, <2>5, <2>6, <2>7, <2>8, <2>9, <2>10
<1>3. pc'[resources] \notin {"mounts", "flag", "exited", "transfer"}
  BY <1>0 DEF Wake, BeginDispatch, WakeupCooker, ScanEnds, EndDispatch, WaitForDeletions, Execute,
              Executed, NoMoreMounts, TickEnds, Go
<1>4. Checked'
  BY <1>0, <1>1, <1>3, CheckedKept DEF Quietly
<1> QED BY <1>1, <1>2, <1>4

LEMMA QuietUser ==
    ASSUME DeletionAssumption, Inv, NEW u \in User,
           \/ AskLater(u) \/ CreateMount(u) \/ Finalize(u) \/ AddMount(u) \/ Callbacks(u)
           \/ TryLock(u) \/ CheckLocal(u) \/ CheckLists(u) \/ CheckMounts(u) \/ CheckFlag(u)
    PROVE  Quietly(u) /\ ManagerShape' /\ Checked'
<1>0. /\ pc \in [Thread -> Labels] /\ back \in [Thread -> Labels] /\ u \in Thread
      /\ ManagerShape /\ Checked /\ u # resources
  BY DEF Inv, Basis, TypeOK, DeletionAssumption
<1>1. Quietly(u) /\ UNCHANGED <<m_flag, client>>
  <2>1. CASE AskLater(u)
    BY <1>0, <2>1 DEF AskLater, Go, life, lists, Quietly, Quiet, Moves
  <2>2. CASE CreateMount(u)
    BY <1>0, <2>2 DEF CreateMount, Go, life, lists, Quietly, Quiet, Moves
  <2>3. CASE Finalize(u)
    BY <1>0, <2>3 DEF Finalize, Go, life, lists, tasks, Quietly, Quiet, Moves
  <2>4. CASE AddMount(u)
    BY <1>0, <2>4 DEF AddMount, Go, life, lists, Quietly, Quiet, Moves
  <2>5. CASE Callbacks(u)
    BY <1>0, <2>5 DEF Callbacks, Go, life, lists, Quietly, Quiet, Moves
  <2>6. CASE TryLock(u)
    BY <1>0, <2>6 DEF TryLock, Go, life, lists, tasks, Quietly, Quiet, Moves
  <2>7. CASE CheckLocal(u)
    BY <1>0, <2>7 DEF CheckLocal, Go, life, lists, tasks, Quietly, Quiet, Moves
  <2>8. CASE CheckLists(u)
    BY <1>0, <2>8 DEF CheckLists, Go, life, lists, tasks, Quietly, Quiet, Moves
  <2>9. CASE CheckMounts(u)
    BY <1>0, <2>9 DEF CheckMounts, Go, life, lists, tasks, Quietly, Quiet, Moves
  <2>10. CASE CheckFlag(u)
    BY <1>0, <2>10 DEF CheckFlag, Go, life, lists, tasks, Quietly, Quiet, Moves
  <2> QED BY <2>1, <2>2, <2>3, <2>4, <2>5, <2>6, <2>7, <2>8, <2>9, <2>10
<1>2. ManagerShape' /\ Moves(u) /\ UNCHANGED <<delayed, pushed_by>>
  BY <1>0, <1>1, ManagerShapeKept DEF Quietly
<1>3. Checked'
  <2>1. CASE AskLater(u) \/ CreateMount(u) \/ Finalize(u) \/ AddMount(u) \/ Callbacks(u)
             \/ TryLock(u) \/ CheckLocal(u)
    <3>1. pc'[u] \notin {"mounts", "flag", "exited", "transfer"}
      BY <1>0, <2>1 DEF AskLater, CreateMount, Finalize, AddMount, Callbacks, TryLock,
                        CheckLocal, Go
    <3> QED BY <1>0, <1>2, <3>1, CheckedKept
  <2>2. CASE CheckLists(u)
    <3>1. \/ pc' = [pc EXCEPT ![u] = "mounts"] /\ delayed = << >>
          \/ pc' = [pc EXCEPT ![u] = "retry"]
      BY <2>2 DEF CheckLists, Go
    <3>2. pc'[u] \in {"mounts", "retry"} /\ (pc'[u] = "mounts" => delayed = << >>)
      BY <1>0, <3>1
    <3> QED BY <1>0, <1>2, <3>2, InEmpty DEF Checked, Moves, Moving
  <2>3. CASE CheckMounts(u)
    <3>1. pc[u] = "mounts" /\ pc'[u] \in {"flag", "retry"}
      BY <1>0, <2>3 DEF CheckMounts, Go
    <3> QED BY <1>0, <1>2, <3>1 DEF Checked, Moves, Moving
  <2>4. CASE CheckFlag(u)
    <3>1. pc[u] = "flag" /\ pc'[u] \in {"exited", "retry"} /\ (pc'[u] = "exited" => ~m_flag)
      BY <1>0, <2>4 DEF CheckFlag, Go
    <3>2. pc'[u] = "exited" => pc[resources] # "transfer"
      BY <1>0, <3>1 DEF ManagerShape
    <3> QED BY <1>0, <1>2, <3>1, <3>2 DEF Checked, Moves, Moving
  <2> QED BY <2>1, <2>2, <2>3, <2>4
<1> QED BY <1>1, <1>2, <1>3

-----------------------------------------------------------------------------
(* Steps that change who points to a resource, or whether its node knows it *)

LEMMA ReleaseStep ==
    ASSUME DeletionAssumption, Inv, NEW u \in User, NEW r \in Resource, Release(u, r)
    PROVE  Shape' /\ ManagerShape' /\ Lists' /\ Held' /\ CountIsExact' /\ Checked'
<1>0. /\ pc \in [Thread -> Labels] /\ cand \in [Thread -> Resource \cup {none}]
      /\ back \in [Thread -> Labels] /\ refs \in [Resource -> SUBSET (Thread \cup Resource)]
      /\ u \in Thread /\ u # resources /\ u \notin Resource
      /\ Shape /\ ManagerShape /\ Held /\ Checked
  BY DEF Inv, Basis, TypeOK, DeletionAssumption
<1>1. /\ pc[u] = "idle" /\ u \in refs[r]
      /\ refs' = [refs EXCEPT ![r] = @ \ {u}]
      /\ back' = [back EXCEPT ![u] = "idle"]
      /\ UNCHANGED <<fat, deleted, rescued, delayed, local, m_num, m_flag, pushed_by, stack, batch, client>>
  BY DEF Release, Drop, lists, tasks
<1>2. \/ /\ refs[r] \subseteq {u}
         /\ cand' = [cand EXCEPT ![u] = r] /\ pc' = [pc EXCEPT ![u] = "destroy"]
      \/ ~(refs[r] \subseteq {u}) /\ cand' = cand /\ pc' = [pc EXCEPT ![u] = "idle"]
  BY DEF Release, Drop, Go
<1>3. Moves(u) /\ pc'[u] \in {"destroy", "idle"} /\ (pc'[u] = "destroy" => cand'[u] = r /\ refs'[r] = {})
  BY <1>0, <1>1, <1>2 DEF Moves
<1>4. Calmly(u)
  BY <1>1, <1>3 DEF Calmly
<1>5. /\ \A q \in Resource : refs'[q] \subseteq refs[q] /\ (Deleting(q)' <=> Deleting(q))
      /\ Lists' /\ CountIsExact'
  BY <1>0, <1>1, <1>4, CalmLists
<1>6. Checked' /\ ManagerShape'
  BY <1>0, <1>1, <1>3, CheckedKept, ManagerShapeKept
<1>7. ShapeAt(u)
  BY <1>0 DEF Shape
<1>8. Shape'
  <2>1. stack[u] = << >> /\ batch[u] = << >>
    BY <1>1, <1>7 DEF ShapeAt, Dyings, Hands, DestroyLabels
  <2>2. ShapeAt(u)'
    BY <1>0, <1>1, <1>3, <2>1 DEF ShapeAt, Dyings, Hands, DestroyLabels
  <2> QED BY <1>0, <1>3, <2>2, ShapeOfMove
<1>9. Alive(r) /\ (r \in Cached => r \in fat) /\ \A q \in Resource : Alive(q)' <=> Alive(q)
  BY <1>0, <1>1, <1>5 DEF Held, HeldIsAlive, Known, Alive
<1>10. \A v \in Thread \ {u} : pc[v] \in Hands /\ cand[v] = r =>
             r \in rescued /\ pc[v] \notin {"unregistered", "push"}
  BY <1>0, <1>1 DEF Held, Handled, HandledAt, Hands, DestroyLabels
<1>11. \A v \in Thread \ {u} : pc'[v] = pc[v] /\ cand'[v] = cand[v]
                               /\ (pc[v] \in Hands \cup {"found"} => cand[v] \in Resource)
  BY <1>0, <1>3 DEF Moves, Shape, ShapeAt
<1>12. Pointed'
  <2>1. \A q \in Resource : q # u
    BY <1>0
  <2>2. \A q \in Resource : Inner[q] # none => Inner[q] \in Resource
    BY DEF DeletionAssumption
  <2> QED BY <1>0, <1>1, <2>1, <2>2 DEF Held, Pointed
<1>13. Known'
  <2>1. fat \subseteq Resource /\ Cached \subseteq Resource
    BY DEF Inv, Basis, TypeOK, DeletionAssumption
  <2> QED BY <1>0, <1>1, <1>3, <1>5, <1>9, <1>11, <2>1 DEF Held, Known
<1>14. Handled'
  <2>1. ASSUME NEW v \in Thread \ {u}, pc[v] \in Hands
        PROVE  refs'[cand[v]] \subseteq refs[cand[v]] /\ (Alive(cand[v])' <=> Alive(cand[v]))
               /\ (Deleting(cand[v])' <=> Deleting(cand[v]))
    BY <1>5, <1>9, <1>11, <2>1
  <2> QED BY <1>0, <1>1, <1>3, <1>9, <1>11, <2>1 DEF Held, Handled, HandledAt, Hands, DestroyLabels
<1>15. OneDestroyer'
  BY <1>0, <1>1, <1>3, <1>10, <1>11 DEF Held, OneDestroyer, Hands, DestroyLabels
<1>16. HeldIsAlive'
  BY <1>0, <1>1, <1>5 DEF Held, HeldIsAlive
<1> QED BY <1>5, <1>6, <1>8, <1>12, <1>13, <1>14, <1>15, <1>16 DEF Held

(* where a thread may go on once it is done with a resource                *)
LEMMA RestFacts ==
    ASSUME NEW t \in Thread, ShapeAt(t)
    PROVE  /\ Rest(t) \in {"free", "batch", "idle", "callbacks", "sleep", "again", "scan"}
           /\ Rest(t) = "free" => stack[t] # << >>
           /\ Rest(t) = "batch" => stack[t] = << >> /\ batch[t] # << >>
           /\ Rest(t) \notin {"free", "batch"} => stack[t] = << >> /\ batch[t] = << >>
           /\ Rest(t) \in {"free", "batch", back[t]}
BY DEF Rest, ShapeAt

(* A thread that deletes goes on deleting or back to what it was at.       *)
LEMMA ManagerShapeOfDying ==
    ASSUME DeletionAssumption, ManagerShape, NEW t \in Thread, Moves(t), pc[t] \in Dyings,
           UNCHANGED <<m_flag, client, back>>, pc'[t] \in Dyings \cup {back[t]}
    PROVE  ManagerShape'
<1>1. CASE t = resources
  BY <1>1 DEF ManagerShape, Dyings, Hands, DestroyLabels
<1>2. CASE t # resources
  BY <1>2 DEF ManagerShape, Moves
<1> QED BY <1>1, <1>2

LEMMA UnregisterStep ==
    ASSUME DeletionAssumption, Inv, NEW t \in Thread,
           CheckCount(t) \/ CheckFat(t) \/ Clean(t)
    PROVE  Shape' /\ ManagerShape' /\ Lists' /\ Held' /\ CountIsExact' /\ Checked'
<1>0. /\ pc \in [Thread -> Labels] /\ fat \subseteq Resource /\ Cached \subseteq Resource
      /\ Shape /\ ManagerShape /\ Held /\ Checked /\ ShapeAt(t)
  BY DEF Inv, Basis, TypeOK, DeletionAssumption, Shape
<1>1. /\ pc[t] \in {"destroy", "associated", "clean"}
      /\ UNCHANGED <<refs, deleted, rescued, delayed, local, m_num, m_flag, pushed_by, cand, stack,
                     batch, back, client>>
  BY DEF CheckCount, CheckFat, Clean, lists, tasks, life
<1>2. /\ cand[t] \in Resource
      /\ IF cand[t] \in Cached \ fat THEN cand[t] \in rescued ELSE Alive(cand[t])
      /\ cand[t] \notin rescued => refs[cand[t]] = {}
      /\ pc[t] \in {"associated", "clean"} => cand[t] \in Cached
      /\ refs[cand[t]] \subseteq User
  BY <1>0, <1>1 DEF ShapeAt, Held, Handled, HandledAt, Hands, DestroyLabels
<1>3. \E l \in Labels : pc' = [pc EXCEPT ![t] = l]
          /\ \/ l = Rest(t) /\ fat' = fat
             \/ l \in {"associated", "clean"} /\ cand[t] \in Cached /\ fat' = fat
             \/ l = "twice" /\ cand[t] \in rescued /\ fat' = fat
             \/ /\ l = "unregistered" /\ refs[cand[t]] = {} /\ fat' = fat \ {cand[t]}
                /\ cand[t] \in Cached => cand[t] \in fat
  <2>0. Rest(t) \in Labels /\ {"associated", "clean", "unregistered", "twice"} \subseteq Labels
    BY RestIsLabel DEF Inv, Basis, Labels
  <2>1. CASE CheckCount(t)
    <3>1. cand[t] \notin Cached => cand[t] \notin fat
      BY DEF Inv, Basis, TypeOK
    <3> QED BY <2>0, <2>1, <3>1 DEF CheckCount, Go, life
  <2>2. CASE CheckFat(t)
    BY <1>2, <2>0, <2>2 DEF CheckFat, Go, life
  <2>3. CASE Clean(t)
    BY <2>0, <2>3 DEF Clean, Go
  <2> QED BY <2>1, <2>2, <2>3
<1>4. PICK l \in Labels : pc' = [pc EXCEPT ![t] = l]
          /\ \/ l = Rest(t) /\ fat' = fat
             \/ l \in {"associated", "clean"} /\ cand[t] \in Cached /\ fat' = fat
             \/ l = "twice" /\ cand[t] \in rescued /\ fat' = fat
             \/ /\ l = "unregistered" /\ refs[cand[t]] = {} /\ fat' = fat \ {cand[t]}
                /\ cand[t] \in Cached => cand[t] \in fat
  BY <1>3
<1>5. /\ Moves(t) /\ pc'[t] = l
      /\ l \in {"associated", "clean", "unregistered", "twice", "free", "batch", "idle",
                "callbacks", "sleep", "again", "scan"}
  BY <1>0, <1>1, <1>4, RestFacts DEF Moves
<1>6. Calmly(t)
  BY <1>1, <1>5 DEF Calmly
<1>7. Lists' /\ CountIsExact' /\ \A q \in Resource : Deleting(q)' <=> Deleting(q)
  BY <1>6, CalmLists
<1>8. Checked'
  BY <1>0, <1>1, <1>5, CheckedKept
<1>9. ManagerShape'
  <2>1. pc[t] \in Dyings /\ l \in Dyings \cup {back[t]}
    BY <1>0, <1>1, <1>4, RestFacts DEF Dyings, Hands, DestroyLabels
  <2> QED BY <1>0, <1>1, <1>5, <2>1, ManagerShapeOfDying
<1>10. Shape'
  <2>1. ShapeAt(t)'
    BY <1>0, <1>1, <1>2, <1>4, <1>5, RestFacts DEF ShapeAt, Dyings, Hands, DestroyLabels
  <2> QED BY <1>0, <1>5, <2>1, ShapeOfMove
<1>11. \A q \in Resource : Alive(q)' <=> Alive(q)
  BY <1>1, <1>7 DEF Alive
<1>12. \A v \in Thread \ {t} : /\ pc'[v] = pc[v] /\ cand'[v] = cand[v]
                               /\ pc[v] \in Hands \cup {"found"} => cand[v] \in Resource
                               /\ pc[v] \in Hands /\ cand[v] = cand[t] => cand[t] \in rescued
  BY <1>0, <1>1, <1>5 DEF Moves, Shape, ShapeAt, Held, OneDestroyer, Hands, DestroyLabels
<1>13. /\ fat' \subseteq fat
       /\ \A q \in Resource : q # cand[t] => (q \in fat' <=> q \in fat)
       /\ l # "unregistered" => fat' = fat
       /\ l = "unregistered" => cand[t] \notin fat'
       /\ refs[cand[t]] # {} => fat' = fat
  BY <1>4, <1>5, RestFacts, <1>0
<1>14. Pointed' /\ HeldIsAlive'
  <2>1. Pointed'
    BY <1>0, <1>1 DEF Held, Pointed
  <2>2. HeldIsAlive'
    BY <1>0, <1>1, <1>7 DEF Held, HeldIsAlive
  <2> QED BY <2>1, <2>2
<1>15. \A v \in Thread : pc'[v] = "found" => cand[v] \in fat'
  <2>1. CASE Clean(t) /\ fat' # fat
    <3>1. \A v \in Thread : pc[v] = "found" => cand[v] # cand[t]
      BY <2>1 DEF Clean, Locked
    <3> QED BY <1>0, <1>5, <1>12, <1>13, <3>1 DEF Held, Known
  <2>2. CASE fat' = fat
    BY <1>0, <1>5, <1>12, <2>2 DEF Held, Known
  <2>3. CASE ~Clean(t) /\ fat' # fat
    <3>1. CASE CheckCount(t)
      BY <3>1, <2>3 DEF CheckCount, life
    <3>2. CASE CheckFat(t)
      BY <3>2, <2>3 DEF CheckFat, life
    <3> QED BY <2>3, <3>1, <3>2
  <2> QED BY <2>1, <2>2, <2>3
<1>16. Known'
  <2>1. \A q \in Cached : refs'[q] # {} => q \in fat'
    BY <1>0, <1>1, <1>13 DEF Held, Known
  <2>2. \A q \in fat' : Alive(q)'
    BY <1>0, <1>11, <1>13 DEF Held, Known
  <2> QED BY <1>1, <1>15, <2>1, <2>2 DEF Known
<1>17. Handled'
  <2> SUFFICES ASSUME NEW v \in Thread, pc'[v] \in Hands
               PROVE  /\ refs[cand[v]] \subseteq User
                      /\ cand[v] \notin rescued => refs[cand[v]] = {}
                      /\ pc'[v] \in {"destroy", "associated", "clean"} =>
                            IF cand[v] \in Cached \ fat' THEN cand[v] \in rescued ELSE Alive(cand[v])
                      /\ pc'[v] \in {"associated", "clean"} => cand[v] \in Cached
                      /\ pc'[v] \in {"unregistered", "push"} =>
                            /\ refs[cand[v]] = {} /\ cand[v] \notin fat'
                            /\ cand[v] \notin deleted /\ ~Deleting(cand[v])
                      /\ pc'[v] = "unregistered" => pushed_by[cand[v]] = none
                      /\ pc'[v] = "push" => pushed_by[cand[v]] = v
    <3>1. \A v \in Thread : pc'[v] \in Hands => cand[v] \in Resource
      BY <1>2, <1>12
    <3> QED BY <1>1, <1>7, <1>11, <3>1 DEF Handled, HandledAt, Hands, DestroyLabels
  <2>1. CASE v = t
    BY <1>1, <1>2, <1>4, <1>5, <1>13, <2>1, RestFacts, <1>0 DEF Alive
  <2>2. CASE v # t
    BY <1>0, <1>12, <1>13, <2>2 DEF Held, Handled, HandledAt, Hands, DestroyLabels
  <2> QED BY <2>1, <2>2
<1>18. OneDestroyer'
  <2>1. ASSUME NEW v \in Thread \ {t}, pc[v] \in Hands, pc'[t] \in Hands, cand[v] = cand[t]
        PROVE  /\ cand[t] \in rescued
               /\ ~(pc[v] \in {"unregistered", "push"} /\ pc'[t] \in {"unregistered", "push"})
    <3>1. cand[t] \in rescued /\ cand[t] \in Cached
      BY <1>12, <2>1 DEF Inv, Basis, TypeOK
    <3>2. pc[v] \in {"unregistered", "push"} => cand[t] \notin fat
      BY <1>0, <2>1 DEF Held, Handled, HandledAt
    <3> QED BY <1>0, <1>4, <1>5, <3>1, <3>2, RestFacts
  <2>2. pc'[t] = "twice" => cand[t] \in rescued
    BY <1>4, <1>5, RestFacts, <1>0
  <2> QED BY <1>0, <1>1, <1>5, <1>12, <2>1, <2>2 DEF Held, OneDestroyer, Hands, DestroyLabels
<1> QED BY <1>7, <1>8, <1>9, <1>10, <1>14, <1>16, <1>17, <1>18 DEF Held

LEMMA FindStep ==
    ASSUME DeletionAssumption, Inv, NEW t \in Thread, NEW u \in User,
           \/ t = resources /\ Find(u)
           \/ t = u /\ Ask(u)
    PROVE  Shape' /\ ManagerShape' /\ Lists' /\ Held' /\ CountIsExact' /\ Checked'
<1>0. /\ pc \in [Thread -> Labels] /\ cand \in [Thread -> Resource \cup {none}]
      /\ fat \subseteq Cached /\ fat \subseteq Resource /\ Cached \subseteq Resource /\ u # resources
      /\ Shape /\ ManagerShape /\ Held /\ Checked /\ ShapeAt(t)
  BY DEF Inv, Basis, TypeOK, DeletionAssumption, Shape
<1>1. /\ pc[t] \in {"init", "idle"} /\ (t = resources => pc[t] = "init")
      /\ UNCHANGED <<refs, fat, deleted, rescued, delayed, local, m_num, m_flag, pushed_by, stack,
                     batch, back>>
      /\ client' = client \/ (client' = u /\ t = resources)
      /\ t = u => client' = client
  BY <1>0 DEF Find, Ask, life, lists
<1>2. CASE pc' = pc /\ cand' = cand
  <2>1. Quietly(t)
    BY <1>1, <1>2 DEF Quietly, Moves, Quiet
  <2>2. ManagerShape'
    BY <1>0, <1>1, <1>2 DEF ManagerShape, Dyings, Hands, DestroyLabels
  <2>3. Checked'
    BY <1>0, <1>1, <1>2 DEF Checked, Moving
  <2> QED BY <2>1, <2>2, <2>3, QuietHeld, QuietIsCalm, CalmLists
<1>3. CASE ~(pc' = pc /\ cand' = cand)
  <2>1. /\ pc' = [pc EXCEPT ![t] = "found"] /\ cand' = [cand EXCEPT ![t] = Wanted[u]]
        /\ Wanted[u] \in fat /\ (t = resources => client' = u)
    BY <1>0, <1>3 DEF Find, Ask, Go
  <2>2. Moves(t) /\ pc'[t] = "found" /\ cand'[t] \in fat
    BY <1>0, <1>1, <2>1 DEF Moves
  <2>3. Calmly(t)
    BY <1>1, <2>2 DEF Calmly
  <2>4. Lists' /\ CountIsExact' /\ \A q \in Resource : Deleting(q)' <=> Deleting(q)
    BY <2>3, CalmLists
  <2>5. Checked'
    BY <1>0, <1>1, <2>2, CheckedKept
  <2>6. ManagerShape'
    <3>1. CASE t = resources
      BY <2>1, <2>2, <3>1 DEF ManagerShape, Dyings, Hands, DestroyLabels
    <3>2. CASE t = u
      BY <1>0, <1>1, <2>2, <3>2, ManagerShapeKept
    <3> QED BY <3>1, <3>2
  <2>7. Shape'
    <3>1. ShapeAt(t)'
      BY <1>0, <1>1, <2>2 DEF ShapeAt, Dyings, Hands, DestroyLabels
    <3> QED BY <1>0, <2>2, <3>1, ShapeOfMove
  <2>8. \A q \in Resource : Alive(q)' <=> Alive(q)
    BY <1>1, <2>4 DEF Alive
  <2>9. \A v \in Thread \ {t} : pc'[v] = pc[v] /\ cand'[v] = cand[v]
                                 /\ (pc[v] \in Hands \cup {"found"} => cand[v] \in Resource)
    BY <1>0, <2>2 DEF Moves, Shape, ShapeAt
  <2>10. Pointed' /\ HeldIsAlive'
    <3>1. Pointed'
      BY <1>0, <1>1 DEF Held, Pointed
    <3>2. HeldIsAlive'
      BY <1>0, <1>1, <2>4 DEF Held, HeldIsAlive
    <3> QED BY <3>1, <3>2
  <2>11. Known'
    BY <1>0, <1>1, <2>2, <2>8, <2>9 DEF Held, Known
  <2>12. Handled'
    <3>1. ASSUME NEW v \in Thread, pc'[v] \in Hands
          PROVE  /\ pc'[v] = pc[v] /\ cand'[v] = cand[v] /\ cand[v] \in Resource
      BY <2>2, <2>9, <3>1 DEF Hands, DestroyLabels
    <3>2. ASSUME NEW v \in Thread, pc'[v] \in Hands
          PROVE  (Alive(cand[v])' <=> Alive(cand[v])) /\ (Deleting(cand[v])' <=> Deleting(cand[v]))
      BY <2>4, <2>8, <3>1, <3>2
    <3> QED BY <1>0, <1>1, <3>1, <3>2 DEF Held, Handled, HandledAt, Hands, DestroyLabels
  <2>13. OneDestroyer'
    BY <1>0, <1>1, <2>2, <2>9 DEF Held, OneDestroyer, Hands, DestroyLabels
  <2> QED BY <2>4, <2>5, <2>6, <2>7, <2>10, <2>11, <2>12, <2>13 DEF Held
<1> QED BY <1>2, <1>3

LEMMA ReclaimStep ==
    ASSUME DeletionAssumption, Inv, NEW t \in Thread,
           \/ t = resources /\ Reclaim
           \/ t \in User /\ ReclaimAtOnce(t)
    PROVE  Shape' /\ ManagerShape' /\ Lists' /\ Held' /\ CountIsExact' /\ Checked'
<1>0. /\ pc \in [Thread -> Labels] /\ refs \in [Resource -> SUBSET (Thread \cup Resource)]
      /\ fat \subseteq Cached /\ Cached \subseteq Resource
      /\ Shape /\ ManagerShape /\ Held /\ Checked /\ ShapeAt(t)
  BY DEF Inv, Basis, TypeOK, DeletionAssumption, Shape
<1>1. /\ pc[t] = "found" /\ cand[t] \in fat
      /\ UNCHANGED <<fat, deleted, delayed, local, m_num, m_flag, pushed_by, cand, stack,
                     batch, back, client>>
  BY <1>0 DEF Reclaim, ReclaimAtOnce, lists, tasks, Held, Known
<1>2. PICK u \in User : Take(u, cand[t])
  BY <1>0, <1>1 DEF Reclaim, ReclaimAtOnce, ManagerShape
<1>3. Moves(t) /\ pc'[t] \in {"init", "idle"}
  BY <1>0, <1>1 DEF Reclaim, ReclaimAtOnce, Go, Moves
<1>4. Calmly(t)
  BY <1>1, <1>3 DEF Calmly
<1>5. Lists' /\ CountIsExact' /\ \A q \in Resource : Deleting(q)' <=> Deleting(q)
  BY <1>4, CalmLists
<1>6. Checked'
  BY <1>0, <1>1, <1>3, CheckedKept
<1>7. ManagerShape'
  BY <1>0, <1>1, <1>3 DEF ManagerShape, Moves, Dyings, Hands, DestroyLabels
<1>8. Shape'
  <2>1. ShapeAt(t)'
    BY <1>0, <1>1, <1>3 DEF ShapeAt, Dyings, Hands, DestroyLabels
  <2> QED BY <1>0, <1>3, <2>1, ShapeOfMove
<1>9. \A q \in Resource : Alive(q)' <=> Alive(q)
  BY <1>1, <1>5 DEF Alive
<1>10. \A v \in Thread \ {t} : pc'[v] = pc[v]
                                /\ (pc[v] \in Hands \cup {"found"} => cand[v] \in Resource)
  BY <1>0, <1>3 DEF Moves, Shape, ShapeAt
<1>11. /\ \A q \in Resource : q # cand[t] => refs'[q] = refs[q]
       /\ refs'[cand[t]] = refs[cand[t]] \cup {u} /\ cand[t] \in Resource /\ Alive(cand[t])
       /\ rescued \subseteq rescued'
       /\ refs[cand[t]] = {} => cand[t] \in rescued'
  BY <1>0, <1>1, <1>2 DEF Held, Known, Take
<1>12. Pointed' /\ HeldIsAlive'
  <2>1. \A q \in Resource : Inner[q] # none => Inner[q] \in Resource
    BY DEF DeletionAssumption
  <2>2. Pointed'
    BY <1>0, <1>1, <1>11, <2>1 DEF Held, Pointed
  <2>3. HeldIsAlive'
    BY <1>0, <1>1, <1>5, <1>11 DEF Held, HeldIsAlive, Alive
  <2> QED BY <2>2, <2>3
<1>13. Known'
  BY <1>0, <1>1, <1>3, <1>9, <1>10, <1>11 DEF Held, Known
<1>14. Handled'
  <2>1. ASSUME NEW v \in Thread, pc'[v] \in Hands
        PROVE  /\ v # t /\ pc'[v] = pc[v] /\ cand[v] \in Resource
               /\ Alive(cand[v])' <=> Alive(cand[v])
               /\ Deleting(cand[v])' <=> Deleting(cand[v])
               /\ pc[v] \in {"unregistered", "push"} => cand[v] # cand[t]
               /\ refs[cand[v]] \subseteq User => refs'[cand[v]] \subseteq User
               /\ cand[v] \notin rescued' => refs'[cand[v]] = {}
    <3>1. v # t
      BY <1>3, <2>1 DEF Hands, DestroyLabels
    <3>2. pc'[v] = pc[v] /\ cand[v] \in Resource
      BY <1>10, <2>1, <3>1
    <3>3. pc[v] \in {"unregistered", "push"} => cand[v] # cand[t]
      BY <1>0, <1>1 DEF Held, Handled, HandledAt
    <3>4. refs[cand[v]] \subseteq User => refs'[cand[v]] \subseteq User
      <4>1. refs'[cand[v]] \subseteq refs[cand[v]] \cup {u}
        BY <1>11, <3>2
      <4> QED BY <4>1
    <3>5. (Alive(cand[v])' <=> Alive(cand[v])) /\ (Deleting(cand[v])' <=> Deleting(cand[v]))
      <4>1. cand'[v] = cand[v]
        BY <1>1
      <4> QED BY <1>5, <1>9, <3>2, <4>1
    <3>6. cand[v] \notin rescued' => refs'[cand[v]] = {}
      <4>1. cand[v] \notin rescued => refs[cand[v]] = {}
        BY <1>0, <2>1, <3>2 DEF Held, Handled, HandledAt
      <4> QED BY <1>11, <3>2, <4>1
    <3> QED BY <3>1, <3>2, <3>3, <3>4, <3>5, <3>6
  <2> QED BY <1>0, <1>1, <1>11, <2>1 DEF Held, Handled, HandledAt, Hands, DestroyLabels
<1>15. OneDestroyer'
  BY <1>0, <1>1, <1>3, <1>10, <1>11 DEF Held, OneDestroyer, Hands, DestroyLabels
<1> QED BY <1>5, <1>6, <1>7, <1>8, <1>12, <1>13, <1>14, <1>15 DEF Held

-----------------------------------------------------------------------------
(* Steps that move a resource from one place to the next *)

Waiting(r) == pushed_by[r] # none /\ r \notin deleted /\ ~Deleting(r)

(* what OnePlace says of a resource, without counting                      *)
Apart(r) ==
    /\ Waiting(r) <=> \/ Pushing(r) \/ In(r, delayed) \/ Moving(r)
                      \/ In(r, local[Owner[r]]) \/ In(r, batch[Owner[r]])
    /\ Pushing(r) => ~In(r, delayed) /\ ~Moving(r) /\ ~In(r, local[Owner[r]])
                     /\ ~In(r, batch[Owner[r]])
    /\ In(r, delayed) => ~Moving(r) /\ ~In(r, local[Owner[r]]) /\ ~In(r, batch[Owner[r]])
    /\ Moving(r) => ~In(r, local[Owner[r]]) /\ ~In(r, batch[Owner[r]])
    /\ In(r, local[Owner[r]]) => ~In(r, batch[Owner[r]])

LEMMA PlacesAreApart ==
    ASSUME OnePlace, NEW r \in Resource
    PROVE  Apart(r)
<1>1. Places(r) = One(pushed_by[r] # none /\ r \notin deleted /\ ~Deleting(r))
  BY DEF OnePlace
<1> QED BY <1>1 DEF Places, One, Apart, Waiting

LEMMA ApartIsOnePlace ==
    ASSUME Once(delayed)',
           \A t \in Thread : Once(local[t])' /\ Once(batch[t])' /\ Once(stack[t])',
           \A r \in Resource : Apart(r)'
    PROVE  OnePlace'
<1>1. ASSUME NEW r \in Resource
      PROVE  (Places(r) = One(pushed_by[r] # none /\ r \notin deleted /\ ~Deleting(r)))'
  <2>1. Apart(r)'
    OBVIOUS
  <2> QED BY <2>1 DEF Places, One, Apart, Waiting
<1> QED BY <1>1 DEF OnePlace

LEMMA ApartKept ==
    ASSUME NEW r \in Resource, Apart(r),
           Pushing(r)' <=> Pushing(r), In(r, delayed)' <=> In(r, delayed),
           Moving(r)' <=> Moving(r), Waiting(r)' <=> Waiting(r),
           In(r, local[Owner[r]])' <=> In(r, local[Owner[r]]),
           In(r, batch[Owner[r]])' <=> In(r, batch[Owner[r]])
    PROVE  Apart(r)'
BY DEF Apart

LEMMA UnderwayKept ==
    ASSUME CountIsExact, m_num' = m_num,
           \A r \in Resource : r \in Underway' <=> r \in Underway
    PROVE  CountIsExact'
<1>1. Underway' = Underway
  BY DEF Underway
<1> QED BY <1>1 DEF CountIsExact

LEMMA ListHeld ==
    ASSUME DeletionAssumption, Inv, NEW t \in Thread, NEW X \in SUBSET Resource, Moves(t),
           UNCHANGED <<refs, fat, deleted, rescued>>,
           \A q \in Resource \ X : (Deleting(q)' <=> Deleting(q)) /\ pushed_by'[q] = pushed_by[q],
           \A x \in X : /\ refs[x] = {} /\ x \notin fat
                        /\ \A v \in Thread \ {t} : TooLate(v, x),
           pc'[t] \notin {"found", "twice"},
           pc'[t] \in Hands => /\ pc[t] \in Hands /\ cand'[t] = cand[t]
                               /\ pc'[t] \in {"unregistered", "push"} => pc[t] = "unregistered",
           HandledAt(t)'
    PROVE  Held'
<1>0. /\ fat \subseteq Resource /\ Cached \subseteq Resource /\ Shape /\ Held
  BY DEF Inv, Basis, TypeOK, DeletionAssumption
<1>1. \A v \in Thread \ {t} : pc'[v] = pc[v] /\ cand'[v] = cand[v]
                               /\ (pc[v] \in Hands \cup {"found"} => cand[v] \in Resource)
  BY <1>0 DEF Moves, Shape, ShapeAt
<1>2. \A q \in Resource \ X : Alive(q)' <=> Alive(q)
  BY DEF Alive
<1>3. Pointed'
  BY <1>0 DEF Held, Pointed
<1>4. HeldIsAlive'
  <2>1. ASSUME NEW q \in Resource, refs[q] # {}
        PROVE  q \notin deleted /\ pushed_by'[q] = none /\ ~Deleting(q)'
    BY <1>0, <2>1 DEF Held, HeldIsAlive
  <2> QED BY <2>1 DEF HeldIsAlive
<1>5. Known'
  <2>1. \A q \in fat : Alive(q)'
    BY <1>0, <1>2 DEF Held, Known
  <2> QED BY <1>0, <1>1, <2>1 DEF Held, Known
<1>6. Handled'
  <2>1. ASSUME NEW v \in Thread \ {t} PROVE HandledAt(v)'
    <3>1. HandledAt(v)
      BY <1>0 DEF Held, Handled
    <3>2. pc'[v] = pc[v] /\ cand'[v] = cand[v] /\ (pc[v] \in Hands => cand[v] \in Resource)
      BY <1>1
    <3>3. CASE pc[v] \in Hands /\ cand[v] \in X
      <4>1. cand[v] \in Cached \ fat /\ pc[v] \notin {"unregistered", "push"}
        BY <3>3 DEF TooLate
      <4> QED BY <3>1, <3>2, <3>3, <4>1 DEF HandledAt, Hands, DestroyLabels
    <3>4. CASE pc[v] \in Hands /\ cand[v] \notin X
      <4>1. /\ Alive(cand[v])' <=> Alive(cand[v])
            /\ Deleting(cand[v])' <=> Deleting(cand[v])
            /\ pushed_by'[cand[v]] = pushed_by[cand[v]]
        BY <1>2, <3>2, <3>4
      <4> QED BY <3>1, <3>2, <4>1 DEF HandledAt, Hands, DestroyLabels
    <3>5. CASE pc[v] \notin Hands
      BY <3>2, <3>5 DEF HandledAt, Hands, DestroyLabels
    <3> QED BY <3>3, <3>4, <3>5
  <2> QED BY <2>1 DEF Handled
<1>7. OneDestroyer'
  BY <1>0, <1>1 DEF Held, OneDestroyer, Hands, DestroyLabels
<1> QED BY <1>3, <1>4, <1>5, <1>6, <1>7 DEF Held

(* the step moves the resource x                                           *)
LEMMA HeldOfMove ==
    ASSUME DeletionAssumption, Inv, NEW t \in Thread, NEW x \in Resource, Moves(t),
           UNCHANGED <<refs, fat, deleted, rescued>>,
           \A q \in Resource : q # x =>
               (Deleting(q)' <=> Deleting(q)) /\ pushed_by'[q] = pushed_by[q],
           refs[x] = {}, x \notin fat, \A v \in Thread \ {t} : TooLate(v, x),
           pc'[t] \notin {"found", "twice"},
           pc'[t] \in Hands => /\ pc[t] \in Hands /\ cand'[t] = cand[t]
                               /\ pc'[t] \in {"unregistered", "push"} => pc[t] = "unregistered",
           HandledAt(t)'
    PROVE  Held'
<1>1. PICK X \in SUBSET Resource : X = {x}
  OBVIOUS
<1>2. \A q \in Resource \ X : (Deleting(q)' <=> Deleting(q)) /\ pushed_by'[q] = pushed_by[q]
  BY <1>1
<1>3. \A y \in X : /\ refs[y] = {} /\ y \notin fat
                   /\ \A v \in Thread \ {t} : TooLate(v, y)
  BY <1>1
<1> QED BY <1>2, <1>3, ListHeld

(* What one thread has unregistered others are too late for.               *)
LEMMA HandFacts ==
    ASSUME Inv, NEW t \in Thread, pc[t] \in Hands
    PROVE  /\ cand[t] \in Resource /\ HandledAt(t)
           /\ pc[t] \in {"unregistered", "push"} =>
                 \A v \in Thread \ {t} : TooLate(v, cand[t])
<1>1. ShapeAt(t) /\ HandledAt(t) /\ OneDestroyer /\ rescued \subseteq Cached
  BY DEF Inv, Basis, TypeOK, Shape, Held, Handled
<1> QED BY <1>1 DEF ShapeAt, OneDestroyer, TooLate, Hands, DestroyLabels

LEMMA DeleteNowStep ==
    ASSUME DeletionAssumption, Inv, NEW t \in Thread, DeleteNow(t)
    PROVE  Shape' /\ ManagerShape' /\ Lists' /\ Held' /\ CountIsExact' /\ Checked'
<1>0. /\ pc \in [Thread -> Labels] /\ stack \in [Thread -> Seq(Resource)]
      /\ Shape /\ ManagerShape /\ Lists /\ CountIsExact /\ Checked /\ ShapeAt(t)
  BY DEF Inv, Basis, TypeOK, Shape
<1>1. /\ pc[t] = "unregistered" /\ Owner[cand[t]] = t
      /\ stack' = [stack EXCEPT ![t] = Append(stack[t], cand[t])]
      /\ pc' = [pc EXCEPT ![t] = "destruct"]
      /\ UNCHANGED <<refs, fat, deleted, rescued, delayed, local, m_num, m_flag, pushed_by, cand, batch,
                     back, client>>
  BY DEF DeleteNow, Go, life, lists, tasks
<1>2. PICK x \in Resource : x = cand[t]
  BY <1>1, HandFacts DEF Hands, DestroyLabels
<1>3. /\ refs[x] = {} /\ x \notin fat /\ x \notin deleted /\ ~Deleting(x)
      /\ pushed_by[x] = none /\ \A v \in Thread \ {t} : TooLate(v, x)
  BY <1>1, <1>2, HandFacts DEF HandledAt, Hands, DestroyLabels
<1>4. Moves(t) /\ pc'[t] = "destruct" /\ stack'[t] = Append(stack[t], x)
  BY <1>0, <1>1, <1>2 DEF Moves
<1>5. /\ stack[t] \in Seq(Resource) /\ Once(stack[t]) /\ ~In(x, stack[t])
  BY <1>0, <1>3 DEF Lists, OnePlace, Deleting
<1>6. /\ stack'[t] # << >> /\ Once(stack'[t]) /\ top(t)' = x
      /\ \A r : In(r, stack'[t]) <=> In(r, stack[t]) \/ r = x
  BY <1>4, <1>5, InAppend DEF top
<1>7. \A r \in Resource \ {x} : Deleting(r)' <=> Deleting(r)
  BY <1>4, <1>6 DEF Deleting, Moves
<1>8. \A r \in Resource : (Pushing(r)' <=> Pushing(r)) /\ (Moving(r)' <=> Moving(r))
  <2>1. pc[t] \notin {"push", "transfer"} /\ pc'[t] \notin {"push", "transfer"}
    BY <1>1, <1>4
  <2> QED BY <1>4, <2>1 DEF Pushing, Moving, Moves
<1>9. Lists'
  <2>1. \A u \in Thread : Once(local[u])' /\ Once(batch[u])' /\ Once(stack[u])'
    BY <1>0, <1>1, <1>4, <1>6 DEF Lists, OnePlace, Moves
  <2>2. ASSUME NEW r \in Resource PROVE Apart(r)'
    <3>1. Waiting(r)' <=> Waiting(r)
      BY <1>1, <1>3, <1>7 DEF Waiting
    <3>2. Apart(r)
      BY <1>0, PlacesAreApart DEF Lists
    <3> QED BY <1>1, <1>8, <3>1, <3>2, ApartKept
  <2>3. OnePlace'
    BY <1>0, <1>1, <2>1, <2>2, ApartIsOnePlace DEF Lists, OnePlace
  <2>4. OwnThread'
    BY <1>0, <1>1, <1>2, <1>4, <1>6 DEF Lists, OwnThread, Moves
  <2>5. Stacks'
    <3>1. ASSUME NEW u \in Thread, NEW r \in Resource, In(r, stack'[u])
          PROVE  r \notin deleted' <=> pc'[u] = "destruct" /\ r = top(u)'
      <4>1. CASE u = t
        BY <1>0, <1>1, <1>3, <1>4, <1>6, <3>1, <4>1 DEF Lists, Stacks
      <4>2. CASE u # t
        BY <1>0, <1>1, <1>4, <3>1, <4>2 DEF Lists, Stacks, Moves, top
      <4> QED BY <4>1, <4>2
    <3> QED BY <3>1 DEF Stacks
  <2> QED BY <2>3, <2>4, <2>5 DEF Lists
<1>10. CountIsExact'
  <2>1. \A r \in Resource : r \in Underway' <=> r \in Underway
    BY <1>1, <1>3, <1>7 DEF Underway
  <2> QED BY <1>0, <1>1, <2>1, UnderwayKept
<1>11. Held'
  <2>1. HandledAt(t)'
    BY <1>4 DEF HandledAt, Hands, DestroyLabels
  <2>2. pc'[t] \notin Hands \cup {"found", "twice"}
    BY <1>4 DEF Hands, DestroyLabels
  <2>3. \A q \in Resource : q # x => (Deleting(q)' <=> Deleting(q)) /\ pushed_by'[q] = pushed_by[q]
    BY <1>1, <1>7
  <2>4. UNCHANGED <<refs, fat, deleted, rescued>>
    BY <1>1
  <2> QED BY <1>3, <1>4, <2>1, <2>2, <2>3, <2>4, HeldOfMove
<1>12. Shape'
  <2>1. ShapeAt(t)'
    BY <1>0, <1>1, <1>4, <1>6 DEF ShapeAt, Dyings, Hands, DestroyLabels
  <2> QED BY <1>0, <1>4, <2>1, ShapeOfMove
<1>13. ManagerShape' /\ Checked'
  <2>1. pc[t] \in Dyings /\ pc'[t] \in Dyings
    BY <1>1, <1>4 DEF Dyings, Hands, DestroyLabels
  <2> QED BY <1>0, <1>1, <1>4, <2>1, ManagerShapeOfDying, CheckedKept
<1> QED BY <1>9, <1>10, <1>11, <1>12, <1>13

LEMMA CountDelayedStep ==
    ASSUME DeletionAssumption, Inv, NEW t \in Thread, CountDelayed(t)
    PROVE  Shape' /\ ManagerShape' /\ Lists' /\ Held' /\ CountIsExact' /\ Checked'
<1>0. /\ pc \in [Thread -> Labels] /\ pushed_by \in [Resource -> Thread \cup {none}]
      /\ Shape /\ ManagerShape /\ Lists /\ CountIsExact /\ Checked /\ ShapeAt(t)
      /\ m_num \in Nat /\ t # none
  BY DEF Inv, Basis, TypeOK, Shape, DeletionAssumption
<1>1. /\ pc[t] = "unregistered"
      /\ m_num' = m_num + 1 /\ pushed_by' = [pushed_by EXCEPT ![cand[t]] = t]
      /\ pc' = [pc EXCEPT ![t] = "push"]
      /\ UNCHANGED <<refs, fat, deleted, rescued, delayed, local, m_flag, cand, stack, batch,
                     back, client>>
  BY DEF CountDelayed, Go, life, tasks
<1>2. PICK x \in Resource : x = cand[t]
  BY <1>1, HandFacts DEF Hands, DestroyLabels
<1>3. /\ refs[x] = {} /\ x \notin fat /\ x \notin deleted /\ ~Deleting(x)
      /\ pushed_by[x] = none /\ \A v \in Thread \ {t} : TooLate(v, x)
  BY <1>1, <1>2, HandFacts DEF HandledAt, Hands, DestroyLabels
<1>4. /\ Moves(t) /\ pc'[t] = "push" /\ cand'[t] = x
      /\ pushed_by'[x] = t /\ \A r \in Resource : r # x => pushed_by'[r] = pushed_by[r]
  BY <1>0, <1>1, <1>2 DEF Moves
<1>5. \A r \in Resource : (Deleting(r)' <=> Deleting(r)) /\ (Moving(r)' <=> Moving(r))
  BY <1>1, <1>4 DEF Deleting, Moving, Moves
<1>6. Pushing(x)' /\ \A r \in Resource : r # x => (Pushing(r)' <=> Pushing(r))
  BY <1>1, <1>2, <1>4 DEF Pushing, Moves
<1>7. Lists'
  <2>1. ASSUME NEW r \in Resource PROVE Apart(r)'
    <3>1. Apart(r)
      BY <1>0, PlacesAreApart DEF Lists
    <3>2. CASE r = x
      <4>1. Waiting(r)'
        BY <1>0, <1>1, <1>3, <1>4, <1>5, <3>2 DEF Waiting
      <4>2. ~In(r, delayed) /\ ~Moving(r) /\ ~In(r, local[Owner[r]]) /\ ~In(r, batch[Owner[r]])
        BY <1>3, <3>1, <3>2 DEF Apart, Waiting
      <4> QED BY <1>1, <1>5, <1>6, <3>2, <4>1, <4>2 DEF Apart
    <3>3. CASE r # x
      <4>1. Waiting(r)' <=> Waiting(r)
        BY <1>1, <1>4, <1>5, <3>3 DEF Waiting
      <4> QED BY <1>1, <1>5, <1>6, <3>1, <3>3, <4>1, ApartKept
    <3> QED BY <3>2, <3>3
  <2>2. OnePlace'
    BY <1>0, <1>1, <2>1, ApartIsOnePlace DEF Lists, OnePlace
  <2>3. OwnThread' /\ Stacks'
    BY <1>0, <1>1, <1>4 DEF Lists, OwnThread, Stacks, top, Moves
  <2> QED BY <2>2, <2>3 DEF Lists
<1>8. CountIsExact'
  <2>1. Underway' = Underway \cup {x} /\ x \notin Underway
    BY <1>0, <1>1, <1>3, <1>4, <1>5 DEF Underway
  <2>2. Cardinality(Underway \cup {x}) = Cardinality(Underway) + 1
    BY <2>1, UnderwayIsFinite, FS_AddElement
  <2> QED BY <1>0, <1>1, <2>1, <2>2 DEF CountIsExact
<1>9. Held'
  <2>1. HandledAt(t)'
    <3>1. refs'[cand'[t]] = {} /\ cand'[t] \notin fat' /\ cand'[t] \notin deleted'
          /\ ~Deleting(cand[t])' /\ pushed_by'[cand'[t]] = t
      BY <1>1, <1>2, <1>3, <1>4, <1>5
    <3> QED BY <1>4, <3>1 DEF HandledAt, Hands, DestroyLabels
  <2>2. /\ pc'[t] \notin {"found", "twice"}
        /\ pc'[t] \in Hands => /\ pc[t] \in Hands /\ cand'[t] = cand[t]
                               /\ pc'[t] \in {"unregistered", "push"} => pc[t] = "unregistered"
    BY <1>1, <1>4 DEF Hands, DestroyLabels
  <2>3. \A q \in Resource : q # x => (Deleting(q)' <=> Deleting(q)) /\ pushed_by'[q] = pushed_by[q]
    BY <1>4, <1>5
  <2>4. UNCHANGED <<refs, fat, deleted, rescued>>
    BY <1>1
  <2> QED BY <1>3, <1>4, <2>1, <2>2, <2>3, <2>4, HeldOfMove
<1>10. Shape'
  <2>1. ShapeAt(t)'
    BY <1>0, <1>1, <1>2, <1>4 DEF ShapeAt, Dyings, Hands, DestroyLabels
  <2> QED BY <1>0, <1>4, <2>1, ShapeOfMove
<1>11. ManagerShape'
  <2>1. pc[t] \in Dyings /\ pc'[t] \in Dyings
    BY <1>1, <1>4 DEF Dyings, Hands, DestroyLabels
  <2> QED BY <1>0, <1>1, <1>4, <2>1, ManagerShapeOfDying
<1>12. Checked'
  <2> SUFFICES ASSUME NEW u \in User, NEW r \in Resource,
                      pc'[u] \in {"mounts", "flag", "exited"}, pushed_by'[r] = u
               PROVE  ~In(r, delayed)' /\ (pc'[u] = "exited" => ~Moving(r)')
    BY DEF Checked
  <2>1. u # t /\ pc'[u] = pc[u]
    BY <1>4 DEF Moves
  <2>2. r # x /\ pushed_by[r] = u
    BY <1>4, <2>1
  <2> QED BY <1>0, <1>1, <1>5, <2>1, <2>2 DEF Checked
<1> QED BY <1>7, <1>8, <1>9, <1>10, <1>11, <1>12

LEMMA PushDelayedStep ==
    ASSUME DeletionAssumption, Inv, NEW t \in Thread, PushDelayed(t)
    PROVE  Shape' /\ ManagerShape' /\ Lists' /\ Held' /\ CountIsExact' /\ Checked'
<1>0. /\ pc \in [Thread -> Labels] /\ delayed \in Seq(Resource)
      /\ Shape /\ ManagerShape /\ Lists /\ CountIsExact /\ Checked /\ ShapeAt(t)
      /\ t # none
  BY DEF Inv, Basis, TypeOK, Shape, DeletionAssumption
<1>1. /\ pc[t] = "push" /\ delayed' = Append(delayed, cand[t])
      /\ pc' = [pc EXCEPT ![t] = "wakeup_resources_thread"]
      /\ UNCHANGED <<refs, fat, deleted, rescued, local, m_num, m_flag, pushed_by, cand, stack, batch,
                     back, client>>
  BY DEF PushDelayed, Go, life, tasks
<1>2. PICK x \in Resource : x = cand[t]
  BY <1>1, HandFacts DEF Hands
<1>3. /\ refs[x] = {} /\ x \notin fat /\ x \notin deleted /\ ~Deleting(x)
      /\ pushed_by[x] = t /\ \A v \in Thread \ {t} : TooLate(v, x)
  BY <1>1, <1>2, HandFacts DEF HandledAt, Hands
<1>4. /\ Moves(t) /\ pc'[t] = "wakeup_resources_thread" /\ delayed' = Append(delayed, x)
  BY <1>0, <1>1, <1>2 DEF Moves
<1>5. /\ \A r \in Resource : (Deleting(r)' <=> Deleting(r)) /\ (Moving(r)' <=> Moving(r))
      /\ Pushing(x) /\ ~Pushing(x)'
      /\ \A r \in Resource : r # x => (Pushing(r)' <=> Pushing(r))
  BY <1>1, <1>2, <1>3, <1>4 DEF Deleting, Moving, Pushing, Moves, TooLate, Hands
<1>6. Apart(x) /\ ~In(x, delayed)
  BY <1>0, <1>5, PlacesAreApart DEF Lists, Apart
<1>7. Once(delayed') /\ \A r : In(r, delayed') <=> In(r, delayed) \/ r = x
  BY <1>0, <1>4, <1>6, InAppend DEF Lists, OnePlace
<1>8. Lists'
  <2>1. \A r \in Resource : Waiting(r)' <=> Waiting(r)
    BY <1>1, <1>5 DEF Waiting
  <2>2. ASSUME NEW r \in Resource PROVE Apart(r)'
    <3>1. CASE r = x
      BY <1>1, <1>5, <1>6, <1>7, <2>1, <3>1 DEF Apart
    <3>2. CASE r # x
      <4>1. Apart(r)
        BY <1>0, PlacesAreApart DEF Lists
      <4>2. In(r, delayed)' <=> In(r, delayed)
        BY <1>7, <3>2
      <4> QED BY <1>1, <1>5, <2>1, <3>2, <4>1, <4>2, ApartKept
    <3> QED BY <3>1, <3>2
  <2>3. OnePlace'
    BY <1>0, <1>1, <1>7, <2>2, ApartIsOnePlace DEF Lists, OnePlace
  <2>4. OwnThread' /\ Stacks'
    BY <1>0, <1>1, <1>4 DEF Lists, OwnThread, Stacks, top, Moves
  <2> QED BY <2>3, <2>4 DEF Lists
<1>9. CountIsExact'
  <2>1. \A r \in Resource : r \in Underway' <=> r \in Underway
    BY <1>1, <1>5 DEF Underway
  <2> QED BY <1>0, <1>1, <2>1, UnderwayKept
<1>10. Held'
  <2>1. pc'[t] \notin Hands \cup {"found", "twice"}
    BY <1>4 DEF Hands, DestroyLabels
  <2>2. HandledAt(t)'
    BY <2>1 DEF HandledAt, Hands, DestroyLabels
  <2>3. \A q \in Resource : q # x => (Deleting(q)' <=> Deleting(q)) /\ pushed_by'[q] = pushed_by[q]
    BY <1>1, <1>5
  <2>4. UNCHANGED <<refs, fat, deleted, rescued>> /\ pc'[t] \notin Hands \cup {"found", "twice"}
    BY <1>1, <2>1
  <2> QED BY <1>3, <1>4, <2>2, <2>3, <2>4, HeldOfMove
<1>11. Shape'
  <2>1. ShapeAt(t)'
    BY <1>0, <1>1, <1>4 DEF ShapeAt, Dyings, Hands, DestroyLabels
  <2> QED BY <1>0, <1>4, <2>1, ShapeOfMove
<1>12. ManagerShape'
  <2>1. pc[t] \in Dyings /\ pc'[t] \in Dyings \cup {back[t]}
    BY <1>1, <1>4 DEF Dyings, Hands
  <2> QED BY <1>0, <1>1, <1>4, <2>1, ManagerShapeOfDying
<1>13. Checked'
  <2> SUFFICES ASSUME NEW u \in User, NEW r \in Resource,
                      pc'[u] \in {"mounts", "flag", "exited"}, pushed_by'[r] = u
               PROVE  ~In(r, delayed)' /\ (pc'[u] = "exited" => ~Moving(r)')
    BY DEF Checked
  <2>1. u # t /\ pc'[u] = pc[u]
    BY <1>4 DEF Moves
  <2>2. r # x /\ pushed_by[r] = u
    BY <1>1, <1>3, <2>1
  <2> QED BY <1>0, <1>5, <1>7, <2>1, <2>2 DEF Checked
<1> QED BY <1>8, <1>9, <1>10, <1>11, <1>12, <1>13

(* The thread tells the resources thread and goes on.                      *)
LEMMA WakeupStep ==
    ASSUME DeletionAssumption, Inv, NEW t \in Thread, WakeupResources(t)
    PROVE  Shape' /\ ManagerShape' /\ Lists' /\ Held' /\ CountIsExact' /\ Checked'
<1>0. /\ pc \in [Thread -> Labels] /\ Rest(t) \in Labels
      /\ Shape /\ ManagerShape /\ Checked /\ ShapeAt(t)
  BY RestIsLabel DEF Inv, Basis, TypeOK, Shape
<1>1. /\ pc[t] = "wakeup_resources_thread" /\ pc' = [pc EXCEPT ![t] = Rest(t)]
      /\ UNCHANGED <<refs, fat, deleted, rescued, delayed, local, m_num, m_flag, pushed_by, cand, stack,
                     batch, back, client>>
  BY DEF WakeupResources, Go, life, lists, tasks
<1>2. /\ Moves(t) /\ pc'[t] = Rest(t)
      /\ pc'[t] \in {"free", "batch", "idle", "callbacks", "sleep", "again", "scan"}
  BY <1>0, <1>1, RestFacts DEF Moves
<1>3. Calmly(t)
  BY <1>1, <1>2 DEF Calmly
<1>4. Lists' /\ CountIsExact' /\ \A r \in Resource : Deleting(r)' <=> Deleting(r)
  BY <1>3, CalmLists
<1>5. Held'
  <2>1. pc'[t] \notin Hands \cup {"found", "twice"}
    BY <1>2 DEF Hands, DestroyLabels
  <2>2. HandledAt(t)'
    BY <2>1 DEF HandledAt, Hands, DestroyLabels
  <2>3. PICK X \in SUBSET Resource : X = {}
    OBVIOUS
  <2> QED BY <1>1, <1>2, <1>4, <2>1, <2>2, <2>3, ListHeld
<1>6. Shape'
  <2>1. ShapeAt(t)'
    BY <1>0, <1>1, <1>2, RestFacts DEF ShapeAt, Dyings, Hands, DestroyLabels
  <2> QED BY <1>0, <1>2, <2>1, ShapeOfMove
<1>7. ManagerShape'
  <2>1. pc[t] \in Dyings /\ pc'[t] \in Dyings \cup {back[t]}
    BY <1>0, <1>1, <1>2, RestFacts DEF Dyings, Hands
  <2> QED BY <1>0, <1>1, <1>2, <2>1, ManagerShapeOfDying
<1>8. Checked'
  BY <1>0, <1>1, <1>2, CheckedKept
<1> QED BY <1>4, <1>5, <1>6, <1>7, <1>8

(* A resource in a list or on a stack is out of everybody's reach.         *)
LEMMA QueuedFacts ==
    ASSUME Inv, NEW x \in Resource, (Waiting(x) /\ ~Pushing(x)) \/ Deleting(x)
    PROVE  /\ refs[x] = {} /\ x \notin fat
           /\ \A v \in Thread : TooLate(v, x)
<1>1. ~Alive(x) /\ HeldIsAlive /\ Known /\ Handled
  BY DEF Waiting, Alive, Inv, Held
<1>2. refs[x] = {} /\ x \notin fat
  BY <1>1 DEF HeldIsAlive, Known, Alive
<1>3. ASSUME NEW v \in Thread, pc[v] \in Hands, cand[v] = x
      PROVE  x \in Cached /\ pc[v] \notin {"unregistered", "push"}
  BY <1>1, <1>3 DEF Handled, HandledAt, Hands, DestroyLabels, Waiting, Pushing
<1> QED BY <1>2, <1>3 DEF TooLate

LEMMA DeleteNextStep ==
    ASSUME DeletionAssumption, Inv, NEW t \in Thread, DeleteNext(t)
    PROVE  Shape' /\ ManagerShape' /\ Lists' /\ Held' /\ CountIsExact' /\ Checked'
<1>0. /\ pc \in [Thread -> Labels] /\ stack \in [Thread -> Seq(Resource)]
      /\ batch \in [Thread -> Seq(Resource)]
      /\ Shape /\ ManagerShape /\ Lists /\ CountIsExact /\ Checked /\ ShapeAt(t)
  BY DEF Inv, Basis, TypeOK, Shape
<1>1. /\ pc[t] = "batch" /\ pc' = [pc EXCEPT ![t] = "destruct"]
      /\ stack' = [stack EXCEPT ![t] = << Head(batch[t]) >>]
      /\ batch' = [batch EXCEPT ![t] = Tail(batch[t])]
      /\ UNCHANGED <<refs, fat, deleted, rescued, delayed, local, m_num, m_flag, pushed_by, cand,
                     back, client>>
  BY DEF DeleteNext, Go, life, lists, tasks
<1>2. stack[t] = << >> /\ batch[t] # << >> /\ Once(batch[t])
  BY <1>0, <1>1 DEF ShapeAt, Lists, OnePlace
<1>3. PICK x \in Resource : x = Head(batch[t])
  BY <1>0, <1>2, InTail
<1>4. /\ In(x, batch[t]) /\ Once(Tail(batch[t]))
      /\ \A r : In(r, Tail(batch[t])) <=> In(r, batch[t]) /\ r # x
  BY <1>0, <1>2, <1>3, InTail
<1>5. /\ Moves(t) /\ pc'[t] = "destruct" /\ stack'[t] = << x >> /\ batch'[t] = Tail(batch[t])
  BY <1>0, <1>1, <1>3 DEF Moves
<1>6. /\ stack'[t] # << >> /\ Once(stack'[t]) /\ top(t)' = x
      /\ \A r : In(r, stack'[t]) <=> r = x
  BY <1>5, InSingle DEF top
<1>7. Owner[x] = t /\ Apart(x) /\ Waiting(x) /\ ~Pushing(x) /\ ~In(x, delayed) /\ ~Moving(x)
      /\ ~In(x, local[t]) /\ x \notin deleted
  <2>1. Owner[x] = t
    BY <1>0, <1>4 DEF Lists, OwnThread
  <2>2. Apart(x)
    BY <1>0, PlacesAreApart DEF Lists
  <2> QED BY <1>4, <2>1, <2>2 DEF Apart, Waiting
<1>8. /\ \A r \in Resource : r # x => (Deleting(r)' <=> Deleting(r))
      /\ Deleting(x)'
  BY <1>2, <1>5, <1>6, InEmpty DEF Deleting, Moves
<1>9. \A r \in Resource : (Pushing(r)' <=> Pushing(r)) /\ (Moving(r)' <=> Moving(r))
  <2>1. pc[t] \notin {"push", "transfer"} /\ pc'[t] \notin {"push", "transfer"}
    BY <1>1, <1>5
  <2> QED BY <1>5, <2>1 DEF Pushing, Moving, Moves
<1>10. Lists'
  <2>1. \A u \in Thread : Once(local[u])' /\ Once(batch[u])' /\ Once(stack[u])'
    BY <1>0, <1>1, <1>4, <1>5, <1>6 DEF Lists, OnePlace, Moves
  <2>2. ASSUME NEW r \in Resource PROVE Apart(r)'
    <3>1. CASE r = x
      <4>1. ~Waiting(r)' /\ ~In(r, batch[Owner[r]])'
        BY <1>4, <1>5, <1>7, <1>8, <3>1 DEF Waiting
      <4>2. ~Pushing(r)' /\ ~Moving(r)' /\ ~In(r, delayed)' /\ ~In(r, local[Owner[r]])'
        BY <1>1, <1>7, <1>9, <3>1
      <4> QED BY <4>1, <4>2 DEF Apart
    <3>2. CASE r # x
      <4>1. Apart(r) /\ (Waiting(r)' <=> Waiting(r))
        BY <1>0, <1>1, <1>8, <3>2, PlacesAreApart DEF Lists, Waiting
      <4>2. In(r, batch[Owner[r]])' <=> In(r, batch[Owner[r]])
        <5>1. Owner[r] \in Thread
          BY DEF DeletionAssumption
        <5> QED BY <1>4, <1>5, <3>2, <5>1 DEF Moves
      <4> QED BY <1>1, <1>9, <4>1, <4>2, ApartKept
    <3> QED BY <3>1, <3>2
  <2>3. OnePlace'
    BY <1>0, <1>1, <2>1, <2>2, ApartIsOnePlace DEF Lists, OnePlace
  <2>4. OwnThread'
    <3>1. ASSUME NEW u \in Thread, NEW r \in Resource,
                 In(r, local[u])' \/ In(r, batch[u])' \/ In(r, stack[u])'
          PROVE  Owner[r] = u
      <4>1. local' = local
        BY <1>1
      <4>2. CASE u = t
        <5>1. In(r, batch[t])' => In(r, batch[t])
          BY <1>4, <1>5
        <5>2. In(r, stack[t])' => r = x
          BY <1>6
        <5> QED BY <1>0, <1>7, <3>1, <4>1, <4>2, <5>1, <5>2 DEF Lists, OwnThread
      <4>3. CASE u # t
        BY <1>0, <1>5, <3>1, <4>1, <4>3 DEF Lists, OwnThread, Moves
      <4> QED BY <4>2, <4>3
    <3> QED BY <3>1 DEF OwnThread
  <2>5. Stacks'
    <3>1. ASSUME NEW u \in Thread, NEW r \in Resource, In(r, stack'[u])
          PROVE  r \notin deleted' <=> pc'[u] = "destruct" /\ r = top(u)'
      <4>1. CASE u = t
        BY <1>1, <1>5, <1>6, <1>7, <3>1, <4>1
      <4>2. CASE u # t
        BY <1>0, <1>1, <1>5, <3>1, <4>2 DEF Lists, Stacks, Moves, top
      <4> QED BY <4>1, <4>2
    <3> QED BY <3>1 DEF Stacks
  <2> QED BY <2>3, <2>4, <2>5 DEF Lists
<1>11. CountIsExact'
  <2>1. \A r \in Resource : r \in Underway' <=> r \in Underway
    BY <1>1, <1>7, <1>8 DEF Underway
  <2> QED BY <1>0, <1>1, <2>1, UnderwayKept
<1>12. Held'
  <2>1. pc'[t] \notin Hands \cup {"found", "twice"}
    BY <1>5 DEF Hands, DestroyLabels
  <2>2. HandledAt(t)'
    BY <2>1 DEF HandledAt, Hands, DestroyLabels
  <2>3. \A q \in Resource : q # x => (Deleting(q)' <=> Deleting(q)) /\ pushed_by'[q] = pushed_by[q]
    BY <1>1, <1>8
  <2>4. UNCHANGED <<refs, fat, deleted, rescued>> /\ pc'[t] \notin Hands \cup {"found", "twice"}
    BY <1>1, <2>1
  <2>5. refs[x] = {} /\ x \notin fat /\ \A v \in Thread \ {t} : TooLate(v, x)
    BY <1>7, QueuedFacts
  <2> QED BY <1>5, <2>2, <2>3, <2>4, <2>5, HeldOfMove
<1>13. Shape'
  <2>1. ShapeAt(t)'
    BY <1>0, <1>1, <1>5, <1>6 DEF ShapeAt, Dyings, Hands, DestroyLabels
  <2> QED BY <1>0, <1>5, <2>1, ShapeOfMove
<1>14. ManagerShape' /\ Checked'
  <2>1. pc[t] \in Dyings /\ pc'[t] \in Dyings
    BY <1>1, <1>5 DEF Dyings, Hands, DestroyLabels
  <2> QED BY <1>0, <1>1, <1>5, <2>1, ManagerShapeOfDying, CheckedKept
<1> QED BY <1>10, <1>11, <1>12, <1>13, <1>14

LEMMA TakeLocalStep ==
    ASSUME DeletionAssumption, Inv, NEW t \in Thread,
           NEW then \in {"callbacks", "again", "sleep"}, TakeLocal(t, then),
           pc[t] \in Quiet, t # resources,
           UNCHANGED <<refs, fat, deleted, rescued, cand, stack, client>>
    PROVE  Shape' /\ ManagerShape' /\ Lists' /\ Held' /\ CountIsExact' /\ Checked'
<1>0. /\ pc \in [Thread -> Labels] /\ local \in [Thread -> Seq(Resource)]
      /\ batch \in [Thread -> Seq(Resource)] /\ back \in [Thread -> Labels]
      /\ Shape /\ ManagerShape /\ Lists /\ CountIsExact /\ Checked /\ ShapeAt(t)
  BY DEF Inv, Basis, TypeOK, Shape
<1>1. /\ batch' = [batch EXCEPT ![t] = local[t]] /\ local' = [local EXCEPT ![t] = << >>]
      /\ back' = [back EXCEPT ![t] = then]
      /\ pc' = [pc EXCEPT ![t] = IF local[t] = << >> THEN then ELSE "batch"]
      /\ UNCHANGED <<delayed, m_num, m_flag, pushed_by>>
  BY DEF TakeLocal, Go
<1>2. stack[t] = << >> /\ batch[t] = << >>
  BY <1>0 DEF ShapeAt, Dyings, Hands, DestroyLabels, Quiet
<1>3. /\ Moves(t) /\ back'[t] = then /\ batch'[t] = local[t]
      /\ pc'[t] = IF local[t] = << >> THEN then ELSE "batch"
      /\ local'[t] = << >> /\ \A u \in Thread \ {t} : local'[u] = local[u]
  BY <1>0, <1>1 DEF Moves
<1>4. /\ pc[t] \notin {"push", "transfer", "found"} /\ pc'[t] \notin {"push", "transfer", "found"}
      /\ pc[t] # "destruct" /\ pc'[t] # "destruct"
      /\ pc'[t] \notin Hands
  BY <1>3 DEF Quiet, Hands, DestroyLabels
<1>5. \A r \in Resource : /\ Deleting(r)' <=> Deleting(r)
                          /\ Pushing(r)' <=> Pushing(r)
                          /\ Moving(r)' <=> Moving(r)
                          /\ Waiting(r)' <=> Waiting(r)
  <2>1. \A r \in Resource : /\ Deleting(r)' <=> Deleting(r)
                            /\ Pushing(r)' <=> Pushing(r)
                            /\ Moving(r)' <=> Moving(r)
    BY <1>3, <1>4 DEF Deleting, Pushing, Moving, Moves
  <2> QED BY <1>1, <2>1 DEF Waiting
<1>6. Lists'
  <2>1. \A u \in Thread : Once(local[u])' /\ Once(batch[u])' /\ Once(stack[u])'
    BY <1>0, <1>3, InEmpty DEF Lists, OnePlace, Moves
  <2>2. ASSUME NEW r \in Resource PROVE Apart(r)'
    <3>0. Apart(r) /\ Owner[r] \in Thread
      BY <1>0, PlacesAreApart DEF Lists, DeletionAssumption
    <3>1. CASE Owner[r] = t
      <4>1. ~In(r, local[Owner[r]])' /\ (In(r, batch[Owner[r]])' <=> In(r, local[Owner[r]]))
            /\ ~In(r, batch[Owner[r]])
        BY <1>2, <1>3, <3>1, InEmpty
      <4> QED BY <1>1, <1>5, <3>0, <4>1 DEF Apart
    <3>2. CASE Owner[r] # t
      <4>1. local'[Owner[r]] = local[Owner[r]] /\ batch'[Owner[r]] = batch[Owner[r]]
        BY <1>3, <3>0, <3>2 DEF Moves
      <4> QED BY <1>1, <1>5, <3>0, <4>1, ApartKept
    <3> QED BY <3>1, <3>2
  <2>3. OnePlace'
    BY <1>0, <1>1, <2>1, <2>2, ApartIsOnePlace DEF Lists, OnePlace
  <2>4. OwnThread'
    <3>1. ASSUME NEW u \in Thread, NEW r \in Resource,
                 In(r, local'[u]) \/ In(r, batch'[u]) \/ In(r, stack'[u])
          PROVE  Owner[r] = u
      <4>1. CASE u = t
        <5>1. In(r, local[t]) \/ In(r, stack[t])
          BY <1>3, <3>1, <4>1, InEmpty
        <5> QED BY <1>0, <4>1, <5>1 DEF Lists, OwnThread
      <4>2. CASE u # t
        BY <1>0, <1>3, <3>1, <4>2 DEF Lists, OwnThread, Moves
      <4> QED BY <4>1, <4>2
    <3> QED BY <3>1 DEF OwnThread
  <2>5. Stacks'
    <3>1. \A u \in Thread : (pc'[u] = "destruct" <=> pc[u] = "destruct") /\ stack'[u] = stack[u]
      BY <1>3, <1>4 DEF Moves
    <3> QED BY <1>0, <3>1 DEF Lists, Stacks, top
  <2> QED BY <2>3, <2>4, <2>5 DEF Lists
<1>7. CountIsExact'
  <2>1. \A r \in Resource : r \in Underway' <=> r \in Underway
    BY <1>1, <1>5 DEF Underway
  <2> QED BY <1>0, <1>1, <2>1, UnderwayKept
<1>8. Held'
  <2>1. HandledAt(t)'
    BY <1>4 DEF HandledAt, Hands, DestroyLabels
  <2>2. PICK X \in SUBSET Resource : X = {}
    OBVIOUS
  <2>3. \A q \in Resource \ X : (Deleting(q)' <=> Deleting(q)) /\ pushed_by'[q] = pushed_by[q]
    BY <1>1, <1>5
  <2>4. \A y \in X : /\ refs[y] = {} /\ y \notin fat
                     /\ \A v \in Thread \ {t} : TooLate(v, y)
    BY <2>2
  <2> QED BY <1>3, <1>4, <2>1, <2>3, <2>4, ListHeld
<1>9. Shape'
  <2>1. ShapeAt(t)'
    BY <1>0, <1>1, <1>2, <1>3 DEF ShapeAt, Dyings, Hands, DestroyLabels
  <2> QED BY <1>0, <1>3, <2>1, ShapeOfMove
<1>10. ManagerShape'
  BY <1>0, <1>1, <1>3, ManagerShapeKept
<1>11. Checked'
  <2>1. pc'[t] \notin {"mounts", "flag", "exited", "transfer"}
    BY <1>3
  <2> QED BY <1>0, <1>1, <1>3, <2>1, CheckedKept
<1> QED BY <1>6, <1>7, <1>8, <1>9, <1>10, <1>11

LEMMA ScanStep ==
    ASSUME DeletionAssumption, Inv, Scan
    PROVE  Shape' /\ ManagerShape' /\ Lists' /\ Held' /\ CountIsExact' /\ Checked'
<1>0. /\ pc \in [Thread -> Labels] /\ stack \in [Thread -> Seq(Resource)]
      /\ cand \in [Thread -> Resource \cup {none}] /\ delayed \in Seq(Resource)
      /\ Shape /\ ManagerShape /\ Lists /\ CountIsExact /\ Checked /\ ShapeAt(resources)
  BY DEF Inv, Basis, TypeOK, Shape
<1>1. /\ pc[resources] = "scan" /\ delayed # << >> /\ delayed' = Tail(delayed)
      /\ UNCHANGED <<refs, fat, deleted, rescued, local, m_num, m_flag, pushed_by, batch, back, client>>
  BY DEF Scan, life, tasks
<1>2. stack[resources] = << >> /\ batch[resources] = << >> /\ Once(delayed)
  BY <1>0, <1>1 DEF ShapeAt, Dyings, Hands, DestroyLabels, Lists, OnePlace
<1>3. PICK x \in Resource : x = Head(delayed)
  BY <1>0, <1>1, <1>2, InTail
<1>4. /\ In(x, delayed) /\ Once(delayed')
      /\ \A r : In(r, delayed') <=> In(r, delayed) /\ r # x
  BY <1>0, <1>1, <1>2, <1>3, InTail
<1>5. /\ Apart(x) /\ Waiting(x) /\ ~Pushing(x) /\ ~Moving(x)
      /\ ~In(x, local[Owner[x]]) /\ ~In(x, batch[Owner[x]]) /\ x \notin deleted /\ ~Deleting(x)
  <2>1. Apart(x)
    BY <1>0, PlacesAreApart DEF Lists
  <2> QED BY <1>4, <2>1 DEF Apart, Waiting
<1>6. refs[x] = {} /\ x \notin fat /\ \A v \in Thread : TooLate(v, x)
  BY <1>5, QueuedFacts
<1>7. PICK s \in Seq(Resource) :
         s = << x >> /\ s # << >> /\ Once(s) /\ s[Len(s)] = x /\ \A y : In(y, s) <=> y = x
  BY InSingle
<1>8. /\ Moves(resources)
      /\ \/ /\ Owner[x] = resources /\ pc'[resources] = "destruct"
            /\ stack'[resources] = s /\ cand'[resources] = cand[resources]
         \/ /\ pc'[resources] = "transfer" /\ cand'[resources] = x
            /\ stack'[resources] = stack[resources]
  <2>1. CASE Owner[x] = resources
    <3>1. /\ stack' = [stack EXCEPT ![resources] = s] /\ cand' = cand
          /\ pc' = [pc EXCEPT ![resources] = "destruct"]
      BY <1>3, <1>7, <2>1 DEF Scan, Go
    <3> QED BY <1>0, <1>1, <2>1, <3>1 DEF Moves
  <2>2. CASE Owner[x] # resources
    <3>1. /\ stack' = stack /\ cand' = [cand EXCEPT ![resources] = x]
          /\ pc' = [pc EXCEPT ![resources] = "transfer"]
      BY <1>3, <2>2 DEF Scan, Go
    <3> QED BY <1>0, <1>1, <3>1 DEF Moves
  <2> QED BY <2>1, <2>2
<1>9. pc'[resources] \in {"destruct", "transfer"} /\ pc'[resources] \notin Hands
  BY <1>8 DEF Hands, DestroyLabels
<1>10. \A r \in Resource : Pushing(r)' <=> Pushing(r)
  BY <1>1, <1>8 DEF Pushing, Moves
<1>11. \A r \in Resource : r # x => /\ Moving(r)' <=> Moving(r)
                                    /\ Deleting(r)' <=> Deleting(r)
                                    /\ Waiting(r)' <=> Waiting(r)
  <2>1. \A r \in Resource : r # x => (Moving(r)' <=> Moving(r))
    BY <1>1, <1>8 DEF Moving
  <2>2. \A r \in Resource : r # x => (In(r, stack'[resources]) <=> In(r, stack[resources]))
    BY <1>2, <1>7, <1>8, InEmpty
  <2>3. \A r \in Resource : r # x => (Deleting(r)' <=> Deleting(r))
    BY <1>8, <2>2 DEF Deleting, Moves
  <2> QED BY <1>1, <2>1, <2>3 DEF Waiting
<1>12. \/ pc'[resources] = "destruct" /\ Deleting(x)' /\ ~Moving(x)'
       \/ pc'[resources] = "transfer" /\ ~Deleting(x)' /\ Moving(x)'
  <2>1. CASE pc'[resources] = "destruct"
    BY <1>7, <1>8, <2>1 DEF Deleting, Moving
  <2>2. CASE pc'[resources] = "transfer"
    BY <1>5, <1>8, <2>2 DEF Deleting, Moving, Moves
  <2> QED BY <1>9, <2>1, <2>2
<1>13. Lists'
  <2>1. \A u \in Thread : Once(local[u])' /\ Once(batch[u])' /\ Once(stack[u])'
    <3>1. Once(stack'[resources])
      BY <1>0, <1>7, <1>8 DEF Lists, OnePlace
    <3> QED BY <1>0, <1>1, <1>8, <3>1 DEF Lists, OnePlace, Moves
  <2>2. ASSUME NEW r \in Resource PROVE Apart(r)'
    <3>1. CASE r = x
      <4>1. ~Pushing(r)' /\ ~In(r, delayed)' /\ ~In(r, local[Owner[r]])' /\ ~In(r, batch[Owner[r]])'
        BY <1>1, <1>4, <1>5, <1>10, <3>1
      <4>2. Waiting(r)' <=> Moving(r)'
        BY <1>1, <1>5, <1>12, <3>1 DEF Waiting
      <4> QED BY <4>1, <4>2 DEF Apart
    <3>2. CASE r # x
      <4>1. Apart(r) /\ (In(r, delayed)' <=> In(r, delayed))
        BY <1>0, <1>4, <3>2, PlacesAreApart DEF Lists
      <4> QED BY <1>1, <1>10, <1>11, <3>2, <4>1, ApartKept
    <3> QED BY <3>1, <3>2
  <2>3. OnePlace'
    BY <1>0, <1>4, <2>1, <2>2, ApartIsOnePlace
  <2>4. OwnThread'
    <3>1. ASSUME NEW u \in Thread, NEW r \in Resource,
                 In(r, local[u]) \/ In(r, batch[u]) \/ In(r, stack'[u])
          PROVE  Owner[r] = u
      <4>1. In(r, stack'[u]) => In(r, stack[u]) \/ (r = x /\ Owner[x] = u)
        <5>1. CASE u = resources
          BY <1>7, <1>8, <5>1
        <5>2. CASE u # resources
          BY <1>8, <5>2 DEF Moves
        <5> QED BY <5>1, <5>2
      <4> QED BY <1>0, <3>1, <4>1 DEF Lists, OwnThread
    <3> QED BY <1>1, <3>1 DEF OwnThread
  <2>5. Stacks'
    <3>1. ASSUME NEW u \in Thread, NEW r \in Resource, In(r, stack'[u])
          PROVE  r \notin deleted' <=> pc'[u] = "destruct" /\ r = top(u)'
      <4>1. CASE u = resources
        <5>1. stack'[resources] = s /\ pc'[resources] = "destruct"
          BY <1>2, <1>8, <3>1, <4>1, InEmpty
        <5>2. r = x /\ top(u)' = x
          BY <1>7, <3>1, <4>1, <5>1 DEF top
        <5> QED BY <1>1, <1>5, <4>1, <5>1, <5>2
      <4>2. CASE u # resources
        BY <1>0, <1>1, <1>8, <3>1, <4>2 DEF Lists, Stacks, Moves, top
      <4> QED BY <4>1, <4>2
    <3> QED BY <3>1 DEF Stacks
  <2> QED BY <2>3, <2>4, <2>5 DEF Lists
<1>14. CountIsExact'
  <2>1. \A r \in Resource : r \in Underway' <=> r \in Underway
    BY <1>1, <1>5, <1>11 DEF Underway
  <2> QED BY <1>0, <1>1, <2>1, UnderwayKept
<1>15. Held'
  <2>1. HandledAt(resources)'
    BY <1>9 DEF HandledAt, Hands, DestroyLabels
  <2>2. \A q \in Resource : q # x => (Deleting(q)' <=> Deleting(q)) /\ pushed_by'[q] = pushed_by[q]
    BY <1>1, <1>11
  <2> QED BY <1>1, <1>6, <1>8, <1>9, <2>1, <2>2, HeldOfMove
<1>16. Shape'
  <2>1. ShapeAt(resources)'
    <3>1. CASE pc'[resources] = "destruct"
      BY <1>0, <1>1, <1>7, <1>8, <3>1 DEF ShapeAt, Dyings, Hands, DestroyLabels
    <3>2. CASE pc'[resources] = "transfer"
      BY <1>0, <1>1, <1>2, <1>8, <3>2 DEF ShapeAt, Dyings, Hands, DestroyLabels
    <3> QED BY <1>9, <3>1, <3>2
  <2> QED BY <1>0, <1>8, <2>1, ShapeOfMove
<1>17. ManagerShape'
  BY <1>0, <1>1, <1>9 DEF ManagerShape, Dyings
<1>18. Checked'
  <2> SUFFICES ASSUME NEW u \in User, NEW r \in Resource,
                      pc'[u] \in {"mounts", "flag", "exited"}, pushed_by'[r] = u
               PROVE  ~In(r, delayed)' /\ (pc'[u] = "exited" => ~Moving(r)')
    BY DEF Checked
  <2>1. u # resources /\ pc'[u] = pc[u] /\ pushed_by[r] = u
    BY <1>1, <1>8 DEF Moves, DeletionAssumption
  <2>2. ~In(r, delayed) /\ r # x
    BY <1>0, <1>4, <2>1 DEF Checked
  <2> QED BY <1>0, <1>4, <1>11, <2>1, <2>2 DEF Checked
<1> QED BY <1>13, <1>14, <1>15, <1>16, <1>17, <1>18

LEMMA TransferStep ==
    ASSUME DeletionAssumption, Inv, Transfer
    PROVE  Shape' /\ ManagerShape' /\ Lists' /\ Held' /\ CountIsExact' /\ Checked'
<1>0. /\ pc \in [Thread -> Labels] /\ local \in [Thread -> Seq(Resource)]
      /\ Shape /\ ManagerShape /\ Lists /\ CountIsExact /\ Checked /\ ShapeAt(resources)
  BY DEF Inv, Basis, TypeOK, Shape
<1>1. /\ pc[resources] = "transfer"
      /\ \E l \in {"scan", "wakeup_cooker_thread"} : pc' = [pc EXCEPT ![resources] = l]
      /\ local' = [local EXCEPT ![Owner[cand[resources]]]
                         = Append(local[Owner[cand[resources]]], cand[resources])]
      /\ UNCHANGED <<refs, fat, deleted, rescued, delayed, m_num, m_flag, pushed_by, cand, stack, batch,
                     back, client>>
  BY DEF Transfer, Go, life, tasks
<1>2. PICK x \in Resource : x = cand[resources]
  BY <1>0, <1>1 DEF ShapeAt
<1>3. PICK o \in Thread : o = Owner[x]
  BY DEF DeletionAssumption
<1>4. /\ Apart(x) /\ Moving(x) /\ Waiting(x) /\ ~Pushing(x) /\ ~In(x, delayed)
      /\ ~In(x, local[o]) /\ ~In(x, batch[o])
  <2>1. Apart(x) /\ Moving(x)
    BY <1>0, <1>1, <1>2, PlacesAreApart DEF Lists, Moving
  <2> QED BY <1>3, <2>1 DEF Apart
<1>5. refs[x] = {} /\ x \notin fat /\ \A v \in Thread : TooLate(v, x)
  BY <1>4, QueuedFacts
<1>6. /\ Moves(resources) /\ pc'[resources] \in {"scan", "wakeup_cooker_thread"}
      /\ local'[o] = Append(local[o], x) /\ \A u \in Thread \ {o} : local'[u] = local[u]
  BY <1>0, <1>1, <1>2, <1>3 DEF Moves
<1>7. /\ Once(local'[o]) /\ \A r : In(r, local'[o]) <=> In(r, local[o]) \/ r = x
  BY <1>0, <1>4, <1>6, InAppend DEF Lists, OnePlace
<1>8. \A r \in Resource : /\ Deleting(r)' <=> Deleting(r)
                          /\ Pushing(r)' <=> Pushing(r)
                          /\ Waiting(r)' <=> Waiting(r)
                          /\ r # x => (Moving(r)' <=> Moving(r))
  <2>1. \A r \in Resource : /\ Deleting(r)' <=> Deleting(r)
                            /\ Pushing(r)' <=> Pushing(r)
                            /\ r # x => (Moving(r)' <=> Moving(r))
    BY <1>1, <1>2, <1>6 DEF Deleting, Pushing, Moving, Moves
  <2> QED BY <1>1, <2>1 DEF Waiting
<1>9. ~Moving(x)'
  BY <1>6 DEF Moving
<1>10. Lists'
  <2>1. \A u \in Thread : Once(local[u])' /\ Once(batch[u])' /\ Once(stack[u])'
    <3>1. \A u \in Thread : Once(local'[u])
      BY <1>0, <1>6, <1>7 DEF Lists, OnePlace
    <3> QED BY <1>0, <1>1, <3>1 DEF Lists, OnePlace
  <2>2. ASSUME NEW r \in Resource PROVE Apart(r)'
    <3>1. CASE r = x
      <4>1. ~Pushing(r)' /\ ~In(r, delayed)' /\ ~Moving(r)' /\ ~In(r, batch[Owner[r]])'
            /\ In(r, local[Owner[r]])' /\ Waiting(r)'
        BY <1>1, <1>3, <1>4, <1>7, <1>8, <1>9, <3>1
      <4> QED BY <4>1 DEF Apart
    <3>2. CASE r # x
      <4>1. Apart(r) /\ Owner[r] \in Thread
        BY <1>0, PlacesAreApart DEF Lists, DeletionAssumption
      <4>2. In(r, local[Owner[r]])' <=> In(r, local[Owner[r]])
        BY <1>6, <1>7, <3>2, <4>1
      <4> QED BY <1>1, <1>8, <3>2, <4>1, <4>2, ApartKept
    <3> QED BY <3>1, <3>2
  <2>3. OnePlace'
    BY <1>0, <1>1, <2>1, <2>2, ApartIsOnePlace DEF Lists, OnePlace
  <2>4. OwnThread'
    <3>1. ASSUME NEW u \in Thread, NEW r \in Resource, In(r, local'[u]) PROVE Owner[r] = u
      <4>1. In(r, local[u]) \/ (r = x /\ u = o)
        BY <1>6, <1>7, <3>1
      <4> QED BY <1>0, <1>3, <4>1 DEF Lists, OwnThread
    <3> QED BY <1>0, <1>1, <3>1 DEF Lists, OwnThread
  <2>5. Stacks'
    BY <1>0, <1>1, <1>6 DEF Lists, Stacks, top, Moves
  <2> QED BY <2>3, <2>4, <2>5 DEF Lists
<1>11. CountIsExact'
  <2>1. \A r \in Resource : r \in Underway' <=> r \in Underway
    BY <1>1, <1>8 DEF Underway
  <2> QED BY <1>0, <1>1, <2>1, UnderwayKept
<1>12. Held'
  <2>1. pc'[resources] \notin Hands \cup {"found", "twice"}
    BY <1>6 DEF Hands, DestroyLabels
  <2>2. HandledAt(resources)'
    BY <1>6 DEF HandledAt, Hands, DestroyLabels
  <2>3. \A q \in Resource : q # x => (Deleting(q)' <=> Deleting(q)) /\ pushed_by'[q] = pushed_by[q]
    BY <1>1, <1>8
  <2> QED BY <1>1, <1>5, <1>6, <2>1, <2>2, <2>3, HeldOfMove
<1>13. Shape'
  <2>1. ShapeAt(resources)'
    BY <1>0, <1>1, <1>6 DEF ShapeAt, Dyings, Hands, DestroyLabels
  <2> QED BY <1>0, <1>6, <2>1, ShapeOfMove
<1>14. ManagerShape' /\ Checked'
  <2>1. ManagerShape'
    BY <1>0, <1>1, <1>6 DEF ManagerShape
  <2> QED BY <1>0, <1>1, <1>6, <2>1, CheckedKept
<1> QED BY <1>10, <1>11, <1>12, <1>13, <1>14

LEMMA FreeStep ==
    ASSUME DeletionAssumption, Inv, NEW t \in Thread, Free(t)
    PROVE  Shape' /\ ManagerShape' /\ Lists' /\ Held' /\ CountIsExact' /\ Checked'
<1>0. /\ pc \in [Thread -> Labels] /\ stack \in [Thread -> Seq(Resource)] /\ TypeOK
      /\ Shape /\ ManagerShape /\ Lists /\ CountIsExact /\ Checked /\ ShapeAt(t)
  BY DEF Inv, Basis, TypeOK, Shape
<1>1. /\ pc[t] = "free" /\ stack[t] # << >>
      /\ stack' = [stack EXCEPT ![t] = Front(stack[t])]
      /\ m_num' = IF pushed_by[top(t)] = none THEN m_num ELSE m_num - 1
      /\ pc' = [pc EXCEPT ![t] = IF Len(stack[t]) > 1 THEN "free"
                                 ELSE IF batch[t] # << >> THEN "batch" ELSE back[t]]
      /\ UNCHANGED <<refs, fat, deleted, rescued, delayed, local, m_flag, pushed_by, cand, batch, back,
                     client>>
  BY <1>0 DEF Free, Go, life, tasks, ShapeAt
<1>2. PICK x \in Resource : x = top(t) /\ In(x, stack[t]) /\ Owner[x] = t /\ Deleting(x)
  BY <1>0, <1>1, TopOfStack
<1>3. x \in deleted
  BY <1>0, <1>1, <1>2 DEF Lists, Stacks
<1>4. refs[x] = {} /\ x \notin fat /\ \A v \in Thread : TooLate(v, x)
  BY <1>2, QueuedFacts
<1>5. /\ Moves(t) /\ stack'[t] = Front(stack[t])
      /\ pc'[t] = IF Len(stack[t]) > 1 THEN "free"
                  ELSE IF batch[t] # << >> THEN "batch" ELSE back[t]
  BY <1>0, <1>1 DEF Moves
<1>6. /\ Once(stack'[t]) /\ \A r : In(r, stack'[t]) <=> In(r, stack[t]) /\ r # x
      /\ stack'[t] = << >> <=> ~(Len(stack[t]) > 1)
  <2>1. stack[t] \in Seq(Resource) /\ Once(stack[t])
    BY <1>0 DEF Lists, OnePlace
  <2> QED BY <1>1, <1>2, <1>5, <2>1, InFront DEF top
<1>7. /\ pc'[t] \in {"free", "batch", "idle", "callbacks", "sleep", "again", "scan"}
      /\ pc'[t] \in {"free", "batch", back[t]} /\ pc'[t] \notin Hands
  BY <1>0, <1>5 DEF ShapeAt, Hands, DestroyLabels
<1>8. /\ \A r \in Resource : r # x => (Deleting(r)' <=> Deleting(r))
      /\ ~Deleting(x)'
  <2>1. \A u \in Thread \ {t} : ~In(x, stack[u])
    BY <1>0, <1>2 DEF Lists, OwnThread
  <2> QED BY <1>5, <1>6, <2>1 DEF Deleting, Moves
<1>9. \A r \in Resource : /\ Pushing(r)' <=> Pushing(r)
                          /\ Moving(r)' <=> Moving(r)
                          /\ Waiting(r)' <=> Waiting(r)
  <2>1. \A r \in Resource : (Pushing(r)' <=> Pushing(r)) /\ (Moving(r)' <=> Moving(r))
    BY <1>1, <1>5, <1>7 DEF Pushing, Moving, Moves
  <2>2. \A r \in Resource : Waiting(r)' <=> Waiting(r)
    BY <1>1, <1>3, <1>8 DEF Waiting
  <2> QED BY <2>1, <2>2
<1>10. Lists'
  <2>1. \A u \in Thread : Once(local[u])' /\ Once(batch[u])' /\ Once(stack[u])'
    <3>1. \A u \in Thread : Once(stack'[u])
      BY <1>0, <1>5, <1>6 DEF Lists, OnePlace, Moves
    <3> QED BY <1>0, <1>1, <3>1 DEF Lists, OnePlace
  <2>2. ASSUME NEW r \in Resource PROVE Apart(r)'
    <3>1. Apart(r)
      BY <1>0, PlacesAreApart DEF Lists
    <3> QED BY <1>1, <1>9, <3>1, ApartKept
  <2>3. OnePlace'
    BY <1>0, <1>1, <2>1, <2>2, ApartIsOnePlace DEF Lists, OnePlace
  <2>4. \A u \in Thread, r \in Resource : In(r, stack'[u]) => In(r, stack[u])
    BY <1>5, <1>6 DEF Moves
  <2>5. OwnThread'
    BY <1>0, <1>1, <2>4 DEF Lists, OwnThread
  <2>6. Stacks'
    <3>1. ASSUME NEW u \in Thread, NEW r \in Resource, In(r, stack'[u])
          PROVE  r \notin deleted' <=> pc'[u] = "destruct" /\ r = top(u)'
      <4>1. CASE u = t
        BY <1>0, <1>1, <1>7, <2>4, <3>1, <4>1 DEF Lists, Stacks
      <4>2. CASE u # t
        BY <1>0, <1>1, <1>5, <3>1, <4>2 DEF Lists, Stacks, Moves, top
      <4> QED BY <4>1, <4>2
    <3> QED BY <3>1 DEF Stacks
  <2> QED BY <2>3, <2>5, <2>6 DEF Lists
<1>11. CountIsExact'
  <2>1. CASE pushed_by[x] = none
    <3>1. \A r \in Resource : r \in Underway' <=> r \in Underway
      BY <1>1, <1>8, <2>1 DEF Underway
    <3> QED BY <1>0, <1>1, <1>2, <2>1, <3>1, UnderwayKept
  <2>2. CASE pushed_by[x] # none
    <3>1. Underway' = Underway \ {x} /\ x \in Underway
      BY <1>1, <1>2, <1>3, <1>8, <2>2 DEF Underway
    <3>2. Cardinality(Underway \ {x}) = Cardinality(Underway) - 1
      BY <3>1, UnderwayIsFinite, FS_RemoveElement
    <3> QED BY <1>0, <1>1, <1>2, <2>2, <3>1, <3>2 DEF CountIsExact
  <2> QED BY <2>1, <2>2
<1>12. Held'
  <2>1. HandledAt(t)'
    BY <1>7 DEF HandledAt, Hands, DestroyLabels
  <2>2. \A q \in Resource : q # x => (Deleting(q)' <=> Deleting(q)) /\ pushed_by'[q] = pushed_by[q]
    BY <1>1, <1>8
  <2>3. pc'[t] # "found"
    BY <1>7
  <2> QED BY <1>1, <1>4, <1>5, <1>7, <2>1, <2>2, <2>3, HeldOfMove
<1>13. Shape'
  <2>1. ShapeAt(t)'
    BY <1>0, <1>1, <1>5, <1>6, <1>7 DEF ShapeAt, Dyings, Hands, DestroyLabels
  <2> QED BY <1>0, <1>5, <2>1, ShapeOfMove
<1>14. ManagerShape'
  <2>1. pc[t] \in Dyings /\ pc'[t] \in Dyings \cup {back[t]}
    BY <1>1, <1>7 DEF Dyings
  <2> QED BY <1>0, <1>1, <1>5, <2>1, ManagerShapeOfDying
<1>15. Checked'
  BY <1>0, <1>1, <1>5, <1>7, CheckedKept
<1> QED BY <1>10, <1>11, <1>12, <1>13, <1>14, <1>15

LEMMA DestructStep ==
    ASSUME DeletionAssumption, Inv, NEW t \in Thread, Destruct(t)
    PROVE  Shape' /\ ManagerShape' /\ Lists' /\ Held' /\ CountIsExact' /\ Checked'
<1>0. /\ pc \in [Thread -> Labels] /\ cand \in [Thread -> Resource \cup {none}] /\ TypeOK
      /\ refs \in [Resource -> SUBSET (Thread \cup Resource)]
      /\ fat \subseteq Resource /\ Cached \subseteq Resource
      /\ Shape /\ ManagerShape /\ Lists /\ CountIsExact /\ Checked /\ Held /\ ShapeAt(t)
  BY DEF Inv, Basis, TypeOK, Shape, DeletionAssumption
<1>1. /\ pc[t] = "destruct" /\ stack[t] # << >> /\ deleted' = deleted \cup {top(t)}
      /\ UNCHANGED <<fat, rescued, delayed, local, m_num, m_flag, pushed_by, stack, batch, back,
                     client>>
  BY <1>0 DEF Destruct, lists, tasks, ShapeAt
<1>2. PICK x \in Resource : x = top(t) /\ In(x, stack[t]) /\ Owner[x] = t /\ Deleting(x)
  BY <1>0, <1>1, TopOfStack
<1>3. /\ x \notin deleted /\ deleted' = deleted \cup {x}
      /\ refs[x] = {} /\ x \notin fat /\ \A v \in Thread : TooLate(v, x)
  BY <1>0, <1>1, <1>2, QueuedFacts DEF Lists, Stacks
<1>4. \/ /\ refs' = refs /\ cand' = cand /\ pc' = [pc EXCEPT ![t] = "free"]
      \/ \E y \in Resource :
            /\ Inner[x] = y /\ refs' = [refs EXCEPT ![y] = refs[y] \ {x}]
            /\ \/ /\ refs[y] \subseteq {x} /\ cand' = [cand EXCEPT ![t] = y]
                  /\ pc' = [pc EXCEPT ![t] = "destroy"]
               \/ cand' = cand /\ pc' = [pc EXCEPT ![t] = "free"]
  <2>1. CASE Inner[x] = none
    BY <1>2, <2>1 DEF Destruct, Go
  <2>2. CASE Inner[x] # none
    <3>1. PICK y \in Resource : y = Inner[x]
      BY <2>2 DEF DeletionAssumption
    <3>2. Drop(t, x, y, "free")
      BY <1>2, <2>2, <3>1 DEF Destruct
    <3>3. refs' = [refs EXCEPT ![y] = refs[y] \ {x}]
      BY <3>2 DEF Drop
    <3>4. \/ /\ refs[y] \subseteq {x} /\ cand' = [cand EXCEPT ![t] = y]
             /\ pc' = [pc EXCEPT ![t] = "destroy"]
          \/ cand' = cand /\ pc' = [pc EXCEPT ![t] = "free"]
      BY <3>2 DEF Drop, Go
    <3> QED BY <3>1, <3>3, <3>4
  <2> QED BY <2>1, <2>2
<1>5. /\ Moves(t) /\ pc'[t] \in {"free", "destroy"}
      /\ \A q \in Resource : refs'[q] \subseteq refs[q] /\ refs[q] \subseteq refs'[q] \cup {x}
  BY <1>0, <1>1, <1>4 DEF Moves
<1>6. pc'[t] = "destroy" =>
        /\ cand'[t] \in Resource /\ refs'[cand'[t]] = {} /\ x \in refs[cand'[t]]
        /\ cand'[t] # x
  <2>1. Inner[x] \in Resource => x \in refs[Inner[x]]
    BY <1>0, <1>3 DEF Held, Pointed, DeletionAssumption
  <2> QED BY <1>0, <1>3, <1>4, <2>1
<1>7. \A r \in Resource : /\ Deleting(r)' <=> Deleting(r)
                          /\ Pushing(r)' <=> Pushing(r)
                          /\ Moving(r)' <=> Moving(r)
                          /\ Waiting(r)' <=> Waiting(r)
                          /\ r # x => (Alive(r)' <=> Alive(r))
  <2>1. \A r \in Resource : /\ Deleting(r)' <=> Deleting(r)
                            /\ Pushing(r)' <=> Pushing(r)
                            /\ Moving(r)' <=> Moving(r)
    BY <1>1, <1>5 DEF Deleting, Pushing, Moving, Moves
  <2> QED BY <1>1, <1>2, <1>3, <2>1 DEF Waiting, Alive
<1>8. Lists'
  <2>1. ASSUME NEW r \in Resource PROVE Apart(r)'
    <3>1. Apart(r)
      BY <1>0, PlacesAreApart DEF Lists
    <3> QED BY <1>1, <1>7, <3>1, ApartKept
  <2>2. OnePlace'
    BY <1>0, <1>1, <2>1, ApartIsOnePlace DEF Lists, OnePlace
  <2>3. OwnThread'
    BY <1>0, <1>1 DEF Lists, OwnThread
  <2>4. Stacks'
    <3>1. ASSUME NEW u \in Thread, NEW r \in Resource, In(r, stack[u])
          PROVE  r \notin deleted' <=> pc'[u] = "destruct" /\ r = top(u)
      <4>1. CASE u = t
        BY <1>0, <1>1, <1>2, <1>3, <1>5, <3>1, <4>1 DEF Lists, Stacks
      <4>2. CASE u # t
        <5>1. r # x /\ pc'[u] = pc[u]
          BY <1>0, <1>2, <1>5, <3>1, <4>2 DEF Lists, OwnThread, Moves
        <5> QED BY <1>0, <1>3, <3>1, <5>1 DEF Lists, Stacks
      <4> QED BY <4>1, <4>2
    <3> QED BY <1>1, <3>1 DEF Stacks, top
  <2> QED BY <2>2, <2>3, <2>4 DEF Lists
<1>9. CountIsExact'
  <2>1. \A r \in Resource : r \in Underway' <=> r \in Underway
    BY <1>1, <1>2, <1>3, <1>7 DEF Underway
  <2> QED BY <1>0, <1>1, <2>1, UnderwayKept
<1>10. \A v \in Thread \ {t} :
          /\ pc'[v] = pc[v] /\ cand'[v] = cand[v]
          /\ pc[v] \in Hands \cup {"found"} => cand[v] \in Resource
          /\ TooLate(v, x) /\ (pc[v] \in Hands => x \notin refs[cand[v]])
  <2>1. x \notin User
    BY DEF DeletionAssumption
  <2>2. \A v \in Thread : pc[v] \in Hands => refs[cand[v]] \subseteq User
    BY <1>0 DEF Held, Handled, HandledAt
  <2> QED BY <1>0, <1>3, <1>5, <2>1, <2>2 DEF Moves, Shape, ShapeAt
<1>11. pc'[t] = "destroy" => /\ Alive(cand[t])' /\ (cand'[t] \in Cached => cand'[t] \in fat)
  <2>1. ASSUME pc'[t] = "destroy", NEW y \in Resource, y = cand'[t]
        PROVE  Alive(y)' /\ (y \in Cached => y \in fat)
    <3>1. refs[y] # {} /\ y # x
      BY <1>6, <2>1
    <3>2. Alive(y) /\ (y \in Cached => y \in fat)
      BY <1>0, <3>1 DEF Held, HeldIsAlive, Known, Alive
    <3> QED BY <1>7, <3>1, <3>2
  <2> QED BY <1>6, <2>1
<1>12. Pointed' /\ HeldIsAlive'
  <2>1. Pointed'
    <3>1. ASSUME NEW q \in Resource, Inner[q] # none, q \notin deleted'
          PROVE  q \in refs'[Inner[q]]
      <4>1. q # x /\ q \in refs[Inner[q]] /\ Inner[q] \in Resource
        BY <1>0, <1>3, <3>1 DEF Held, Pointed, DeletionAssumption
      <4> QED BY <1>5, <4>1
    <3> QED BY <3>1 DEF Pointed
  <2>2. ASSUME NEW q \in Resource, refs'[q] # {}
        PROVE  q \notin deleted' /\ pushed_by[q] = none /\ ~Deleting(q)'
    <3>1. refs[q] # {} /\ q # x
      BY <1>3, <1>5, <2>2
    <3> QED BY <1>0, <1>3, <1>7, <3>1 DEF Held, HeldIsAlive
  <2> QED BY <1>1, <2>1, <2>2 DEF HeldIsAlive
<1>13. Known'
  <2>1. \A q \in Cached : refs'[q] # {} => q \in fat
    BY <1>0, <1>5 DEF Held, Known
  <2>2. \A q \in fat : Alive(q)'
    BY <1>0, <1>3, <1>7 DEF Held, Known
  <2>3. \A v \in Thread : pc'[v] = "found" => cand'[v] \in fat
    BY <1>0, <1>5, <1>10 DEF Held, Known
  <2> QED BY <1>1, <2>1, <2>2, <2>3 DEF Known
<1>14. Handled'
  <2>1. ASSUME NEW v \in Thread \ {t} PROVE HandledAt(v)'
    <3>1. HandledAt(v) /\ pc'[v] = pc[v] /\ cand'[v] = cand[v]
      BY <1>0, <1>10 DEF Held, Handled
    <3>2. pc[v] \in Hands => /\ refs'[cand[v]] = refs[cand[v]]
                             /\ cand[v] # x => (Alive(cand[v])' <=> Alive(cand[v]))
                             /\ Deleting(cand[v])' <=> Deleting(cand[v])
      <4>1. pc[v] \in Hands => cand[v] \in Resource /\ x \notin refs[cand[v]]
        BY <1>10
      <4>2. pc[v] \in Hands => refs'[cand[v]] = refs[cand[v]]
        <5>1. ASSUME pc[v] \in Hands, NEW A, NEW B, A = refs'[cand[v]], B = refs[cand[v]]
              PROVE  A = B
          <6>1. A \subseteq B /\ B \subseteq A \cup {x} /\ x \notin B
            BY <1>5, <4>1, <5>1
          <6>2. \A e : e \in A <=> e \in B
            BY <6>1
          <6> QED BY <6>2
        <5> QED BY <5>1
      <4> QED BY <1>7, <3>1, <4>1, <4>2
    <3>3. CASE pc[v] \in Hands /\ cand[v] = x
      <4>1. x \in Cached \ fat /\ pc[v] \notin {"unregistered", "push"}
        BY <1>3, <1>10, <3>3 DEF TooLate
      <4> QED BY <1>1, <3>1, <3>2, <3>3, <4>1 DEF HandledAt, Hands, DestroyLabels
    <3>4. CASE pc[v] \notin Hands \/ cand[v] # x
      BY <1>1, <1>3, <3>1, <3>2, <3>4 DEF HandledAt, Hands, DestroyLabels
    <3> QED BY <3>3, <3>4
  <2>2. HandledAt(t)'
    BY <1>1, <1>5, <1>6, <1>11 DEF HandledAt, Hands, DestroyLabels
  <2> QED BY <2>1, <2>2 DEF Handled
<1>15. OneDestroyer'
  <2>1. \A v \in Thread \ {t} : pc'[t] = "destroy" /\ pc[v] \in Hands => cand[v] # cand'[t]
    BY <1>6, <1>10
  <2> QED BY <1>0, <1>1, <1>5, <1>10, <2>1 DEF Held, OneDestroyer, Hands, DestroyLabels
<1>16. Shape'
  <2>1. ShapeAt(t)'
    BY <1>0, <1>1, <1>5, <1>6 DEF ShapeAt, Dyings, Hands, DestroyLabels
  <2> QED BY <1>0, <1>5, <2>1, ShapeOfMove
<1>17. ManagerShape' /\ Checked'
  <2>1. pc[t] \in Dyings /\ pc'[t] \in Dyings
    BY <1>1, <1>5 DEF Dyings, Hands, DestroyLabels
  <2> QED BY <1>0, <1>1, <1>5, <2>1, ManagerShapeOfDying, CheckedKept
<1> QED BY <1>8, <1>9, <1>12, <1>13, <1>14, <1>15, <1>16, <1>17 DEF Held

-----------------------------------------------------------------------------
(* The inductive invariant *)

LEMMA InitInv == ASSUME DeletionAssumption, Init PROVE Inv
<1>1. /\ \A t \in Thread : /\ pc[t] \in {"idle", "sleep"} /\ stack[t] = << >> /\ batch[t] = << >>
                           /\ local[t] = << >> /\ back[t] \in {"idle", "sleep"}
                           /\ cand[t] = none
      /\ delayed = << >> /\ deleted = {} /\ fat = Cached /\ m_num = 0
      /\ \A r \in Resource : pushed_by[r] = none
      /\ pc[resources] = "sleep"
  BY DEF Init, DeletionAssumption
<1>2. \A r : ~In(r, << >>)
  BY InEmpty
<1>3. \A r \in Resource : ~Deleting(r) /\ ~Pushing(r) /\ ~Moving(r)
  BY <1>1, <1>2 DEF Deleting, Pushing, Moving
<1>4. TypeOK
  <2>1. refs \in [Resource -> SUBSET (Thread \cup Resource)]
    BY DEF Init, DeletionAssumption
  <2>2. /\ delayed \in Seq(Resource) /\ local \in [Thread -> Seq(Resource)]
        /\ stack \in [Thread -> Seq(Resource)] /\ batch \in [Thread -> Seq(Resource)]
    BY EmptySeq DEF Init
  <2>3. pc \in [Thread -> Labels] /\ back \in [Thread -> Labels]
    BY DEF Init, Labels
  <2>4. /\ pushed_by \in [Resource -> Thread \cup {none}]
        /\ wakeup \in [{resources, cooker} -> BOOLEAN]
        /\ cand \in [Thread -> Resource \cup {none}]
        /\ query \in [User -> {"none", "found", "new", "taken", "ready", "done"}]
        /\ mount \in [User -> {"none", "created", "queued", "taken", "ready", "done"}]
        /\ seen \in [User -> BOOLEAN]
    BY DEF Init
  <2> QED BY <2>1, <2>2, <2>3, <2>4 DEF Init, TypeOK
<1>5. Shape /\ ManagerShape
  BY <1>1 DEF Shape, ShapeAt, ManagerShape, Dyings, Hands, DestroyLabels
<1>6. Lists
  <2>1. \A r \in Resource : Places(r) = 0
    <3>1. \A r \in Resource : local[Owner[r]] = << >> /\ batch[Owner[r]] = << >>
      BY <1>1 DEF DeletionAssumption
    <3> QED BY <1>1, <1>2, <1>3, <3>1 DEF Places, One
  <2>2. OnePlace
    BY <1>1, <2>1, InEmpty DEF OnePlace, One
  <2> QED BY <1>1, <1>2, <2>2 DEF Lists, OwnThread, Stacks
<1>7. Held
  <2>1. Pointed
    BY DEF Init, Pointed, DeletionAssumption
  <2>2. Known /\ Handled /\ OneDestroyer /\ HeldIsAlive
    BY <1>1, <1>3 DEF Known, Alive, Handled, HandledAt, OneDestroyer, HeldIsAlive, Hands,
                      DestroyLabels, DeletionAssumption
  <2> QED BY <2>1, <2>2 DEF Held
<1>8. CountIsExact
  <2>1. Underway = {}
    BY <1>1 DEF Underway
  <2> QED BY <1>1, <2>1, FS_EmptySet DEF CountIsExact
<1>9. Checked
  BY <1>1 DEF Checked
<1> QED BY <1>4, <1>5, <1>6, <1>7, <1>8, <1>9 DEF Inv, Basis

LEMMA InvOfStep ==
    ASSUME DeletionAssumption, Inv, Next
    PROVE  Inv'
<1>0. TypeOK /\ Shape /\ ManagerShape /\ Lists
  BY DEF Inv, Basis
<1>1. ASSUME TypeOK', Shape', ManagerShape', Lists', Held', CountIsExact', Checked'
      PROVE  Inv'
  BY <1>1 DEF Inv, Basis
<1>2. ASSUME NEW t \in Thread, Dying(t) PROVE Inv'
  <2>1. TypeOK'
    BY <1>2, TypesOfDying
  <2> QED BY <1>1, <1>2, <2>1, UnregisterStep, DeleteNowStep, CountDelayedStep, PushDelayedStep,
             WakeupStep, DestructStep, FreeStep, DeleteNextStep DEF Dying
<1>3. CASE Manager
  <2>1. CASE Dying(resources)
    BY <1>2, <2>1
  <2>2. CASE ~Dying(resources)
    <3>1. TypeOK'
      BY <1>0, <1>3, <2>2, TypesOfManager DEF Manager
    <3>2. CASE \/ Wake \/ BeginDispatch \/ WakeupCooker \/ ScanEnds \/ EndDispatch \/ WaitForDeletions
               \/ (\E u \in User : Execute(u)) \/ Executed \/ NoMoreMounts \/ TickEnds
      <4>1. Quietly(resources) /\ ManagerShape' /\ Checked'
        BY <3>2, QuietManager
      <4> QED BY <1>1, <3>1, <4>1, QuietHeld, QuietIsCalm, CalmLists
    <3>3. CASE Scan
      BY <1>1, <3>1, <3>3, ScanStep
    <3>4. CASE Transfer
      BY <1>1, <3>1, <3>4, TransferStep
    <3>5. ASSUME NEW u \in User, Find(u) PROVE Inv'
      BY <1>1, <3>1, <3>5, FindStep
    <3>6. CASE Reclaim
      BY <1>1, <3>1, <3>6, ReclaimStep
    <3> QED BY <1>3, <2>2, <3>2, <3>3, <3>4, <3>5, <3>6 DEF Manager
  <2> QED BY <2>1, <2>2
<1>4. CASE Cooker
  <2>1. CASE Dying(cooker)
    BY <1>2, <2>1
  <2>2. CASE CookerWakes
    <3>1. TypeOK'
      BY <1>0, <2>2, TypesOfCooker
    <3>2. /\ TakeLocal(cooker, "again") /\ pc[cooker] \in Quiet /\ cooker # resources
          /\ UNCHANGED <<refs, fat, deleted, rescued, cand, stack, client>>
      BY <2>2 DEF CookerWakes, Quiet, life, tasks, DeletionAssumption
    <3> QED BY <1>1, <3>1, <3>2, TakeLocalStep
  <2>3. CASE CookerTakesAgain
    <3>1. TypeOK'
      BY <1>0, <2>3, TypesOfCooker
    <3>2. /\ TakeLocal(cooker, "sleep") /\ pc[cooker] \in Quiet /\ cooker # resources
          /\ UNCHANGED <<refs, fat, deleted, rescued, cand, stack, client>>
      BY <2>3 DEF CookerTakesAgain, Quiet, life, tasks, DeletionAssumption
    <3> QED BY <1>1, <3>1, <3>2, TakeLocalStep
  <2> QED BY <1>4, <2>1, <2>2, <2>3 DEF Cooker
<1>5. ASSUME NEW u \in User, Chooses(u) \/ Proceeds(u) PROVE Inv'
  <2>1. CASE Dying(u)
    BY <1>2, <2>1
  <2>2. CASE ~Dying(u)
    <3>1. TypeOK'
      BY <1>0, <1>5, <2>2, TypesOfUser DEF Proceeds
    <3>2. CASE \/ AskLater(u) \/ CreateMount(u) \/ Finalize(u) \/ AddMount(u) \/ Callbacks(u)
               \/ TryLock(u) \/ CheckLocal(u) \/ CheckLists(u) \/ CheckMounts(u) \/ CheckFlag(u)
      <4>1. Quietly(u) /\ ManagerShape' /\ Checked'
        BY <3>2, QuietUser
      <4> QED BY <1>1, <3>1, <4>1, QuietHeld, QuietIsCalm, CalmLists
    <3>3. CASE Dispatch(u) \/ DispatchAndRetry(u)
      <4>1. /\ TakeLocal(u, "callbacks") /\ pc[u] \in Quiet /\ u # resources
            /\ UNCHANGED <<refs, fat, deleted, rescued, cand, stack, client>>
        BY <3>3 DEF Dispatch, DispatchAndRetry, Quiet, life, tasks, DeletionAssumption
      <4> QED BY <1>1, <3>1, <4>1, TakeLocalStep
    <3>4. CASE Ask(u)
      BY <1>1, <3>1, <3>4, FindStep
    <3>5. CASE ReclaimAtOnce(u)
      BY <1>1, <3>1, <3>5, ReclaimStep
    <3>6. ASSUME NEW r \in Resource, Release(u, r) PROVE Inv'
      BY <1>1, <3>1, <3>6, ReleaseStep
    <3> QED BY <1>5, <2>2, <3>2, <3>3, <3>4, <3>5, <3>6 DEF Chooses, Proceeds
  <2> QED BY <2>1, <2>2
<1> QED BY <1>3, <1>4, <1>5 DEF Next

LEMMA InvOfStutter ==
    ASSUME Inv, UNCHANGED vars
    PROVE  Inv'
<1>1. UNCHANGED <<life, lists, wakeup, where, tasks, leave>>
  BY DEF vars
<1>2. /\ UNCHANGED <<refs, fat, deleted, rescued, delayed, local, m_num, m_flag, pushed_by, wakeup>>
      /\ UNCHANGED <<pc, cand, stack, batch, back, query, mount, pending, client, again>>
      /\ UNCHANGED <<leaving, m_mutex, seen>>
  BY <1>1 DEF life, lists, where, tasks, leave
<1>3. Basis' /\ Checked'
  BY <1>2 DEF Inv, Basis, TypeOK, Shape, ShapeAt, ManagerShape, Checked, Moving
<1>4. Lists' /\ CountIsExact'
  BY <1>2 DEF Inv, Lists, OnePlace, OwnThread, Stacks, CountIsExact, Places, Pushing, Moving,
              Deleting, Underway, top
<1>5. Held'
  BY <1>2 DEF Inv, Held, Pointed, Known, Handled, HandledAt, Alive, Deleting, OneDestroyer,
              HeldIsAlive
<1> QED BY <1>3, <1>4, <1>5 DEF Inv

(* The whole of it: where a resource is on its way, for any threads and    *)
(* resources (resources_manager.cpp, unmanaged_intrusive_base::destroy).   *)
THEOREM DeletionInvariant ==
    ASSUME DeletionAssumption
    PROVE  Spec => []Inv
<1>1. Init => Inv
  BY InitInv
<1>2. Inv /\ [Next]_vars => Inv'
  BY InvOfStep, InvOfStutter
<1> QED BY <1>1, <1>2, PTL DEF Spec

(* A delayed resource is in one list only, of its own thread, and the      *)
(* counter that mounts wait for is exact.  Two threads are about to        *)
(* destroy a resource only if a lookup has got it from the first, and only *)
(* one of them unregisters it.                                             *)
THEOREM DeletedOnceUnlessRescued ==
    ASSUME DeletionAssumption
    PROVE  Spec => []DeletionInv
<1>1. Inv => DeletionInv
  BY DEF Inv, Basis, Lists, Held, DeletionInv
<1> QED BY <1>1, DeletionInvariant, PTL

(* What somebody points to is neither deleted nor going to be, also when a *)
(* query reclaims a resource that is being destroyed.                      *)
THEOREM ReclaimedInTime ==
    ASSUME DeletionAssumption
    PROVE  Spec => []HeldIsAlive
<1>1. Inv => HeldIsAlive
  BY DEF Inv, Held
<1> QED BY <1>1, DeletionInvariant, PTL

(* thread_can_exit lets no thread go whose resources the resources thread  *)
(* has not handed to the threads that delete them.                         *)
THEOREM LeavesNothingBehind ==
    ASSUME DeletionAssumption
    PROVE  Spec => []FinalizedMeansTransferred
<1>1. Inv => FinalizedMeansTransferred
  BY DEF Inv, Checked, FinalizedMeansTransferred
<1> QED BY <1>1, DeletionInvariant, PTL

-----------------------------------------------------------------------------
(* Nobody who has work sleeps *)

(* The resources thread looks through the list before it sleeps again.     *)
Scanning ==
    pc[resources] \in {"dispatch", "scan", "transfer", "wakeup_cooker_thread"} \cup Dyings

(* somebody is about to wake it                                            *)
Telling == \E t \in Thread : pc[t] = "wakeup_resources_thread"

(* Whatever is left to a thread, it has been told, or it is still awake    *)
(* and will come to it; a query that waits for a mount is looked at again. *)
Told ==
    /\ delayed # << >> => wakeup[resources] \/ Scanning \/ Telling
    /\ pc[resources] \in Dyings \cup {"scan", "transfer", "wakeup_cooker_thread"} =>
          back[resources] = "scan"
    /\ local[cooker] # << >> => wakeup[cooker] \/ pc[resources] = "wakeup_cooker_thread"
ToldOf(u) ==
    /\ mount[u] = "queued" => wakeup[resources] \/ pc[u] = "wakeup_resources_thread"
    /\ mount[u] = "taken" => pc[resources] \notin {"sleep", "init", "found"}
    /\ query[u] = "new" => \/ wakeup[resources] \/ pc[u] = "wakeup_resources_thread"
                           \/ again /\ pc[resources] # "sleep"
    /\ query[u] = "taken" => pc[resources] # "sleep"

(* of the types only that the functions have their domains                 *)
Domains ==
    /\ pc \in [Thread -> Labels] /\ back \in [Thread -> Labels]
    /\ DOMAIN local = Thread
    /\ wakeup \in [{resources, cooker} -> BOOLEAN] /\ again \in BOOLEAN
    /\ mount = [u \in User |-> mount[u]] /\ query = [u \in User |-> query[u]]

Announced == Domains /\ Told /\ \A u \in User : ToldOf(u)

LEMMA InitAnnounced == ASSUME DeletionAssumption, Init PROVE Announced
<1>1. Domains
  BY DEF Init, Domains, Labels
<1>2. Told /\ \A u \in User : ToldOf(u)
  BY DEF Init, Told, ToldOf, Dyings, Hands, DestroyLabels, DeletionAssumption
<1> QED BY <1>1, <1>2 DEF Announced

(* a wake-up event stays an event when it is set or reset                  *)
LEMMA EventsStay ==
    ASSUME wakeup \in [{resources, cooker} -> BOOLEAN], NEW x, NEW b \in BOOLEAN,
           wakeup' = wakeup \/ wakeup' = [wakeup EXCEPT ![x] = b]
    PROVE  wakeup' \in [{resources, cooker} -> BOOLEAN]
<1>1. CASE wakeup' = wakeup
  BY <1>1
<1>2. CASE wakeup' = [wakeup EXCEPT ![x] = b]
  <2> DEFINE E == {resources, cooker}
  <2>1. wakeup \in [E -> BOOLEAN]
    OBVIOUS
  <2> HIDE DEF E
  <2>2. [wakeup EXCEPT ![x] = b] \in [E -> BOOLEAN]
    BY <2>1
  <2>3. wakeup' \in [E -> BOOLEAN]
    BY <1>2, <2>2
  <2> QED BY <2>3 DEF E
<1> QED BY <1>1, <1>2

(* What the steps of a resource on its way do to the threads' work.        *)
LEMMA AnnouncedByDying ==
    ASSUME DeletionAssumption, Announced, NEW t \in Thread, Dying(t)
    PROVE  Announced'
<1>0. /\ pc \in [Thread -> Labels] /\ back \in [Thread -> Labels]
      /\ DOMAIN local = Thread
      /\ wakeup \in [{resources, cooker} -> BOOLEAN] /\ resources # cooker
      /\ Told /\ \A u \in User : ToldOf(u)
  BY DEF Announced, Domains, DeletionAssumption
<1>1. /\ UNCHANGED <<local, back, mount, query, again>>
      /\ \/ UNCHANGED <<delayed, wakeup>> /\ pc[t] # "wakeup_resources_thread"
         \/ /\ pc[t] = "push" /\ pc' = [pc EXCEPT ![t] = "wakeup_resources_thread"]
            /\ UNCHANGED wakeup
         \/ UNCHANGED delayed /\ wakeup' = [wakeup EXCEPT ![resources] = TRUE]
  BY DEF Dying, CheckCount, CheckFat, Clean, DeleteNow, CountDelayed, PushDelayed,
         WakeupResources, Destruct, Free, DeleteNext, Go, life, lists, tasks
<1>2. pc[t] \in Dyings
  BY DEF Dying, CheckCount, CheckFat, Clean, DeleteNow, CountDelayed, PushDelayed,
         WakeupResources, Destruct, Free, DeleteNext, Dyings, Hands, DestroyLabels
<1>3. \E l : pc' = [pc EXCEPT ![t] = l] /\ l \in Dyings \cup {back[t]}
  BY DEF Dying, CheckCount, CheckFat, Clean, DeleteNow, CountDelayed, PushDelayed,
         WakeupResources, Destruct, Free, DeleteNext, Dyings, Hands, DestroyLabels, Rest,
         Drop, Go
<1>4. PICK l : pc' = [pc EXCEPT ![t] = l] /\ l \in Dyings \cup {back[t]}
  BY <1>3
<1>5. Domains'
  <2>1. l \in Labels
    BY <1>0, <1>4 DEF Dyings, Hands, DestroyLabels, Labels
  <2>2. pc' \in [Thread -> Labels] /\ wakeup' \in [{resources, cooker} -> BOOLEAN]
    <3>1. pc' \in [Thread -> Labels]
      BY <1>0, <1>4, <2>1
    <3>2. wakeup' \in [{resources, cooker} -> BOOLEAN]
      <4>1. wakeup' = wakeup \/ wakeup' = [wakeup EXCEPT ![resources] = TRUE]
        BY <1>1
      <4> QED BY <1>0, <4>1, EventsStay
    <3> QED BY <3>1, <3>2
  <2>3. UNCHANGED <<local, back, mount, query, again>>
    BY <1>1
  <2> QED BY <2>2, <2>3 DEF Announced, Domains
<1>a. wakeup'[cooker] = wakeup[cooker] /\ (wakeup[resources] => wakeup'[resources])
  BY <1>0, <1>1
<1>b. \A v \in Thread : pc[v] = "wakeup_resources_thread" =>
          pc'[v] = "wakeup_resources_thread" \/ wakeup'[resources]
  <2>1. pc[t] = "wakeup_resources_thread" => wakeup'[resources]
    BY <1>0, <1>1
  <2> QED BY <1>0, <1>4, <2>1
<1>c. UNCHANGED delayed \/ Telling'
  BY <1>0, <1>1 DEF Telling
<1>e. Telling => Telling' \/ wakeup'[resources]
  BY <1>b DEF Telling
<1>6. CASE t # resources
  <2>1. pc'[resources] = pc[resources]
    BY <1>0, <1>4, <1>6
  <2>2. Told'
    BY <1>0, <1>1, <1>a, <1>c, <1>e, <2>1 DEF Told, Scanning
  <2>3. \A u \in User : ToldOf(u)'
    BY <1>0, <1>1, <1>a, <1>b, <2>1 DEF ToldOf
  <2> QED BY <1>5, <2>2, <2>3 DEF Announced
<1>7. CASE t = resources
  <2>1. back[resources] = "scan"
    BY <1>0, <1>2, <1>7 DEF Told
  <2>2. pc'[resources] \in Dyings \cup {"scan"}
    BY <1>0, <1>4, <1>7, <2>1
  <2>3. pc'[resources] \notin {"sleep", "init", "found"}
    BY <2>2 DEF Dyings, Hands, DestroyLabels
  <2>4. pc[resources] # "wakeup_cooker_thread"
    BY <1>2, <1>7 DEF Dyings, Hands, DestroyLabels
  <2>5. Told'
    BY <1>0, <1>1, <1>a, <2>1, <2>2, <2>4 DEF Told, Scanning
  <2>6. \A u \in User : ToldOf(u)'
    BY <1>0, <1>1, <1>a, <1>b, <2>3 DEF ToldOf
  <2> QED BY <1>5, <2>5, <2>6 DEF Announced
<1> QED BY <1>6, <1>7

(* A tick takes what is left to it, and ends with nothing taken.           *)
LEMMA AnnouncedByManager ==
    ASSUME DeletionAssumption, Announced, Manager, ~Dying(resources)
    PROVE  Announced'
<1>0. /\ pc \in [Thread -> Labels] /\ back \in [Thread -> Labels]
      /\ DOMAIN local = Thread
      /\ wakeup \in [{resources, cooker} -> BOOLEAN] /\ resources # cooker
      /\ again \in BOOLEAN
      /\ mount = [u \in User |-> mount[u]] /\ query = [u \in User |-> query[u]]
      /\ Told /\ (\A u \in User : ToldOf(u)) /\ resources \in Thread
  BY DEF Announced, Domains, DeletionAssumption
<1>d. "scan" \notin Dyings /\ "dispatch" \notin Dyings /\ "dispatched" \notin Dyings
      /\ "mount" \notin Dyings /\ "mounted" \notin Dyings /\ "init" \notin Dyings
      /\ "found" \notin Dyings /\ "sleep" \notin Dyings /\ "transfer" \notin Dyings
      /\ "wakeup_cooker_thread" \notin Dyings /\ "destruct" \in Dyings
  BY DEF Dyings, Hands, DestroyLabels
<1>e. \A v \in Thread \ {resources} : pc'[v] = pc[v]
  BY <1>0 DEF Manager, Wake, BeginDispatch, Scan, Transfer, WakeupCooker, ScanEnds, EndDispatch,
              WaitForDeletions, Execute, Executed, NoMoreMounts, Find, Reclaim, TickEnds, Go
<1>f. pc[resources] # "wakeup_resources_thread"
  BY DEF Manager, Wake, BeginDispatch, Scan, Transfer, WakeupCooker, ScanEnds, EndDispatch,
         WaitForDeletions, Execute, Executed, NoMoreMounts, Find, Reclaim, TickEnds
<1>g. Telling => Telling'
  BY <1>e, <1>f DEF Telling
<1>h. \A u \in User : pc'[u] = pc[u]
  BY <1>e DEF DeletionAssumption
<1>1. CASE Wake
  <2>1. /\ pc'[resources] = "dispatch"
        /\ UNCHANGED <<local, delayed, back>> /\ again' = (pending # {})
    BY <1>0, <1>1 DEF Wake, Go, lists
  <2>2. Domains'
    BY <1>0, <1>1, <2>1 DEF Wake, Go, lists, Domains, Labels
  <2>3. Told'
    BY <1>0, <1>d, <1>g, <1>1, <2>1 DEF Wake, Told, Scanning
  <2>4. ASSUME NEW u \in User PROVE ToldOf(u)'
    BY <1>0, <1>h, <1>1, <2>1 DEF Wake, ToldOf
  <2> QED BY <2>2, <2>3, <2>4 DEF Announced
<1>2. CASE BeginDispatch
  <2>1. /\ pc'[resources] = "scan"
        /\ UNCHANGED <<local, delayed, mount, query, again, wakeup>>
    BY <1>0, <1>2 DEF BeginDispatch, Go, tasks
  <2>2. Domains'
    BY <1>0, <1>2, <2>1 DEF BeginDispatch, Go, tasks, Domains, Labels
  <2>3. Told'
    BY <1>0, <1>d, <1>g, <1>2, <2>1 DEF BeginDispatch, Told, Scanning
  <2>4. ASSUME NEW u \in User PROVE ToldOf(u)'
    BY <1>0, <1>h, <1>2, <2>1 DEF BeginDispatch, ToldOf
  <2> QED BY <2>2, <2>3, <2>4 DEF Announced
<1>3. CASE ScanEnds
  <2>1. /\ pc'[resources] = "dispatched"
        /\ UNCHANGED <<local, delayed, mount, query, again, wakeup, back>> /\ delayed = << >>
    BY <1>0, <1>3 DEF ScanEnds, Go, lists, tasks
  <2>2. Domains'
    BY <1>0, <1>3, <2>1 DEF ScanEnds, Go, lists, tasks, Domains, Labels
  <2>3. Told'
    BY <1>0, <1>d, <1>g, <1>3, <2>1 DEF ScanEnds, Told, Scanning
  <2>4. ASSUME NEW u \in User PROVE ToldOf(u)'
    BY <1>0, <1>h, <1>3, <2>1 DEF ScanEnds, ToldOf
  <2> QED BY <2>2, <2>3, <2>4 DEF Announced
<1>4. CASE EndDispatch
  <2>1. /\ pc'[resources] = "mount"
        /\ UNCHANGED <<local, delayed, mount, query, again, wakeup, back>>
    BY <1>0, <1>4 DEF EndDispatch, Go, tasks
  <2>2. Domains'
    BY <1>0, <1>4, <2>1 DEF EndDispatch, Go, tasks, Domains, Labels
  <2>3. Told'
    BY <1>0, <1>d, <1>g, <1>4, <2>1 DEF EndDispatch, Told, Scanning
  <2>4. ASSUME NEW u \in User PROVE ToldOf(u)'
    BY <1>0, <1>h, <1>4, <2>1 DEF EndDispatch, ToldOf
  <2> QED BY <2>2, <2>3, <2>4 DEF Announced
<1>5. CASE WaitForDeletions
  <2>1. /\ pc'[resources] = "dispatch"
        /\ UNCHANGED <<local, delayed, mount, query, again, wakeup, back>>
    BY <1>0, <1>5 DEF WaitForDeletions, Go, lists, tasks
  <2>2. Domains'
    BY <1>0, <1>5, <2>1 DEF WaitForDeletions, Go, lists, tasks, Domains, Labels
  <2>3. Told'
    BY <1>0, <1>d, <1>g, <1>5, <2>1 DEF WaitForDeletions, Told, Scanning
  <2>4. ASSUME NEW u \in User PROVE ToldOf(u)'
    BY <1>0, <1>h, <1>5, <2>1 DEF WaitForDeletions, ToldOf
  <2> QED BY <2>2, <2>3, <2>4 DEF Announced
<1>6. CASE Executed
  <2>1. /\ pc'[resources] = "mount"
        /\ UNCHANGED <<local, delayed, mount, query, again, wakeup, back>>
    BY <1>0, <1>6 DEF Executed, Go, lists
  <2>2. Domains'
    BY <1>0, <1>6, <2>1 DEF Executed, Go, lists, Domains, Labels
  <2>3. Told'
    BY <1>0, <1>d, <1>g, <1>6, <2>1 DEF Executed, Told, Scanning
  <2>4. ASSUME NEW u \in User PROVE ToldOf(u)'
    BY <1>0, <1>h, <1>6, <2>1 DEF Executed, ToldOf
  <2> QED BY <2>2, <2>3, <2>4 DEF Announced
<1>7. CASE NoMoreMounts
  <2>1. /\ pc'[resources] = "init"
        /\ UNCHANGED <<local, delayed, mount, query, again, wakeup, back>>
    BY <1>0, <1>7 DEF NoMoreMounts, Go, lists, tasks
  <2>2. Domains'
    BY <1>0, <1>7, <2>1 DEF NoMoreMounts, Go, lists, tasks, Domains, Labels
  <2>3. Told'
    BY <1>0, <1>d, <1>g, <1>7, <2>1 DEF NoMoreMounts, Told, Scanning
  <2>4. ASSUME NEW u \in User PROVE ToldOf(u)'
    BY <1>0, <1>h, <1>7, <2>1 DEF NoMoreMounts, ToldOf
  <2> QED BY <2>2, <2>3, <2>4 DEF Announced
<1>8. CASE TickEnds
  <2>1. /\ pc'[resources] = "sleep"
        /\ UNCHANGED <<local, delayed, mount, query, again, back>>
    BY <1>0, <1>8 DEF TickEnds, Go, lists, tasks
  <2>2. Domains'
    BY <1>0, <1>8, <2>1 DEF TickEnds, Go, lists, tasks, Domains, Labels
  <2>3. Told'
    BY <1>0, <1>d, <1>g, <1>8, <2>1 DEF TickEnds, Told, Scanning
  <2>4. ASSUME NEW u \in User PROVE ToldOf(u)'
    BY <1>0, <1>h, <1>8, <2>1 DEF TickEnds, ToldOf
  <2> QED BY <2>2, <2>3, <2>4 DEF Announced
<1>9. CASE Reclaim
  <2>1. /\ pc'[resources] = "init"
        /\ UNCHANGED <<local, delayed, mount, again, wakeup, back>>
    BY <1>0, <1>9 DEF Reclaim, Go, lists
  <2>2. Domains'
    BY <1>0, <1>9, <2>1 DEF Reclaim, Go, lists, Domains, Labels
  <2>3. Told'
    BY <1>0, <1>d, <1>g, <1>9, <2>1 DEF Reclaim, Told, Scanning
  <2>4. ASSUME NEW u \in User PROVE ToldOf(u)'
    BY <1>0, <1>h, <1>9, <2>1 DEF Reclaim, ToldOf
  <2> QED BY <2>2, <2>3, <2>4 DEF Announced
<1>10. CASE Scan
  <2>1. /\ pc'[resources] \in {"destruct", "transfer"}
        /\ UNCHANGED <<local, mount, query, again, wakeup, back>>
    BY <1>0, <1>10 DEF Scan, Go, tasks
  <2>2. Domains'
    BY <1>0, <1>10, <2>1 DEF Scan, Go, Domains, Labels
  <2>3. back[resources] = "scan"
    BY <1>0, <1>10 DEF Scan, Told
  <2>4. Told'
    <3>1. Scanning'
      BY <1>d, <2>1 DEF Scanning
    <3>2. pc[resources] # "wakeup_cooker_thread"
      BY <1>10 DEF Scan
    <3> QED BY <1>0, <2>1, <2>3, <3>1, <3>2 DEF Told
  <2>5. ASSUME NEW u \in User PROVE ToldOf(u)'
    BY <1>0, <1>h, <1>10, <2>1 DEF Scan, ToldOf
  <2> QED BY <2>2, <2>4, <2>5 DEF Announced
<1>11. CASE Transfer
  <2>1. /\ pc'[resources] \in {"scan", "wakeup_cooker_thread"} /\ pc[resources] = "transfer"
        /\ UNCHANGED <<delayed, mount, query, again, back, wakeup>>
        /\ local'[cooker] = local[cooker] \/ pc'[resources] = "wakeup_cooker_thread"
    BY <1>0, <1>11 DEF Transfer, Go, tasks
  <2>2. Domains'
    <3>1. pc' \in [Thread -> Labels]
      BY <1>0, <1>11 DEF Transfer, Go, Labels
    <3>2. DOMAIN local' = Thread
      BY <1>0, <1>11 DEF Transfer
    <3> QED BY <1>0, <2>1, <3>1, <3>2 DEF Domains
  <2>3. Told'
    <3>1. Scanning'
      BY <2>1 DEF Scanning
    <3>2. local'[cooker] # << >> => wakeup'[cooker] \/ pc'[resources] = "wakeup_cooker_thread"
      BY <1>0, <2>1 DEF Told
    <3>3. back'[resources] = "scan"
      BY <1>0, <2>1 DEF Told
    <3> QED BY <3>1, <3>2, <3>3 DEF Told
  <2>4. ASSUME NEW u \in User PROVE ToldOf(u)'
    BY <1>0, <1>h, <2>1 DEF ToldOf
  <2> QED BY <2>2, <2>3, <2>4 DEF Announced
<1>12. ASSUME NEW v \in User, Execute(v) PROVE Announced'
  <2>1. /\ pc'[resources] = "mounted" /\ UNCHANGED <<local, delayed, query, again, wakeup, back>>
    BY <1>0, <1>12 DEF Execute, Go, lists
  <2>2. Domains'
    BY <1>0, <1>12, <2>1 DEF Execute, Go, Domains, Labels
  <2>3. Told'
    BY <1>0, <1>d, <1>g, <1>12, <2>1 DEF Execute, Told, Scanning
  <2>4. ASSUME NEW u \in User PROVE ToldOf(u)'
    BY <1>0, <1>h, <1>12, <2>1 DEF Execute, ToldOf
  <2> QED BY <2>2, <2>3, <2>4 DEF Announced
<1>13. ASSUME NEW v \in User, Find(v) PROVE Announced'
  <2>1. /\ pc'[resources] \in {"init", "found"}
        /\ UNCHANGED <<local, delayed, mount, again, wakeup, back>>
    BY <1>0, <1>13 DEF Find, Go, lists
  <2>2. Domains'
    BY <1>0, <1>13, <2>1 DEF Find, Go, Domains, Labels
  <2>3. Told'
    BY <1>0, <1>d, <1>g, <1>13, <2>1 DEF Find, Told, Scanning
  <2>4. ASSUME NEW u \in User PROVE ToldOf(u)'
    BY <1>0, <1>h, <1>13, <2>1 DEF Find, ToldOf
  <2> QED BY <2>2, <2>3, <2>4 DEF Announced
<1>14. CASE WakeupCooker
  <2>1. /\ pc'[resources] = "scan" /\ pc[resources] = "wakeup_cooker_thread"
        /\ UNCHANGED <<local, delayed, mount, query, again, back>>
        /\ wakeup'[cooker] /\ wakeup'[resources] = wakeup[resources]
    BY <1>0, <1>14 DEF WakeupCooker, Go, lists, tasks
  <2>2. Domains'
    <3>1. pc' \in [Thread -> Labels]
      BY <1>0, <1>14 DEF WakeupCooker, Go, Labels
    <3>2. wakeup' \in [{resources, cooker} -> BOOLEAN]
      BY <1>0, <1>14, EventsStay DEF WakeupCooker
    <3> QED BY <1>0, <2>1, <3>1, <3>2 DEF Domains
  <2>3. Told'
    BY <1>0, <2>1 DEF Told, Scanning
  <2>4. ASSUME NEW u \in User PROVE ToldOf(u)'
    BY <1>0, <1>h, <2>1 DEF ToldOf
  <2> QED BY <2>2, <2>3, <2>4 DEF Announced
<1> QED BY <1>1, <1>2, <1>3, <1>4, <1>5, <1>6, <1>7, <1>8, <1>9, <1>10, <1>11, <1>12, <1>13,
           <1>14 DEF Manager

(* The users and the cooker leave no work without telling of it.           *)
LEMMA AnnouncedByOthers ==
    ASSUME DeletionAssumption, Announced, NEW t \in Thread \ {resources},
           pc'[resources] = pc[resources], back'[resources] = back[resources],
           Domains', UNCHANGED <<delayed, again>>,
           wakeup[resources] => wakeup'[resources],
           \A v \in Thread : pc[v] = "wakeup_resources_thread" => pc'[v] = pc[v],
           local'[cooker] # << >> => UNCHANGED <<local[cooker], wakeup[cooker]>>,
           \A u \in User :
               /\ \/ mount'[u] = mount[u] \/ mount'[u] \notin {"queued", "taken"}
                  \/ mount'[u] = "queued" /\ pc'[u] = "wakeup_resources_thread"
               /\ \/ query'[u] = query[u] \/ query'[u] \notin {"new", "taken"}
                  \/ query'[u] = "new" /\ pc'[u] = "wakeup_resources_thread"
    PROVE  Announced'
<1>0. Telling => Telling'
  BY DEF Telling
<1>1. Told'
  BY <1>0 DEF Announced, Told, Scanning
<1>2. ASSUME NEW u \in User PROVE ToldOf(u)'
  BY <1>2 DEF Announced, ToldOf
<1> QED BY <1>1, <1>2 DEF Announced

LEMMA AnnouncedByCooker ==
    ASSUME DeletionAssumption, Announced, CookerWakes \/ CookerTakesAgain
    PROVE  Announced'
<1>0. /\ pc \in [Thread -> Labels] /\ back \in [Thread -> Labels]
      /\ DOMAIN local = Thread /\ cooker \in Thread \ {resources}
      /\ wakeup \in [{resources, cooker} -> BOOLEAN]
  BY DEF Announced, Domains, DeletionAssumption
<1>1. UNCHANGED <<delayed, again, mount, query>>
  BY DEF CookerWakes, CookerTakesAgain, TakeLocal, tasks
<1>2. /\ local' = [local EXCEPT ![cooker] = << >>]
      /\ \E l \in {"again", "sleep"} : back' = [back EXCEPT ![cooker] = l]
      /\ \E l \in {"again", "sleep", "batch"} : pc' = [pc EXCEPT ![cooker] = l]
      /\ wakeup' = [wakeup EXCEPT ![cooker] = FALSE] \/ wakeup' = wakeup
  BY DEF CookerWakes, CookerTakesAgain, TakeLocal, Go
<1>3. Domains'
  <2>1. pc' \in [Thread -> Labels]
    BY <1>0, <1>2 DEF Labels
  <2>2. back' \in [Thread -> Labels]
    BY <1>0, <1>2 DEF Labels
  <2>3. wakeup' \in [{resources, cooker} -> BOOLEAN]
    BY <1>0, <1>2, EventsStay
  <2>4. DOMAIN local' = Thread
    BY <1>0, <1>2
  <2> QED BY <1>1, <2>1, <2>2, <2>3, <2>4 DEF Announced, Domains
<1>4. /\ pc'[resources] = pc[resources] /\ back'[resources] = back[resources]
      /\ wakeup'[resources] = wakeup[resources] /\ local'[cooker] = << >>
  BY <1>0, <1>2
<1>5. \A v \in Thread : pc[v] = "wakeup_resources_thread" => pc'[v] = pc[v]
  <2>1. pc[cooker] # "wakeup_resources_thread"
    BY DEF CookerWakes, CookerTakesAgain
  <2> QED BY <1>0, <1>2, <2>1
<1> QED BY <1>0, <1>1, <1>3, <1>4, <1>5, AnnouncedByOthers

LEMMA AnnouncedByUser ==
    ASSUME DeletionAssumption, Announced, NEW u \in User, Chooses(u) \/ Proceeds(u), ~Dying(u)
    PROVE  Announced'
<1>0. /\ pc \in [Thread -> Labels] /\ back \in [Thread -> Labels]
      /\ DOMAIN local = Thread /\ u \in Thread \ {resources}
      /\ mount = [v \in User |-> mount[v]] /\ query = [v \in User |-> query[v]]
      /\ wakeup \in [{resources, cooker} -> BOOLEAN] /\ u # cooker /\ resources # cooker
  BY DEF Announced, Domains, DeletionAssumption
<1> DEFINE Result ==
          /\ UNCHANGED <<delayed, again>>
          /\ \E l \in Labels : pc' = [pc EXCEPT ![u] = l]
          /\ \E l \in Labels : back' = [back EXCEPT ![u] = l]
          /\ wakeup' = wakeup \/ wakeup' = [wakeup EXCEPT ![resources] = TRUE]
          /\ local' = local \/ local' = [local EXCEPT ![u] = << >>]
          /\ \/ mount' = mount
             \/ mount' = [mount EXCEPT ![u] = "created"]
             \/ mount' = [mount EXCEPT ![u] = "queued"] /\ pc'[u] = "wakeup_resources_thread"
             \/ mount' = [mount EXCEPT ![u] = IF @ = "ready" THEN "done" ELSE @]
          /\ \/ query' = query
             \/ query' = [query EXCEPT ![u] = "found"]
             \/ query' = [query EXCEPT ![u] = "done"]
             \/ query' = [query EXCEPT ![u] = "new"] /\ pc'[u] = "wakeup_resources_thread"
             \/ query' = [query EXCEPT ![u] = IF @ = "ready" THEN "done" ELSE @]
<1>1. Result
  <2>1. CASE Ask(u)
    BY <1>0, <2>1 DEF Ask, Go, life, lists, tasks, Labels
  <2>2. CASE AskLater(u)
    BY <1>0, <2>2 DEF AskLater, Go, life, lists, tasks, Labels
  <2>3. CASE CreateMount(u)
    BY <1>0, <2>3 DEF CreateMount, Go, life, lists, tasks, Labels
  <2>4. CASE Finalize(u)
    BY <1>0, <2>4 DEF Finalize, Go, life, lists, tasks, Labels
  <2>5. CASE ReclaimAtOnce(u)
    BY <1>0, <2>5 DEF ReclaimAtOnce, Go, life, lists, tasks, Labels
  <2>6. CASE AddMount(u)
    BY <1>0, <2>6 DEF AddMount, Go, life, lists, tasks, Labels
  <2>7. CASE Dispatch(u)
    BY <1>0, <2>7 DEF Dispatch, TakeLocal, Go, life, lists, tasks, Labels
  <2>8. CASE Callbacks(u)
    <3>1. \E l \in {"local", "try", "idle"} : pc' = [pc EXCEPT ![u] = l]
      BY <2>8 DEF Callbacks, Go
    <3>2. \E l \in Labels : pc' = [pc EXCEPT ![u] = l]
      BY <3>1 DEF Labels
    <3>3. back' = back
      BY <2>8 DEF Callbacks, tasks
    <3>4. \E l \in Labels : back' = [back EXCEPT ![u] = l]
      BY <1>0, <3>3
    <3> QED BY <1>0, <2>8, <3>2, <3>4 DEF Callbacks, life, lists, tasks
  <2>9. CASE TryLock(u)
    BY <1>0, <2>9 DEF TryLock, Go, life, lists, tasks, Labels
  <2>10. CASE DispatchAndRetry(u)
    BY <1>0, <2>10 DEF DispatchAndRetry, TakeLocal, Go, life, lists, tasks, Labels
  <2>11. CASE CheckLocal(u)
    BY <1>0, <2>11 DEF CheckLocal, Go, life, lists, tasks, Labels
  <2>12. CASE CheckLists(u)
    <3>1. \E l \in {"mounts", "retry"} : pc' = [pc EXCEPT ![u] = l]
      BY <2>12 DEF CheckLists, Go
    <3>2. \E l \in Labels : pc' = [pc EXCEPT ![u] = l]
      BY <3>1 DEF Labels
    <3>3. back' = back
      BY <2>12 DEF CheckLists, tasks
    <3>4. \E l \in Labels : back' = [back EXCEPT ![u] = l]
      BY <1>0, <3>3
    <3> QED BY <1>0, <2>12, <3>2, <3>4 DEF CheckLists, life, lists, tasks
  <2>13. CASE CheckMounts(u)
    <3>1. \E l \in {"flag", "retry"} : pc' = [pc EXCEPT ![u] = l]
      BY <2>13 DEF CheckMounts, Go
    <3>2. \E l \in Labels : pc' = [pc EXCEPT ![u] = l]
      BY <3>1 DEF Labels
    <3>3. back' = back
      BY <2>13 DEF CheckMounts, tasks
    <3>4. \E l \in Labels : back' = [back EXCEPT ![u] = l]
      BY <1>0, <3>3
    <3> QED BY <1>0, <2>13, <3>2, <3>4 DEF CheckMounts, life, lists, tasks
  <2>14. CASE CheckFlag(u)
    BY <1>0, <2>14 DEF CheckFlag, Go, life, lists, tasks, Labels
  <2>15. ASSUME NEW r \in Resource, Release(u, r) PROVE Result
    BY <1>0, <2>15 DEF Release, Drop, Go, life, lists, tasks, Labels
  <2> QED BY <2>1, <2>2, <2>3, <2>4, <2>5, <2>6, <2>7, <2>8, <2>9, <2>10, <2>11, <2>12, <2>13,
           <2>14, <2>15 DEF Chooses, Proceeds
<1>3. Domains'
  <2>1. pc' \in [Thread -> Labels]
    BY <1>0, <1>1
  <2>2. back' \in [Thread -> Labels]
    BY <1>0, <1>1
  <2>3. wakeup' \in [{resources, cooker} -> BOOLEAN]
    BY <1>0, <1>1, EventsStay
  <2>4. DOMAIN local' = Thread
    BY <1>0, <1>1
  <2>5. mount' = [v \in User |-> mount'[v]] /\ query' = [v \in User |-> query'[v]]
    BY <1>0, <1>1
  <2> QED BY <1>1, <2>1, <2>2, <2>3, <2>4, <2>5 DEF Announced, Domains
<1>4. /\ pc'[resources] = pc[resources] /\ back'[resources] = back[resources]
      /\ wakeup[resources] => wakeup'[resources]
      /\ wakeup'[cooker] = wakeup[cooker] /\ local'[cooker] = local[cooker]
  BY <1>0, <1>1
<1>5. ASSUME NEW v \in User
      PROVE  /\ \/ mount'[v] = mount[v] \/ mount'[v] \notin {"queued", "taken"}
                \/ mount'[v] = "queued" /\ pc'[v] = "wakeup_resources_thread"
             /\ \/ query'[v] = query[v] \/ query'[v] \notin {"new", "taken"}
                \/ query'[v] = "new" /\ pc'[v] = "wakeup_resources_thread"
  BY <1>0, <1>1, <1>5
<1>6. \A v \in Thread : pc[v] = "wakeup_resources_thread" => pc'[v] = pc[v]
  <2>1. pc[u] # "wakeup_resources_thread"
    BY DEF Chooses, Proceeds, Ask, AskLater, CreateMount, Finalize, Release, ReclaimAtOnce,
           AddMount, Dispatch, Callbacks, TryLock, DispatchAndRetry, CheckLocal, CheckLists,
           CheckMounts, CheckFlag
  <2> QED BY <1>0, <1>1, <2>1
<1> QED BY <1>0, <1>1, <1>3, <1>4, <1>5, <1>6, AnnouncedByOthers

LEMMA AnnouncedByStep ==
    ASSUME DeletionAssumption, Announced, [Next]_vars
    PROVE  Announced'
<1>1. CASE Manager
  BY <1>1, AnnouncedByManager, AnnouncedByDying
<1>2. CASE Cooker
  BY <1>2, AnnouncedByCooker, AnnouncedByDying DEF Cooker
<1>3. ASSUME NEW u \in User, Chooses(u) \/ Proceeds(u) PROVE Announced'
  BY <1>3, AnnouncedByUser, AnnouncedByDying
<1>4. CASE UNCHANGED vars
  <2>1. UNCHANGED <<delayed, local, wakeup, pc, back, query, mount, again>>
    BY <1>4 DEF vars, life, lists, where, tasks, leave
  <2>2. Domains' /\ Told'
    BY <2>1 DEF Announced, Domains, Told, Scanning, Telling
  <2>3. \A u \in User : ToldOf(u)'
    BY <2>1 DEF Announced, ToldOf
  <2> QED BY <2>2, <2>3 DEF Announced
<1> QED BY <1>1, <1>2, <1>3, <1>4 DEF Next

(* A thread of the manager that sleeps has been left nothing: whoever      *)
(* leaves it a deletion, a mount or a query also wakes it, after it is in  *)
(* the list, and a tick that leaves a query to the next one wakes itself   *)
(* (resources_manager.cpp, resources_thread_proc and cooker_tick_impl).    *)
(* This does not need Patient.                                             *)
THEOREM NoWakeupIsLost ==
    ASSUME DeletionAssumption
    PROVE  Spec => []SleepersHaveNothingToDo
<1>1. Init => Announced
  BY InitAnnounced
<1>2. Announced /\ [Next]_vars => Announced'
  BY AnnouncedByStep
<1>3. Announced => SleepersHaveNothingToDo
  <2>1. SUFFICES ASSUME Announced PROVE SleepersHaveNothingToDo
    OBVIOUS
  <2>2. pc[resources] = "sleep" => ~Scanning
    BY DEF Scanning, Dyings, Hands, DestroyLabels
  <2> QED BY <2>1, <2>2 DEF Announced, Told, ToldOf, Telling, SleepersHaveNothingToDo
<1> QED BY <1>1, <1>2, <1>3, PTL DEF Spec
-----------------------------------------------------------------------------
(* A resource lives and dies as ResourceLife says *)

InHand(t, r) == cand[t] = r /\ pc[t] \in {"unregistered", "push", "transfer"}
WithOwner(r) == LET t == Owner[r] IN
                In(r, local[t]) \/ In(r, batch[t]) \/ (In(r, stack[t]) /\ r \notin deleted)

(* The step changes nothing in who has r.                                  *)
KeepersStay(r) == \A v \in Thread : Keeps(v, r)' <=> Keeps(v, r)

(* What a thread has is not deleted, and not as it was when somebody held  *)
(* it, except that the thread may just have unregistered it.               *)
LEMMA KeptFacts ==
    ASSUME Inv, NEW t \in Thread, NEW r \in Resource, Keeps(t, r)
    PROVE  /\ r \notin deleted
           /\ ~Alive(r) \/ (pc[t] = "unregistered" /\ cand[t] = r)
<1>1. Apart(r) /\ HandledAt(t) /\ (pc[t] = "transfer" => t = resources)
  BY PlacesAreApart DEF Inv, Lists, Held, Handled, Basis, Shape, ShapeAt
<1>2. CASE cand[t] = r /\ pc[t] \in {"unregistered", "push"}
  BY <1>1, <1>2 DEF HandledAt, Alive, Waiting, Apart, Pushing
<1>3. CASE cand[t] = r /\ pc[t] = "transfer"
  BY <1>1, <1>3 DEF Alive, Waiting, Apart, Moving
<1>4. CASE In(r, delayed) \/ (t = Owner[r] /\ (In(r, local[t]) \/ In(r, batch[t])))
  BY <1>1, <1>4 DEF Alive, Waiting, Apart
<1>5. CASE In(r, stack[t]) /\ r \notin deleted
  BY <1>5 DEF Alive, Deleting
<1> QED BY <1>2, <1>3, <1>4, <1>5 DEF Keeps

(* A condemned resource is with one thread.                                *)
LEMMA OneKeeper ==
    ASSUME Inv, NEW r \in Resource, NEW t \in Thread, NEW u \in Thread, Keeps(t, r), Keeps(u, r)
    PROVE  t = u
<1>1. /\ Apart(r) /\ HandledAt(t) /\ HandledAt(u) /\ OneDestroyer
      /\ pc[t] = "transfer" => t = resources
      /\ pc[u] = "transfer" => u = resources
  BY PlacesAreApart DEF Inv, Lists, Held, Handled, Basis, Shape, ShapeAt
<1>2. ASSUME NEW v \in Thread, NEW w \in Thread, Keeps(v, r), Keeps(w, r), HandledAt(v),
             cand[v] = r, pc[v] = "unregistered"
      PROVE  v = w
  <2>1. pushed_by[r] = none /\ r \notin deleted /\ ~Deleting(r)
    BY <1>2 DEF HandledAt
  <2>2. Alive(r)
    BY <2>1 DEF Alive
  <2>3. pc[w] = "unregistered" /\ cand[w] = r
    BY <1>2, <2>2, KeptFacts
  <2> QED BY <1>1, <1>2, <2>3 DEF OneDestroyer, DestroyLabels
<1>3. CASE (cand[t] = r /\ pc[t] = "unregistered") \/ (cand[u] = r /\ pc[u] = "unregistered")
  BY <1>1, <1>2, <1>3
<1>4. CASE ~((cand[t] = r /\ pc[t] = "unregistered") \/ (cand[u] = r /\ pc[u] = "unregistered"))
  <2> DEFINE Place(v) ==
        \/ pc[v] = "push" /\ cand[v] = r /\ Pushing(r)
        \/ v = resources /\ (Moving(r) \/ In(r, delayed))
        \/ v = Owner[r] /\ (In(r, local[Owner[r]]) \/ In(r, batch[Owner[r]]) \/ Deleting(r))
  <2>1. Place(t) /\ Place(u)
    BY <1>1, <1>4 DEF Keeps, Pushing, Moving, Deleting
  <2> QED BY <1>1, <2>1 DEF Apart, Waiting, OneDestroyer, DestroyLabels, HandledAt
<1> QED BY <1>3, <1>4

KeptOnce == \A r \in Resource, t \in Thread : Keeps(t, r) =>
                r \notin deleted /\ \A u \in Thread : Keeps(u, r) => u = t

LEMMA KeptOnceOnly == Inv => KeptOnce
BY OneKeeper, KeptFacts DEF KeptOnce

LEMMA SameKeeper ==
    ASSUME Inv, Inv', NEW r \in Resource, NEW t \in Thread, Keeps(t, r), Keeps(t, r)'
    PROVE  KeepersStay(r)
<1>1. \A v \in Thread : Keeps(v, r) => v = t
  BY OneKeeper
<1>2. \A v \in Thread : Keeps(v, r)' => v = t
  <2>1. KeptOnce'
    BY KeptOnceOnly, PTL
  <2> QED BY <2>1 DEF KeptOnce
<1> QED BY <1>1, <1>2 DEF KeepersStay

LEMMA KeptElsewhere ==
    ASSUME NEW t \in Thread, NEW r \in Resource, Moves(t),
           InHand(t, r)' <=> InHand(t, r), In(r, delayed)' <=> In(r, delayed),
           WithOwner(r)' <=> WithOwner(r)
    PROVE  KeepersStay(r)
<1>1. \A v \in Thread : InHand(v, r)' <=> InHand(v, r)
  BY DEF Moves, InHand
<1>2. \A v \in Thread :
        Keeps(v, r) <=> InHand(v, r) \/ (v = resources /\ In(r, delayed)) \/ (v = Owner[r] /\ WithOwner(r))
  BY DEF Keeps, InHand, WithOwner
<1>3. \A v \in Thread :
        Keeps(v, r)' <=> InHand(v, r)' \/ (v = resources /\ In(r, delayed)') \/ (v = Owner[r] /\ WithOwner(r)')
  BY DEF Keeps, InHand, WithOwner
<1> QED BY <1>1, <1>2, <1>3 DEF KeepersStay

(* Nobody gets or passes on a resource.                                    *)
LEMMA LifeStays ==
    ASSUME UNCHANGED <<deleted, rescued, DeletedTwice>>, \A r \in Resource : KeepersStay(r)
    PROVE  UNCHANGED <<Keeper, deleted, rescued, DeletedTwice>>
BY DEF Keeper, KeepersStay

(* A thread deletes nothing twice, unless it comes to it in this step.     *)
LEMMA TwiceStays ==
    ASSUME NEW t \in Thread, Moves(t), pc[t] # "twice", pc'[t] # "twice"
    PROVE  UNCHANGED DeletedTwice
<1>1. \A v \in Thread, r \in Resource : pc'[v] = "twice" /\ cand'[v] = r <=>
                                        pc[v] = "twice" /\ cand[v] = r
  BY DEF Moves
<1> QED BY <1>1 DEF DeletedTwice

(* One thread gives x to another.                                          *)
LEMMA LifePasses ==
    ASSUME Inv, Inv', NEW x \in Resource, NEW a \in Thread, NEW b \in Thread,
           Keeps(a, x), Keeps(b, x)', \A r \in Resource : r # x => KeepersStay(r),
           UNCHANGED <<rescued, DeletedTwice>>
    PROVE  Life!Pass(x, a, {b})
<1>1. \A v \in Thread : Keeps(v, x) => v = a
  BY OneKeeper
<1>2. \A v \in Thread : Keeps(v, x)' => v = b
  <2>1. KeptOnce'
    BY KeptOnceOnly, PTL
  <2> QED BY <2>1 DEF KeptOnce
<1>3. Keeper[x] = {a}
  BY <1>1 DEF Keeper
<1>4. Keeper' = [Keeper EXCEPT ![x] = {b}]
  BY <1>2 DEF Keeper, KeepersStay
<1> QED BY <1>3, <1>4 DEF Life!Pass

(* A step that leaves the lists alone and condemns nothing.                *)
LEMMA KeptOfCalm ==
    ASSUME NEW t \in Thread, Calmly(t), NEW r \in Resource,
           \/ r # cand[t] /\ r # cand'[t]
           \/ pc[t] # "unregistered" /\ pc'[t] # "unregistered"
    PROVE  KeepersStay(r)
<1>1. InHand(t, r)' <=> InHand(t, r)
  BY DEF InHand, Calmly
<1>2. (In(r, delayed)' <=> In(r, delayed)) /\ (WithOwner(r)' <=> WithOwner(r))
  BY DEF Calmly, WithOwner
<1> QED BY <1>1, <1>2, KeptElsewhere DEF Calmly

LEMMA LifeOfQuiet ==
    ASSUME NEW t \in Thread, Quietly(t)
    PROVE  UNCHANGED <<refs, Keeper, deleted, rescued, DeletedTwice>>
<1>1. /\ Calmly(t) /\ pc[t] # "unregistered" /\ pc'[t] # "unregistered"
      /\ UNCHANGED <<refs, deleted>>
  BY QuietIsCalm DEF Quietly, Quiet
<1>2. UNCHANGED <<rescued, DeletedTwice>>
  BY TwiceStays DEF Quietly, Quiet
<1>3. \A r \in Resource : KeepersStay(r)
  BY <1>1, KeptOfCalm
<1> QED BY <1>1, <1>2, <1>3, LifeStays

LEMMA LifeOfRelease ==
    ASSUME DeletionAssumption, Inv, NEW u \in User, NEW r \in Resource, Release(u, r)
    PROVE  Life!Next
<1>1. /\ pc[u] = "idle" /\ u \in refs[r] /\ refs' = [refs EXCEPT ![r] = @ \ {u}]
      /\ \E l \in {"destroy", "idle"} : pc' = [pc EXCEPT ![u] = l]
      /\ cand' = cand \/ cand' = [cand EXCEPT ![u] = r]
      /\ back' = [back EXCEPT ![u] = "idle"]
      /\ UNCHANGED <<deleted, rescued, delayed, local, m_num, pushed_by, stack, batch>>
  BY DEF Release, Drop, Go, lists
<1>2. /\ pc \in [Thread -> Labels] /\ cand \in [Thread -> Resource \cup {none}]
      /\ back \in [Thread -> Labels] /\ u \in Thread
  BY DEF Inv, Basis, TypeOK
<1>3. Calmly(u) /\ Moves(u) /\ pc'[u] \notin {"unregistered", "twice"}
  BY <1>1, <1>2 DEF Calmly, Moves
<1>4. UNCHANGED <<Keeper, deleted, rescued, DeletedTwice>>
  BY <1>1, <1>2, <1>3, KeptOfCalm, LifeStays, TwiceStays
<1>5. Life!Release(u, r)
  BY <1>1, <1>4 DEF Life!Release
<1> QED BY <1>5 DEF Life!Next

LEMMA LifeOfFind ==
    ASSUME DeletionAssumption, Inv, NEW t \in Thread, NEW u \in User,
           \/ t = resources /\ Find(u)
           \/ t = u /\ Ask(u)
    PROVE  UNCHANGED <<refs, Keeper, deleted, rescued, DeletedTwice>>
<1>1. /\ pc[t] \in {"init", "idle"}
      /\ pc' = pc \/ pc' = [pc EXCEPT ![t] = "found"]
      /\ \E r : cand' = cand \/ cand' = [cand EXCEPT ![t] = r]
      /\ UNCHANGED <<refs, deleted, rescued, delayed, local, m_num, pushed_by, stack, batch, back>>
  BY DEF Find, Ask, Go, life, lists
<1>2. pc \in [Thread -> Labels] /\ cand \in [Thread -> Resource \cup {none}]
  BY DEF Inv, Basis, TypeOK
<1>3. /\ Calmly(t) /\ pc[t] # "unregistered" /\ pc'[t] # "unregistered"
      /\ Moves(t) /\ pc'[t] # "twice"
  BY <1>1, <1>2 DEF Calmly, Moves
<1> QED BY <1>1, <1>3, KeptOfCalm, LifeStays, TwiceStays

(* A lookup that finds the resource acquires it, which is not condemned.   *)
LEMMA LifeOfReclaim ==
    ASSUME DeletionAssumption, Inv, NEW t \in Thread,
           \/ t = resources /\ Reclaim
           \/ t \in User /\ ReclaimAtOnce(t)
    PROVE  Life!Next \/ UNCHANGED <<refs, Keeper, deleted, rescued, DeletedTwice>>
<1>0. /\ pc \in [Thread -> Labels] /\ refs \in [Resource -> SUBSET (Thread \cup Resource)]
      /\ fat \subseteq Cached /\ Cached \subseteq Resource /\ Known /\ ManagerShape
  BY DEF Inv, Basis, TypeOK, DeletionAssumption, Held
<1>1. /\ pc[t] = "found" /\ cand[t] \in fat
      /\ \E l \in {"init", "idle"} : pc' = [pc EXCEPT ![t] = l]
      /\ UNCHANGED <<fat, deleted, delayed, local, m_num, pushed_by, cand, stack, batch, back>>
  BY <1>0 DEF Reclaim, ReclaimAtOnce, Go, lists, Known
<1>2. PICK u \in User : Take(u, cand[t])
  BY <1>0, <1>1 DEF Reclaim, ReclaimAtOnce, ManagerShape
<1>3. Calmly(t) /\ Moves(t) /\ pc'[t] \notin {"unregistered", "twice"}
  BY <1>0, <1>1 DEF Calmly, Moves
<1>4. UNCHANGED <<Keeper, deleted, DeletedTwice>>
  <2>1. \A r \in Resource : KeepersStay(r)
    BY <1>1, <1>3, KeptOfCalm
  <2> QED BY <1>1, <1>3, <2>1, TwiceStays DEF Keeper, KeepersStay
<1>5. PICK x \in Resource : x = cand[t]
  BY <1>0, <1>1
<1>6. x \in Cached /\ Alive(x) /\ x \notin deleted
  BY <1>0, <1>1, <1>5 DEF Known, Alive
<1>7. \A v \in Thread : ~Keeps(v, x)
  <2> SUFFICES ASSUME NEW v \in Thread, Keeps(v, x) PROVE FALSE
    OBVIOUS
  <2>1. pc[v] = "unregistered" /\ cand[v] = x
    BY <1>6, KeptFacts
  <2>2. HandledAt(v)
    BY DEF Inv, Held, Handled
  <2> QED BY <1>1, <1>5, <2>1, <2>2 DEF HandledAt
<1>8. Life!Held(x)
  BY <1>6, <1>7 DEF Life!Held, Keeper
<1>9. CASE u \in refs[x]
  BY <1>0, <1>2, <1>4, <1>5, <1>9 DEF Take
<1>10. CASE u \notin refs[x]
  BY <1>2, <1>4, <1>5, <1>6, <1>8, <1>10 DEF Life!Next, Life!Acquire, Take
<1> QED BY <1>9, <1>10

(* What its node has forgotten is condemned or gone.                       *)
Condemned == \A r \in Cached \ fat : ~Life!Held(r)

(* What its node has just forgotten, or never knew, is condemned; what it  *)
(* had forgotten before is condemned again.                                *)
LEMMA LifeOfUnregister ==
    ASSUME DeletionAssumption, Inv, Inv', Condemned, NEW t \in Thread,
           CheckCount(t) \/ CheckFat(t) \/ Clean(t)
    PROVE  Life!Next \/ UNCHANGED <<refs, Keeper, deleted, rescued, DeletedTwice>>
<1>0. /\ pc \in [Thread -> Labels] /\ ShapeAt(t) /\ HandledAt(t) /\ OneDestroyer
      /\ rescued \subseteq Cached /\ Known
  BY DEF Inv, Basis, TypeOK, Shape, Held, Handled
<1>1. /\ pc[t] \in {"destroy", "associated", "clean"}
      /\ \E l \in {"associated", "clean", "unregistered", "twice", Rest(t)} :
            /\ pc' = [pc EXCEPT ![t] = l]
            /\ l = "unregistered" => (cand[t] \in Cached => cand[t] \in fat)
            /\ l = "twice" => cand[t] \notin fat
      /\ UNCHANGED <<refs, deleted, rescued, delayed, local, m_num, pushed_by, cand, stack, batch, back>>
  <2>1. Rest(t) \notin {"unregistered", "twice"}
    BY <1>0, RestFacts
  <2> QED BY <2>1 DEF CheckCount, CheckFat, Clean, Go, life, lists
<1>2. PICK x \in Resource : x = cand[t]
  BY <1>0, <1>1 DEF ShapeAt, Hands, DestroyLabels
<1>3. /\ Calmly(t) /\ Moves(t)
      /\ pc'[t] = "unregistered" => (x \in Cached => x \in fat)
      /\ pc'[t] = "twice" => x \notin fat
  BY <1>0, <1>1, <1>2, RestFacts DEF Calmly, Moves
<1>4. CASE pc'[t] \notin {"unregistered", "twice"}
  BY <1>1, <1>3, <1>4, KeptOfCalm, LifeStays, TwiceStays
<1>5. CASE pc'[t] = "unregistered"
  <2>1. Alive(x) /\ \A v \in Thread : ~Keeps(v, x)
    <3>1. Alive(x)
      BY <1>0, <1>1, <1>2, <1>3, <1>5 DEF HandledAt
    <3>2. ASSUME NEW v \in Thread, Keeps(v, x) PROVE FALSE
      <4>1. pc[v] = "unregistered" /\ cand[v] = x
        BY <3>1, <3>2, KeptFacts
      <4>2. x \notin fat /\ v # t
        BY <1>1, <4>1 DEF Inv, Held, Handled, HandledAt
      <4>3. x \in rescued
        BY <1>0, <1>1, <1>2, <4>1, <4>2 DEF OneDestroyer, DestroyLabels
      <4> QED BY <1>0, <1>3, <1>5, <4>2, <4>3
    <3> QED BY <3>1, <3>2
  <2>2. refs[x] = {}
    <3>1. HandledAt(t)'
      BY DEF Inv, Held, Handled
    <3> QED BY <1>1, <1>2, <1>5, <3>1 DEF HandledAt
  <2>3. Keeper' = [Keeper EXCEPT ![x] = {t}]
    <3>1. Keeps(t, x)'
      BY <1>1, <1>2, <1>5 DEF Keeps
    <3>2. \A v \in Thread : Keeps(v, x)' <=> v = t
      <4>1. KeptOnce'
        BY KeptOnceOnly, PTL
      <4> QED BY <3>1, <4>1 DEF KeptOnce
    <3>3. \A r \in Resource : r # x => KeepersStay(r)
      BY <1>1, <1>2, <1>3, KeptOfCalm
    <3>4. Keeper'[x] = {t} /\ \A r \in Resource : r # x => Keeper'[r] = Keeper[r]
      BY <3>2, <3>3 DEF Keeper, KeepersStay
    <3> QED BY <3>4 DEF Keeper
  <2>4. Life!Forgotten(x) /\ Life!Condemn(t, x)
    BY <1>1, <1>3, <1>5, <2>1, <2>2, <2>3, TwiceStays
       DEF Life!Forgotten, Life!Held, Life!Condemn, Keeper, Alive
  <2> QED BY <2>4 DEF Life!Next
<1>6. CASE pc'[t] = "twice"
  <2>1. x \in rescued /\ x \in Cached \ fat
    BY <1>0, <1>1, <1>2, <1>3, <1>6, Inv' DEF Inv, Held, OneDestroyer
  <2>2. refs[x] = {} /\ ~Life!Held(x)
    BY <1>0, <2>1 DEF Known, Condemned
  <2>3. DeletedTwice' = DeletedTwice \cup {x}
    <3>1. \A v \in Thread, r \in Resource :
            pc'[v] = "twice" /\ cand'[v] = r <=> (pc[v] = "twice" /\ cand[v] = r) \/ (v = t /\ r = x)
      BY <1>1, <1>2, <1>3, <1>6 DEF Moves
    <3> QED BY <3>1 DEF DeletedTwice
  <2>4. UNCHANGED Keeper
    <3>1. \A r \in Resource : KeepersStay(r)
      BY <1>1, <1>3, <1>6, KeptOfCalm
    <3> QED BY <3>1 DEF Keeper, KeepersStay
  <2>5. Life!CondemnAgain(x)
    BY <1>1, <2>1, <2>2, <2>3, <2>4 DEF Life!CondemnAgain
  <2> QED BY <2>5 DEF Life!Next
<1> QED BY <1>4, <1>5, <1>6

(* t goes on with the x it has; nobody else's resources are touched.       *)
LEMMA LifeOfMove ==
    ASSUME Inv, Inv', NEW t \in Thread, NEW x \in Resource, UNCHANGED <<refs, deleted, rescued, DeletedTwice>>,
           Keeps(t, x), Keeps(t, x)', \A r \in Resource : r # x => KeepersStay(r)
    PROVE  UNCHANGED <<refs, Keeper, deleted, rescued, DeletedTwice>>
BY SameKeeper, LifeStays

LEMMA LifeOfDeleteNow ==
    ASSUME DeletionAssumption, Inv, Inv', NEW t \in Thread, DeleteNow(t)
    PROVE  UNCHANGED <<refs, Keeper, deleted, rescued, DeletedTwice>>
<1>0. /\ pc \in [Thread -> Labels] /\ stack \in [Thread -> Seq(Resource)] /\ OwnThread
  BY DEF Inv, Basis, TypeOK, Lists
<1>1. /\ pc[t] = "unregistered" /\ Owner[cand[t]] = t
      /\ stack' = [stack EXCEPT ![t] = Append(stack[t], cand[t])]
      /\ pc' = [pc EXCEPT ![t] = "destruct"]
      /\ UNCHANGED <<refs, deleted, rescued, delayed, local, cand, batch, back>>
  BY DEF DeleteNow, Go, life, lists
<1>2. PICK x \in Resource : x = cand[t] /\ x \notin deleted
  BY <1>1, HandFacts DEF Hands, DestroyLabels, HandledAt
<1>3. /\ Moves(t) /\ pc'[t] = "destruct" /\ stack'[t] = Append(stack[t], x)
  BY <1>0, <1>1, <1>2 DEF Moves
<1>4. \A r : In(r, stack'[t]) <=> In(r, stack[t]) \/ r = x
  BY <1>0, <1>3, InAppend
<1>5. Keeps(t, x) /\ Keeps(t, x)'
  BY <1>1, <1>2, <1>3, <1>4 DEF Keeps
<1>6. ASSUME NEW r \in Resource, r # x PROVE KeepersStay(r)
  <2>1. InHand(t, r)' <=> InHand(t, r)
    BY <1>1, <1>2, <1>3, <1>6 DEF InHand
  <2>2. WithOwner(r)' <=> WithOwner(r)
    BY <1>1, <1>3, <1>4, <1>6 DEF WithOwner, Moves, DeletionAssumption
  <2> QED BY <1>1, <1>3, <2>1, <2>2, KeptElsewhere
<1> QED BY <1>1, <1>3, <1>5, <1>6, LifeOfMove, TwiceStays

LEMMA LifeOfCountDelayed ==
    ASSUME DeletionAssumption, Inv, Inv', NEW t \in Thread, CountDelayed(t)
    PROVE  UNCHANGED <<refs, Keeper, deleted, rescued, DeletedTwice>>
<1>0. pc \in [Thread -> Labels]
  BY DEF Inv, Basis, TypeOK
<1>1. /\ pc[t] = "unregistered" /\ pc' = [pc EXCEPT ![t] = "push"]
      /\ UNCHANGED <<refs, deleted, rescued, delayed, local, cand, stack, batch, back>>
  BY DEF CountDelayed, Go, life
<1>2. PICK x \in Resource : x = cand[t]
  BY <1>1, HandFacts DEF Hands, DestroyLabels
<1>3. Moves(t) /\ pc'[t] = "push"
  BY <1>0, <1>1 DEF Moves
<1>4. Keeps(t, x) /\ Keeps(t, x)'
  BY <1>1, <1>2, <1>3 DEF Keeps
<1>5. \A r \in Resource : r # x => KeepersStay(r)
  BY <1>1, <1>2, <1>3, KeptElsewhere DEF InHand, WithOwner
<1> QED BY <1>1, <1>3, <1>4, <1>5, LifeOfMove, TwiceStays

(* What a thread may not delete itself the resources thread gets ...       *)
LEMMA LifeOfPushDelayed ==
    ASSUME DeletionAssumption, Inv, Inv', NEW t \in Thread, PushDelayed(t)
    PROVE  Life!Next
<1>0. pc \in [Thread -> Labels] /\ delayed \in Seq(Resource) /\ resources \in Thread
  BY DEF Inv, Basis, TypeOK
<1>1. /\ pc[t] = "push" /\ delayed' = Append(delayed, cand[t])
      /\ pc' = [pc EXCEPT ![t] = "wakeup_resources_thread"]
      /\ UNCHANGED <<refs, deleted, rescued, local, cand, stack, batch, back>>
  BY DEF PushDelayed, Go, life
<1>2. PICK x \in Resource : x = cand[t]
  BY <1>1, HandFacts DEF Hands
<1>3. Moves(t) /\ pc'[t] = "wakeup_resources_thread"
  BY <1>0, <1>1 DEF Moves
<1>4. \A r : In(r, delayed') <=> In(r, delayed) \/ r = x
  BY <1>0, <1>1, <1>2, InAppend
<1>5. Keeps(t, x) /\ Keeps(resources, x)'
  BY <1>1, <1>2, <1>4 DEF Keeps
<1>6. \A r \in Resource : r # x => KeepersStay(r)
  BY <1>1, <1>2, <1>3, <1>4, KeptElsewhere DEF InHand, WithOwner
<1>7. Life!Pass(x, t, {resources})
  BY <1>0, <1>1, <1>3, <1>5, <1>6, LifePasses, TwiceStays
<1>8. Life!Collect(t, x) /\ t \in Keeper[x]
  BY <1>1, <1>7 DEF Life!Collect, Life!Pass
<1> QED BY <1>8 DEF Life!Next

(* ... and it gives it to its own thread.                                  *)
LEMMA LifeOfTransfer ==
    ASSUME DeletionAssumption, Inv, Inv', Transfer
    PROVE  Life!Next
<1>0. /\ pc \in [Thread -> Labels] /\ local \in [Thread -> Seq(Resource)]
      /\ resources \in Thread /\ ShapeAt(resources)
  BY DEF Inv, Basis, TypeOK, Shape
<1>1. /\ pc[resources] = "transfer"
      /\ \E l \in {"scan", "wakeup_cooker_thread"} : pc' = [pc EXCEPT ![resources] = l]
      /\ local' = [local EXCEPT ![Owner[cand[resources]]]
                         = Append(local[Owner[cand[resources]]], cand[resources])]
      /\ UNCHANGED <<refs, deleted, rescued, delayed, cand, stack, batch, back>>
  BY DEF Transfer, Go, life
<1>2. PICK x \in Resource : x = cand[resources]
  BY <1>0, <1>1 DEF ShapeAt
<1>3. Owner[x] \in Thread
  BY DEF DeletionAssumption
<1>4. /\ Moves(resources) /\ pc'[resources] \in {"scan", "wakeup_cooker_thread"}
      /\ local'[Owner[x]] = Append(local[Owner[x]], x)
      /\ \A u \in Thread : u # Owner[x] => local'[u] = local[u]
  BY <1>0, <1>1, <1>2, <1>3 DEF Moves
<1>5. \A r : In(r, local'[Owner[x]]) <=> In(r, local[Owner[x]]) \/ r = x
  BY <1>0, <1>3, <1>4, InAppend
<1>6. Keeps(resources, x) /\ Keeps(Owner[x], x)'
  BY <1>1, <1>2, <1>3, <1>5 DEF Keeps
<1>7. ASSUME NEW r \in Resource, r # x PROVE KeepersStay(r)
  <2>1. InHand(resources, r)' <=> InHand(resources, r)
    BY <1>1, <1>2, <1>4, <1>7 DEF InHand
  <2>2. In(r, local[Owner[r]])' <=> In(r, local[Owner[r]])
    BY <1>4, <1>5, <1>7 DEF DeletionAssumption
  <2>3. WithOwner(r)' <=> WithOwner(r)
    BY <1>1, <2>2 DEF WithOwner
  <2> QED BY <1>0, <1>1, <1>4, <2>1, <2>3, KeptElsewhere
<1>8. Life!Pass(x, resources, {Owner[x]})
  BY <1>0, <1>1, <1>3, <1>4, <1>6, <1>7, LifePasses, TwiceStays
<1>9. Life!Deliver(x)
  BY <1>1, <1>8 DEF Life!Deliver
<1> QED BY <1>9 DEF Life!Next

LEMMA LifeOfScan ==
    ASSUME DeletionAssumption, Inv, Inv', Scan
    PROVE  UNCHANGED <<refs, Keeper, deleted, rescued, DeletedTwice>>
<1>0. /\ pc \in [Thread -> Labels] /\ stack \in [Thread -> Seq(Resource)]
      /\ cand \in [Thread -> Resource \cup {none}] /\ delayed \in Seq(Resource)
      /\ resources \in Thread /\ ShapeAt(resources) /\ Once(delayed)
  BY DEF Inv, Basis, TypeOK, Shape, Lists, OnePlace
<1>1. /\ pc[resources] = "scan" /\ delayed # << >> /\ delayed' = Tail(delayed)
      /\ UNCHANGED <<refs, deleted, rescued, local, batch, back>>
  BY DEF Scan, life
<1>2. stack[resources] = << >>
  BY <1>0, <1>1 DEF ShapeAt, Dyings, Hands, DestroyLabels
<1>3. PICK x \in Resource : x = Head(delayed)
  BY <1>0, <1>1, InTail
<1>4. In(x, delayed) /\ \A r : In(r, delayed') <=> In(r, delayed) /\ r # x
  BY <1>0, <1>1, <1>3, InTail
<1>5. PICK s \in Seq(Resource) : s = << x >> /\ \A y : In(y, s) <=> y = x
  BY InSingle
<1>6. /\ Moves(resources)
      /\ \/ /\ Owner[x] = resources /\ pc'[resources] = "destruct"
            /\ stack'[resources] = s
         \/ /\ pc'[resources] = "transfer" /\ cand'[resources] = x
            /\ stack'[resources] = stack[resources]
  <2>1. CASE Owner[x] = resources
    <3>1. /\ stack' = [stack EXCEPT ![resources] = s] /\ cand' = cand
          /\ pc' = [pc EXCEPT ![resources] = "destruct"]
      BY <1>3, <1>5, <2>1 DEF Scan, Go
    <3> QED BY <1>0, <1>1, <2>1, <3>1 DEF Moves
  <2>2. CASE Owner[x] # resources
    <3>1. /\ stack' = stack /\ cand' = [cand EXCEPT ![resources] = x]
          /\ pc' = [pc EXCEPT ![resources] = "transfer"]
      BY <1>3, <2>2 DEF Scan, Go
    <3> QED BY <1>0, <1>1, <3>1 DEF Moves
  <2> QED BY <2>1, <2>2
<1>7. Keeps(resources, x) /\ x \notin deleted
  <2>1. Keeps(resources, x)
    BY <1>4 DEF Keeps
  <2> QED BY <1>0, <2>1, KeptFacts
<1>8. Keeps(resources, x)'
  BY <1>1, <1>5, <1>6, <1>7 DEF Keeps
<1>9. ASSUME NEW r \in Resource, r # x PROVE KeepersStay(r)
  <2>1. InHand(resources, r)' <=> InHand(resources, r)
    BY <1>1, <1>6, <1>9 DEF InHand
  <2>2. In(r, stack'[resources]) <=> In(r, stack[resources])
    BY <1>2, <1>5, <1>6, <1>9, InEmpty
  <2>3. In(r, stack[Owner[r]])' <=> In(r, stack[Owner[r]])
    BY <1>6, <2>2 DEF Moves, DeletionAssumption
  <2>4. WithOwner(r)' <=> WithOwner(r)
    BY <1>1, <2>3 DEF WithOwner
  <2>5. In(r, delayed)' <=> In(r, delayed)
    BY <1>4, <1>9
  <2> QED BY <1>0, <1>6, <2>1, <2>4, <2>5, KeptElsewhere
<1> QED BY <1>0, <1>1, <1>6, <1>7, <1>8, <1>9, LifeOfMove, TwiceStays

LEMMA LifeOfDeleteNext ==
    ASSUME DeletionAssumption, Inv, Inv', NEW t \in Thread, DeleteNext(t)
    PROVE  UNCHANGED <<refs, Keeper, deleted, rescued, DeletedTwice>>
<1>0. /\ pc \in [Thread -> Labels] /\ stack \in [Thread -> Seq(Resource)]
      /\ batch \in [Thread -> Seq(Resource)] /\ ShapeAt(t) /\ OnePlace /\ OwnThread
  BY DEF Inv, Basis, TypeOK, Shape, Lists
<1>1. /\ pc[t] = "batch" /\ pc' = [pc EXCEPT ![t] = "destruct"]
      /\ stack' = [stack EXCEPT ![t] = << Head(batch[t]) >>]
      /\ batch' = [batch EXCEPT ![t] = Tail(batch[t])]
      /\ UNCHANGED <<refs, deleted, rescued, delayed, local, cand, back>>
  BY DEF DeleteNext, Go, life, lists
<1>2. stack[t] = << >> /\ batch[t] # << >> /\ Once(batch[t])
  BY <1>0, <1>1 DEF ShapeAt, OnePlace
<1>3. PICK x \in Resource : x = Head(batch[t])
  BY <1>0, <1>2, InTail
<1>4. In(x, batch[t]) /\ \A r : In(r, Tail(batch[t])) <=> In(r, batch[t]) /\ r # x
  BY <1>0, <1>2, <1>3, InTail
<1>5. /\ Moves(t) /\ pc'[t] = "destruct" /\ stack'[t] = << x >> /\ batch'[t] = Tail(batch[t])
  BY <1>0, <1>1, <1>3 DEF Moves
<1>6. \A r : In(r, stack'[t]) <=> r = x
  BY <1>5, InSingle
<1>7. Keeps(t, x) /\ x \notin deleted /\ Owner[x] = t
  <2>1. Owner[x] = t /\ Keeps(t, x)
    BY <1>0, <1>4 DEF Keeps, OwnThread
  <2> QED BY <2>1, KeptFacts
<1>8. Keeps(t, x)'
  BY <1>1, <1>6, <1>7 DEF Keeps
<1>9. ASSUME NEW r \in Resource, r # x PROVE KeepersStay(r)
  <2>1. InHand(t, r)' <=> InHand(t, r)
    BY <1>1, <1>5 DEF InHand
  <2>2. In(r, stack'[t]) <=> In(r, stack[t])
    BY <1>2, <1>6, <1>9, InEmpty
  <2>3. In(r, batch'[t]) <=> In(r, batch[t])
    BY <1>4, <1>5, <1>9
  <2>4. /\ In(r, stack[Owner[r]])' <=> In(r, stack[Owner[r]])
        /\ In(r, batch[Owner[r]])' <=> In(r, batch[Owner[r]])
    BY <1>5, <2>2, <2>3 DEF Moves, DeletionAssumption
  <2>5. WithOwner(r)' <=> WithOwner(r)
    BY <1>1, <2>4 DEF WithOwner
  <2> QED BY <1>1, <1>5, <2>1, <2>5, KeptElsewhere
<1> QED BY <1>1, <1>5, <1>7, <1>8, <1>9, LifeOfMove, TwiceStays

LEMMA LifeOfTakeLocal ==
    ASSUME DeletionAssumption, Inv, NEW t \in Thread,
           NEW then \in {"callbacks", "again", "sleep"}, TakeLocal(t, then),
           pc[t] \in Quiet, UNCHANGED <<refs, deleted, rescued, cand, stack>>
    PROVE  UNCHANGED <<refs, Keeper, deleted, rescued, DeletedTwice>>
<1>0. /\ pc \in [Thread -> Labels] /\ local \in [Thread -> Seq(Resource)]
      /\ batch \in [Thread -> Seq(Resource)] /\ back \in [Thread -> Labels] /\ ShapeAt(t)
  BY DEF Inv, Basis, TypeOK, Shape
<1>1. /\ batch' = [batch EXCEPT ![t] = local[t]] /\ local' = [local EXCEPT ![t] = << >>]
      /\ back' = [back EXCEPT ![t] = then]
      /\ pc' = [pc EXCEPT ![t] = IF local[t] = << >> THEN then ELSE "batch"]
      /\ UNCHANGED delayed
  BY DEF TakeLocal, Go
<1>2. batch[t] = << >>
  BY <1>0 DEF ShapeAt, Dyings, Hands, DestroyLabels, Quiet
<1>3. /\ Moves(t) /\ batch'[t] = local[t]
      /\ pc'[t] = IF local[t] = << >> THEN then ELSE "batch"
      /\ local'[t] = << >> /\ \A u \in Thread \ {t} : local'[u] = local[u]
  BY <1>0, <1>1 DEF Moves
<1>4. ASSUME NEW r \in Resource PROVE KeepersStay(r)
  <2>1. InHand(t, r)' <=> InHand(t, r)
    <3>1. pc[t] \notin {"unregistered", "push", "transfer"}
      BY DEF Quiet
    <3>2. pc'[t] \notin {"unregistered", "push", "transfer"}
      BY <1>3
    <3> QED BY <3>1, <3>2 DEF InHand
  <2>2. WithOwner(r)' <=> WithOwner(r)
    <3>1. CASE Owner[r] = t
      BY <1>2, <1>3, <3>1, InEmpty DEF WithOwner
    <3>2. CASE Owner[r] # t
      <4>1. Owner[r] \in Thread \ {t}
        BY <3>2 DEF DeletionAssumption
      <4> QED BY <1>3, <4>1 DEF WithOwner, Moves
    <3> QED BY <3>1, <3>2
  <2> QED BY <1>1, <1>3, <2>1, <2>2, KeptElsewhere
<1>5. pc[t] # "twice" /\ pc'[t] # "twice"
  BY <1>3 DEF Quiet
<1> QED BY <1>3, <1>4, <1>5, LifeStays, TwiceStays

LEMMA LifeOfFree ==
    ASSUME DeletionAssumption, Inv, NEW t \in Thread, Free(t)
    PROVE  UNCHANGED <<refs, Keeper, deleted, rescued, DeletedTwice>>
<1>0. /\ pc \in [Thread -> Labels] /\ stack \in [Thread -> Seq(Resource)] /\ TypeOK
      /\ Lists /\ ShapeAt(t)
  BY DEF Inv, Basis, TypeOK, Shape
<1>1. /\ pc[t] = "free" /\ stack[t] # << >>
      /\ stack' = [stack EXCEPT ![t] = Front(stack[t])]
      /\ pc' = [pc EXCEPT ![t] = IF Len(stack[t]) > 1 THEN "free"
                                 ELSE IF batch[t] # << >> THEN "batch" ELSE back[t]]
      /\ UNCHANGED <<refs, deleted, rescued, delayed, local, cand, batch, back>>
  BY <1>0 DEF Free, Go, life, ShapeAt
<1>2. PICK x \in Resource : x = top(t) /\ In(x, stack[t])
  BY <1>0, <1>1, TopOfStack
<1>3. x \in deleted
  BY <1>0, <1>1, <1>2 DEF Lists, Stacks
<1>4. /\ Moves(t) /\ stack'[t] = Front(stack[t])
      /\ pc'[t] \in {"free", "batch", "idle", "callbacks", "sleep", "again", "scan"}
  BY <1>0, <1>1 DEF Moves, ShapeAt
<1>5. \A r : In(r, stack'[t]) <=> In(r, stack[t]) /\ r # x
  <2>1. stack[t] \in Seq(Resource) /\ Once(stack[t])
    BY <1>0 DEF Lists, OnePlace
  <2> QED BY <1>1, <1>2, <1>4, <2>1, InFront DEF top
<1>6. ASSUME NEW r \in Resource PROVE KeepersStay(r)
  <2>1. InHand(t, r)' <=> InHand(t, r)
    BY <1>1, <1>4 DEF InHand
  <2>2. /\ r = x \/ (In(r, stack[Owner[r]])' <=> In(r, stack[Owner[r]]))
        /\ batch'[Owner[r]] = batch[Owner[r]]
    BY <1>1, <1>4, <1>5 DEF Moves, DeletionAssumption
  <2>3. WithOwner(r)' <=> WithOwner(r)
    BY <1>1, <1>3, <2>2 DEF WithOwner
  <2> QED BY <1>1, <1>4, <2>1, <2>3, KeptElsewhere
<1> QED BY <1>1, <1>4, <1>6, LifeStays, TwiceStays

(* The destructor of a condemned resource runs in its own thread.          *)
LEMMA LifeOfDestruct ==
    ASSUME DeletionAssumption, Inv, Inv', NEW t \in Thread, Destruct(t)
    PROVE  Life!Next
<1>0. /\ pc \in [Thread -> Labels] /\ cand \in [Thread -> Resource \cup {none}] /\ TypeOK
      /\ refs \in [Resource -> SUBSET (Thread \cup Resource)] /\ Lists /\ ShapeAt(t)
  BY DEF Inv, Basis, TypeOK, Shape
<1>1. /\ pc[t] = "destruct" /\ stack[t] # << >> /\ deleted' = deleted \cup {top(t)}
      /\ UNCHANGED <<rescued, delayed, local, stack, batch, back>>
  BY <1>0 DEF Destruct, lists, ShapeAt
<1>2. PICK x \in Resource : x = top(t) /\ In(x, stack[t]) /\ Owner[x] = t
  BY <1>0, <1>1, TopOfStack
<1>3. x \notin deleted /\ deleted' = deleted \cup {x}
  BY <1>0, <1>1, <1>2 DEF Lists, Stacks
<1>4. \/ /\ Inner[x] = none
         /\ refs' = refs /\ cand' = cand /\ pc' = [pc EXCEPT ![t] = "free"]
      \/ \E y \in Resource, l \in {"destroy", "free"} :
            /\ Inner[x] = y /\ refs' = [refs EXCEPT ![y] = refs[y] \ {x}]
            /\ cand' = [cand EXCEPT ![t] = y] \/ cand' = cand
            /\ pc' = [pc EXCEPT ![t] = l]
  <2>1. CASE Inner[x] = none
    BY <1>2, <2>1 DEF Destruct, Go
  <2>2. CASE Inner[x] # none
    <3>1. PICK y \in Resource : y = Inner[x]
      BY <2>2 DEF DeletionAssumption
    <3>2. Drop(t, x, y, "free")
      BY <1>2, <2>2, <3>1 DEF Destruct
    <3> QED BY <3>1, <3>2 DEF Drop, Go
  <2> QED BY <2>1, <2>2
<1>5. Moves(t) /\ pc'[t] \in {"free", "destroy"}
  BY <1>0, <1>1, <1>4 DEF Moves
<1>6. refs' = [q \in Resource |-> IF q = Inner[x] THEN refs[q] \ {x} ELSE refs[q]]
  <2>1. CASE Inner[x] = none
    <3>1. \A q \in Resource : q # Inner[x]
      BY <2>1 DEF DeletionAssumption
    <3>2. refs' = refs
      BY <1>4, <2>1, <3>1
    <3> QED BY <1>0, <3>1, <3>2
  <2>2. CASE Inner[x] # none
    BY <1>0, <1>4, <2>2
  <2> QED BY <2>1, <2>2
<1>7. ASSUME NEW r \in Resource, r # x PROVE KeepersStay(r)
  <2>1. InHand(t, r)' <=> InHand(t, r)
    BY <1>1, <1>5 DEF InHand
  <2>2. WithOwner(r)' <=> WithOwner(r)
    BY <1>1, <1>3, <1>7 DEF WithOwner
  <2> QED BY <1>1, <1>5, <2>1, <2>2, KeptElsewhere
<1>8. Keeper[x] = {t}
  <2>1. Keeps(t, x)
    BY <1>2, <1>3 DEF Keeps
  <2> QED BY <2>1, OneKeeper DEF Keeper
<1>9. Keeper' = [Keeper EXCEPT ![x] = {}]
  <2>1. KeptOnce'
    BY KeptOnceOnly, PTL
  <2>2. \A v \in Thread : ~Keeps(v, x)'
    BY <1>3, <2>1 DEF KeptOnce
  <2>3. Keeper'[x] = {} /\ \A r \in Resource : r # x => Keeper'[r] = Keeper[r]
    BY <1>7, <2>2 DEF Keeper, KeepersStay
  <2> QED BY <2>3 DEF Keeper
<1>10. Life!Destroy(x)
  BY <1>1, <1>2, <1>3, <1>5, <1>6, <1>8, <1>9, TwiceStays DEF Life!Destroy, Life!Pass
<1> QED BY <1>10 DEF Life!Next

LEMMA LifeOfDying ==
    ASSUME DeletionAssumption, Inv, Inv', Condemned, NEW t \in Thread, Dying(t)
    PROVE  Life!Next \/ UNCHANGED <<refs, Keeper, deleted, rescued, DeletedTwice>>
<1>1. CASE WakeupResources(t)
  <2>1. /\ pc[t] = "wakeup_resources_thread" /\ pc' = [pc EXCEPT ![t] = Rest(t)]
        /\ UNCHANGED <<refs, deleted, rescued, delayed, local, m_num, pushed_by, cand, stack, batch, back>>
    BY <1>1 DEF WakeupResources, Go, life, lists
  <2>2. pc \in [Thread -> Labels] /\ ShapeAt(t)
    BY DEF Inv, Basis, TypeOK, Shape
  <2>3. Calmly(t) /\ Moves(t) /\ pc'[t] \notin {"unregistered", "twice"}
    BY <2>1, <2>2, RestFacts DEF Calmly, Moves
  <2> QED BY <2>1, <2>3, KeptOfCalm, LifeStays, TwiceStays
<1> QED BY <1>1, LifeOfUnregister, LifeOfDeleteNow, LifeOfCountDelayed, LifeOfPushDelayed,
           LifeOfDestruct, LifeOfFree, LifeOfDeleteNext DEF Dying

LEMMA LifeOfStep ==
    ASSUME DeletionAssumption, Inv, Inv', Condemned, [Next]_vars
    PROVE  [Life!Next]_<<refs, Keeper, deleted, rescued, DeletedTwice>>
<1>0. resources \in Thread /\ cooker \in Thread /\ User \subseteq Thread
  OBVIOUS
<1>1. CASE Manager
  <2>1. CASE \/ Wake \/ BeginDispatch \/ WakeupCooker \/ ScanEnds \/ EndDispatch \/ WaitForDeletions
             \/ (\E u \in User : Execute(u)) \/ Executed \/ NoMoreMounts \/ TickEnds
    BY <2>1, QuietManager, LifeOfQuiet
  <2>2. CASE Scan \/ Transfer
    BY <2>2, LifeOfScan, LifeOfTransfer
  <2>3. CASE (\E u \in User : Find(u)) \/ Reclaim
    BY <2>3, LifeOfFind, LifeOfReclaim
  <2>4. CASE Dying(resources)
    BY <2>4, LifeOfDying
  <2> QED BY <1>1, <2>1, <2>2, <2>3, <2>4 DEF Manager
<1>2. CASE Cooker
  <2>1. CASE CookerWakes
    <3>1. /\ TakeLocal(cooker, "again") /\ pc[cooker] \in Quiet
          /\ UNCHANGED <<refs, deleted, rescued, cand, stack>>
      BY <2>1 DEF CookerWakes, Quiet, life
    <3> QED BY <3>1, LifeOfTakeLocal
  <2>2. CASE CookerTakesAgain
    <3>1. /\ TakeLocal(cooker, "sleep") /\ pc[cooker] \in Quiet
          /\ UNCHANGED <<refs, deleted, rescued, cand, stack>>
      BY <2>2 DEF CookerTakesAgain, Quiet, life
    <3> QED BY <3>1, LifeOfTakeLocal
  <2>3. CASE Dying(cooker)
    BY <2>3, LifeOfDying
  <2> QED BY <1>2, <2>1, <2>2, <2>3 DEF Cooker
<1>3. ASSUME NEW u \in User, Chooses(u) \/ Proceeds(u)
      PROVE  Life!Next \/ UNCHANGED <<refs, Keeper, deleted, rescued, DeletedTwice>>
  <2>1. CASE \/ AskLater(u) \/ CreateMount(u) \/ Finalize(u) \/ AddMount(u) \/ Callbacks(u)
             \/ TryLock(u) \/ CheckLocal(u) \/ CheckLists(u) \/ CheckMounts(u) \/ CheckFlag(u)
    BY <2>1, QuietUser, LifeOfQuiet
  <2>2. CASE Dispatch(u) \/ DispatchAndRetry(u)
    <3>1. /\ TakeLocal(u, "callbacks") /\ pc[u] \in Quiet
          /\ UNCHANGED <<refs, deleted, rescued, cand, stack>>
      BY <2>2 DEF Dispatch, DispatchAndRetry, Quiet, life
    <3> QED BY <3>1, LifeOfTakeLocal
  <2>3. CASE Ask(u) \/ ReclaimAtOnce(u)
    BY <2>3, LifeOfFind, LifeOfReclaim
  <2>4. CASE \E r \in Resource : Release(u, r)
    BY <2>4, LifeOfRelease
  <2>5. CASE Dying(u)
    BY <2>5, LifeOfDying
  <2> QED BY <1>3, <2>1, <2>2, <2>3, <2>4, <2>5 DEF Chooses, Proceeds
<1>4. CASE UNCHANGED vars
  BY <1>4 DEF vars, life, lists, where, Keeper, Keeps, DeletedTwice
<1> QED BY <1>1, <1>2, <1>3, <1>4 DEF Next

LEMMA LifeBegins ==
    ASSUME DeletionAssumption, Init
    PROVE  Life!Init /\ Condemned
<1>1. refs \in [Resource -> SUBSET (User \cup Resource)]
  BY DEF Init, DeletionAssumption
<1>2. \A t \in Thread, r \in Resource : ~Keeps(t, r)
  BY InEmpty DEF Init, Keeps
<1>3. Keeper = [r \in Resource |-> {}] /\ deleted = {} /\ rescued = {} /\ fat = Cached
  BY <1>2 DEF Keeper, Init
<1>4. DeletedTwice = {}
  BY DEF DeletedTwice, Init
<1> QED BY <1>1, <1>3, <1>4 DEF Life!Init, Condemned

(* Only in Clean a node forgets its resource.                              *)
LEMMA ForgottenByClean ==
    ASSUME [Next]_vars, fat' # fat
    PROVE  \E t \in Thread : Clean(t)
<1>1. ASSUME NEW t \in Thread, Dying(t) PROVE Clean(t)
  <2>1. CASE CheckCount(t) \/ CheckFat(t) \/ DeleteNow(t) \/ CountDelayed(t) \/ PushDelayed(t)
    BY <2>1 DEF CheckCount, CheckFat, DeleteNow, CountDelayed, PushDelayed, life
  <2>2. CASE WakeupResources(t) \/ Destruct(t) \/ Free(t) \/ DeleteNext(t)
    BY <2>2 DEF WakeupResources, Destruct, Free, DeleteNext, life
  <2> QED BY <1>1, <2>1, <2>2 DEF Dying
<1>2. CASE Manager
  <2>1. CASE Wake \/ BeginDispatch \/ Scan \/ Transfer \/ WakeupCooker \/ ScanEnds
    BY <2>1 DEF Wake, BeginDispatch, Scan, Transfer, WakeupCooker, ScanEnds, life
  <2>2. CASE EndDispatch \/ WaitForDeletions \/ (\E u \in User : Execute(u)) \/ Executed
    BY <2>2 DEF EndDispatch, WaitForDeletions, Execute, Executed, life
  <2>3. CASE NoMoreMounts \/ (\E u \in User : Find(u)) \/ Reclaim \/ TickEnds
    BY <2>3 DEF NoMoreMounts, Find, Reclaim, TickEnds, life
  <2> QED BY <1>1, <1>2, <2>1, <2>2, <2>3 DEF Manager
<1>3. CASE Cooker
  BY <1>1, <1>3 DEF Cooker, CookerWakes, CookerTakesAgain, life
<1>4. ASSUME NEW u \in User, Chooses(u) \/ Proceeds(u) PROVE \E t \in Thread : Clean(t)
  <2>1. CASE Chooses(u)
    BY <2>1 DEF Chooses, Ask, AskLater, CreateMount, Finalize, Release, life
  <2>2. CASE ReclaimAtOnce(u) \/ AddMount(u) \/ Dispatch(u) \/ Callbacks(u) \/ TryLock(u)
    BY <2>2 DEF ReclaimAtOnce, AddMount, Dispatch, Callbacks, TryLock, life
  <2>3. CASE DispatchAndRetry(u) \/ CheckLocal(u) \/ CheckLists(u) \/ CheckMounts(u) \/ CheckFlag(u)
    BY <2>3 DEF DispatchAndRetry, CheckLocal, CheckLists, CheckMounts, CheckFlag, life
  <2> QED BY <1>1, <1>4, <2>1, <2>2, <2>3 DEF Proceeds
<1> QED BY <1>2, <1>3, <1>4 DEF Next, vars, life

(* No step of ResourceLife brings back what is condemned or gone.          *)
LEMMA LostForGood ==
    ASSUME [Life!Next]_<<refs, Keeper, deleted, rescued, DeletedTwice>>,
           NEW r \in Resource, ~Life!Held(r)
    PROVE  ~Life!Held(r)'
<1>1. CASE UNCHANGED <<refs, Keeper, deleted, rescued, DeletedTwice>>
  BY <1>1 DEF Life!Held
<1>2. ASSUME NEW q \in Resource, NEW t, NEW ts, Life!Pass(q, t, ts), ts # {}, deleted' = deleted
      PROVE  ~Life!Held(r)'
  BY <1>2 DEF Life!Pass, Life!Held, Keeper
<1>3. ASSUME NEW q \in Resource, Life!Destroy(q) PROVE ~Life!Held(r)'
  BY <1>3 DEF Life!Destroy, Life!Pass, Life!Held, Keeper
<1>4. ASSUME NEW q \in Resource, NEW t \in Thread, Life!Condemn(t, q) PROVE ~Life!Held(r)'
  BY <1>4 DEF Life!Condemn, Life!Held, Keeper
<1>5. ASSUME NEW q \in Resource, NEW u \in User,
             Life!CondemnAgain(q) \/ Life!Acquire(u, q) \/ Life!Release(u, q)
      PROVE  ~Life!Held(r)'
  BY <1>5 DEF Life!CondemnAgain, Life!Acquire, Life!Release, Life!Held
<1>6. ASSUME NEW q \in Resource, Life!CondemnAgain(q) PROVE ~Life!Held(r)'
  BY <1>6 DEF Life!CondemnAgain, Life!Held
<1>7. ASSUME NEW q \in Resource, Life!Deliver(q) \/ \E t \in Keeper[q] : Life!Collect(t, q)
      PROVE  ~Life!Held(r)'
  BY <1>2, <1>7 DEF Life!Deliver, Life!Collect
<1> QED BY <1>1, <1>3, <1>4, <1>5, <1>6, <1>7 DEF Life!Next

LEMMA CondemnedOfStep ==
    ASSUME DeletionAssumption, Inv, Inv', Condemned, [Next]_vars
    PROVE  Condemned'
<1> SUFFICES ASSUME NEW r \in Cached, r \notin fat' PROVE ~Life!Held(r)'
  BY DEF Condemned
<1>0. r \in Resource
  BY DEF DeletionAssumption
<1>1. CASE r \notin fat
  BY <1>0, <1>1, LifeOfStep, LostForGood DEF Condemned
<1>2. CASE r \in fat
  <2>1. PICK t \in Thread : Clean(t)
    BY <1>2, ForgottenByClean
  <2>2. cand'[t] = r /\ pc'[t] = "unregistered"
    BY <1>2, <2>1 DEF Clean, Go, Inv, Basis, TypeOK
  <2>3. t \in Keeper'[r]
    BY <1>0, <2>2 DEF Keeper, Keeps
  <2> QED BY <2>3 DEF Life!Held
<1> QED BY <1>1, <1>2

(* However a resource gets to the thread that deletes it, and whatever     *)
(* looks it up or drops it meanwhile, it is condemned while nobody holds   *)
(* it, not given out again, handed on from one thread to the next and      *)
(* destroyed by its own thread; and another thread comes to delete it too  *)
(* only if a lookup had got it when nobody held it                         *)
(* (unmanaged_intrusive_base::destroy and the deletions of                 *)
(* resources_manager.cpp).                                                 *)
THEOREM LivesAndDies ==
    ASSUME DeletionAssumption
    PROVE  Spec => ImplementsLife
<1>1. Init => Life!Init /\ Condemned
  BY LifeBegins
<1>2. Inv /\ Inv' /\ Condemned /\ [Next]_vars =>
          [Life!Next]_<<refs, Keeper, deleted, rescued, DeletedTwice>>
  BY LifeOfStep
<1>3. Inv /\ Inv' /\ Condemned /\ [Next]_vars => Condemned'
  BY CondemnedOfStep
<1> QED BY <1>1, <1>2, <1>3, DeletionInvariant, PTL DEF Spec, ImplementsLife, Life!Spec

=============================================================================
