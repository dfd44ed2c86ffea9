------------------------------ MODULE RpcProofs ------------------------------
(***************************************************************************)
(* Proofs about Rpc: if every slot has one caller, the assertion of run    *)
(* never fails, and although nothing but m_pending is synchronized every   *)
(* call is executed once, with its own break parameter, before a caller    *)
(* that waits for it goes on.                                              *)
(***************************************************************************)
EXTENDS Rpc, TLAPS

(* What a thread is doing is one thing: Idle, or a record of Calling.      *)
LEMMA CallingCases ==
    ASSUME RpcTypeOK, NEW t \in Thread
    PROVE  /\ calling[t] = Idle <=> calling[t].at = "idle"
           /\ calling[t].at # "idle" => calling[t] \in Calling
BY DEF RpcTypeOK, Idle, Calling

LEMMA ServingCases ==
    ASSUME RpcTypeOK, NEW s \in Slot
    PROVE  /\ serving[s] = Away <=> serving[s].at = "away"
           /\ serving[s].at # "away" => serving[s] \in Serving
BY DEF RpcTypeOK, Away, Serving

(* One step of a call changes only where its thread is.                    *)
LEMMA CallGoesOn ==
    ASSUME RpcTypeOK, NEW t \in Thread, NEW from, from # "idle",
           NEW to \in {"assert", "store", "post", "complete", "failed"},
           calling[t].at = from,
           calling' = [calling EXCEPT ![t] = [@ EXCEPT !.at = to]]
    PROVE  /\ calling[t] \in Calling
           /\ calling' \in [Thread -> {Idle} \cup Calling]
           /\ calling'[t] # Idle
           /\ calling'[t].at = to
           /\ calling'[t].to = calling[t].to
           /\ calling'[t].call = calling[t].call
           /\ \A u \in Thread \ {t} : calling'[u] = calling[u]
<1>1. calling[t] \in Calling
    BY CallingCases
<1>2. [calling[t] EXCEPT !.at = to] \in Calling
    BY <1>1 DEF Calling
<1>3. [calling[t] EXCEPT !.at = to] # Idle
    BY <1>2 DEF Calling, Idle
<1>4. calling \in [Thread -> {Idle} \cup Calling]
    BY DEF RpcTypeOK
<1>5. calling' = [calling EXCEPT ![t] = [calling[t] EXCEPT !.at = to]]
    OBVIOUS
<1>6. calling'[t] = [calling[t] EXCEPT !.at = to]
    BY <1>4, <1>5
<1>7. \A u \in Thread \ {t} : calling'[u] = calling[u]
    BY <1>4, <1>5
<1>8. calling' \in [Thread -> {Idle} \cup Calling]
    BY <1>2, <1>4, <1>5
<1> QED
    BY <1>1, <1>3, <1>6, <1>7, <1>8 DEF Calling

(* Every step of a callee replaces its entry of serving by one like this.  *)
LEMMA ServingMoves ==
    ASSUME RpcTypeOK, NEW s \in Slot, NEW r \in {Away} \cup Serving,
           serving' = [serving EXCEPT ![s] = r]
    PROVE  /\ serving' \in [Slot -> {Away} \cup Serving]
           /\ serving'[s] = r
           /\ \A q \in Slot \ {s} : serving'[q] = serving[q]
BY DEF RpcTypeOK

LEMMA InitInv == RpcInit => RpcInv
BY DEF RpcInit, RpcInv, RpcTypeOK, CallerOwnsSlot, CalleeKnowsCall, Idle, Away

(* RpcTypeOK is inductive by itself.                                       *)
LEMMA TypeStep == RpcTypeOK /\ [RpcNext]_rpcVars => RpcTypeOK'
<1> SUFFICES ASSUME RpcTypeOK, [RpcNext]_rpcVars PROVE RpcTypeOK'
    OBVIOUS
<1>1. ASSUME NEW t \in Thread, Calls(t) PROVE RpcTypeOK'
    BY <1>1 DEF Calls, RunStarts, RpcTypeOK, Calling, slots
<1>2. ASSUME NEW t \in Thread, RunWaits(t) \/ RunAsserts(t) PROVE RpcTypeOK'
    <2>1. calling' \in [Thread -> {Idle} \cup Calling]
        BY <1>2, CallGoesOn DEF RunWaits, RunAsserts, GoOn
    <2> QED
        BY <1>2, <2>1 DEF RunWaits, RunAsserts, RpcTypeOK, slots
<1>3. ASSUME NEW t \in Thread, RunStores(t) PROVE RpcTypeOK'
    <2>1. calling[t] \in Calling /\ calling' \in [Thread -> {Idle} \cup Calling]
        BY <1>3, CallGoesOn DEF RunStores, GoOn
    <2>2. calling[t].to \in Slot /\ calling[t].call \in Call
        BY <2>1 DEF Calling
    <2>3. calling[t].call.break \in BOOLEAN
        BY <2>2, RpcAssumption
    <2> QED
        BY <1>3, <2>1, <2>2, <2>3 DEF RunStores, RpcTypeOK
<1>4. ASSUME NEW t \in Thread, RunPosts(t) \/ RunCompletes(t) PROVE RpcTypeOK'
    <2>1. calling[t] \in Calling
        BY <1>4, CallingCases DEF RunPosts, RunCompletes
    <2>2. [calling[t] EXCEPT !.at = "complete"] \in Calling
        BY <2>1 DEF Calling
    <2>3. calling' \in [Thread -> {Idle} \cup Calling]
        BY <1>4, <2>2 DEF RunPosts, RunCompletes, RpcTypeOK
    <2>4. m_pending' \in [Slot -> BOOLEAN]
        BY <1>4, <2>1 DEF RunPosts, RunCompletes, RpcTypeOK, Calling, slots
    <2> QED
        BY <1>4, <2>3, <2>4 DEF RunPosts, RunCompletes, RpcTypeOK, slots
<1>5. ASSUME NEW s \in Slot, ProcessStarts(s) \/ ProcessTakes(s) \/ TryTakes(s)
      PROVE RpcTypeOK'
    <2>1. m_break_parameters[s] \in BOOLEAN
        BY DEF RpcTypeOK
    <2>2. /\ [at |-> "process", loop |-> TRUE, break |-> FALSE] \in Serving
          /\ [at |-> "execute", loop |-> TRUE, break |-> m_break_parameters[s]] \in Serving
          /\ [at |-> "execute", loop |-> FALSE, break |-> FALSE] \in Serving
        BY <2>1 DEF Serving
    <2>3. serving' \in [Slot -> {Away} \cup Serving]
        BY <1>5, <2>2, ServingMoves DEF ProcessStarts, ProcessTakes, TryTakes
    <2> QED
        BY <1>5, <2>3 DEF ProcessStarts, ProcessTakes, TryTakes, RpcTypeOK, slots
<1>6. ASSUME NEW s \in Slot, Executes(s) \/ Answers(s) \/ ProcessDecides(s)
      PROVE RpcTypeOK'
    <2>1. serving[s] \in Serving
        BY <1>6, ServingCases DEF Executes, Answers, ProcessDecides, Serve
    <2>2. \A at \in {"process", "answer", "decide"} :
             [serving[s] EXCEPT !.at = at] \in Serving
        BY <2>1 DEF Serving
    <2>3. CASE Executes(s)
        <3>1. serving' \in [Slot -> {Away} \cup Serving]
            BY <2>2, <2>3, ServingMoves DEF Executes, Serve
        <3> QED
            BY <2>3, <3>1 DEF Executes, RpcTypeOK, slots
    <2>4. CASE Answers(s)
        <3>1. serving' \in [Slot -> {Away} \cup Serving]
            BY <2>2, <2>4, ServingMoves DEF Answers
        <3> QED
            BY <2>4, <3>1 DEF Answers, RpcTypeOK
    <2>5. CASE ProcessDecides(s)
        <3>1. serving' \in [Slot -> {Away} \cup Serving]
            BY <2>2, <2>5, ServingMoves DEF ProcessDecides
        <3> QED
            BY <2>5, <3>1 DEF ProcessDecides, RpcTypeOK, slots
    <2> QED
        BY <1>6, <2>3, <2>4, <2>5
<1>7. CASE UNCHANGED rpcVars
    BY <1>7 DEF RpcTypeOK, rpcVars, slots
<1> QED
    BY <1>1, <1>2, <1>3, <1>4, <1>5, <1>6, <1>7 DEF RpcNext, RunProceeds, Serves

(* With one caller per slot, two calls under way are for different slots.  *)
LEMMA CallsAreApart ==
    ASSUME OneCaller, RpcInv, NEW t \in Thread, NEW u \in Thread, t # u,
           calling[t] # Idle, calling[u] # Idle
    PROVE  calling[t].to # calling[u].to
<1>1. calling[t].to \in Slot /\ t \in Caller[calling[t].to]
    BY CallingCases DEF RpcInv, CallerOwnsSlot, Calling
<1>2. u \in Caller[calling[u].to]
    BY DEF RpcInv, CallerOwnsSlot
<1> QED
    BY <1>1, <1>2 DEF OneCaller

(* The steps of callers preserve the invariant.                            *)
LEMMA CallerStep ==
    ASSUME OneCaller, RpcInv, RpcTypeOK', NEW t \in Thread, Calls(t) \/ RunProceeds(t)
    PROVE  CallerOwnsSlot' /\ CalleeKnowsCall'
<1> USE DEF RpcInv
<1>1. CASE Calls(t)
    <2>1. PICK s \in Slot, call \in Call, wait \in BOOLEAN :
             t \in Caller[s] /\ RunStarts(t, s, call, wait)
        BY <1>1 DEF Calls
    <2>2. /\ calling'[t].at = "wait" /\ calling'[t].to = s
          /\ \A u \in Thread \ {t} : calling'[u] = calling[u]
        BY <2>1 DEF RunStarts, RpcTypeOK
    <2> QED
        BY <2>1, <2>2 DEF RunStarts, slots, CallerOwnsSlot, CalleeKnowsCall
<1>2. CASE RunWaits(t)
    <2>1. calling[t].at = "wait" /\ calling[t] # Idle
        BY <1>2 DEF RunWaits, GoOn, Idle
    <2>2. /\ calling'[t].at = "assert" /\ calling'[t].to = calling[t].to
          /\ \A u \in Thread \ {t} : calling'[u] = calling[u]
        BY <1>2, <2>1, CallGoesOn DEF RunWaits, GoOn
    <2> QED
        BY <1>2, <2>1, <2>2 DEF RunWaits, slots, CallerOwnsSlot, CalleeKnowsCall
<1>3. CASE RunAsserts(t)
    <2>1. calling[t] # Idle /\ calling[t].at = "assert"
        BY <1>3 DEF RunAsserts, GoOn, Idle
    <2>2. ~m_pending[calling[t].to]
        BY <2>1 DEF CallerOwnsSlot
    <2>3. /\ calling'[t].at = "store" /\ calling'[t].to = calling[t].to
          /\ \A u \in Thread \ {t} : calling'[u] = calling[u]
        BY <1>3, <2>2, CallGoesOn DEF RunAsserts, GoOn
    <2> QED
        BY <1>3, <2>1, <2>2, <2>3 DEF RunAsserts, slots, CallerOwnsSlot, CalleeKnowsCall
<1>4. CASE RunStores(t)
    <2>0. calling[t].at = "store" /\ calling[t] # Idle
        BY <1>4 DEF RunStores, GoOn, Idle
    <2>1. /\ calling[t] # Idle /\ calling[t] \in Calling /\ calling[t].at = "store"
          /\ calling'[t].at = "post" /\ calling'[t].to = calling[t].to
          /\ calling'[t].call = calling[t].call
          /\ \A u \in Thread \ {t} : calling'[u] = calling[u]
        BY <1>4, <2>0, CallGoesOn DEF RunStores, GoOn
    <2>2. calling[t].to \in Slot /\ calling[t].call \in Call /\ ~m_pending[calling[t].to]
        BY <2>1 DEF Calling, CallerOwnsSlot
    <2>3. /\ m_callback'[calling[t].to] = calling[t].call
          /\ m_break_parameters'[calling[t].to] = calling[t].call.break
          /\ \A s \in Slot \ {calling[t].to} :
                /\ m_callback'[s] = m_callback[s]
                /\ m_break_parameters'[s] = m_break_parameters[s]
        BY <1>4, <2>2 DEF RunStores, RpcTypeOK
    <2>4. CallerOwnsSlot'
        <3> SUFFICES ASSUME NEW u \in Thread, calling'[u] # Idle, u # t
                     PROVE  calling[u].to # calling[t].to
            BY <1>4, <2>1, <2>2, <2>3, CallingCases DEF RunStores, CallerOwnsSlot, Calling
        <3> QED
            BY <2>1, CallsAreApart
    <2>5. CalleeKnowsCall'
        BY <1>4, <2>2, <2>3 DEF RunStores, CalleeKnowsCall
    <2> QED
        BY <2>4, <2>5
<1>5. CASE RunPosts(t)
    <2>1. /\ calling[t] # Idle /\ calling[t] \in Calling /\ calling[t].at = "post"
          /\ calling'[t] # Idle => /\ calling'[t].at = "complete"
                                   /\ calling'[t].to = calling[t].to
                                   /\ calling'[t].call = calling[t].call
          /\ \A u \in Thread \ {t} : calling'[u] = calling[u]
        BY <1>5, CallingCases DEF RunPosts, Idle, Calling, RpcTypeOK
    <2>2. /\ calling[t].to \in Slot /\ calling[t].call \in Call
          /\ ~m_pending[calling[t].to]
          /\ m_callback[calling[t].to] = calling[t].call
          /\ m_break_parameters[calling[t].to] = calling[t].call.break
        BY <2>1 DEF Calling, CallerOwnsSlot
    <2>3. /\ m_pending'[calling[t].to]
          /\ \A s \in Slot \ {calling[t].to} : m_pending'[s] = m_pending[s]
        BY <1>5, <2>2 DEF RunPosts, RpcTypeOK
    <2>4. CallerOwnsSlot'
        <3> SUFFICES ASSUME NEW u \in Thread, calling'[u] # Idle, u # t
                     PROVE  calling[u].to # calling[t].to
            BY <1>5, <2>1, <2>2, <2>3, CallingCases DEF RunPosts, CallerOwnsSlot, Calling
        <3> QED
            BY <2>1, CallsAreApart
    <2>5. CalleeKnowsCall'
        BY <1>5, <2>2, <2>3 DEF RunPosts, CalleeKnowsCall
    <2> QED
        BY <2>4, <2>5
<1>6. CASE RunCompletes(t)
    <2>1. /\ calling'[t] = Idle
          /\ \A u \in Thread \ {t} : calling'[u] = calling[u]
        BY <1>6 DEF RunCompletes, RpcTypeOK
    <2> QED
        BY <1>6, <2>1 DEF RunCompletes, slots, CallerOwnsSlot, CalleeKnowsCall
<1> QED
    BY <1>1, <1>2, <1>3, <1>4, <1>5, <1>6 DEF RunProceeds

(* The steps of callees preserve the invariant.                            *)
LEMMA CalleeStep ==
    ASSUME RpcInv, RpcTypeOK', NEW s \in Slot, ProcessStarts(s) \/ Serves(s)
    PROVE  CallerOwnsSlot' /\ CalleeKnowsCall'
<1> USE DEF RpcInv
<1>1. CASE ProcessStarts(s)
    <2>1. /\ serving'[s].at = "process"
          /\ \A q \in Slot \ {s} : serving'[q] = serving[q]
        BY <1>1 DEF ProcessStarts, RpcTypeOK
    <2>2. CallerOwnsSlot'
        BY <1>1 DEF ProcessStarts, slots, CallerOwnsSlot
    <2>3. CalleeKnowsCall'
        BY <1>1, <2>1 DEF ProcessStarts, slots, CalleeKnowsCall
    <2> QED
        BY <2>2, <2>3
<1>2. CASE ProcessTakes(s)
    <2>1. /\ serving'[s].at = "execute" /\ serving'[s].break = m_break_parameters[s]
          /\ \A q \in Slot \ {s} : serving'[q] = serving[q]
        BY <1>2 DEF ProcessTakes, RpcTypeOK
    <2> QED
        BY <1>2, <2>1 DEF ProcessTakes, slots, CallerOwnsSlot, CalleeKnowsCall
<1>3. CASE TryTakes(s)
    <2>1. /\ serving'[s].at = "execute" /\ serving'[s].loop = FALSE
          /\ \A q \in Slot \ {s} : serving'[q] = serving[q]
        BY <1>3 DEF TryTakes, RpcTypeOK
    <2>2. CallerOwnsSlot'
        BY <1>3 DEF TryTakes, slots, CallerOwnsSlot
    <2>3. CalleeKnowsCall'
        BY <1>3, <2>1 DEF TryTakes, slots, CalleeKnowsCall
    <2> QED
        BY <2>2, <2>3
<1>4. CASE Executes(s)
    <2>1. serving[s] \in Serving /\ serving[s].at = "execute"
        BY <1>4, ServingCases DEF Executes, Serve
    <2>2. /\ serving'[s].at = "answer" /\ serving'[s].loop = serving[s].loop
          /\ serving'[s].break = serving[s].break
          /\ \A q \in Slot \ {s} : serving'[q] = serving[q]
        BY <1>4, <2>1 DEF Executes, Serve, RpcTypeOK, Serving
    <2>3. /\ m_pending[s] /\ executed'[s] = m_callback[s]
          /\ \A q \in Slot \ {s} : executed'[q] = executed[q]
        BY <1>4, <2>1 DEF Executes, CalleeKnowsCall, RpcTypeOK
    <2> QED
        BY <1>4, <2>1, <2>2, <2>3 DEF Executes, slots, CallerOwnsSlot, CalleeKnowsCall
<1>5. CASE Answers(s)
    <2>1. serving[s] \in Serving /\ serving[s].at = "answer"
        BY <1>5, ServingCases DEF Answers
    <2>2. /\ \/ serving'[s].at = "away"
             \/ serving[s].loop /\ serving'[s].at = "decide"
                               /\ serving'[s].break = serving[s].break
          /\ \A q \in Slot \ {s} : serving'[q] = serving[q]
        BY <1>5, <2>1 DEF Answers, RpcTypeOK, Serving, Away
    <2>3. /\ ~m_pending'[s]
          /\ \A q \in Slot \ {s} : m_pending'[q] = m_pending[q]
        BY <1>5 DEF Answers, RpcTypeOK
    <2>4. m_pending[s] /\ executed[s] = m_callback[s]
        BY <2>1 DEF CalleeKnowsCall
    <2>5. \A t \in Thread : calling[t] # Idle => calling[t].to \in Slot
        BY CallingCases DEF Calling
    <2>6. CallerOwnsSlot'
        BY <1>5, <2>3, <2>4, <2>5 DEF Answers, CallerOwnsSlot
    <2>7. CalleeKnowsCall'
        BY <1>5, <2>1, <2>2, <2>3 DEF Answers, CalleeKnowsCall
    <2> QED
        BY <2>6, <2>7
<1>6. CASE ProcessDecides(s)
    <2>1. /\ serving'[s].at \in {"away", "process"}
          /\ \A q \in Slot \ {s} : serving'[q] = serving[q]
        BY <1>6, ServingCases DEF ProcessDecides, RpcTypeOK, Serving, Away
    <2> QED
        BY <1>6, <2>1 DEF ProcessDecides, slots, CallerOwnsSlot, CalleeKnowsCall
<1> QED
    BY <1>1, <1>2, <1>3, <1>4, <1>5, <1>6 DEF Serves

(* RpcInv is an inductive invariant of callers and callees.                *)
THEOREM SlotInvariant == OneCaller => (Spec => []RpcInv)
<1> SUFFICES ASSUME OneCaller PROVE Spec => []RpcInv
    OBVIOUS
<1>1. RpcInv /\ [RpcNext]_rpcVars => RpcInv'
    <2> SUFFICES ASSUME RpcInv, [RpcNext]_rpcVars PROVE RpcInv'
        OBVIOUS
    <2>1. RpcTypeOK'
        BY TypeStep DEF RpcInv
    <2>2. CASE UNCHANGED rpcVars
        BY <2>1, <2>2 DEF rpcVars, slots, RpcInv, CallerOwnsSlot, CalleeKnowsCall
    <2> QED
        BY <2>1, <2>2, CallerStep, CalleeStep DEF RpcInv, RpcNext
<1> QED
    BY InitInv, <1>1, PTL DEF Spec

(* R_ASSERT( !thread.m_pending ) of run holds when every slot has one      *)
(* caller.                                                                 *)
THEOREM AssertionHolds == OneCaller => (Spec => []SlotAssertionHolds)
<1>1. RpcInv => SlotAssertionHolds
    BY DEF RpcInv, CallerOwnsSlot, SlotAssertionHolds, Idle
<1> QED
    BY <1>1, SlotInvariant, PTL

(* What a step may do to a slot, given the invariant: the lemma the action *)
(* properties follow from.                                                 *)
LEMMA SlotSteps ==
    ASSUME RpcInv, [RpcNext]_rpcVars, NEW s \in Slot, m_pending[s]
    PROVE  m_callback'[s] = m_callback[s] /\ m_break_parameters'[s] = m_break_parameters[s]
<1>1. CASE m_callback' = m_callback /\ m_break_parameters' = m_break_parameters
    BY <1>1
<1>2. ASSUME NEW t \in Thread, RunStores(t)
      PROVE  m_callback'[s] = m_callback[s] /\ m_break_parameters'[s] = m_break_parameters[s]
    <2>1. calling[t] # Idle /\ calling[t].at = "store"
        BY <1>2 DEF RunStores, GoOn, Idle
    <2>2. calling[t].to # s
        BY <2>1 DEF RpcInv, CallerOwnsSlot
    <2> QED
        BY <1>2, <2>2 DEF RunStores, RpcInv, RpcTypeOK
<1>3. CASE UNCHANGED rpcVars
    BY <1>1, <1>3 DEF rpcVars, slots
<1>4. ASSUME NEW t \in Thread, Calls(t) \/ RunProceeds(t)
      PROVE  m_callback'[s] = m_callback[s] /\ m_break_parameters'[s] = m_break_parameters[s]
    <2>1. CASE Calls(t)
        BY <1>1, <2>1 DEF Calls, RunStarts, slots
    <2>2. CASE RunProceeds(t)
        BY <1>1, <1>2, <2>2 DEF RunProceeds, RunWaits, RunAsserts, RunPosts,
                                RunCompletes, slots
    <2> QED
        BY <1>4, <2>1, <2>2
<1>5. ASSUME NEW q \in Slot, ProcessStarts(q) \/ Serves(q)
      PROVE  m_callback'[s] = m_callback[s] /\ m_break_parameters'[s] = m_break_parameters[s]
    BY <1>1, <1>5 DEF ProcessStarts, Serves, ProcessTakes, TryTakes, Executes, Answers,
                      ProcessDecides, slots
<1> QED
    BY <1>3, <1>4, <1>5 DEF RpcNext

(* The slot does not change under the callee's reads of it.                *)
THEOREM StableSlot == OneCaller => (Spec => FilledSlotIsStable)
<1> SUFFICES ASSUME OneCaller PROVE Spec => FilledSlotIsStable
    OBVIOUS
<1>1. RpcInv /\ [RpcNext]_rpcVars =>
         [\A s \in Slot : m_pending[s] =>
            /\ m_callback'[s] = m_callback[s]
            /\ m_break_parameters'[s] = m_break_parameters[s]]_rpcVars
    BY SlotSteps
<1> QED
    BY <1>1, SlotInvariant, PTL DEF Spec, FilledSlotIsStable

(* A caller that waits goes on only when its call was executed.            *)
THEOREM Completion == OneCaller => (Spec => CompletionMeansExecuted)
<1> SUFFICES ASSUME OneCaller PROVE Spec => CompletionMeansExecuted
    OBVIOUS
<1>1. RpcInv /\ [RpcNext]_rpcVars =>
         [\A t \in Thread : calling[t].at = "complete" /\ calling'[t] = Idle
             => executed[calling[t].to] = calling[t].call]_rpcVars
    <2> SUFFICES ASSUME RpcInv, [RpcNext]_rpcVars, NEW t \in Thread,
                        calling[t].at = "complete", calling'[t] = Idle
                 PROVE  executed[calling[t].to] = calling[t].call
        OBVIOUS
    <2>1. calling[t] # Idle
        BY DEF Idle
    <2>2. calling' # calling
        BY <2>1
    <2>3. PICK u \in Thread : Calls(u) \/ RunProceeds(u)
        BY <2>2 DEF RpcNext, rpcVars, ProcessStarts, Serves, ProcessTakes, TryTakes,
                    Executes, Answers, ProcessDecides
    <2>4. u = t
        BY <2>1, <2>3 DEF RpcInv, RpcTypeOK, Calls, RunProceeds, RunStarts, RunWaits,
                          RunAsserts, RunStores, RunPosts, RunCompletes, GoOn
    <2>5. RunCompletes(t)
        BY <2>1, <2>3, <2>4 DEF Calls, RunProceeds, RunStarts, RunWaits, RunAsserts,
                                RunStores, RunPosts, GoOn
    <2> QED
        BY <2>1, <2>5 DEF RunCompletes, RpcInv, CallerOwnsSlot
<1> QED
    BY <1>1, SlotInvariant, PTL DEF Spec, CompletionMeansExecuted

(* process ends with the call whose break parameter says so.               *)
THEOREM LoopEnd == OneCaller => (Spec => LoopEndsByItsCall)
<1> SUFFICES ASSUME OneCaller PROVE Spec => LoopEndsByItsCall
    OBVIOUS
<1>1. RpcInv /\ [RpcNext]_rpcVars =>
         [\A s \in Slot : serving[s].at = "decide" /\ serving'[s] # serving[s]
             => (serving'[s] = Away <=> executed[s].break)]_rpcVars
    <2> SUFFICES ASSUME RpcInv, [RpcNext]_rpcVars, NEW s \in Slot,
                        serving[s].at = "decide", serving'[s] # serving[s]
                 PROVE  serving'[s] = Away <=> executed[s].break
        OBVIOUS
    <2>1. serving' # serving
        BY DEF RpcInv
    <2>2. PICK q \in Slot : ProcessStarts(q) \/ Serves(q)
        BY <2>1 DEF RpcNext, rpcVars, slots, Calls, RunProceeds, RunStarts, RunWaits,
                    RunAsserts, RunStores, RunPosts, RunCompletes
    <2>3. q = s
        BY <2>1, <2>2 DEF RpcInv, RpcTypeOK, ProcessStarts, Serves, ProcessTakes,
                          TryTakes, Executes, Answers, ProcessDecides, Serve
    <2>4. ProcessDecides(s)
        BY <2>2, <2>3 DEF ProcessStarts, Serves, ProcessTakes, TryTakes, Executes,
                          Answers, Serve, Away
    <2>5. serving[s].break = executed[s].break
        BY DEF RpcInv, CalleeKnowsCall
    <2>6. serving[s] \in Serving
        BY ServingCases DEF RpcInv
    <2>7. [serving[s] EXCEPT !.at = "process"] # Away
        BY <2>6 DEF Serving, Away
    <2>8. serving'[s] = IF serving[s].break THEN Away ELSE [serving[s] EXCEPT !.at = "process"]
        BY <2>4 DEF ProcessDecides, RpcInv, RpcTypeOK
    <2> QED
        BY <2>5, <2>7, <2>8
<1> QED
    BY <1>1, SlotInvariant, PTL DEF Spec, LoopEndsByItsCall

(* To the queue of a slot, every step is a Put of the call, a Take of it,  *)
(* or nothing.                                                             *)
LEMMA QueueStep ==
    ASSUME RpcInv, RpcInv', [RpcNext]_rpcVars, NEW s \in Slot
    PROVE  \/ \E t \in Thread : Posts(t, s) /\ Queue(s)!Put(calling[t].call)
           \/ Queue(s)!Take
           \/ UNCHANGED <<InSlot(s), executed[s]>>
<1> USE DEF RpcInv
<1>1. CASE UNCHANGED rpcVars
    BY <1>1 DEF rpcVars, slots, InSlot
<1>2. ASSUME NEW t \in Thread, Calls(t) \/ RunWaits(t) \/ RunAsserts(t) \/ RunCompletes(t)
      PROVE  UNCHANGED <<InSlot(s), executed[s]>>
    BY <1>2 DEF Calls, RunStarts, RunWaits, RunAsserts, RunCompletes, slots, InSlot
<1>3. ASSUME NEW t \in Thread, RunStores(t) PROVE UNCHANGED <<InSlot(s), executed[s]>>
    <2>1. ~m_pending[calling[t].to]
        BY <1>3 DEF RunStores, GoOn, Idle, CallerOwnsSlot
    <2> QED
        BY <1>3, <2>1 DEF RunStores, InSlot, RpcTypeOK
<1>4. ASSUME NEW t \in Thread, RunPosts(t)
      PROVE  \/ Posts(t, s) /\ Queue(s)!Put(calling[t].call)
             \/ UNCHANGED <<InSlot(s), executed[s]>>
    <2>1. /\ calling[t] # Idle /\ calling[t] \in Calling /\ calling[t].at = "post"
        BY <1>4, CallingCases DEF RunPosts, Idle
    <2>2. ~m_pending[calling[t].to] /\ m_callback[calling[t].to] = calling[t].call
        BY <2>1 DEF CallerOwnsSlot
    <2>3. calling[t].to \in Slot /\ calling[t].call \in Call
        BY <2>1 DEF Calling
    <2>4. CASE calling[t].to = s
        <3>1. InSlot(s) = << >> /\ serving[s].at # "answer"
            BY <2>2, <2>4 DEF InSlot, CalleeKnowsCall
        <3>2. InSlot(s)' = <<calling[t].call>> /\ executed'[s] = executed[s]
            BY <1>4, <2>2, <2>3, <2>4, <3>1 DEF RunPosts, InSlot, RpcTypeOK
        <3>3. InSlot(s)' = Append(InSlot(s), calling[t].call)
            BY <3>1, <3>2
        <3>4. calling'[t] # calling[t]
            BY <1>4, <2>1 DEF RunPosts, RpcTypeOK, Calling, Idle
        <3> QED
            BY <2>1, <2>4, <3>2, <3>3, <3>4 DEF Queue!Put, Posts
    <2>5. CASE calling[t].to # s
        BY <1>4, <2>5 DEF RunPosts, InSlot, RpcTypeOK
    <2> QED
        BY <2>4, <2>5
<1>5. ASSUME NEW q \in Slot, ProcessStarts(q) \/ ProcessTakes(q) \/ TryTakes(q)
                             \/ Answers(q) \/ ProcessDecides(q)
      PROVE  UNCHANGED <<InSlot(s), executed[s]>>
    <2>1. UNCHANGED <<m_callback, executed>>
        BY <1>5 DEF ProcessStarts, ProcessTakes, TryTakes, Answers, ProcessDecides, slots
    <2>2. CASE q = s
        <3>1. CASE Answers(s)
            BY <2>1, <3>1 DEF Answers, InSlot, RpcTypeOK
        <3>2. CASE ProcessStarts(s) \/ ProcessTakes(s) \/ TryTakes(s)
            <4>1. serving[s].at # "answer" /\ serving'[s].at # "answer"
                BY <3>2 DEF ProcessStarts, ProcessTakes, TryTakes, RpcTypeOK, Away
            <4> QED
                BY <2>1, <3>2, <4>1 DEF ProcessStarts, ProcessTakes, TryTakes, slots, InSlot
        <3>3. CASE ProcessDecides(s)
            <4>1. serving[s] \in Serving
                BY <3>3, ServingCases DEF ProcessDecides
            <4>2. serving[s].at # "answer" /\ serving'[s].at # "answer"
                BY <3>3, <4>1 DEF ProcessDecides, RpcTypeOK, Away, Serving
            <4> QED
                BY <2>1, <3>3, <4>2 DEF ProcessDecides, slots, InSlot
        <3> QED
            BY <1>5, <2>2, <3>1, <3>2, <3>3
    <2>3. CASE q # s
        BY <1>5, <2>1, <2>3 DEF ProcessStarts, ProcessTakes, TryTakes, Answers,
                                ProcessDecides, slots, InSlot, RpcTypeOK
    <2> QED
        BY <2>2, <2>3
<1>6. ASSUME NEW q \in Slot, Executes(q)
      PROVE  Queue(s)!Take \/ UNCHANGED <<InSlot(s), executed[s]>>
    <2>1. CASE q = s
        <3>1. serving[s].at = "execute" /\ m_pending[s] /\ serving'[s].at = "answer"
            BY <1>6, <2>1, ServingCases DEF Executes, Serve, CalleeKnowsCall, RpcTypeOK, Serving
        <3>2. InSlot(s) = <<m_callback[s]>> /\ InSlot(s)' = << >>
            BY <3>1 DEF InSlot
        <3>3. executed'[s] = m_callback[s]
            BY <1>6, <2>1 DEF Executes, RpcTypeOK
        <3> QED
            BY <3>2, <3>3 DEF Queue!Take
    <2>2. CASE q # s
        BY <1>6, <2>2 DEF Executes, Serve, InSlot, RpcTypeOK, slots
    <2> QED
        BY <2>1, <2>2
<1> QED
    BY <1>1, <1>2, <1>3, <1>4, <1>5, <1>6 DEF RpcNext, RunProceeds, Serves

(* A slot implements a FIFO: each call is executed once, in order.         *)
THEOREM SlotIsFifo == OneCaller => (Spec => EachCallIsExecutedOnce)
<1> SUFFICES ASSUME OneCaller PROVE Spec => EachCallIsExecutedOnce
    OBVIOUS
<1>1. RpcInit => \A s \in Slot : Queue(s)!Init
    BY DEF RpcInit, Queue!Init, InSlot
<1>2. RpcInv /\ RpcInv' /\ [RpcNext]_rpcVars =>
         [\A s \in Slot :
             \/ \E t \in Thread : Posts(t, s) /\ Queue(s)!Put(calling[t].call)
             \/ Queue(s)!Take
             \/ UNCHANGED <<InSlot(s), executed[s]>>]_rpcVars
    BY QueueStep
<1> QED
    BY <1>1, <1>2, SlotInvariant, PTL DEF Spec, EachCallIsExecutedOnce
=============================================================================
