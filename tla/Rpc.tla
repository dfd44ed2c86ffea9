--------------------------------- MODULE Rpc ---------------------------------
(***************************************************************************)
(* xray::rpc: how a thread of the engine makes another one call a          *)
(* function.  Every callable thread has one slot; a caller waits until the *)
(* slot is free, fills it, raises m_pending and may wait again until the   *)
(* callee has lowered it.  Nothing but m_pending is synchronized.          *)
(*                                                                         *)
(* A call is a record whose field break is what the caller passes as       *)
(* break_parameters; the slot stores it apart from the callback.           *)
(***************************************************************************)
EXTENDS Naturals, Sequences

CONSTANTS Slot,      (* threads_enum: the threads that serve calls          *)
          Thread,    (* the threads that make calls                         *)
          Caller,    (* [Slot -> SUBSET Thread]: who calls which slot       *)
          Call,      (* the calls that are made                             *)
          none       (* boost::function with no target                      *)

ASSUME RpcAssumption ==
    /\ Caller \in [Slot -> SUBSET Thread]
    /\ \A c \in Call : c.break \in BOOLEAN
    /\ none \notin Call

VARIABLES
    m_callback, m_break_parameters, m_pending,   (* the slots                *)
    calling,   (* [Thread -> the call of run that is under way]              *)
    serving,   (* [Slot -> where process or try_process_single_call is]      *)
    executed   (* [Slot -> the callback executed last]: auxiliary            *)

slots == <<m_callback, m_break_parameters, m_pending>>
rpcVars == <<slots, calling, serving, executed>>

Idle == [at |-> "idle"]
Calling == [at : {"wait", "assert", "store", "post", "complete", "failed"},
            to : Slot, call : Call, wait : BOOLEAN]
Away == [at |-> "away"]
Serving == [at : {"process", "execute", "answer", "decide"},
            loop : BOOLEAN, break : BOOLEAN]

RpcTypeOK ==
    /\ m_callback \in [Slot -> Call \cup {none}]
    /\ m_break_parameters \in [Slot -> BOOLEAN]
    /\ m_pending \in [Slot -> BOOLEAN]
    /\ calling \in [Thread -> {Idle} \cup Calling]
    /\ serving \in [Slot -> {Away} \cup Serving]
    /\ executed \in [Slot -> Call \cup {none}]

RpcInit ==
    /\ m_callback = [s \in Slot |-> none]
    /\ m_break_parameters = [s \in Slot |-> TRUE]
    /\ m_pending = [s \in Slot |-> FALSE]
    /\ calling = [t \in Thread |-> Idle]
    /\ serving = [s \in Slot |-> Away]
    /\ executed = [s \in Slot |-> none]

-----------------------------------------------------------------------------
(* The caller: run, in a thread that does not own the slot *)

RunStarts(t, s, call, wait) ==
    /\ calling[t] = Idle
    /\ calling' = [calling EXCEPT ![t] =
                     [at |-> "wait", to |-> s, call |-> call, wait |-> wait]]
    /\ UNCHANGED <<slots, serving, executed>>

GoOn(t, from, to) ==
    /\ calling[t].at = from
    /\ calling' = [calling EXCEPT ![t] = [@ EXCEPT !.at = to]]

(* Mutation: run does not wait for the slot.                               *)
RunWaits_NoWait(t) ==
    GoOn(t, "wait", "assert") /\ UNCHANGED <<slots, serving, executed>>

(* rpc::wait before the slot is filled                                     *)
RunWaits(t) ==
    /\ GoOn(t, "wait", "assert")
    /\ ~m_pending[calling[t].to]
    /\ UNCHANGED <<slots, serving, executed>>

(* R_ASSERT( !thread.m_pending )                                           *)
RunAsserts(t) ==
    /\ \/ GoOn(t, "assert", "store") /\ ~m_pending[calling[t].to]
       \/ GoOn(t, "assert", "failed") /\ m_pending[calling[t].to]
    /\ UNCHANGED <<slots, serving, executed>>

RunStores(t) ==
    /\ GoOn(t, "store", "post")
    /\ m_callback' = [m_callback EXCEPT ![calling[t].to] = calling[t].call]
    /\ m_break_parameters' =
          [m_break_parameters EXCEPT ![calling[t].to] = calling[t].call.break]
    /\ UNCHANGED <<m_pending, serving, executed>>

RunPosts(t) ==
    /\ calling[t].at = "post"
    /\ m_pending' = [m_pending EXCEPT ![calling[t].to] = TRUE]
    /\ calling' = [calling EXCEPT ![t] =
                     IF calling[t].wait THEN [@ EXCEPT !.at = "complete"] ELSE Idle]
    /\ UNCHANGED <<m_callback, m_break_parameters, serving, executed>>

(* Mutation: wait_for_completion does not wait.                            *)
RunCompletes_AtOnce(t) ==
    /\ calling[t].at = "complete"
    /\ calling' = [calling EXCEPT ![t] = Idle]
    /\ UNCHANGED <<slots, serving, executed>>

(* rpc::wait after the slot was filled                                     *)
RunCompletes(t) ==
    /\ calling[t].at = "complete"
    /\ ~m_pending[calling[t].to]
    /\ calling' = [calling EXCEPT ![t] = Idle]
    /\ UNCHANGED <<slots, serving, executed>>

-----------------------------------------------------------------------------
(* The thread that owns slot s *)

Serve(s, from, to) ==
    /\ serving[s].at = from
    /\ serving' = [serving EXCEPT ![s] = [@ EXCEPT !.at = to]]

(* process is entered                                                      *)
ProcessStarts(s) ==
    /\ serving[s] = Away
    /\ serving' = [serving EXCEPT ![s] =
                     [at |-> "process", loop |-> TRUE, break |-> FALSE]]
    /\ UNCHANGED <<slots, calling, executed>>

(* process finds a call and remembers its break parameter                  *)
ProcessTakes(s) ==
    /\ serving[s].at = "process"
    /\ m_pending[s]
    /\ serving' = [serving EXCEPT ![s] =
                     [at |-> "execute", loop |-> TRUE, break |-> m_break_parameters[s]]]
    /\ UNCHANGED <<slots, calling, executed>>

(* try_process_single_call finds a call                                    *)
TryTakes(s) ==
    /\ serving[s] = Away
    /\ m_pending[s]
    /\ serving' = [serving EXCEPT ![s] =
                     [at |-> "execute", loop |-> FALSE, break |-> FALSE]]
    /\ UNCHANGED <<slots, calling, executed>>

(* Mutation: the slot is freed before the callback is called.              *)
Executes_Early(s) ==
    /\ Serve(s, "execute", "answer")
    /\ executed' = [executed EXCEPT ![s] = m_callback[s]]
    /\ m_pending' = [m_pending EXCEPT ![s] = FALSE]
    /\ UNCHANGED <<m_callback, m_break_parameters, calling>>

(* Mutation: the callee clears the slot when it has called the callback.   *)
Executes_ClearsCallback(s) ==
    /\ Serve(s, "execute", "answer")
    /\ executed' = [executed EXCEPT ![s] = m_callback[s]]
    /\ m_callback' = [m_callback EXCEPT ![s] = none]
    /\ UNCHANGED <<m_break_parameters, m_pending, calling>>

(* thread.m_callback( )                                                    *)
Executes(s) ==
    /\ Serve(s, "execute", "answer")
    /\ executed' = [executed EXCEPT ![s] = m_callback[s]]
    /\ UNCHANGED <<slots, calling>>

(* Mutation: m_pending is not lowered.                                     *)
Answers_KeepsPending(s) ==
    /\ serving[s].at = "answer"
    /\ serving' = [serving EXCEPT ![s] =
                     IF serving[s].loop THEN [@ EXCEPT !.at = "decide"] ELSE Away]
    /\ UNCHANGED <<slots, calling, executed>>

(* m_pending = 0                                                           *)
Answers(s) ==
    /\ serving[s].at = "answer"
    /\ serving' = [serving EXCEPT ![s] =
                     IF serving[s].loop THEN [@ EXCEPT !.at = "decide"] ELSE Away]
    /\ m_pending' = [m_pending EXCEPT ![s] = FALSE]
    /\ UNCHANGED <<m_callback, m_break_parameters, calling, executed>>

(* Mutation: process looks at the slot, not at what it remembers.          *)
ProcessDecides_Rereads(s) ==
    /\ serving[s].at = "decide"
    /\ serving' = [serving EXCEPT ![s] =
                     IF m_break_parameters[s] THEN Away ELSE [@ EXCEPT !.at = "process"]]
    /\ UNCHANGED <<slots, calling, executed>>

(* process is left after the call of break_process_loop                    *)
ProcessDecides(s) ==
    /\ serving[s].at = "decide"
    /\ serving' = [serving EXCEPT ![s] =
                     IF serving[s].break THEN Away ELSE [@ EXCEPT !.at = "process"]]
    /\ UNCHANGED <<slots, calling, executed>>

-----------------------------------------------------------------------------
Calls(t) == /\ calling[t] = Idle
            /\ \E s \in Slot, call \in Call, wait \in BOOLEAN :
                  t \in Caller[s] /\ RunStarts(t, s, call, wait)

RunProceeds(t) == \/ RunWaits(t) \/ RunAsserts(t) \/ RunStores(t)
                  \/ RunPosts(t) \/ RunCompletes(t)

Serves(s) == \/ ProcessTakes(s) \/ TryTakes(s) \/ Executes(s)
             \/ Answers(s) \/ ProcessDecides(s)

RpcNext == \/ \E t \in Thread : Calls(t) \/ RunProceeds(t)
           \/ \E s \in Slot : ProcessStarts(s) \/ Serves(s)

Spec == RpcInit /\ [][RpcNext]_rpcVars

(* Callers are scheduled and callees keep serving.                         *)
FairSpec == /\ Spec
            /\ \A t \in Thread : WF_rpcVars(RunProceeds(t))
            /\ \A s \in Slot : WF_rpcVars(Serves(s))

-----------------------------------------------------------------------------
(* Properties *)

(* A slot has one caller: with two of them, the wait of one may end just   *)
(* before the other fills the slot.                                        *)
OneCaller == \A s \in Slot : \A t, u \in Caller[s] : t = u

(* Why it works: while a caller is between its wait and m_pending = 1 the   *)
(* slot is its own, and from then on the slot and what the callee remembers *)
(* of it agree until m_pending = 0.                                         *)
CallerOwnsSlot ==
    \A t \in Thread : calling[t] # Idle =>
        LET c == calling[t] IN
        /\ t \in Caller[c.to]
        /\ c.at # "failed"
        /\ c.at \in {"assert", "store", "post"} => ~m_pending[c.to]
        /\ c.at = "post" => /\ m_callback[c.to] = c.call
                            /\ m_break_parameters[c.to] = c.call.break
        /\ c.at = "complete" => IF m_pending[c.to] THEN m_callback[c.to] = c.call
                                                   ELSE executed[c.to] = c.call

CalleeKnowsCall ==
    \A s \in Slot :
        /\ m_pending[s] => /\ m_callback[s] \in Call
                           /\ m_break_parameters[s] = m_callback[s].break
        /\ serving[s].at = "execute" =>
              m_pending[s] /\ (serving[s].loop => serving[s].break = m_callback[s].break)
        /\ serving[s].at = "answer" =>
              /\ m_pending[s]
              /\ executed[s] = m_callback[s]
              /\ serving[s].loop => serving[s].break = m_callback[s].break
        /\ serving[s].at = "decide" => serving[s].break = executed[s].break

RpcInv == RpcTypeOK /\ CallerOwnsSlot /\ CalleeKnowsCall

(* R_ASSERT( !thread.m_pending ) of run holds.                             *)
SlotAssertionHolds == \A t \in Thread : calling[t].at # "failed"

(* The callee reads the callback and its break parameter, and executes the *)
(* callback, without a lock: nobody writes the slot meanwhile.             *)
FilledSlotIsStable ==
    [][ \A s \in Slot : m_pending[s] =>
           /\ m_callback'[s] = m_callback[s]
           /\ m_break_parameters'[s] = m_break_parameters[s] ]_rpcVars

(* Each call is executed once, in the order of the calls: a slot is a FIFO *)
(* that holds what was posted and not executed, and nothing enters it but  *)
(* the call of a caller that posts.                                        *)
InSlot(s) == IF m_pending[s] /\ serving[s].at # "answer" THEN <<m_callback[s]>>
                                                         ELSE << >>
Queue(s) == INSTANCE Fifo WITH Element <- Call, content <- InSlot(s),
                               returned <- executed[s]
Posts(t, s) == calling[t].at = "post" /\ calling[t].to = s /\ calling'[t] # calling[t]

EachCallIsExecutedOnce ==
    /\ \A s \in Slot : Queue(s)!Init
    /\ [][ \A s \in Slot :
             \/ \E t \in Thread : Posts(t, s) /\ Queue(s)!Put(calling[t].call)
             \/ Queue(s)!Take
             \/ UNCHANGED <<InSlot(s), executed[s]>> ]_rpcVars

(* A caller that waits for completion goes on when its own call was the    *)
(* last one executed.                                                      *)
CompletionMeansExecuted ==
    [][ \A t \in Thread : calling[t].at = "complete" /\ calling'[t] = Idle
           => executed[calling[t].to] = calling[t].call ]_rpcVars

(* The loop of process ends with the call that asked for it, not with one  *)
(* that was posted before or after.                                        *)
LoopEndsByItsCall ==
    [][ \A s \in Slot : serving[s].at = "decide" /\ serving'[s] # serving[s]
           => (serving'[s] = Away <=> executed[s].break) ]_rpcVars

(* Every call is executed, and a caller is never stuck behind a slot.      *)
CallersProceed == \A t \in Thread : calling[t] # Idle ~> calling[t] = Idle
=============================================================================
