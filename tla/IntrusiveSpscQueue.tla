------------------------- MODULE IntrusiveSpscQueue -------------------------
(***************************************************************************)
(* xray::intrusive_spsc_queue: the lock-free single-producer,              *)
(* single-consumer linked queue the engine's threads exchange orders       *)
(* through.  The links live in the elements themselves.  The queue always  *)
(* owns one extra node in front of its content, the null node; pop_front   *)
(* returns the second node, which becomes the null node, and hands back    *)
(* the former one as item_to_delete.                                       *)
(*                                                                         *)
(* The producer (the thread of set_push_thread_id) and the consumer (the   *)
(* thread of set_pop_thread_id) interleave at every access to memory they  *)
(* share.  A node that was deleted may be allocated and pushed again: its  *)
(* link then still holds what it held before.                              *)
(***************************************************************************)
EXTENDS Sequences, Naturals

CONSTANTS Node,     (* the elements, named by their addresses *)
          null      (* the null pointer                       *)

ASSUME NullAssumption == null \notin Node

VARIABLES
    next,            (* the MemberNext link of every node                     *)
    m_head,          (* the node pushed last, written by the producer         *)
    m_tail,          (* the null node, written by the consumer                *)
    live,            (* the nodes that are allocated                          *)
    pushing,         (* the value push_back has linked but not stored to      *)
                     (*   m_head yet, or null                                 *)
    item_to_delete,  (* the node pop_front handed back, until it is deleted   *)
    producing,       (* will the producer call push_back again?               *)
    returned,        (* what the last successful pop_front returned           *)
    chain            (* auxiliary: the nodes from m_tail on, in link order    *)

vars == <<next, m_head, m_tail, live, pushing, item_to_delete, producing,
          returned, chain>>

Pointer == Node \cup {null}

TypeOK ==
    /\ next \in [Node -> Pointer]
    /\ m_head \in Pointer
    /\ m_tail \in Pointer
    /\ live \subseteq Node
    /\ pushing \in Pointer
    /\ item_to_delete \in Pointer
    /\ producing \in BOOLEAN
    /\ returned \in Pointer
    /\ chain \in Seq(Node)

Init ==
    /\ next \in [Node -> {null}]
    /\ m_head = null
    /\ m_tail = null
    /\ live = {}
    /\ pushing = null
    /\ item_to_delete = null
    /\ producing = TRUE
    /\ returned = null
    /\ chain = << >>

-----------------------------------------------------------------------------
(* The producer *)

(* push_null_node: the queue is given its first null node.                 *)
PushNullNode(n) ==
    /\ m_head = null
    /\ m_tail = null
    /\ n \notin live
    /\ live' = live \cup {n}
    /\ next' = [next EXCEPT ![n] = null]
    /\ m_head' = n
    /\ m_tail' = n
    /\ producing' = TRUE
    /\ chain' = <<n>>
    /\ UNCHANGED <<pushing, item_to_delete, returned>>

(* Mutation: the link of the value is not cleared.                         *)
PushLink_KeepsStaleLink(v) ==
    /\ producing
    /\ m_head # null
    /\ pushing = null
    /\ v \notin live
    /\ live' = live \cup {v}
    /\ next' = [next EXCEPT ![m_head] = v]
    /\ pushing' = v
    /\ chain' = Append(chain, v)
    /\ UNCHANGED <<m_head, m_tail, item_to_delete, producing, returned>>

(* push_back up to the interlocked exchange that publishes the value. The  *)
(* value is cleared before it is reachable, so no other thread sees a step *)
(* between the two.                                                        *)
PushLink(v) ==
    /\ producing
    /\ m_head # null
    /\ pushing = null
    /\ v \notin live
    /\ live' = live \cup {v}
    /\ next' = [next EXCEPT ![v] = null, ![m_head] = v]
    /\ pushing' = v
    /\ chain' = Append(chain, v)
    /\ UNCHANGED <<m_head, m_tail, item_to_delete, producing, returned>>

(* Mutation: m_head is not moved to the value.                             *)
PushAdvance_Forgotten ==
    /\ pushing # null
    /\ pushing' = null
    /\ UNCHANGED <<next, m_head, m_tail, live, item_to_delete, producing,
                   returned, chain>>

(* the last line of push_back                                              *)
PushAdvance ==
    /\ pushing # null
    /\ m_head' = pushing
    /\ pushing' = null
    /\ UNCHANGED <<next, m_tail, live, item_to_delete, producing, returned, chain>>

(* Mutation: the producer is taken to have retired inside push_back.       *)
StopProducing_InsidePush ==
    /\ producing
    /\ m_head # null
    /\ producing' = FALSE
    /\ UNCHANGED <<next, m_head, m_tail, live, pushing, item_to_delete, returned,
                   chain>>

(* The thread that pushes has returned from its last push_back, which the  *)
(* users of the queue establish before they drain it for good.             *)
StopProducing ==
    /\ producing
    /\ m_head # null
    /\ pushing = null
    /\ producing' = FALSE
    /\ UNCHANGED <<next, m_head, m_tail, live, pushing, item_to_delete, returned,
                   chain>>

-----------------------------------------------------------------------------
(* The consumer *)

empty == next[m_tail] = null

(* Mutation: the node handed back for deletion is the new null node.       *)
PopFront_HandsBackValue ==
    /\ m_tail # null
    /\ item_to_delete = null
    /\ ~empty
    /\ item_to_delete' = next[m_tail]
    /\ m_tail' = next[m_tail]
    /\ returned' = next[m_tail]
    /\ chain' = Tail(chain)
    /\ UNCHANGED <<next, m_head, live, pushing, producing>>

(* Mutation: pop_front keeps the element pushed last as well.              *)
PopFront_LeavesLast ==
    /\ m_tail # null
    /\ item_to_delete = null
    /\ ~empty /\ next[next[m_tail]] # null
    /\ item_to_delete' = m_tail
    /\ m_tail' = next[m_tail]
    /\ returned' = next[m_tail]
    /\ chain' = Tail(chain)
    /\ UNCHANGED <<next, m_head, live, pushing, producing>>

(* pop_front when it returns a node. Only the consumer writes m_tail, and  *)
(* a link that is not null is not written while its node is in the queue:  *)
(* the read of the link is the only access that can race.                  *)
PopFront ==
    /\ m_tail # null
    /\ item_to_delete = null
    /\ ~empty
    /\ item_to_delete' = m_tail
    /\ m_tail' = next[m_tail]
    /\ returned' = next[m_tail]
    /\ chain' = Tail(chain)
    /\ UNCHANGED <<next, m_head, live, pushing, producing>>

(* The consumer frees the node it got back.                                *)
DeleteItem ==
    /\ item_to_delete # null
    /\ live' = live \ {item_to_delete}
    /\ item_to_delete' = null
    /\ UNCHANGED <<next, m_head, m_tail, pushing, producing, returned, chain>>

(* pop_null_node: after the last pop_front returned nothing.               *)
PopNullNode ==
    /\ ~producing
    /\ m_tail # null
    /\ item_to_delete = null
    /\ empty
    /\ item_to_delete' = m_head
    /\ m_head' = null
    /\ m_tail' = null
    /\ chain' = << >>
    /\ UNCHANGED <<next, live, pushing, producing, returned>>

-----------------------------------------------------------------------------
Next ==
    \/ \E n \in Node : PushNullNode(n) \/ PushLink(n)
    \/ PushAdvance
    \/ StopProducing
    \/ PopFront
    \/ DeleteItem
    \/ PopNullNode

Spec == Init /\ [][Next]_vars

(* The consumer's loop runs every frame, and a push_back that began ends.  *)
Fairness == WF_vars(PopFront) /\ WF_vars(DeleteItem) /\ WF_vars(PushAdvance)

FairSpec == Spec /\ Fairness

-----------------------------------------------------------------------------
Last == chain[Len(chain)]

(* The shape of the linked list between any two steps: the links from      *)
(* m_tail on visit every node of the queue once and end with null; m_head  *)
(* is the last of them except inside push_back, where it may already have  *)
(* been popped and deleted; the node handed back is no longer reachable.   *)
ListOK ==
    /\ m_head = null <=> chain = << >>
    /\ m_tail = null <=> chain = << >>
    /\ chain # << >> =>
          /\ m_tail = chain[1]
          /\ next[Last] = null
          /\ Last = IF pushing = null THEN m_head ELSE pushing
    /\ \A i \in 1 .. Len(chain) - 1 : next[chain[i]] = chain[i + 1]
    /\ \A i, j \in 1 .. Len(chain) : chain[i] = chain[j] => i = j
    /\ \A i \in 1 .. Len(chain) : chain[i] \in live /\ chain[i] # item_to_delete
    /\ item_to_delete # null => item_to_delete \in live
    /\ pushing # null => producing /\ m_head # null

(* The type invariant and the shape of the list: the inductive invariant   *)
(* of the queue.                                                           *)
Inv == TypeOK /\ ListOK

(* Every node the two threads dereference is allocated: the consumer reads *)
(* the links of the null node, and every node it can reach from there; the *)
(* producer writes the link of m_head whenever it is not inside push_back. *)
(* (The element pop_front returned is the null node, so this also says it  *)
(* may be used until the next pop_front.)                                  *)
NoUseAfterDelete ==
    m_tail # null =>
        /\ m_tail \in live
        /\ next[m_tail] # null => next[m_tail] \in live
        /\ pushing = null => m_head \in live

(* R_ASSERT_CMP( m_head, ==, m_tail ) of pop_null_node: when the producer  *)
(* has retired and the consumer sees no element, the queue is one node.    *)
NullNodeIsAlone ==
    ~producing /\ m_tail # null /\ empty => m_head = m_tail

(* The queue is a FIFO of its elements, with the exchange in push_back and *)
(* the store to m_tail in pop_front as the points where they take effect:  *)
(* nothing is lost, duplicated or reordered, whatever the interleaving.    *)
Queue == INSTANCE Fifo WITH
            Element <- Node,
            none <- null,
            returned <- returned,
            content <- IF chain = << >> THEN << >> ELSE Tail(chain)

ImplementsFifo == Queue!Spec

(* An element that was pushed is popped: the link that publishes it is     *)
(* never overwritten by a later push_back.                                 *)
EveryElementIsPopped ==
    \A n \in Node :
        (n \in live /\ n # m_tail /\ n # item_to_delete) ~> (n = m_tail)
=============================================================================
