---------------------- MODULE IntrusiveSpscQueueProofs ----------------------
(* Machine-checked proofs about intrusive_spsc_queue, for any set of nodes.*)
EXTENDS IntrusiveSpscQueue, SequenceTheorems, TLAPS

USE NullAssumption

LEMMA InitInv == Init => Inv
  BY DEF Init, Inv, TypeOK, ListOK, Pointer, Last

LEMMA PushNullNodeInv ==
  ASSUME Inv, NEW n \in Node, PushNullNode(n)
  PROVE  Inv'
<1> USE DEF Inv, TypeOK, Pointer
<1>1. TypeOK'
  BY DEF PushNullNode
<1>2. Len(chain') = 1 /\ chain'[1] = n /\ chain' # << >>
  BY DEF PushNullNode
<1>3. chain = << >> /\ pushing = null /\ n # null /\ n # item_to_delete
  BY DEF PushNullNode, ListOK
<1>4. ListOK'
  BY <1>1, <1>2, <1>3 DEF PushNullNode, ListOK, Last
<1> QED
  BY <1>1, <1>4

LEMMA PushLinkInv ==
  ASSUME Inv, NEW v \in Node, PushLink(v)
  PROVE  Inv'
<1> USE DEF Inv, TypeOK, Pointer
<1> DEFINE l == Len(chain)
<1>1. TypeOK'
  BY DEF PushLink
<1>2. /\ chain # << >> /\ l \in Nat /\ l >= 1
      /\ chain' = Append(chain, v) /\ Len(chain') = l + 1
      /\ m_head = chain[l] /\ next[m_head] = null
  BY DEF PushLink, ListOK, Last
<1>3. /\ chain'[l + 1] = v
      /\ \A i \in 1 .. l : chain'[i] = chain[i]
  BY <1>2
<1>4. \A i \in 1 .. l : chain[i] # v
  BY DEF PushLink, ListOK
<1>5. v # null /\ v # m_head /\ next'[v] = null /\ next'[m_head] = v
      /\ \A n \in Node : n # v /\ n # m_head => next'[n] = next[n]
  BY <1>2, <1>4 DEF PushLink
<1>6. ListOK'
  <2>1. (m_head = null <=> chain = << >>)' /\ (m_tail = null <=> chain = << >>)'
    BY <1>2, <1>3 DEF PushLink, ListOK
  <2>2. (chain # << >> =>
          /\ m_tail = chain[1]
          /\ next[Last] = null
          /\ Last = IF pushing = null THEN m_head ELSE pushing)'
    BY <1>2, <1>3, <1>5 DEF PushLink, ListOK, Last
  <2>3. (\A i \in 1 .. Len(chain) - 1 : next[chain[i]] = chain[i + 1])'
    <3> SUFFICES ASSUME NEW i \in 1 .. l
                 PROVE  next'[chain'[i]] = chain'[i + 1]
      BY <1>2
    <3>1. CASE i = l
      BY <3>1, <1>2, <1>3, <1>5
    <3>2. CASE i # l
      <4>1. i \in 1 .. l - 1 /\ i + 1 \in 1 .. l
        BY <3>2, <1>2
      <4>2. chain[i] # m_head /\ chain[i] # v /\ chain[i] \in Node
        BY <4>1, <1>2, <1>4, <3>2 DEF ListOK
      <4> QED
        BY <4>1, <4>2, <1>3, <1>5 DEF ListOK
    <3> QED
      BY <3>1, <3>2
  <2>4. (\A i, j \in 1 .. Len(chain) : chain[i] = chain[j] => i = j)'
    BY <1>2, <1>3, <1>4 DEF ListOK
  <2>5. (\A i \in 1 .. Len(chain) : chain[i] \in live /\ chain[i] # item_to_delete)'
    BY <1>2, <1>3 DEF PushLink, ListOK
  <2>6. (item_to_delete # null => item_to_delete \in live)'
    BY DEF PushLink, ListOK
  <2>7. (pushing # null => producing /\ m_head # null)'
    BY DEF PushLink
  <2> QED
    BY <2>1, <2>2, <2>3, <2>4, <2>5, <2>6, <2>7 DEF ListOK
<1> QED
  BY <1>1, <1>6

LEMMA PushAdvanceInv ==
  ASSUME Inv, PushAdvance
  PROVE  Inv'
  BY DEF PushAdvance, Inv, TypeOK, ListOK, Pointer, Last

LEMMA StopProducingInv ==
  ASSUME Inv, StopProducing
  PROVE  Inv'
  BY DEF StopProducing, Inv, TypeOK, ListOK, Pointer, Last

(* What the consumer's two tests mean on the list.                         *)
LEMMA EmptyMeansAlone ==
  ASSUME Inv, m_tail # null
  PROVE  /\ Len(chain) \in Nat
         /\ Len(chain) >= 1
         /\ empty => Len(chain) = 1
         /\ ~empty => Len(chain) >= 2 /\ next[m_tail] = chain[2]
<1>1. chain \in Seq(Node) /\ chain # << >>
  BY DEF Inv, TypeOK, ListOK
<1>2. Len(chain) \in Nat /\ Len(chain) >= 1
  BY <1>1
<1>3. m_tail = chain[1]
  BY <1>1 DEF Inv, ListOK
<1>4. CASE Len(chain) = 1
  BY <1>1, <1>2, <1>3, <1>4 DEF Inv, ListOK, empty, Last
<1>5. CASE Len(chain) # 1
  <2>1. Len(chain) >= 2
    BY <1>2, <1>5
  <2>2. 1 \in 1 .. Len(chain) - 1 /\ 2 \in 1 .. Len(chain)
    BY <1>2, <2>1
  <2>3. next[chain[1]] = chain[1 + 1]
    BY <2>2 DEF Inv, ListOK
  <2>4. chain[2] \in Node
    BY <1>1, <2>2, ElementOfSeq
  <2> QED
    BY <1>2, <1>3, <2>1, <2>3, <2>4, NullAssumption DEF empty
<1> QED
  BY <1>4, <1>5

LEMMA PopFrontInv ==
  ASSUME Inv, PopFront
  PROVE  Inv'
<1> USE DEF Inv, TypeOK, Pointer
<1> DEFINE l == Len(chain)
<1>1. l \in Nat /\ l >= 2 /\ next[m_tail] = chain[2] /\ m_tail = chain[1]
  BY EmptyMeansAlone DEF PopFront, ListOK
<1>2. /\ chain' # << >>
      /\ Len(chain') = l - 1
      /\ \A i \in 1 .. l - 1 : chain'[i] = chain[i + 1]
  <2>1. chain \in Seq(Node) /\ chain # << >> /\ chain' = Tail(chain)
    BY <1>1 DEF PopFront
  <2>2. /\ Len(chain') = Len(chain) - 1
        /\ \A i \in 1 .. Len(chain') : chain'[i] = chain[i + 1]
    BY <2>1, HeadTailProperties
  <2>3. chain' # << >>
    BY <1>1, <2>2
  <2> QED
    BY <2>2, <2>3
<1>3. TypeOK'
  BY <1>1 DEF PopFront
<1>4. ListOK'
  <2>1. m_head' # null /\ m_tail' = chain[2] /\ m_tail' # null
    BY <1>1 DEF PopFront, ListOK
  <2>2. (/\ m_tail = chain[1]
         /\ next[Last] = null
         /\ Last = IF pushing = null THEN m_head ELSE pushing)'
    <3>1. Last' = Last
      BY <1>1, <1>2 DEF Last
    <3>2. m_tail' = chain'[1]
      BY <1>1, <1>2, <2>1
    <3> QED
      BY <1>1, <3>1, <3>2 DEF PopFront, ListOK
  <2>3. (\A i \in 1 .. Len(chain) - 1 : next[chain[i]] = chain[i + 1])'
    BY <1>1, <1>2 DEF PopFront, ListOK
  <2>4. (\A i, j \in 1 .. Len(chain) : chain[i] = chain[j] => i = j)'
    <3> SUFFICES ASSUME NEW i \in 1 .. l - 1, NEW j \in 1 .. l - 1,
                        chain'[i] = chain'[j]
                 PROVE  i = j
      BY <1>2
    <3>1. i + 1 \in 1 .. l /\ j + 1 \in 1 .. l /\ chain[i + 1] = chain[j + 1]
      BY <1>1, <1>2
    <3> QED
      BY <3>1 DEF ListOK
  <2>5. (\A i \in 1 .. Len(chain) : chain[i] \in live /\ chain[i] # item_to_delete)'
    <3> SUFFICES ASSUME NEW i \in 1 .. l - 1
                 PROVE  chain[i + 1] \in live /\ chain[i + 1] # m_tail
      BY <1>2 DEF PopFront
    <3>1. i + 1 \in 1 .. l /\ 1 \in 1 .. l /\ i + 1 # 1
      BY <1>1
    <3> QED
      BY <1>1, <3>1 DEF ListOK
  <2>6. (item_to_delete # null => item_to_delete \in live)'
    BY <1>1 DEF PopFront, ListOK
  <2>7. (pushing # null => producing /\ m_head # null)'
    BY DEF PopFront, ListOK
  <2> QED
    BY <1>2, <2>1, <2>2, <2>3, <2>4, <2>5, <2>6, <2>7 DEF ListOK
<1> QED
  BY <1>3, <1>4

LEMMA DeleteItemInv ==
  ASSUME Inv, DeleteItem
  PROVE  Inv'
  BY DEF DeleteItem, Inv, TypeOK, ListOK, Pointer, Last

LEMMA PopNullNodeInv ==
  ASSUME Inv, PopNullNode
  PROVE  Inv'
<1> USE DEF Inv, TypeOK, Pointer
<1>1. TypeOK'
  BY DEF PopNullNode
<1>2. pushing = null /\ m_head # null
  BY DEF PopNullNode, ListOK
<1>3. m_head \in live
  <2>1. Len(chain) \in Nat /\ Len(chain) >= 1 /\ m_head = chain[Len(chain)]
    BY <1>2 DEF PopNullNode, ListOK, Last
  <2> QED
    BY <2>1 DEF ListOK
<1>4. ListOK'
  BY <1>2, <1>3 DEF PopNullNode, ListOK, Last
<1> QED
  BY <1>1, <1>4

(* The list stays well formed in every reachable state: no push_back or    *)
(* pop_front ever cuts it, closes it into a cycle or reaches a freed node. *)
THEOREM ListIsWellFormed == Spec => []Inv
<1>1. Init => Inv
  BY InitInv
<1>2. Inv /\ [Next]_vars => Inv'
  <2> SUFFICES ASSUME Inv, [Next]_vars
               PROVE  Inv'
    OBVIOUS
  <2>1. ASSUME NEW n \in Node, PushNullNode(n) PROVE Inv'
    BY <2>1, PushNullNodeInv
  <2>2. ASSUME NEW n \in Node, PushLink(n) PROVE Inv'
    BY <2>2, PushLinkInv
  <2>3. CASE PushAdvance
    BY <2>3, PushAdvanceInv
  <2>4. CASE StopProducing
    BY <2>4, StopProducingInv
  <2>5. CASE PopFront
    BY <2>5, PopFrontInv
  <2>6. CASE DeleteItem
    BY <2>6, DeleteItemInv
  <2>7. CASE PopNullNode
    BY <2>7, PopNullNodeInv
  <2>8. CASE UNCHANGED vars
    BY <2>8 DEF vars, Inv, TypeOK, ListOK, Last
  <2> QED
    BY <2>1, <2>2, <2>3, <2>4, <2>5, <2>6, <2>7, <2>8 DEF Next
<1> QED
  BY <1>1, <1>2, PTL DEF Spec

(* No thread dereferences a node that was deleted, for any number of nodes *)
(* and any recycling of their addresses.                                   *)
THEOREM NoDanglingAccess == Spec => []NoUseAfterDelete
<1>1. Inv => NoUseAfterDelete
  <2> SUFFICES ASSUME Inv, m_tail # null
               PROVE  /\ m_tail \in live
                      /\ next[m_tail] # null => next[m_tail] \in live
                      /\ pushing = null => m_head \in live
    BY DEF NoUseAfterDelete
  <2>1. Len(chain) \in Nat /\ Len(chain) >= 1 /\ m_tail = chain[1] /\ chain # << >>
    BY EmptyMeansAlone DEF Inv, ListOK
  <2>2. m_tail \in live
    BY <2>1 DEF Inv, ListOK
  <2>3. next[m_tail] # null => next[m_tail] \in live
    <3> SUFFICES ASSUME ~empty
                 PROVE  next[m_tail] \in live
      BY DEF empty
    <3>1. 2 \in 1 .. Len(chain) /\ next[m_tail] = chain[2]
      BY EmptyMeansAlone
    <3> QED
      BY <3>1 DEF Inv, ListOK
  <2>4. pushing = null => m_head \in live
    BY <2>1 DEF Inv, ListOK, Last
  <2> QED
    BY <2>2, <2>3, <2>4
<1> QED
  BY <1>1, ListIsWellFormed, PTL

(* The run-time assertion of pop_null_node never fires.                    *)
THEOREM PopNullNodeAssertionHolds == Spec => []NullNodeIsAlone
<1>1. Inv => NullNodeIsAlone
  <2> SUFFICES ASSUME Inv, ~producing, m_tail # null, empty
               PROVE  m_head = m_tail
    BY DEF NullNodeIsAlone
  <2>1. Len(chain) = 1 /\ chain # << >>
    BY EmptyMeansAlone DEF Inv, ListOK
  <2> QED
    BY <2>1 DEF Inv, ListOK, Last
<1> QED
  BY <1>1, ListIsWellFormed, PTL

(* The linked list implements the abstract FIFO: the element pop_front     *)
(* returns is the oldest one that was pushed and not popped.               *)
THEOREM Refinement == Spec => ImplementsFifo
<1> DEFINE content == IF chain = << >> THEN << >> ELSE Tail(chain)
<1>1. Init => Queue!Init
  BY DEF Init, Queue!Init
<1>2. Inv /\ [Next]_vars => [Queue!Next]_<<content, returned>>
  <2> SUFFICES ASSUME Inv, [Next]_vars
               PROVE  Queue!Next \/ (content' = content /\ returned' = returned)
    BY DEF Queue!Next
  <2> USE DEF Inv, TypeOK, ListOK
  <2>1. ASSUME NEW n \in Node, PushNullNode(n)
        PROVE  content' = content /\ returned' = returned
    BY <2>1 DEF PushNullNode
  <2>2. ASSUME NEW n \in Node, PushLink(n) PROVE Queue!Put(n)
    <3>1. chain # << >> /\ chain' = Append(chain, n) /\ chain' # << >>
      BY <2>2 DEF PushLink
    <3>2. Tail(Append(chain, n)) = Append(Tail(chain), n)
      BY <3>1
    <3> QED
      BY <2>2, <3>1, <3>2 DEF PushLink, Queue!Put
  <2>3. ASSUME PopFront PROVE Queue!Take
    <3>1. Len(chain) >= 2 /\ chain' = Tail(chain) /\ chain # << >>
      BY <2>3, EmptyMeansAlone DEF PopFront
    <3>2. returned' = chain[2]
      BY <2>3, EmptyMeansAlone DEF PopFront
    <3>3. /\ Tail(chain) \in Seq(Node)
          /\ Len(Tail(chain)) = Len(chain) - 1
          /\ \A i \in 1 .. Len(Tail(chain)) : Tail(chain)[i] = chain[i + 1]
      BY <3>1, HeadTailProperties
    <3>4. Tail(chain) # << >> /\ chain' # << >>
      <4>1. Len(Tail(chain)) # 0
        BY <3>1, <3>3
      <4> QED
        BY <4>1, <3>1, EmptySeq
    <3>5. Head(Tail(chain)) = chain[2]
      BY <3>1, <3>3, <3>4
    <3> QED
      BY <3>1, <3>2, <3>4, <3>5 DEF Queue!Take
  <2>4. ASSUME PopNullNode PROVE content' = content /\ returned' = returned
    <3>1. Len(chain) = 1 /\ chain # << >> /\ chain' = << >>
      BY <2>4, EmptyMeansAlone DEF PopNullNode
    <3>2. Tail(chain) \in Seq(Node) /\ Len(Tail(chain)) = 0
      BY <3>1, HeadTailProperties
    <3>3. Tail(chain) = << >>
      BY <3>2, EmptySeq
    <3> QED
      BY <2>4, <3>1, <3>3 DEF PopNullNode
  <2>5. CASE PushAdvance \/ StopProducing \/ DeleteItem \/ UNCHANGED vars
    BY <2>5 DEF PushAdvance, StopProducing, DeleteItem, vars
  <2> QED
    BY <2>1, <2>2, <2>3, <2>4, <2>5 DEF Next, Queue!Next
<1> QED
  BY <1>1, <1>2, ListIsWellFormed, PTL DEF Spec, ImplementsFifo, Queue!Spec
=============================================================================
