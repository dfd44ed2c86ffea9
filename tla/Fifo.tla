-------------------------------- MODULE Fifo --------------------------------
(***************************************************************************)
(* What every intrusive queue of the engine promises its users: elements   *)
(* leave in the order they entered, each exactly once, none invented.      *)
(***************************************************************************)
EXTENDS Sequences

CONSTANT Element,
         none          (* no element was taken yet *)

VARIABLES content,     (* the queued elements, oldest first      *)
          returned     (* the element the last Take handed out   *)

Init == content = << >> /\ returned = none

Put(e) == content' = Append(content, e) /\ UNCHANGED returned

Take ==
    /\ content # << >>
    /\ returned' = Head(content)
    /\ content' = Tail(content)

Next == Take \/ \E e \in Element : Put(e)

Spec == Init /\ [][Next]_<<content, returned>>
=============================================================================
