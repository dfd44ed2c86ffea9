----------------------- MODULE MCIntrusiveSpscQueue -----------------------
(* A queue over a few node addresses: with four of them the null node, two *)
(* queued elements and a deleted node waiting to be recycled coexist.      *)
EXTENDS IntrusiveSpscQueue, TLC

CONSTANTS n1, n2, n3, n4

MCNode == {n1, n2, n3, n4}

(* Addresses are interchangeable in the safety properties.                 *)
Addresses == Permutations(MCNode)
=============================================================================
