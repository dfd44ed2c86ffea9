----------------------------- MODULE MCDeletion -----------------------------
(***************************************************************************)
(* Deletion for TLC: a user that stays, and a loader that drops what it    *)
(* points to and leaves.  The material is looked up in the file tree and   *)
(* belongs to the user; its texture belongs to the cooker, and the buffer  *)
(* of the texture to the resources thread.                                 *)
(***************************************************************************)
EXTENDS Deletion

MCUser     == {"user", "loader"}
MCResource == {"material", "texture", "buffer"}
MCOwner    == [material |-> "user", texture |-> "cooker", buffer |-> "resources"]
MCInner    == [material |-> "texture", texture |-> "buffer", buffer |-> "none"]
MCPointers == [material |-> {"loader"}, texture |-> {}, buffer |-> {}]
MCWanted   == [user |-> "material", loader |-> "none"]
=============================================================================
