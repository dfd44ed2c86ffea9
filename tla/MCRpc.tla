-------------------------------- MODULE MCRpc --------------------------------
(***************************************************************************)
(* Rpc for TLC.  OneRenderThread: the render thread calls every slot, as   *)
(* when the engine starts and stops.  Rivals: the render thread and the    *)
(* editor thread both call the logic slot, as the destructor of the engine *)
(* and enable_game, load_level and unload_level do.                        *)
(***************************************************************************)
EXTENDS Rpc

CONSTANT Ids     (* what tells calls apart, besides their break parameter   *)

MCCall == [id : Ids, break : BOOLEAN]

OneRenderThread == [s \in Slot |-> {"render"}]
Rivals          == [s \in Slot |-> {"render", "editor"}]
=============================================================================
