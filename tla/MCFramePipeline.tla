-------------------------- MODULE MCFramePipeline --------------------------
(***************************************************************************)
(* FramePipeline for TLC.  The bounds of the .cfg files: MaxSets orders in *)
(* front of a draw, MaxLag frames the render thread may be ahead of the    *)
(* logic thread, MaxToggles switches of the editor mode.                   *)
(***************************************************************************)
EXTENDS FramePipeline

=============================================================================
