--------------------------- MODULE MCToolPipeline ---------------------------
(* Small instances of ToolPipeline. *)
EXTENDS ToolPipeline

CONSTANTS c1, c2, l1, l2
=============================================================================
