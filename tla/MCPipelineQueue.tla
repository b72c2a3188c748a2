--------------------------- MODULE MCPipelineQueue ---------------------------
(* A line that its author writes in two halves. *)
EXTENDS TailedPipeline

MCWrites == <<2>>
=============================================================================
