----------------------------- MODULE MCPipeline -----------------------------
(* Pipeline for TLC.  The bounds come from the cfg files. *)
EXTENDS Pipeline

=============================================================================
