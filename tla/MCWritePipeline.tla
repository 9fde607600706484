--------------------------- MODULE MCWritePipeline ---------------------------
(***************************************************************************)
(* WritePipeline on small instances.                                       *)
(***************************************************************************)
EXTENDS WritePipeline
=============================================================================
