--------------------------- MODULE MCGetDocuments ---------------------------
(***************************************************************************)
(* GetDocuments with three calls: one to answer, one to join it or to come *)
(* between its answer and its removal, one to come after both.             *)
(***************************************************************************)
EXTENDS GetDocuments

=============================================================================
