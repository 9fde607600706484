----------------------------- MODULE MCRowImages -----------------------------
(***************************************************************************)
(* RowImages with two cells, two photos and three downloads: a cell can    *)
(* be bound to a photo, anew, and back while the first data is on its way, *)
(* and to a photo that the other cell has put into the cache.              *)
(***************************************************************************)
EXTENDS RowImages

=============================================================================
