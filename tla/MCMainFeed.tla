----------------------------- MODULE MCMainFeed -----------------------------
(***************************************************************************)
(* MainFeed on small instances: two feeds seen through one reusable cell,  *)
(* which rows share by scrolling; one feed for liveness.                   *)
(***************************************************************************)
EXTENDS MainFeed

=============================================================================
