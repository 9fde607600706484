----------------------------- MODULE MCFeedSync -----------------------------
(***************************************************************************)
(* FeedSync for two phones and one feed, which both may take, delete,      *)
(* lose from memory and hear of in every order.                            *)
(***************************************************************************)
EXTENDS FeedSync

=============================================================================
