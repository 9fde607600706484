------------------------------ MODULE MCAddFeed ------------------------------
(***************************************************************************)
(* AddFeed on small instances: one form and two saves on a clock long      *)
(* enough to tell them apart; two forms on one stack and one save.         *)
(***************************************************************************)
EXTENDS AddFeed

=============================================================================
