---------------------------- MODULE MCPointScreens ----------------------------
(***************************************************************************)
(* PointScreens with two visits, the first maybe answered during the        *)
(* second, two places ashore and one at sea, two locations told to a visit, *)
(* and one map.                                                            *)
(***************************************************************************)
EXTENDS PointScreens

=============================================================================
