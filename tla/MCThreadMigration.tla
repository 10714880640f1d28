------------------------- MODULE MCThreadMigration -------------------------
(***************************************************************************)
(* Instances of ThreadMigration for TLC: the node of the program and two   *)
(* others.                                                                 *)
(***************************************************************************)
EXTENDS ThreadRefinement

CONSTANTS n1, n2, n3
============================================================================
