---------------------------- MODULE MCNodeTable -----------------------------
(***************************************************************************)
(* Instances of NodeTable for TLC.                                         *)
(***************************************************************************)
EXTENDS NodeTable

CONSTANTS c1, c2, n1, n2, n3, n4

\* This machine is the third of the list.
Nodes == {n1, n2, n3, n4}
FourNodes == <<n1, n2, n3, n4>>
Here == {n3}
=============================================================================
