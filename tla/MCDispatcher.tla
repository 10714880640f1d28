---------------------------- MODULE MCDispatcher ----------------------------
(***************************************************************************)
(* Instances of Dispatcher for TLC: more connections than transports.      *)
(***************************************************************************)
EXTENDS Dispatcher

CONSTANTS k1, k2, k3, s1, s2
=============================================================================
