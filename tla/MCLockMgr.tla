----------------------------- MODULE MCLockMgr -----------------------------
(***************************************************************************)
(* Instances of LockMgr for TLC.  Every node list names all the nodes, the *)
(* local one included, in the same order, as psu_dist_lock_mgr_test.c does *)
(* with its command line.                                                  *)
(***************************************************************************)
EXTENDS LockMgrInvariant, LockMgrRefinement

TwoNodes   == {"a", "b"}
ThreeNodes == {"a", "b", "c"}

\* One client on each node, and a second one on node a.
OneEach2     == {"a1", "b1"}
OneEach3     == {"a1", "b1", "c1"}
TwoOnFirst2  == {"a1", "a2", "b1"}
HomeOf(T)    == [t \in T |-> CASE t \in {"a1", "a2"} -> "a"
                               [] t = "b1" -> "b"
                               [] t = "c1" -> "c"]
HomeThread   == HomeOf(Thread)

MacOf == [n \in Node |-> CASE n = "a" -> 1 [] n = "b" -> 2 [] n = "c" -> 3]

NodeList == [n \in Node |-> IF Node = TwoNodes THEN <<"a", "b">>
                                               ELSE <<"a", "b", "c">>]

\* How often each client asks.
Once  == [t \in Thread |-> 1]
Twice == [t \in Thread |-> 2]
TwicePerNode == [t \in Thread |-> IF t = "b1" THEN 2 ELSE 1]
FirstTwice == [t \in Thread |-> IF t = "a1" THEN 2 ELSE 1]

\* How often each node is initialised.
OneInit == [n \in Node |-> 1]
TwoInitsOnFirst == [n \in Node |-> IF n = "a" THEN 2 ELSE 1]

NoFaults  == {}
AllFaults == {"timeout", "early"}
============================================================================
