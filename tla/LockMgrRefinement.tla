------------------------- MODULE LockMgrRefinement -------------------------
(***************************************************************************)
(* LockMgr seen as a LockService.  With two servers whose calls do not     *)
(* fail and whose stores are not reordered it implements the service: one  *)
(* handler at a time writes a highestseqno and no update is lost.  In any  *)
(* other system, each step that leaves nobody excused is one of the        *)
(* service.                                                                *)
(***************************************************************************)
EXTENDS LockMgr

\* The abstract state of the client thread t.
AbstractState(t) ==
  CASE pc[t] = "idle" -> "idle"
    [] Acquiring(t) -> "waiting"
    [] pc[t] = "cs" -> "holding"
    [] pc[t] \in {"wake", "free"} -> "releasing"

abstract == [t \in Thread |-> AbstractState(t)]

LS == INSTANCE LockService WITH Client <- Thread, state <- abstract

\* acquire_lock_1_svc and release_lock_1_svc implement the lock service that
\* psu_dist_lock_mgr.h describes: psu_acquire_lock returns to one thread at a
\* time, through any interleaving of the request handlers.
ImplementsLockService == LS!LSSpec

\* With any number of servers and any faults, psu_acquire_lock and
\* psu_release_lock take the steps of the lock service, and no others, as long
\* as no two nodes are excused from excluding each other.
ServiceStepUnlessExcused ==
  [][(\A n, m \in Node : ~Excused(n, m)') => LS!LSNext]_abstract
============================================================================
