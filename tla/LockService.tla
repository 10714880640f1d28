---------------------------- MODULE LockService ----------------------------
(***************************************************************************)
(* What psu_dist_lock_mgr.h promises of one lock number: psu_acquire_lock  *)
(* returns when the caller has the lock, nobody else then has it, and      *)
(* psu_release_lock gives it up.                                           *)
(***************************************************************************)
CONSTANT Client

VARIABLE state    \* state[t]: what client t is doing

LSInit == state = [t \in Client |-> "idle"]

\* t calls psu_acquire_lock.
Acquire(t) ==
  /\ state[t] = "idle"
  /\ state' = [state EXCEPT ![t] = "waiting"]

\* psu_acquire_lock returns to t, which now holds the lock.
Grant(t) ==
  /\ state[t] = "waiting"
  /\ \A u \in Client : state[u] # "holding"
  /\ state' = [state EXCEPT ![t] = "holding"]

\* t calls psu_release_lock; from then on others may be granted the lock.
Release(t) ==
  /\ state[t] = "holding"
  /\ state' = [state EXCEPT ![t] = "releasing"]

\* psu_release_lock returns.
Done(t) ==
  /\ state[t] = "releasing"
  /\ state' = [state EXCEPT ![t] = "idle"]

LSNext == \E t \in Client : Acquire(t) \/ Grant(t) \/ Release(t) \/ Done(t)

LSSpec == LSInit /\ [][LSNext]_state
============================================================================
