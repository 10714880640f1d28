--------------------------- MODULE ThreadService ---------------------------
(***************************************************************************)
(* What psu_thread.h promises: psu_thread_create starts a thread on the    *)
(* current machine, psu_thread_migrate resumes it on the machine it names, *)
(* and wherever it is, it is one thread, which ends once.  Only after a    *)
(* fault may it be lost, for good, or go on without being asked.           *)
(***************************************************************************)
CONSTANTS Node, home

VARIABLES
  life,   \* what the thread is doing
  at,     \* the machine where it is or which it is bound for
  fault   \* something has gone wrong

tsVars == <<life, at, fault>>

TSInit == life = "none" /\ at = home /\ fault = FALSE

Create ==
  /\ life = "none" /\ life' = "runs"
  /\ UNCHANGED at

\* Asked for by the thread itself, unless it has gone astray.
Migrate(n) ==
  /\ life \in {"runs", "astray"} /\ life' = "moves"
  /\ at' = n

\* psu_thread_migrate returns on the machine it was given.
Arrive ==
  /\ life = "moves"
  /\ life' = "runs" \/ (life' = "astray" /\ fault')
  /\ UNCHANGED at

End ==
  /\ life = "runs" /\ life' = "ended"
  /\ UNCHANGED at

Lose ==
  /\ life \in {"runs", "moves", "astray"} /\ life' = "lost"
  /\ fault'
  /\ UNCHANGED at

TSNext ==
  /\ fault' \in BOOLEAN /\ (fault => fault')
  /\ \/ Create
     \/ \E n \in Node : Migrate(n)
     \/ Arrive
     \/ End
     \/ Lose
     \/ UNCHANGED <<life, at>>

TSSpec == TSInit /\ [][TSNext]_tsVars
============================================================================
