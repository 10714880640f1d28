-------------------------- MODULE ThreadRefinement --------------------------
(***************************************************************************)
(* ThreadMigration seen as a ThreadService.  The last copy is the thread;  *)
(* with a call of MIGRATE whose fork is still to come, it is on its way.   *)
(***************************************************************************)
EXTENDS ThreadMigration

Last == copy[Len(copy)]

LifeOf(c) ==
  CASE c.call = "sent" \/ c.pc = "setcontext" -> "moves"
    [] c.call # "sent" /\ c.pc = "user" -> "runs"
    [] c.call # "sent" /\ c.pc = "migrate" -> "astray"
    [] c.call # "sent" /\ c.pc = "done" -> "ended"
    [] c.call # "sent" /\ c.pc \in {"call", "gone", "killed"} -> "lost"

AtOf(c) == IF c.call = "none" THEN c.on ELSE c.to

life == IF copy = <<>> THEN "none" ELSE LifeOf(Last)
at == IF copy = <<>> THEN home ELSE AtOf(Last)
fault == excuse # {}

TS == INSTANCE ThreadService

\* psu_thread_create, psu_thread_migrate and migrate_1_svc move one thread
\* about, with every fault: it comes out where it was sent, is lost only after
\* a fault, and never comes back after it has ended or been lost, however late
\* a call is served.
ImplementsThreadService == TS!TSSpec
============================================================================
