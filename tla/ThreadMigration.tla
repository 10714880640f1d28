-------------------------- MODULE ThreadMigration --------------------------
(***************************************************************************)
(* The thread migrator: psu_thread.c in a program, psu_thread_server.c in  *)
(* the server of every node.  The program starts one thread, which asks to *)
(* be moved up to MaxMigrate times and then ends.                          *)
(*                                                                         *)
(* The original thread and every process that a server forks to continue   *)
(* it is a copy.  A copy runs user code, moves away by one call of MIGRATE *)
(* and exits when the call is over, so the call is kept in its record.     *)
(*                                                                         *)
(* What setcontext does depends on the address at which the server stored  *)
(* the stack.  The code is built without optimisation: psu_thread_migrate  *)
(* finds its variables and its return address through the frame pointer of *)
(* the old stack.  At the same address they are there.  At another one the *)
(* copy reads what happens to be there, or dies.  pthread_getattr_np of a  *)
(* copy in a forked process returns the stack of the thread that served    *)
(* the call, not the one the copy runs on, so what it sends never works.   *)
(*                                                                         *)
(* A definition whose name has a suffix is a wrong version of the one      *)
(* after it.                                                               *)
(***************************************************************************)
EXTENDS Integers, Sequences, FiniteSets

CONSTANTS
  Node,        \* the nodes, each with a server
  home,        \* the node of the program
  MaxMigrate,  \* bound on the calls of psu_thread_migrate in the start routine
  MaxCopy,     \* bound on the number of copies
  Address,     \* where a stack may land: a subset of {"same", "other"}
  Faults,      \* a subset of {"crash", "timeout", "fork", "decode"}
  None         \* no node, no value

ASSUME ThreadAssumption ==
  /\ home \in Node
  /\ MaxMigrate \in Nat /\ MaxCopy \in Nat
  /\ Address \subseteq {"same", "other"}
  /\ Faults \subseteq {"crash", "timeout", "fork", "decode"}
  /\ None \notin Node \cup Nat

VARIABLES
  main,    \* the main function of the program
  copy,    \* the copies, in the order in which they came to be
  server,  \* server[n]: the server of node n is up
  excuse   \* history: the events that may cost the thread its life

vars == <<main, copy, server, excuse>>

Copy ==
  [on     : Node,           \* where it runs
   pc     : {"user", "migrate", "call", "setcontext", "gone", "done", "killed"},
   left   : Int,            \* calls of psu_thread_migrate still to make
   native : BOOLEAN,        \* it is the thread that psu_thread_create made
   moved  : BOOLEAN,        \* has_migrated, as stored on its stack
   sound  : BOOLEAN,        \* the stack it got is the one it ran on
   ret    : {None, 1},      \* what psu_thread_migrate last returned
   to     : Node \cup {None},                        \* the callee of MIGRATE
   call   : {"none", "sent", "served", "answered"}]  \* its progress

Init ==
  /\ main = "start"
  /\ copy = <<>>
  /\ server = [n \in Node |-> TRUE]
  /\ excuse = {}

Excuse(event) == excuse' = excuse \cup {event}

----------------------------------------------------------------------------
(* The program (psu_thread.c).                                              *)

psu_thread_create ==
  /\ main = "start"
  /\ main' = "join"
  /\ \E k \in 0 .. MaxMigrate :
       copy' = <<[on |-> home, pc |-> "user", left |-> k,
                  native |-> TRUE, moved |-> FALSE, sound |-> TRUE,
                  ret |-> None, to |-> None, call |-> "none"]>>
  /\ UNCHANGED <<server, excuse>>

Ended(i) == copy[i].pc \in {"gone", "done", "killed"}

\* pthread_join, after which main returns and takes what is left of the
\* process with it.
thread_join_Skipped ==
  /\ main = "join"
  /\ main' = "returned"
  /\ copy' = IF Ended(1) THEN copy ELSE [copy EXCEPT ![1].pc = "killed"]
  /\ UNCHANGED <<server, excuse>>
thread_join ==
  /\ main = "join" /\ Ended(1)
  /\ main' = "returned"
  /\ UNCHANGED <<copy, server, excuse>>

\* What the server gets of copy i: has_migrated is set before the stack is
\* copied.
Context_CopiedEarly(i) ==
  [left |-> copy[i].left, moved |-> FALSE, sound |-> copy[i].native]
Context(i) ==
  [left |-> copy[i].left, moved |-> TRUE, sound |-> copy[i].native]

\* From the call to the point where migrate_1 waits.  A copy that migrates
\* again by mistake reads the node from wherever its frame pointer leads.
\* create_client ends the process when nobody answers at n.
psu_thread_migrate(i, n) ==
  /\ Len(copy) < MaxCopy
  /\ \/ copy[i].pc = "user" /\ copy[i].left > 0
     \/ copy[i].pc = "migrate"
  /\ IF server[n]
     THEN /\ copy' = [copy EXCEPT ![i].pc = "call", ![i].to = n,
                                  ![i].call = "sent",
                                  ![i].left = IF copy[i].pc = "user"
                                              THEN @ - 1 ELSE @]
          /\ UNCHANGED <<main, excuse>>
     ELSE /\ copy' = [copy EXCEPT ![i].pc = "killed"]
          /\ main' = IF i = 1 THEN "killed" ELSE main
          /\ Excuse("refused")
  /\ UNCHANGED server

\* migrate_1 is over, in whatever way, and pthread_exit follows.
CallOver_Forever(i) ==
  copy[i].pc = "call" /\ copy[i].call = "answered" /\ UNCHANGED excuse
CallOver(i) ==
  /\ copy[i].pc = "call"
  /\ \/ copy[i].call = "answered" /\ UNCHANGED excuse
     \/ ~server[copy[i].to] /\ Excuse("down")
     \/ "timeout" \in Faults /\ Excuse("timeout")
migrate_return_Reports(i) ==
  /\ CallOver(i)
  /\ copy' = IF copy[i].call = "answered"
             THEN [copy EXCEPT ![i].pc = "gone"]
             ELSE [copy EXCEPT ![i].pc = "user", ![i].ret = -1]
  /\ UNCHANGED <<main, server>>
migrate_return(i) ==
  /\ CallOver(i)
  /\ copy' = [copy EXCEPT ![i].pc = "gone"]
  /\ UNCHANGED <<main, server>>

\* The start routine returns.
thread_end(i) ==
  /\ copy[i].pc = "user" /\ copy[i].left <= 0
  /\ copy' = [copy EXCEPT ![i].pc = "done"]
  /\ UNCHANGED <<main, server, excuse>>

----------------------------------------------------------------------------
(* The servers (psu_thread_server.c, psu_thread_msg_svc.c).                 *)

\* The server of the callee works on the call of copy i, whether or not its
\* caller still waits.
Serving(i, stage) == copy[i].call = stage /\ server[copy[i].to]

Served(i) == [copy EXCEPT ![i].call = "served"]

\* fork succeeds and the child is about to call setcontext.
migrate_1_svc_NoChild(i) ==
  /\ Serving(i, "sent")
  /\ copy' = Served(i)
  /\ UNCHANGED <<main, server, excuse>>
migrate_1_svc(i) ==
  /\ Serving(i, "sent")
  /\ copy' = Append(Served(i),
       [on |-> copy[i].to, pc |-> "setcontext", left |-> Context(i).left,
        native |-> FALSE, moved |-> Context(i).moved,
        sound |-> Context(i).sound, ret |-> None, to |-> None,
        call |-> "none"])
  /\ UNCHANGED <<main, server, excuse>>

\* fork fails, which is not looked at.
migrate_no_fork(i) ==
  /\ "fork" \in Faults
  /\ Serving(i, "sent")
  /\ copy' = Served(i)
  /\ Excuse("fork")
  /\ UNCHANGED <<main, server>>

\* The arguments cannot be decoded: the server answers with an error and
\* exits.
parse_thread_data(i) ==
  /\ "decode" \in Faults
  /\ Serving(i, "sent")
  /\ copy' = [copy EXCEPT ![i].call = "answered"]
  /\ server' = [server EXCEPT ![copy[i].to] = FALSE]
  /\ Excuse("decode")
  /\ UNCHANGED main

\* The handler returns true and run sends the reply.
sendreply(i) ==
  /\ Serving(i, "served")
  /\ copy' = [copy EXCEPT ![i].call = "answered"]
  /\ UNCHANGED <<main, server, excuse>>

\* The copy comes out of getcontext in psu_thread_migrate.
Resume(i, moved) ==
  copy' = IF moved THEN [copy EXCEPT ![i].pc = "user", ![i].ret = 1]
                   ELSE [copy EXCEPT ![i].pc = "migrate"]

setcontext(i) ==
  /\ copy[i].pc = "setcontext"
  /\ "same" \in Address /\ copy[i].sound
  /\ Resume(i, copy[i].moved)
  /\ UNCHANGED <<main, server, excuse>>

setcontext_elsewhere(i) ==
  /\ copy[i].pc = "setcontext"
  /\ "other" \in Address \/ ~copy[i].sound
  /\ \/ copy' = [copy EXCEPT ![i].pc = "killed"]
     \/ \E moved \in BOOLEAN : Resume(i, moved)
  /\ Excuse("stack")
  /\ UNCHANGED <<main, server>>

Crash(n) ==
  /\ "crash" \in Faults
  /\ server[n]
  /\ server' = [server EXCEPT ![n] = FALSE]
  /\ UNCHANGED <<main, copy, excuse>>

----------------------------------------------------------------------------
CopyStep(i) ==
  \/ \E n \in Node : psu_thread_migrate(i, n)
  \/ migrate_return(i)
  \/ thread_end(i)
  \/ migrate_1_svc(i)
  \/ sendreply(i)
  \/ setcontext(i)
  \/ setcontext_elsewhere(i)

Next ==
  \/ psu_thread_create
  \/ thread_join
  \/ \E i \in DOMAIN copy : CopyStep(i)
  \/ \E i \in DOMAIN copy : migrate_no_fork(i)
  \/ \E i \in DOMAIN copy : parse_thread_data(i)
  \/ \E n \in Node : Crash(n)

Spec == Init /\ [][Next]_vars

\* Threads, servers and forked processes run on.
FairSpec ==
  /\ Spec
  /\ WF_vars(psu_thread_create)
  /\ WF_vars(thread_join)
  /\ \A i \in 1 .. MaxCopy :
       WF_vars(i \in DOMAIN copy /\ CopyStep(i))

----------------------------------------------------------------------------
TypeOK ==
  /\ main \in {"start", "join", "returned", "killed"}
  /\ copy \in Seq(Copy)
  /\ server \in [Node -> BOOLEAN]
  /\ excuse \subseteq {"refused", "down", "timeout", "fork", "decode", "stack"}

\* A copy that executes the thread, or a call of MIGRATE whose fork is still
\* to come.
Running(i) == copy[i].pc \in {"setcontext", "user", "migrate"}
Holds(i) == Running(i) \/ copy[i].call = "sent"

\* The thread never runs twice: whatever calls fail, time out or are served
\* late, only one copy runs or can still be brought to life.
OneCopy ==
  \A i, j \in DOMAIN copy : Holds(i) /\ Holds(j) => i = j

\* has_migrated works: a copy starts a migration that user code did not ask
\* for only when it got a wrong stack.
MovesOnRequest ==
  \A i \in DOMAIN copy : copy[i].pc = "migrate" => "stack" \in excuse

\* Without a fault and with the stack at its old address, the thread is
\* never lost: it runs, is on its way or has ended by itself.
ThreadKept ==
  excuse = {} /\ main # "start" =>
    \E i \in DOMAIN copy : Holds(i) \/ copy[i].pc = "done"

\* psu_thread_create does not hang, whatever fails on the way: the program
\* returns or exits.
CreateReturns == <>(main \in {"returned", "killed"})

\* The thread comes to its own end, on whichever node, unless one of the named
\* events has happened to it: no migration stops half-way.
ThreadEnds == <>(excuse # {} \/ \E i \in DOMAIN copy : copy[i].pc = "done")

----------------------------------------------------------------------------
\* The inductive invariant behind OneCopy, MovesOnRequest and ThreadKept:
\* only the last copy can hold the thread.
TInv ==
  /\ copy \in Seq(Copy)
  /\ main = "start" <=> copy = <<>>
  /\ \A i \in DOMAIN copy :
       /\ Running(i) \/ copy[i].pc = "done" => copy[i].call = "none"
       /\ copy[i].pc = "call" => copy[i].call # "none"
       /\ copy[i].call = "sent" => copy[i].to \in Node
       /\ copy[i].pc = "setcontext" => copy[i].moved
       /\ copy[i].pc = "migrate" => "stack" \in excuse
       /\ i < Len(copy) => ~Holds(i)
       /\ i = Len(copy) /\ excuse = {} => Holds(i) \/ copy[i].pc = "done"
============================================================================
