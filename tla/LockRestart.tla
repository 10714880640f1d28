---------------------------- MODULE LockRestart -----------------------------
(***************************************************************************)
(* The lock manager when calls fail: servers die and are started again,    *)
(* and every call is given up after the hour that create_client allows.    *)
(* A server dies when it is stopped, when create_client cannot reach a     *)
(* peer and exits, or when the assertion of release_lock fails.  It        *)
(* forgets everything; the clients of its machine remember that they have  *)
(* initialised it.  A call that is given up goes on in its server.  Nobody *)
(* looks at the status of a call.                                          *)
(*                                                                         *)
(* Every call of a client has a thread in its server.  Handlers are single *)
(* steps here, for one lock number, except where they wait: the races      *)
(* inside them are the subject of LockMgr, and what becomes of a reply     *)
(* whose caller has gone is that of Dispatcher.  All servers run at the    *)
(* beginning.  Sequence numbers are ints: at the largest one the next is   *)
(* the smallest.                                                           *)
(*                                                                         *)
(* A definition whose name has a suffix is a wrong version of the one      *)
(* after it.                                                               *)
(***************************************************************************)
EXTENDS Integers, Sequences

CONSTANTS
  Node,        \* the machines, numbers that stand for their mac addresses
  Client,      \* client processes
  server,      \* server[c]: the machine of client c
  others,      \* others[n]: the list of machines given to n, less n itself
  MaxInt,      \* the largest int (2^31 - 1)
  MaxCalls,    \* MaxCalls[c]: bound on the calls that c makes to its server
  MaxCrashes,  \* bound on the servers that are stopped
  MaxStarts,   \* bound on the servers that are started again
  MaxTimeouts  \* bound on the calls that are given up

ASSUME LockRestartAssumption ==
  /\ Node \subseteq Nat
  /\ server \in [Client -> Node]
  /\ others \in [Node -> Seq(Node)]
  /\ \A n, m \in Node : m # n <=> \E i \in DOMAIN others[n] : others[n][i] = m
  /\ MaxCalls \in [Client -> Nat]
  /\ MaxInt \in Nat
  /\ MaxCrashes \in Nat /\ MaxStarts \in Nat /\ MaxTimeouts \in Nat

VARIABLES
  up,             \* up[n]: the server of n runs
  nodes,          \* nodes[n]: its table of peers
  listed,         \* listed[n]: the lock is in its lockvar_list
  lock,           \* lock[n]: the mutex of the LockVar is locked
  requesting_cs, myseqno, highestseqno,
  pc,             \* pc[c]: what the client does
  calls,          \* calls[c]: the calls it has made
  thread,         \* thread[j]: what the server's thread for call j does
  next,           \* next[j]: its position in nodes
  requests,       \* requests sent to peers and not yet handled there
  died,           \* machines whose server has died
  abandoned,      \* machines on which a client has given up a call
  skipped,        \* skipped[n]: peers given up in the last acquisition on n
  crashes, starts, timeouts

lockvar == <<listed, lock, requesting_cs, myseqno, highestseqno>>
history == <<died, abandoned, skipped>>
bounds == <<crashes, starts, timeouts>>
vars == <<up, nodes, lockvar, pc, calls, thread, next, requests, history, bounds>>

\* The calls of the clients: a client and a number.
Call == UNION {{c} \X (1 .. MaxCalls[c]) : c \in Client}
At(j) == server[j[1]]

Init ==
  /\ up = [n \in Node |-> TRUE]
  /\ nodes = [n \in Node |-> <<>>]
  /\ listed = [n \in Node |-> FALSE]
  /\ lock = [n \in Node |-> FALSE]
  /\ requesting_cs = [n \in Node |-> FALSE]
  /\ myseqno = [n \in Node |-> 0]
  /\ highestseqno = [n \in Node |-> 0]
  /\ pc = [c \in Client |-> "start"]
  /\ calls = [c \in Client |-> 0]
  /\ thread = [j \in Call |-> "none"]
  /\ next = [j \in Call |-> 1]
  /\ requests = {}
  /\ died = {}
  /\ abandoned = {}
  /\ skipped = [n \in Node |-> {}]
  /\ crashes = 0 /\ starts = 0 /\ timeouts = 0

----------------------------------------------------------------------------
(* The end of a call.                                                       *)

\* The client goes on when its call is over, however it has ended.
Returned(c) ==
  CASE pc[c] = "init" -> "idle"
    [] pc[c] = "acquire" -> "held"
    [] pc[c] = "release" -> "idle"
    [] OTHER -> pc[c]

\* The thread of call j replies, which reaches a client that still waits.
Reply(j) ==
  pc' = [pc EXCEPT ![j[1]] = IF calls[j[1]] = j[2] THEN Returned(j[1]) ELSE @]

\* The thread of j waits for a reply of n.
WaitsFor(j, n) ==
  thread[j] \in {"sent", "wait"} /\ nodes[At(j)][next[j]] = n

\* The hour is over for a client.  Its server goes on with the call.
CallTimesOut(c) ==
  /\ pc[c] \in {"init", "acquire", "release"} /\ timeouts < MaxTimeouts
  /\ pc' = [pc EXCEPT ![c] = Returned(c)]
  /\ abandoned' = abandoned \cup {server[c]}
  /\ timeouts' = timeouts + 1
  /\ UNCHANGED <<up, nodes, lockvar, calls, thread, next, requests, died,
                 skipped, crashes, starts>>

\* The hour is over for a request.  The peer may still handle it.
RequestTimesOut(j) ==
  LET n == At(j) IN
  /\ thread[j] \in {"sent", "wait"} /\ timeouts < MaxTimeouts
  /\ thread' = [thread EXCEPT ![j] = "ask"]
  /\ next' = [next EXCEPT ![j] = @ + 1]
  /\ skipped' = [skipped EXCEPT ![n] = @ \cup {nodes[n][next[j]]}]
  /\ timeouts' = timeouts + 1
  /\ UNCHANGED <<up, nodes, lockvar, pc, calls, requests, died, abandoned,
                 crashes, starts>>

----------------------------------------------------------------------------
(* The end of a server.                                                     *)

\* The threads of the server end with it, and a thread of another server that
\* waits for its reply goes on to the next peer.
ThreadAfter_Kept(j, n) == IF WaitsFor(j, n) THEN "ask" ELSE thread[j]
ThreadAfter(j, n) ==
  IF At(j) = n THEN "none" ELSE IF WaitsFor(j, n) THEN "ask" ELSE thread[j]

Dies(n) ==
  /\ up' = [up EXCEPT ![n] = FALSE]
  /\ nodes' = [nodes EXCEPT ![n] = <<>>]
  /\ listed' = [listed EXCEPT ![n] = FALSE]
  /\ lock' = [lock EXCEPT ![n] = FALSE]
  /\ requesting_cs' = [requesting_cs EXCEPT ![n] = FALSE]
  /\ myseqno' = [myseqno EXCEPT ![n] = 0]
  /\ highestseqno' = [highestseqno EXCEPT ![n] = 0]
  /\ died' = died \cup {n}
  /\ pc' = [c \in Client |-> IF server[c] = n THEN Returned(c) ELSE pc[c]]
  /\ thread' = [j \in Call |-> ThreadAfter(j, n)]
  /\ next' = [j \in Call |-> IF At(j) = n THEN 1
                             ELSE IF WaitsFor(j, n) THEN next[j] + 1 ELSE next[j]]
  /\ requests' = {r \in requests : r.to # n}
  /\ UNCHANGED <<calls, abandoned, skipped, starts, timeouts>>

Crash(n) ==
  /\ up[n] /\ crashes < MaxCrashes
  /\ Dies(n)
  /\ crashes' = crashes + 1

Start(n) ==
  /\ ~up[n] /\ starts < MaxStarts
  /\ up' = [up EXCEPT ![n] = TRUE]
  /\ starts' = starts + 1
  /\ UNCHANGED <<nodes, lockvar, pc, calls, thread, next, requests, history,
                 crashes, timeouts>>

----------------------------------------------------------------------------
(* The clients.  create_client ends a client whose server is down.          *)

create_client_exits(c) ==
  /\ pc[c] \in {"start", "idle", "held"} /\ ~up[server[c]]
  /\ pc' = [pc EXCEPT ![c] = "exited"]
  /\ UNCHANGED <<up, nodes, lockvar, calls, thread, next, requests, history, bounds>>

\* The client calls its server, which gives the call a thread.
Begin(c, procedure) ==
  /\ up[server[c]] /\ calls[c] < MaxCalls[c]
  /\ pc' = [pc EXCEPT ![c] = procedure]
  /\ calls' = [calls EXCEPT ![c] = @ + 1]
  /\ thread' = [thread EXCEPT ![<<c, calls[c] + 1>>] = procedure]
  /\ UNCHANGED <<up, nodes, lockvar, next, requests, history, bounds>>

psu_init_lock_mgr(c) == pc[c] = "start" /\ Begin(c, "init")
psu_acquire_lock(c) == pc[c] = "idle" /\ Begin(c, "acquire")
psu_release_lock(c) == pc[c] = "held" /\ Begin(c, "release")

----------------------------------------------------------------------------
(* init_lock_mgr and acquire_lock for call j.                               *)

\* All nodes but the local one are appended.
init_lock_mgr(j) ==
  /\ thread[j] = "init"
  /\ nodes' = [nodes EXCEPT ![At(j)] = @ \o others[At(j)]]
  /\ thread' = [thread EXCEPT ![j] = "none"]
  /\ Reply(j)
  /\ UNCHANGED <<up, lockvar, calls, next, requests, history, bounds>>

find_lockvar_NotAppended(j) ==
  /\ thread[j] = "acquire"
  /\ thread' = [thread EXCEPT ![j] = "mutex"]
  /\ UNCHANGED <<up, nodes, lockvar, pc, calls, next, requests, history, bounds>>
find_lockvar(j) ==
  /\ thread[j] = "acquire"
  /\ listed' = [listed EXCEPT ![At(j)] = TRUE]
  /\ thread' = [thread EXCEPT ![j] = "mutex"]
  /\ UNCHANGED <<up, nodes, lock, requesting_cs, myseqno, highestseqno, pc, calls,
                 next, requests, history, bounds>>

NextSeqno(n) ==
  IF highestseqno[n] = MaxInt THEN -MaxInt - 1 ELSE highestseqno[n] + 1

TakeMutex(j) ==
  LET n == At(j) IN
  /\ thread[j] = "mutex" /\ ~lock[n]
  /\ lock' = [lock EXCEPT ![n] = TRUE]
  /\ requesting_cs' = [requesting_cs EXCEPT ![n] = TRUE]
  /\ myseqno' = [myseqno EXCEPT ![n] = NextSeqno(n)]
  /\ thread' = [thread EXCEPT ![j] = "ask"]
  /\ next' = [next EXCEPT ![j] = 1]
  /\ skipped' = [skipped EXCEPT ![n] = {}]
  /\ UNCHANGED <<up, nodes, listed, highestseqno, pc, calls, requests, died,
                 abandoned, bounds>>

\* The request to the next peer: it is sent, or the peer cannot be reached
\* and create_client ends this server.
request(j) ==
  LET n == At(j)
      p == nodes[n][next[j]]
  IN
  /\ thread[j] = "ask" /\ next[j] \in DOMAIN nodes[n]
  /\ \/ /\ up[p]
        /\ thread' = [thread EXCEPT ![j] = "sent"]
        /\ requests' = requests \cup
             {[call |-> j, index |-> next[j], to |-> p, seqno |-> myseqno[n]]}
        /\ UNCHANGED <<up, nodes, lockvar, pc, calls, next, history, bounds>>
     \/ ~up[p] /\ Dies(n) /\ UNCHANGED crashes

Acquired(j) ==
  /\ thread[j] = "ask" /\ next[j] \notin DOMAIN nodes[At(j)]
  /\ thread' = [thread EXCEPT ![j] = "none"]
  /\ next' = [next EXCEPT ![j] = 1]
  /\ Reply(j)
  /\ UNCHANGED <<up, nodes, lockvar, calls, requests, history, bounds>>

----------------------------------------------------------------------------
(* request_1_svc.                                                           *)

Larger(a, b) == IF a > b THEN a ELSE b

\* The condition under which the server of r.to defers request r.
Defers_NoTie(r) == requesting_cs[r.to] /\ r.seqno > myseqno[r.to]
Defers(r) ==
  /\ requesting_cs[r.to]
  /\ \/ r.seqno > myseqno[r.to]
     \/ r.seqno = myseqno[r.to] /\ At(r.call) > r.to

\* The sender of r has not given up, died or lost this peer since.
Awaited(r) == thread[r.call] = "sent" /\ next[r.call] = r.index

request_1_svc(r) ==
  LET p == r.to IN
  /\ listed' = [listed EXCEPT ![p] = TRUE]
  /\ highestseqno' = [highestseqno EXCEPT ![p] = Larger(@, r.seqno)]
  /\ requests' = requests \ {r}
  /\ thread' = IF Awaited(r)
               THEN [thread EXCEPT ![r.call] = IF Defers(r) THEN "wait" ELSE "ask"]
               ELSE thread
  /\ next' = IF Awaited(r) /\ ~Defers(r)
             THEN [next EXCEPT ![r.call] = @ + 1] ELSE next
  /\ UNCHANGED <<up, nodes, lock, requesting_cs, myseqno, pc, calls, history, bounds>>

----------------------------------------------------------------------------
(* release_lock for call j.                                                 *)

ReleaseListed(j) ==
  LET n == At(j)
      Woken == {i \in Call : thread[i] = "wait" /\ WaitsFor(i, n)}
  IN
  /\ thread[j] = "release" /\ listed[n]
  /\ thread' = [i \in Call |-> IF i = j THEN "none"
                               ELSE IF i \in Woken THEN "ask" ELSE thread[i]]
  /\ next' = [i \in Call |-> IF i \in Woken THEN next[i] + 1 ELSE next[i]]
  /\ lock' = [lock EXCEPT ![n] = FALSE]
  /\ Reply(j)
  /\ UNCHANGED <<up, nodes, listed, requesting_cs, myseqno, highestseqno, calls,
                 requests, history, bounds>>

\* The server has never heard of the lock and its assertion fails.
ReleaseUnlisted(j) ==
  /\ thread[j] = "release" /\ ~listed[At(j)]
  /\ Dies(At(j))
  /\ UNCHANGED crashes

----------------------------------------------------------------------------
Next ==
  \/ \E n \in Node : Crash(n) \/ Start(n)
  \/ \E c \in Client :
       \/ create_client_exits(c) \/ CallTimesOut(c)
       \/ psu_init_lock_mgr(c) \/ psu_acquire_lock(c) \/ psu_release_lock(c)
  \/ \E j \in Call :
       \/ init_lock_mgr(j)
       \/ find_lockvar(j) \/ TakeMutex(j) \/ request(j) \/ RequestTimesOut(j)
       \/ Acquired(j)
       \/ ReleaseListed(j) \/ ReleaseUnlisted(j)
  \/ \E r \in requests : request_1_svc(r)

Spec == Init /\ [][Next]_vars

----------------------------------------------------------------------------
Request == [call : Call, index : Nat, to : Node, seqno : -MaxInt - 1 .. MaxInt]

TypeOK ==
  /\ up \in [Node -> BOOLEAN]
  /\ nodes \in [Node -> Seq(Node)]
  /\ listed \in [Node -> BOOLEAN] /\ lock \in [Node -> BOOLEAN]
  /\ requesting_cs \in [Node -> BOOLEAN]
  /\ myseqno \in [Node -> -MaxInt - 1 .. MaxInt]
  /\ highestseqno \in [Node -> 0 .. MaxInt]
  /\ pc \in [Client -> {"start", "init", "idle", "acquire", "held", "release", "exited"}]
  /\ calls \in [Client -> Nat] /\ \A c \in Client : calls[c] <= MaxCalls[c]
  /\ thread \in [Call -> {"none", "init", "acquire", "mutex", "ask", "sent", "wait",
                          "release"}]
  /\ next \in [Call -> Nat]
  /\ \A j \in Call :
       thread[j] \in {"sent", "wait"} => next[j] \in DOMAIN nodes[At(j)]
  /\ requests \subseteq Request
  /\ died \subseteq Node /\ abandoned \subseteq Node /\ skipped \in [Node -> SUBSET Node]
  /\ crashes \in 0 .. MaxCrashes /\ starts \in 0 .. MaxStarts
  /\ timeouts \in 0 .. MaxTimeouts

\* The number of the last acquisition on n is beyond the largest int.
Wrapped(n) == myseqno[n] < 0

\* No server of n has died, and no client has given up a call to it.
Spared(n) == n \notin died \cup abandoned

\* Clients whose own servers are spared exclude each other, whatever happens
\* to the servers of third machines and to the calls that they make and get:
\* a peer that dies, comes back without its memory, is given up or handles a
\* request long after it was given up, between any two requests, disturbs only
\* its own clients.  Clients of different machines also need numbers that have
\* not wrapped, and acquisitions in which neither machine has given up the
\* other.
SurvivorsExclusive ==
  \A c, d \in Client :
    LET n == server[c]
        m == server[d]
    IN
    c # d /\ pc[c] = "held" /\ pc[d] = "held" /\ Spared(n) /\ Spared(m) =>
      /\ n # m
      /\ Wrapped(n) \/ Wrapped(m) \/ m \in skipped[n] \/ n \in skipped[m]

\* The end of one server spreads, but it does not start by itself: no server
\* exits or fails its assertion before one has been stopped or a client has
\* given up a call.
FirstDeath ==
  crashes = 0 /\ abandoned = {} => died = {}
=============================================================================
