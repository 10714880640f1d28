------------------------ MODULE LockRestartInvariant ------------------------
(***************************************************************************)
(* An inductive invariant of LockRestart from which its safety properties  *)
(* follow.  What it says of a LockVar, and of what a reply means, holds of *)
(* spared servers; the rest holds of all.                                  *)
(***************************************************************************)
EXTENDS LockRestart

Current(c) == <<c, calls[c]>>

\* The stages of acquire_lock with the mutex, and the procedure of a thread.
Asking == {"ask", "sent", "wait"}
Procedure(stage) ==
  IF stage \in {"mutex"} \cup Asking THEN "acquire" ELSE stage

\* A thread of a spared server works on the call that its client waits for.
\* A server that is down has died.
StageInv ==
  /\ \A j \in Call :
       Spared(At(j)) /\ thread[j] # "none" =>
         j = Current(j[1]) /\ pc[j[1]] = Procedure(thread[j])
  /\ \A n \in Node : ~up[n] => n \in died

\* Client c has the lock of its server's LockVar, or a thread has it for c.
InUse(c) ==
  \/ pc[c] \in {"held", "release"}
  \/ pc[c] = "acquire" /\ Current(c) \in Call /\ thread[Current(c)] \in Asking

\* The mutex of a spared server is locked while a call needs it, by one call.
\* The lock is then listed and requesting_cs set.
OwnerInv ==
  /\ \A j \in Call : thread[j] = "mutex" => listed[At(j)]
  /\ \A n \in Node : lock[n] => listed[n] /\ requesting_cs[n]
  /\ \A c \in Client :
       Spared(server[c]) /\ InUse(c) =>
         /\ lock[server[c]]
         /\ \A d \in Client : server[d] = server[c] /\ InUse(d) => d = c

\* No table names its own machine, and a client that has initialised a spared
\* server finds all the other machines in its table.
TableInv ==
  /\ \A n \in Node : \A i \in DOMAIN nodes[n] : nodes[n][i] # n
  /\ \A c \in Client :
       Spared(server[c]) /\ pc[c] \notin {"start", "init", "exited"} =>
         \A m \in Node \ {server[c]} :
           \E i \in DOMAIN nodes[server[c]] : nodes[server[c]][i] = m

LoopInv ==
  \A j \in Call :
    thread[j] \in Asking => next[j] >= 1 /\ next[j] <= Len(nodes[At(j)]) + 1

\* A request of a spared server belongs to a call that is in the loop, or over.
\* In the loop, it carries the number of the acquisition, and its index tells
\* its peer.
RequestInv ==
  \A r \in requests :
    LET n == At(r.call) IN
    Spared(n) =>
      /\ r.call[2] <= calls[r.call[1]]
      /\ thread[r.call] \in Asking \cup {"none"}
      /\ thread[r.call] \in Asking =>
           r.seqno = myseqno[n] /\ r.index \in DOMAIN nodes[n] /\ r.to = nodes[n][r.index]

\* The acquisition of c has come past m: m has replied, or its call failed.
Passed(c, m) ==
  \/ pc[c] = "held"
  \/ /\ pc[c] = "acquire" /\ Current(c) \in Call /\ thread[Current(c)] \in Asking
     /\ \E i \in DOMAIN nodes[server[c]] :
          i < next[Current(c)] /\ nodes[server[c]][i] = m

\* The server of m has deferred the request of c.
Deferred(c, m) ==
  /\ pc[c] = "acquire" /\ Current(c) \in Call
  /\ thread[Current(c)] = "wait" /\ WaitsFor(Current(c), m)

\* The order of the requests of n and m.
Before(n, m) == myseqno[n] < myseqno[m] \/ (myseqno[n] = myseqno[m] /\ n < m)

\* Between spared servers of which the first has not given up the second, m has
\* seen the number of a request that it has deferred or that has come past it;
\* in the second case the request precedes the one that m has pending, unless
\* a number has wrapped.
PermissionInv ==
  \A c \in Client : \A m \in Node \ {server[c]} :
    LET n == server[c]
    IN  Spared(n) /\ Spared(m) /\ m \notin skipped[n] =>
          /\ Deferred(c, m) \/ Passed(c, m) => myseqno[n] <= highestseqno[m]
          /\ Passed(c, m) /\ lock[m] /\ ~Wrapped(n) /\ ~Wrapped(m) => Before(n, m)

\* The inductive invariant.
RInv ==
  /\ TypeOK
  /\ StageInv
  /\ OwnerInv
  /\ TableInv
  /\ LoopInv
  /\ RequestInv
  /\ PermissionInv
  /\ FirstDeath
=============================================================================
