-------------------------- MODULE LockMgrInvariant --------------------------
(***************************************************************************)
(* An inductive invariant of LockMgr from which its safety properties      *)
(* follow.  The conjuncts say, in the order in which they build on one     *)
(* another: who owns lockvar->lock, what the node table and the request    *)
(* loop contain, what a request handler has seen, how the fields of one    *)
(* LockVar relate, and what a reply means to the node that received it.    *)
(* Wherever highestseqno is concerned, the claim is made for a LockVar on  *)
(* which no data race has taken effect.                                    *)
(***************************************************************************)
EXTENDS LockMgr

\* The thread between pthread_mutex_lock (line 123) and pthread_mutex_unlock
\* (line 159) is the owner of lockvar->lock, and only threads of an
\* initialised node are inside a call.
OwnerInv ==
  \A t \in Thread :
    /\ Owning(t) => lock[Home[t]] = t
    /\ pc[t] # "idle" => inits[Home[t]] > 0

\* Node m occurs in the table of n.
Listed(n, m) == \E i \in DOMAIN nodes[n] : nodes[n][i] = m

\* The table of n never names n; the tokens init_lock_mgr has passed are in
\* it, and after a completed call all the other nodes are.
TableInv ==
  \A n \in Node :
    /\ \A i \in DOMAIN nodes[n] : nodes[n][i] # n
    /\ \A i \in DOMAIN NodeStr[n] :
         i < token[n] /\ NodeStr[n][i] # n => Listed(n, NodeStr[n][i])
    /\ inits[n] > 0 => \A m \in Node \ {n} : Listed(n, m)

\* The request loop has passed the nodes before index next, each with a reply
\* or a failed call, and when it ends it has passed all the other nodes; a
\* request is pending only while its caller waits for it.
LoopInv ==
  /\ \A t \in Thread :
       Requesting(t) =>
         /\ next[Home[t]] <= Len(nodes[Home[t]]) + 1
         /\ \A i \in DOMAIN nodes[Home[t]] :
              i < next[Home[t]] =>
                nodes[Home[t]][i] \in granted[Home[t]] \cup skipped[Home[t]]
  /\ \A t \in Thread :
       pc[t] = "wait" => next[Home[t]] <= Len(nodes[Home[t]])
  /\ \A n \in Node :
       call[n] # "none" => \E t \in Thread : Home[t] = n /\ pc[t] = "wait"
  /\ \A n \in Node : n \notin granted[n]
  /\ EveryPeerAsked

\* The stages of request_1_svc after the assignment of line 170.
Raised == {"raised", "tie", "append", "lock", "blocked", "replied"}

\* After line 170, highestseqno of an unraced LockVar has at least the number
\* of the request; before, the value about to be stored has.  The handler
\* comes to compare equal numbers only when the request is not the later one.
HandlerInv ==
  \A n \in Node :
    call[n] # "none" /\ raced[Peer(n)] = {} =>
      /\ call[n] \in {"reload"} \cup Raised =>
           myseqno[n] <= highestseqno[Peer(n)]
      /\ call[n] = "loaded" => myseqno[n] <= reg[n]
      /\ call[n] = "tie" => myseqno[n] <= myseqno[Peer(n)]

\* requesting_cs stays set from the first acquisition on; an unraced myseqno
\* is at most one ahead of highestseqno and never decreases.
FieldInv ==
  /\ \A t \in Thread :
       /\ pc[t] = "flag" => raced[Home[t]] # {}
       /\ Owning(t) /\ pc[t] # "flag" => requesting_cs[Home[t]]
       /\ pc[t] = "store" /\ raced[Home[t]] = {} =>
            /\ loaded[Home[t]] <= highestseqno[Home[t]]
            /\ myseqno[Home[t]] <= loaded[Home[t]] + 1
  /\ \A n \in Node : raced[n] = {} => myseqno[n] <= highestseqno[n] + 1

\* n has, or is about to receive, the reply of m to its pending request.
Permitted(n, m) == m \in granted[n] \/ HandlerOn(n, m, {"replied"})

\* What the reply of an unraced node m means: m has seen the number of the
\* request, and the request precedes the one that m has pending or is about
\* to give its number.
PermissionInv ==
  \A t \in Thread : \A m \in Node :
    LET n == Home[t]
    IN  Requesting(t) /\ Permitted(n, m) /\ raced[m] = {} =>
          /\ myseqno[n] <= highestseqno[m]
          /\ \A u \in Thread :
               Home[u] = m =>
                 /\ pc[u] = "store" =>
                      Before(myseqno[n], n, loaded[m] + 1, m)
                 /\ Requesting(u) => Before(myseqno[n], n, myseqno[m], m)

\* The inductive invariant.
IInv ==
  /\ TypeOK
  /\ OwnerInv
  /\ TableInv
  /\ LoopInv
  /\ HandlerInv
  /\ FieldInv
  /\ PermissionInv

\* At most two nodes, whose calls do not fail and whose stores are in order.
Calm ==
  /\ Faults = {}
  /\ \A n, m, k \in Node : n = m \/ m = k \/ n = k

\* In a calm system only the one peer's handler writes a highestseqno (line
\* 170), so the value it is about to store is never below it: no update is
\* lost and no failed call ignored.
CalmInv ==
  Calm =>
    \A n \in Node :
      /\ raced[n] = {} /\ skipped[n] = {} /\ late[n] = {} /\ lateStore[n] = {}
      /\ call[n] = "loaded" => highestseqno[Peer(n)] <= reg[n]
============================================================================
