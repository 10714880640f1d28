-------------------------- MODULE LockRestartProofs -------------------------
(***************************************************************************)
(* Proofs about LockRestart, for any machines, clients and bounds.         *)
(***************************************************************************)
EXTENDS LockRestartInvariant, TLAPS

\* The list that init_lock_mgr appends has exactly the other machines.
LEMMA Others ==
  ASSUME NEW n \in Node
  PROVE  /\ others[n] \in Seq(Node)
         /\ \A i \in DOMAIN others[n] : others[n][i] # n
         /\ \A m \in Node \ {n} : \E i \in DOMAIN others[n] : others[n][i] = m
BY LockRestartAssumption

\* Machines and bounds are numbers.
LEMMA Bounds ==
  /\ MaxInt \in Nat /\ MaxCrashes \in Nat /\ MaxStarts \in Nat /\ MaxTimeouts \in Nat
  /\ Node \subseteq Nat /\ \A n \in Node : n \in Int
  /\ server \in [Client -> Node] /\ \A c \in Client : server[c] \in Node
  /\ MaxCalls \in [Client -> Nat]
BY LockRestartAssumption

\* A call is a client and a number.
LEMMA Calls ==
  /\ \A j \in Call : /\ j[1] \in Client /\ j[2] \in 1 .. MaxCalls[j[1]]
                     /\ j = <<j[1], j[2]>> /\ At(j) \in Node /\ At(j) = server[j[1]]
  /\ \A c \in Client : \A k \in 1 .. MaxCalls[c] :
       <<c, k>> \in Call /\ <<c, k>>[1] = c /\ <<c, k>>[2] = k
<1>1. ASSUME NEW j \in Call
      PROVE  /\ j[1] \in Client /\ j[2] \in 1 .. MaxCalls[j[1]] /\ j = <<j[1], j[2]>>
  BY DEF Call
<1>2. \A j \in Call : At(j) \in Node /\ At(j) = server[j[1]]
  BY <1>1, Bounds DEF At
<1>3. ASSUME NEW c \in Client, NEW k \in 1 .. MaxCalls[c]
      PROVE  <<c, k>> \in Call
  BY DEF Call
<1> QED
  BY <1>1, <1>2, <1>3

\* The domain of a table.
LEMMA Tables == \A s \in Seq(Node) : Len(s) \in Nat /\ DOMAIN s = 1 .. Len(s)
OBVIOUS

\* Numbers and tables in a state of the right type.
LEMMA Typed ==
  ASSUME TypeOK
  PROVE  /\ \A n \in Node : /\ myseqno[n] \in Int /\ highestseqno[n] \in Int
                            /\ nodes[n] \in Seq(Node) /\ Len(nodes[n]) \in Nat
                            /\ DOMAIN nodes[n] = 1 .. Len(nodes[n])
         /\ \A c \in Client : calls[c] \in Nat
         /\ \A j \in Call : next[j] \in Nat
<1>1. ASSUME NEW n \in Node
      PROVE  myseqno[n] \in Int /\ highestseqno[n] \in Int /\ nodes[n] \in Seq(Node)
  BY Bounds DEF TypeOK
<1>2. (\A c \in Client : calls[c] \in Nat) /\ (\A j \in Call : next[j] \in Nat)
  BY DEF TypeOK
<1> QED
  BY Zenon, <1>1, <1>2, Tables

\* The conjuncts of the invariant in the initial state.
LEMMA InitRInv == Init => RInv
<1> SUFFICES ASSUME Init PROVE RInv
  OBVIOUS
<1> USE Bounds
<1>1. TypeOK
  BY DEF Init, TypeOK
<1>2. StageInv /\ FirstDeath
  BY DEF Init, StageInv, FirstDeath
<1>3. OwnerInv
  BY DEF Init, OwnerInv, InUse, Asking
<1>4. TableInv
  BY DEF Init, TableInv
<1>5. LoopInv /\ RequestInv
  BY DEF Init, LoopInv, RequestInv, Asking
<1>6. PermissionInv
  BY DEF Init, PermissionInv, Deferred, Passed
<1> QED
  BY <1>1, <1>2, <1>3, <1>4, <1>5, <1>6 DEF RInv

----------------------------------------------------------------------------
(* Frames: what a step must leave alone for a conjunct to survive.          *)

\* A thread of a spared server may move on within its procedure.
LEMMA StageFrame ==
  ASSUME StageInv,
         \A n \in Node : Spared(n)' => Spared(n),
         \A j \in Call : Spared(At(j))' /\ thread'[j] # "none" =>
           /\ thread[j] # "none" /\ Procedure(thread'[j]) = Procedure(thread[j])
           /\ pc'[j[1]] = pc[j[1]] /\ calls'[j[1]] = calls[j[1]],
         \A n \in Node : ~up'[n] => n \in died'
  PROVE  StageInv'
<1>1. ASSUME NEW j \in Call, Spared(At(j))', thread'[j] # "none"
      PROVE  j = Current(j[1])' /\ pc'[j[1]] = Procedure(thread'[j])
  <2>1. Spared(At(j)) /\ thread[j] # "none"
    BY Zenon, <1>1, Calls
  <2>2. j = Current(j[1]) /\ pc[j[1]] = Procedure(thread[j])
    BY Zenon, <2>1 DEF StageInv
  <2>3. Current(j[1])' = Current(j[1])
    BY Zenon, <1>1 DEF Current
  <2> QED
    BY Zenon, <1>1, <2>2, <2>3
<1> QED
  BY Zenon, <1>1 DEF StageInv

\* No client of a spared server begins to use the mutex.
LEMMA OwnerFrame ==
  ASSUME OwnerInv,
         \A n \in Node : Spared(n)' => Spared(n),
         \A j \in Call : thread'[j] = "mutex" => listed'[At(j)],
         \A n \in Node : lock'[n] => listed'[n] /\ requesting_cs'[n],
         \A c \in Client : Spared(server[c])' /\ InUse(c)' =>
           InUse(c) /\ lock'[server[c]] = lock[server[c]]
  PROVE  OwnerInv'
<1>1. ASSUME NEW c \in Client, Spared(server[c])', InUse(c)'
      PROVE  /\ lock'[server[c]]
             /\ \A d \in Client : server[d] = server[c] /\ InUse(d)' => d = c
  <2>1. Spared(server[c]) /\ InUse(c) /\ lock'[server[c]] = lock[server[c]]
    BY Zenon, <1>1, Bounds
  <2>2. lock[server[c]] /\ \A d \in Client : server[d] = server[c] /\ InUse(d) => d = c
    BY Zenon, <2>1 DEF OwnerInv
  <2>3. \A d \in Client : server[d] = server[c] /\ InUse(d)' => InUse(d)
    BY Zenon, <1>1
  <2> QED
    BY Zenon, <2>1, <2>2, <2>3
<1> QED
  BY Zenon, <1>1 DEF OwnerInv

\* The tables of spared servers do not change, and no client of one becomes
\* initialised.
LEMMA TableFrame ==
  ASSUME TableInv,
         \A n \in Node : nodes'[n] = nodes[n] \/ (nodes'[n] = <<>> /\ ~Spared(n)'),
         \A n \in Node : Spared(n)' => Spared(n),
         \A c \in Client : Spared(server[c])' /\ pc'[c] \notin {"start", "init", "exited"}
           => pc[c] \notin {"start", "init", "exited"}
  PROVE  TableInv'
<1>1. ASSUME NEW n \in Node
      PROVE  \A i \in DOMAIN nodes'[n] : nodes'[n][i] # n
  <2>1. CASE nodes'[n] = nodes[n]
    <3>1. \A i \in DOMAIN nodes[n] : nodes[n][i] # n
      BY Zenon DEF TableInv
    <3> QED
      BY Zenon, <2>1, <3>1
  <2>2. CASE nodes'[n] = <<>>
    <3>1. DOMAIN nodes'[n] = {}
      BY <2>2
    <3> QED
      BY Zenon, <3>1
  <2> QED
    BY Zenon, <2>1, <2>2
<1>2. ASSUME NEW c \in Client, Spared(server[c])',
             pc'[c] \notin {"start", "init", "exited"}, NEW m \in Node \ {server[c]}
      PROVE  \E i \in DOMAIN nodes'[server[c]] : nodes'[server[c]][i] = m
  <2>1. /\ nodes'[server[c]] = nodes[server[c]] /\ Spared(server[c])
        /\ pc[c] \notin {"start", "init", "exited"}
    BY Zenon, <1>2, Bounds
  <2>2. \E i \in DOMAIN nodes[server[c]] : nodes[server[c]][i] = m
    BY Zenon, <2>1 DEF TableInv
  <2> QED
    BY Zenon, <2>1, <2>2
<1> QED
  BY Zenon, <1>1, <1>2 DEF TableInv

\* No request of a spared server is sent, and its numbers and table stay.
LEMMA RequestFrame ==
  ASSUME RequestInv, requests \subseteq Request, requests' \subseteq requests,
         \A n \in Node : Spared(n)' =>
           Spared(n) /\ myseqno'[n] = myseqno[n] /\ nodes'[n] = nodes[n],
         \A j \in Call : Spared(At(j))' =>
           /\ calls'[j[1]] = calls[j[1]]
           /\ thread[j] = "none" => thread'[j] = "none"
           /\ thread[j] \in Asking => thread'[j] \in Asking \cup {"none"}
  PROVE  RequestInv'
<1> SUFFICES ASSUME NEW r \in requests', Spared(At(r.call))'
             PROVE  /\ r.call[2] <= calls'[r.call[1]]
                    /\ thread'[r.call] \in Asking \cup {"none"}
                    /\ thread'[r.call] \in Asking =>
                         /\ r.seqno = myseqno'[At(r.call)]
                         /\ r.index \in DOMAIN nodes'[At(r.call)]
                         /\ r.to = nodes'[At(r.call)][r.index]
  BY Zenon DEF RequestInv
<1> DEFINE n == At(r.call)
<1>1. r \in requests /\ r.call \in Call /\ n \in Node
  BY Calls DEF Request
<1>2. Spared(n) /\ myseqno'[n] = myseqno[n] /\ nodes'[n] = nodes[n]
  BY Zenon, <1>1
<1>3. /\ r.call[2] <= calls[r.call[1]]
      /\ thread[r.call] \in Asking \cup {"none"}
      /\ thread[r.call] \in Asking =>
           r.seqno = myseqno[n] /\ r.index \in DOMAIN nodes[n] /\ r.to = nodes[n][r.index]
  BY Zenon, <1>1, <1>2 DEF RequestInv
<1>4. /\ calls'[r.call[1]] = calls[r.call[1]]
      /\ thread[r.call] = "none" => thread'[r.call] = "none"
      /\ thread[r.call] \in Asking => thread'[r.call] \in Asking \cup {"none"}
  BY Zenon, <1>1
<1>5. "none" \notin Asking
  BY DEF Asking
<1> QED
  BY Zenon, <1>2, <1>3, <1>4, <1>5

\* No number of a spared server changes but for raising highestseqno, and
\* nobody comes past a spared server unless its mutex is free.
LEMMA PermissionFrame ==
  ASSUME TypeOK, TypeOK', PermissionInv,
         \A n \in Node : Spared(n)' =>
           /\ Spared(n) /\ myseqno'[n] = myseqno[n]
           /\ highestseqno[n] <= highestseqno'[n],
         \A c \in Client : \A m \in Node \ {server[c]} :
           Spared(server[c])' /\ Spared(m)' /\ m \notin skipped'[server[c]] =>
             /\ m \notin skipped[server[c]]
             /\ Deferred(c, m)' \/ Passed(c, m)' => Deferred(c, m) \/ Passed(c, m)
             /\ Passed(c, m)' /\ lock'[m] => Passed(c, m) /\ lock[m]
  PROVE  PermissionInv'
<1> SUFFICES ASSUME NEW c \in Client, NEW m \in Node \ {server[c]},
                    Spared(server[c])', Spared(m)', m \notin skipped'[server[c]]
             PROVE  /\ Deferred(c, m)' \/ Passed(c, m)' =>
                         myseqno'[server[c]] <= highestseqno'[m]
                    /\ Passed(c, m)' /\ lock'[m] /\ ~Wrapped(server[c])' /\ ~Wrapped(m)'
                         => Before(server[c], m)'
  BY Zenon DEF PermissionInv
<1> DEFINE n == server[c]
<1>1. n \in Node /\ m \in Node /\ n # m
  BY Zenon, Bounds
<1>2. /\ Spared(n) /\ Spared(m) /\ m \notin skipped[n]
      /\ myseqno'[n] = myseqno[n] /\ myseqno'[m] = myseqno[m]
      /\ highestseqno[m] <= highestseqno'[m]
  BY Zenon, <1>1
<1>3. /\ myseqno[n] \in Int /\ highestseqno[m] \in Int /\ highestseqno'[m] \in Int
  <2>1. highestseqno'[m] \in Int
    BY <1>1, Bounds DEF TypeOK
  <2> QED
    BY Zenon, <1>1, <2>1, Typed
<1>4. /\ Deferred(c, m) \/ Passed(c, m) => myseqno[n] <= highestseqno[m]
      /\ Passed(c, m) /\ lock[m] /\ ~Wrapped(n) /\ ~Wrapped(m) => Before(n, m)
  BY Zenon, <1>2 DEF PermissionInv
<1>5. Deferred(c, m)' \/ Passed(c, m)' => myseqno'[n] <= highestseqno'[m]
  <2>1. myseqno[n] <= highestseqno[m] => myseqno[n] <= highestseqno'[m]
    BY ONLY <1>2, <1>3
  <2> QED
    BY Zenon, <1>2, <1>4, <2>1
<1>6. Passed(c, m)' /\ lock'[m] /\ ~Wrapped(n)' /\ ~Wrapped(m)' => Before(n, m)'
  <2>1. (Wrapped(n)' <=> Wrapped(n)) /\ (Wrapped(m)' <=> Wrapped(m))
        /\ (Before(n, m)' <=> Before(n, m))
    BY Zenon, <1>2 DEF Wrapped, Before
  <2> QED
    BY Zenon, <1>4, <2>1
<1> QED
  BY Zenon, <1>5, <1>6

\* A client whose call stands where it stood.
LEMMA LoopSame ==
  ASSUME NEW c \in Client, NEW m, pc'[c] = pc[c], calls'[c] = calls[c],
         nodes'[server[c]] = nodes[server[c]],
         Current(c) \in Call =>
           thread'[Current(c)] = thread[Current(c)] /\ next'[Current(c)] = next[Current(c)]
  PROVE  /\ InUse(c)' <=> InUse(c)
         /\ Passed(c, m)' <=> Passed(c, m)
         /\ Deferred(c, m)' <=> Deferred(c, m)
<1>1. Current(c)' = Current(c)
  BY Zenon DEF Current
<1>2. Current(c) \in Call => At(Current(c)) = server[c]
  BY Bounds DEF At, Current
<1>3. InUse(c)' <=> InUse(c)
  BY Zenon, <1>1 DEF InUse
<1>4. Passed(c, m)' <=> Passed(c, m)
  BY Zenon, <1>1 DEF Passed
<1>5. Current(c) \in Call => (WaitsFor(Current(c), m)' <=> WaitsFor(Current(c), m))
  BY Zenon, <1>1, <1>2 DEF WaitsFor
<1>6. Deferred(c, m)' <=> Deferred(c, m)
  BY Zenon, <1>1, <1>5 DEF Deferred
<1> QED
  BY Zenon, <1>3, <1>4, <1>6

\* A client whose call goes on from the peer that it has waited for.
LEMMA LoopNext ==
  ASSUME TypeOK, NEW c \in Client, NEW m, pc'[c] = pc[c], calls'[c] = calls[c],
         nodes'[server[c]] = nodes[server[c]],
         Current(c) \in Call, thread[Current(c)] \in {"sent", "wait"},
         thread'[Current(c)] = "ask", next'[Current(c)] = next[Current(c)] + 1
  PROVE  /\ InUse(c)' <=> InUse(c)
         /\ ~Deferred(c, m)'
         /\ Passed(c, m)' =>
              Passed(c, m) \/ nodes[server[c]][next[Current(c)]] = m
<1> DEFINE j == Current(c)
<1>1. Current(c)' = j /\ server[c] \in Node
  BY Zenon, Bounds DEF Current
<1>2. "ask" \in Asking /\ thread[j] \in Asking
  BY DEF Asking
<1>3. InUse(c)' <=> InUse(c)
  BY Zenon, <1>1, <1>2 DEF InUse
<1>4. ~Deferred(c, m)'
  BY <1>1 DEF Deferred
<1>5. ASSUME Passed(c, m)', pc[c] # "held"
      PROVE  Passed(c, m) \/ nodes[server[c]][next[Current(c)]] = m
  <2>1. /\ pc[c] = "acquire"
        /\ \E i \in DOMAIN nodes[server[c]] : i < next[j] + 1 /\ nodes[server[c]][i] = m
    BY Zenon, <1>1, <1>5 DEF Passed
  <2>2. \A i \in DOMAIN nodes[server[c]] : i < next[j] + 1 => i < next[j] \/ i = next[j]
    <3>1. next[j] \in Nat /\ \A i \in DOMAIN nodes[server[c]] : i \in Nat
      BY <1>1, Typed
    <3> QED
      BY ONLY <3>1
  <2> QED
    BY Zenon, <1>2, <2>1, <2>2 DEF Passed
<1>6. pc[c] = "held" => Passed(c, m)
  BY Zenon DEF Passed
<1> QED
  BY Zenon, <1>3, <1>4, <1>5, <1>6

\* The position after the peer that a thread waits for.
LEMMA NextPosition ==
  ASSUME TypeOK, NEW j \in Call, thread[j] \in {"sent", "wait"}
  PROVE  /\ next[j] \in DOMAIN nodes[At(j)] /\ next[j] + 1 \in Nat
         /\ next[j] + 1 >= 1 /\ next[j] + 1 <= Len(nodes[At(j)]) + 1
<1>1. next[j] \in DOMAIN nodes[At(j)] /\ At(j) \in Node
  BY Zenon, Calls DEF TypeOK
<1>2. DOMAIN nodes[At(j)] = 1 .. Len(nodes[At(j)]) /\ Len(nodes[At(j)]) \in Nat
  BY Zenon, <1>1, Typed
<1>3. \A k \in Nat : \A i \in 1 .. k : i + 1 \in Nat /\ i + 1 >= 1 /\ i + 1 <= k + 1
  OBVIOUS
<1> QED
  BY Zenon, <1>1, <1>2, <1>3

----------------------------------------------------------------------------
(* The steps.                                                               *)

\* The end of a server, once one has been stopped or a client has given up a
\* call: what holds of the others is not disturbed.
LEMMA DiesStep ==
  ASSUME RInv, NEW n \in Node, Dies(n),
         crashes' \in 0 .. MaxCrashes, crashes' # 0 \/ abandoned # {}
  PROVE  RInv'
<1>0. /\ TypeOK /\ StageInv /\ OwnerInv /\ TableInv /\ LoopInv /\ RequestInv
      /\ PermissionInv
  BY Zenon DEF RInv
<1>u. UNCHANGED <<calls, abandoned, skipped, starts, timeouts>> /\ died' = died \cup {n}
  BY Zenon DEF Dies
<1>1. ASSUME NEW q \in Node, q # n
      PROVE  /\ up'[q] = up[q] /\ nodes'[q] = nodes[q] /\ listed'[q] = listed[q]
             /\ lock'[q] = lock[q] /\ requesting_cs'[q] = requesting_cs[q]
             /\ myseqno'[q] = myseqno[q] /\ highestseqno'[q] = highestseqno[q]
  BY <1>0, <1>1 DEF TypeOK, Dies
<1>2. nodes'[n] = <<>> /\ lock'[n] = FALSE
  BY <1>0 DEF TypeOK, Dies
<1>3. \A q \in Node : Spared(q)' => q # n /\ Spared(q)
  BY <1>u DEF Spared
<1>4. ASSUME NEW j \in Call, At(j) = n
      PROVE  thread'[j] = "none" /\ next'[j] = 1
  BY <1>4 DEF Dies, ThreadAfter
<1>5. ASSUME NEW j \in Call, At(j) # n
      PROVE  /\ WaitsFor(j, n) => thread'[j] = "ask" /\ next'[j] = next[j] + 1
             /\ ~WaitsFor(j, n) => thread'[j] = thread[j] /\ next'[j] = next[j]
             /\ nodes'[At(j)] = nodes[At(j)] /\ listed'[At(j)] = listed[At(j)]
             /\ pc'[j[1]] = pc[j[1]]
  <2>1. /\ WaitsFor(j, n) => thread'[j] = "ask" /\ next'[j] = next[j] + 1
        /\ ~WaitsFor(j, n) => thread'[j] = thread[j] /\ next'[j] = next[j]
    BY <1>5 DEF Dies, ThreadAfter
  <2>2. pc'[j[1]] = pc[j[1]]
    BY <1>5, Calls DEF Dies
  <2> QED
    BY Zenon, <1>1, <1>5, <2>1, <2>2, Calls
<1>6. \A j \in Call : WaitsFor(j, n) => thread[j] \in {"sent", "wait"}
  BY Zenon DEF WaitsFor
<1>7. TypeOK'
  <2>1. \A c \in Client : Returned(c) \in
          {"start", "init", "idle", "acquire", "held", "release", "exited"}
    BY <1>0 DEF TypeOK, Returned
  <2>2. pc' \in [Client -> {"start", "init", "idle", "acquire", "held", "release", "exited"}]
    BY <1>0, <2>1 DEF TypeOK, Dies
  <2>3. thread' \in [Call -> {"none", "init", "acquire", "mutex", "ask", "sent", "wait",
                              "release"}]
    BY <1>0 DEF TypeOK, Dies, ThreadAfter
  <2>4. next' \in [Call -> Nat]
    BY <1>0 DEF TypeOK, Dies
  <2>5. ASSUME NEW j \in Call, thread'[j] \in {"sent", "wait"}
        PROVE  next'[j] \in DOMAIN nodes'[At(j)]
    <3>1. At(j) # n /\ ~WaitsFor(j, n)
      BY <1>4, <1>5, <2>5
    <3> QED
      BY Zenon, <1>0, <1>5, <2>5, <3>1 DEF TypeOK
  <2>6. /\ up' \in [Node -> BOOLEAN] /\ nodes' \in [Node -> Seq(Node)]
        /\ listed' \in [Node -> BOOLEAN] /\ lock' \in [Node -> BOOLEAN]
        /\ requesting_cs' \in [Node -> BOOLEAN]
    BY <1>0 DEF TypeOK, Dies
  <2>7. /\ myseqno' \in [Node -> -MaxInt - 1 .. MaxInt]
        /\ highestseqno' \in [Node -> 0 .. MaxInt]
    BY <1>0, Bounds DEF TypeOK, Dies
  <2>8. died' \subseteq Node /\ requests' \subseteq Request
    BY <1>0 DEF TypeOK, Dies
  <2> QED
    BY Zenon, <1>0, <1>u, <2>2, <2>3, <2>4, <2>5, <2>6, <2>7, <2>8 DEF TypeOK
<1>8. ASSUME NEW j \in Call, thread'[j] # "none"
      PROVE  /\ At(j) # n /\ thread[j] # "none"
             /\ Procedure(thread'[j]) = Procedure(thread[j])
  <2>1. At(j) # n
    BY Zenon, <1>4, <1>8
  <2>2. \A s \in {"sent", "wait"} : s # "none" /\ Procedure("ask") = Procedure(s)
    BY DEF Procedure, Asking
  <2> QED
    BY Zenon, <1>5, <1>6, <1>8, <2>1, <2>2
<1>9. StageInv'
  <2>1. \A q \in Node : ~up'[q] => q \in died'
    BY <1>0, <1>1, <1>u DEF StageInv
  <2> QED
    BY ZenonT(30), <1>0, <1>3, <1>5, <1>8, <1>u, <2>1, StageFrame
<1>10. ASSUME NEW c \in Client, server[c] # n, NEW m \in Node \ {n}
       PROVE  /\ InUse(c)' <=> InUse(c)
              /\ Deferred(c, m)' => Deferred(c, m)
              /\ Passed(c, m)' => Passed(c, m)
  <2>1. /\ pc'[c] = pc[c] /\ calls'[c] = calls[c] /\ nodes'[server[c]] = nodes[server[c]]
    BY Zenon, <1>1, <1>10, <1>u, Bounds DEF Dies
  <2>2. Current(c) \in Call => At(Current(c)) = server[c]
    BY Bounds DEF At, Current
  <2>3. CASE Current(c) \in Call /\ WaitsFor(Current(c), n)
    <3>1. /\ thread[Current(c)] \in {"sent", "wait"}
          /\ thread'[Current(c)] = "ask" /\ next'[Current(c)] = next[Current(c)] + 1
          /\ nodes[server[c]][next[Current(c)]] # m
      BY Zenon, <1>5, <1>6, <1>10, <2>2, <2>3 DEF WaitsFor
    <3> QED
      BY Zenon, <1>0, <2>1, <2>3, <3>1, LoopNext
  <2>4. CASE ~(Current(c) \in Call /\ WaitsFor(Current(c), n))
    <3>1. Current(c) \in Call =>
            thread'[Current(c)] = thread[Current(c)] /\ next'[Current(c)] = next[Current(c)]
      BY Zenon, <1>5, <1>10, <2>2, <2>4
    <3> QED
      BY Zenon, <2>1, <3>1, LoopSame
  <2> QED
    BY Zenon, <2>3, <2>4
<1>11. OwnerInv'
  <2>1. ASSUME NEW j \in Call, thread'[j] = "mutex" PROVE listed'[At(j)]
    <3>1. At(j) # n /\ thread[j] = "mutex"
      BY <1>4, <1>5, <2>1
    <3> QED
      BY Zenon, <1>0, <1>5, <3>1 DEF OwnerInv
  <2>2. \A q \in Node : lock'[q] => listed'[q] /\ requesting_cs'[q]
    BY Zenon, <1>0, <1>1, <1>2 DEF OwnerInv
  <2>3. ASSUME NEW c \in Client, Spared(server[c])', InUse(c)'
        PROVE  InUse(c) /\ lock'[server[c]] = lock[server[c]]
    <3>1. server[c] # n /\ server[c] \in Node \ {n}
      BY Zenon, <1>3, <2>3, Bounds
    <3> QED
      BY Zenon, <1>1, <1>10, <2>3, <3>1
  <2> QED
    BY Zenon, <1>0, <1>3, <2>1, <2>2, <2>3, OwnerFrame
<1>12. TableInv'
  <2>1. \A q \in Node : nodes'[q] = nodes[q] \/ (nodes'[q] = <<>> /\ ~Spared(q)')
    BY Zenon, <1>1, <1>2, <1>3
  <2>2. \A c \in Client : Spared(server[c])' => pc'[c] = pc[c]
    BY Zenon, <1>3, Bounds DEF Dies
  <2> QED
    BY Zenon, <1>0, <1>3, <2>1, <2>2, TableFrame
<1>13. LoopInv'
  <2>1. ASSUME NEW j \in Call, thread'[j] \in Asking
        PROVE  next'[j] >= 1 /\ next'[j] <= Len(nodes'[At(j)]) + 1
    <3>1. At(j) # n
      BY <1>4, <2>1 DEF Asking
    <3>2. CASE WaitsFor(j, n)
      <4>1. next'[j] = next[j] + 1 /\ nodes'[At(j)] = nodes[At(j)]
        BY Zenon, <1>5, <3>1, <3>2
      <4> QED
        BY Zenon, <1>0, <1>6, <3>2, <4>1, NextPosition
    <3>3. CASE ~WaitsFor(j, n)
      BY Zenon, <1>0, <1>5, <2>1, <3>1, <3>3 DEF LoopInv
    <3> QED
      BY Zenon, <3>2, <3>3
  <2> QED
    BY Zenon, <2>1 DEF LoopInv
<1>14. RequestInv'
  <2>1. requests' \subseteq requests /\ requests \subseteq Request
    BY <1>0 DEF TypeOK, Dies
  <2>2. ASSUME NEW j \in Call, Spared(At(j))'
        PROVE  /\ thread[j] = "none" => thread'[j] = "none"
               /\ thread[j] \in Asking => thread'[j] \in Asking \cup {"none"}
    <3>1. At(j) # n
      BY Zenon, <1>3, <2>2, Calls
    <3>2. "ask" \in Asking /\ "none" \notin {"sent", "wait"}
      BY DEF Asking
    <3> QED
      BY Zenon, <1>5, <1>6, <3>1, <3>2
  <2> QED
    BY ZenonT(30), <1>0, <1>1, <1>3, <1>u, <2>1, <2>2, RequestFrame
<1>15. PermissionInv'
  <2>1. ASSUME NEW q \in Node, Spared(q)'
        PROVE  /\ Spared(q) /\ myseqno'[q] = myseqno[q]
               /\ highestseqno[q] <= highestseqno'[q]
    <3>1. /\ q # n /\ highestseqno[q] \in Int /\ highestseqno'[q] = highestseqno[q]
          /\ Spared(q) /\ myseqno'[q] = myseqno[q]
      BY Zenon, <1>0, <1>1, <1>3, <2>1, Typed
    <3> QED
      BY ONLY <3>1
  <2>2. ASSUME NEW c \in Client, NEW m \in Node \ {server[c]},
               Spared(server[c])', Spared(m)'
        PROVE  /\ Deferred(c, m)' => Deferred(c, m)
               /\ Passed(c, m)' => Passed(c, m)
               /\ lock'[m] = lock[m] /\ skipped' = skipped
    <3>1. server[c] # n /\ m \in Node \ {n} /\ m # n
      BY Zenon, <1>3, <2>2, Bounds
    <3> QED
      BY Zenon, <1>1, <1>10, <1>u, <3>1
  <2> QED
    BY Zenon, <1>0, <1>7, <2>1, <2>2, PermissionFrame
<1>16. FirstDeath'
  BY Zenon, <1>u DEF FirstDeath
<1> QED
  BY Zenon, <1>7, <1>9, <1>11, <1>12, <1>13, <1>14, <1>15, <1>16 DEF RInv

\* A step that leaves the LockVars, the tables and the servers alone.
LEMMA Kept ==
  ASSUME TypeOK, UNCHANGED <<nodes, lockvar, died>>, abandoned \subseteq abandoned'
  PROVE  /\ UNCHANGED <<listed, lock, requesting_cs, myseqno, highestseqno>>
         /\ \A n \in Node : Spared(n)' =>
              Spared(n) /\ myseqno'[n] = myseqno[n] /\ highestseqno[n] <= highestseqno'[n]
<1>1. UNCHANGED <<listed, lock, requesting_cs, myseqno, highestseqno>>
  BY Zenon DEF lockvar
<1>2. \A n \in Node : Spared(n)' => Spared(n)
  BY DEF Spared
<1>3. \A n \in Node : highestseqno[n] <= highestseqno[n]
  <2>1. \A k \in Int : k <= k
    OBVIOUS
  <2> QED
    BY Zenon, <2>1, Typed
<1> QED
  BY Zenon, <1>1, <1>2, <1>3

\* A server is started: only up and the count of starts change.
LEMMA StartStep ==
  ASSUME RInv, NEW n \in Node, Start(n)
  PROVE  RInv'
<1>0. /\ TypeOK /\ StageInv /\ OwnerInv /\ TableInv /\ LoopInv /\ RequestInv
      /\ PermissionInv /\ FirstDeath
  BY Zenon DEF RInv
<1>1. /\ UNCHANGED <<nodes, listed, lock, requesting_cs, myseqno, highestseqno>>
      /\ UNCHANGED <<pc, calls, thread, next, requests, died, abandoned, skipped,
                     crashes, timeouts>>
  BY Zenon DEF Start, lockvar, history
<1>2. \A q \in Node : Spared(q)' =>
        Spared(q) /\ myseqno'[q] = myseqno[q] /\ highestseqno[q] <= highestseqno'[q]
  BY Zenon, <1>0, <1>1, Kept DEF lockvar
<1>3. TypeOK'
  <2>1. up' \in [Node -> BOOLEAN] /\ starts' \in 0 .. MaxStarts
    BY <1>0, Bounds DEF TypeOK, Start
  <2> QED
    BY Zenon, <1>0, <1>1, <2>1 DEF TypeOK
<1>4. StageInv'
  <2>1. \A m \in Node : up[m] => up'[m]
    BY <1>0 DEF Start, TypeOK
  <2> QED
    BY Zenon, <1>0, <1>1, <2>1 DEF StageInv, Spared, Current
<1>5. OwnerInv'
  BY Zenon, <1>0, <1>1 DEF OwnerInv, Spared, InUse, Current
<1>6. TableInv'
  BY Zenon, <1>0, <1>1, <1>2, TableFrame
<1>7. LoopInv' /\ RequestInv' /\ FirstDeath'
  BY Zenon, <1>0, <1>1 DEF LoopInv, RequestInv, FirstDeath, Spared
<1>8. PermissionInv'
  <2>1. ASSUME NEW c \in Client, NEW m
        PROVE  (Passed(c, m)' <=> Passed(c, m)) /\ (Deferred(c, m)' <=> Deferred(c, m))
    BY Zenon, <1>1, LoopSame
  <2> QED
    BY Zenon, <1>0, <1>1, <1>3, <1>2, <2>1, PermissionFrame
<1> QED
  BY Zenon, <1>3, <1>4, <1>5, <1>6, <1>7, <1>8 DEF RInv

\* The procedure of a thread at work.
LEMMA Procedures ==
  ASSUME TypeOK
  PROVE  \A j \in Call : thread[j] # "none" =>
           Procedure(thread[j]) \in {"init", "acquire", "release"}
BY DEF TypeOK, Procedure, Asking

\* A client between two calls has no thread on a spared server.
LEMMA BetweenCalls ==
  ASSUME TypeOK, StageInv, NEW j \in Call, Spared(At(j)),
         pc[j[1]] \in {"start", "idle", "held", "exited"}
  PROVE  thread[j] = "none"
<1>1. thread[j] # "none" => pc[j[1]] \in {"init", "acquire", "release"}
  BY Zenon, Procedures DEF StageInv
<1> QED
  BY <1>1

\* create_client ends a client, or a client gives up its call.
LEMMA ClientSteps ==
  ASSUME RInv, NEW c \in Client, create_client_exits(c) \/ CallTimesOut(c)
  PROVE  RInv'
<1>0. /\ TypeOK /\ StageInv /\ OwnerInv /\ TableInv /\ LoopInv /\ RequestInv
      /\ PermissionInv /\ FirstDeath
  BY Zenon DEF RInv
<1>1. /\ UNCHANGED <<up, nodes, lockvar, calls, thread, next, requests, died, skipped,
                     crashes, starts>>
      /\ abandoned \subseteq abandoned'
  BY Zenon DEF create_client_exits, CallTimesOut, history, bounds
<1>2. \A d \in Client : d # c => pc'[d] = pc[d]
  BY <1>0 DEF TypeOK, create_client_exits, CallTimesOut
<1>3. \/ ~Spared(server[c])'
      \/ pc[c] \in {"start", "idle", "held"} /\ pc'[c] = "exited"
  <2>1. CASE create_client_exits(c)
    BY <1>0, <2>1 DEF TypeOK, create_client_exits
  <2>2. CASE CallTimesOut(c)
    BY <2>2 DEF CallTimesOut, Spared
  <2> QED
    BY Zenon, <2>1, <2>2
<1>4. /\ UNCHANGED <<listed, lock, requesting_cs, myseqno, highestseqno>>
      /\ \A n \in Node : Spared(n)' =>
           Spared(n) /\ myseqno'[n] = myseqno[n] /\ highestseqno[n] <= highestseqno'[n]
  BY Zenon, <1>0, <1>1, Kept
<1>5. TypeOK'
  <2>1. pc' \in [Client -> {"start", "init", "idle", "acquire", "held", "release", "exited"}]
    BY <1>0 DEF TypeOK, create_client_exits, CallTimesOut, Returned
  <2>2. abandoned' \subseteq Node /\ timeouts' \in 0 .. MaxTimeouts
    <3>1. CASE create_client_exits(c)
      BY Zenon, <1>0, <3>1 DEF TypeOK, create_client_exits, history, bounds
    <3>2. CASE CallTimesOut(c)
      <4>1. /\ timeouts \in 0 .. MaxTimeouts /\ timeouts < MaxTimeouts
            /\ timeouts' = timeouts + 1 /\ MaxTimeouts \in Nat
            /\ abandoned \subseteq Node /\ abandoned' = abandoned \cup {server[c]}
            /\ server[c] \in Node
        BY Zenon, <1>0, <3>2, Bounds DEF TypeOK, CallTimesOut
      <4> QED
        BY ONLY <4>1
    <3> QED
      BY Zenon, <3>1, <3>2
  <2> QED
    BY Zenon, <1>0, <1>1, <1>4, <2>1, <2>2 DEF TypeOK
<1>6. StageInv'
  <2>1. ASSUME NEW j \in Call, Spared(At(j))', thread'[j] # "none"
        PROVE  pc'[j[1]] = pc[j[1]]
    <3>1. Spared(At(j)) /\ thread[j] # "none" /\ j[1] \in Client /\ At(j) = server[j[1]]
      BY Zenon, <1>1, <1>4, <2>1, Calls
    <3>2. pc[j[1]] \notin {"start", "idle", "held"}
      BY <1>0, <3>1, BetweenCalls
    <3> QED
      BY Zenon, <1>2, <1>3, <2>1, <3>1, <3>2
  <2>2. \A n \in Node : ~up'[n] => n \in died'
    BY Zenon, <1>0, <1>1 DEF StageInv
  <2> QED
    BY Zenon, <1>0, <1>1, <1>4, <2>1, <2>2, StageFrame
<1>7. ASSUME NEW d \in Client, NEW m, Spared(server[d])'
      PROVE  /\ InUse(d)' => InUse(d)
             /\ Passed(d, m)' => Passed(d, m)
             /\ Deferred(d, m)' => Deferred(d, m)
  <2>1. CASE d = c
    <3>1. pc'[c] = "exited"
      BY Zenon, <1>3, <1>7, <2>1
    <3> QED
      BY <2>1, <3>1 DEF InUse, Passed, Deferred
  <2>2. CASE d # c
    BY Zenon, <1>1, <1>2, <2>2, LoopSame
  <2> QED
    BY Zenon, <2>1, <2>2
<1>8. OwnerInv'
  <2>1. /\ \A j \in Call : thread'[j] = "mutex" => listed'[At(j)]
        /\ \A n \in Node : lock'[n] => listed'[n] /\ requesting_cs'[n]
    BY Zenon, <1>0, <1>1, <1>4 DEF OwnerInv
  <2> QED
    BY Zenon, <1>0, <1>4, <1>7, <2>1, OwnerFrame
<1>9. TableInv'
  <2>1. \A d \in Client :
          Spared(server[d])' /\ pc'[d] \notin {"start", "init", "exited"} => pc'[d] = pc[d]
    BY Zenon, <1>2, <1>3
  <2> QED
    BY Zenon, <1>0, <1>1, <1>4, <2>1, TableFrame
<1>10. LoopInv'
  BY Zenon, <1>0, <1>1 DEF LoopInv
<1>11. RequestInv'
  <2>1. requests \subseteq Request /\ requests' \subseteq requests
    BY <1>0, <1>1 DEF TypeOK
  <2>2. \A j \in Call : thread[j] \in Asking => thread'[j] \in Asking \cup {"none"}
    BY Zenon, <1>1
  <2> QED
    BY Zenon, <1>0, <1>1, <1>4, <2>1, <2>2, RequestFrame
<1>12. PermissionInv'
  BY Zenon, <1>0, <1>1, <1>4, <1>5, <1>7, PermissionFrame
<1>13. FirstDeath'
  <2>1. abandoned' = {} => abandoned = {}
    BY <1>1
  <2> QED
    BY Zenon, <1>0, <1>1, <2>1 DEF FirstDeath
<1> QED
  BY Zenon, <1>5, <1>6, <1>8, <1>9, <1>10, <1>11, <1>12, <1>13 DEF RInv

\* A client begins a call.  Only a release needs the mutex, and its client holds
\* it already.
LEMMA BeginStep ==
  ASSUME RInv, NEW c \in Client,
         psu_init_lock_mgr(c) \/ psu_acquire_lock(c) \/ psu_release_lock(c)
  PROVE  RInv'
<1>0. /\ TypeOK /\ StageInv /\ OwnerInv /\ TableInv /\ LoopInv /\ RequestInv
      /\ PermissionInv /\ FirstDeath
  BY Zenon DEF RInv
<1>1. PICK p \in {"init", "acquire", "release"} :
        /\ Begin(c, p)
        /\ \/ pc[c] = "start" /\ p = "init"
           \/ pc[c] = "idle" /\ p = "acquire"
           \/ pc[c] = "held" /\ p = "release"
  BY DEF psu_init_lock_mgr, psu_acquire_lock, psu_release_lock
<1> DEFINE j == <<c, calls[c] + 1>>
<1>2. /\ UNCHANGED <<up, nodes, lockvar, next, requests, died, abandoned, skipped,
                     crashes, starts, timeouts>>
      /\ abandoned \subseteq abandoned'
  BY Zenon, <1>1 DEF Begin, history, bounds
<1>3. j \in Call /\ j[1] = c /\ j[2] = calls[c] + 1 /\ calls[c] + 1 <= MaxCalls[c]
      /\ calls[c] + 1 \in Nat
  <2>1. calls[c] \in Nat /\ MaxCalls[c] \in Nat /\ calls[c] < MaxCalls[c]
    BY <1>0, <1>1, Bounds DEF TypeOK, Begin
  <2>2. /\ calls[c] + 1 \in 1 .. MaxCalls[c] /\ calls[c] + 1 <= MaxCalls[c]
        /\ calls[c] + 1 \in Nat
    BY ONLY <2>1
  <2> QED
    BY Zenon, <2>2, Calls
<1>4. /\ pc' = [pc EXCEPT ![c] = p] /\ calls' = [calls EXCEPT ![c] = calls[c] + 1]
      /\ thread' = [thread EXCEPT ![j] = p]
  BY Zenon, <1>1 DEF Begin
<1>5. /\ pc \in [Client -> {"start", "init", "idle", "acquire", "held", "release", "exited"}]
      /\ calls \in [Client -> Nat] /\ \A d \in Client : calls[d] <= MaxCalls[d]
      /\ thread \in [Call -> {"none", "init", "acquire", "mutex", "ask", "sent", "wait",
                              "release"}]
  BY Zenon, <1>0 DEF TypeOK
<1>6. /\ pc'[c] = p /\ calls'[c] = calls[c] + 1 /\ thread'[j] = p
      /\ \A d \in Client : d # c => pc'[d] = pc[d] /\ calls'[d] = calls[d]
      /\ \A i \in Call : i # j => thread'[i] = thread[i]
  BY ONLY <1>3, <1>4, <1>5, c \in Client
<1>7. /\ UNCHANGED <<listed, lock, requesting_cs, myseqno, highestseqno>>
      /\ \A n \in Node : Spared(n)' =>
           Spared(n) /\ myseqno'[n] = myseqno[n] /\ highestseqno[n] <= highestseqno'[n]
  BY Zenon, <1>0, <1>2, Kept
<1>8. p \notin Asking /\ p \notin {"mutex", "sent", "wait", "none"} /\ Procedure(p) = p
  BY <1>1 DEF Asking, Procedure
<1>9. TypeOK'
  <2>1. /\ pc' \in [Client -> {"start", "init", "idle", "acquire", "held", "release", "exited"}]
        /\ calls' \in [Client -> Nat]
        /\ thread' \in [Call -> {"none", "init", "acquire", "mutex", "ask", "sent", "wait",
                                 "release"}]
    BY ONLY <1>1, <1>3, <1>4, <1>5
  <2>2. \A d \in Client : calls'[d] <= MaxCalls[d]
    BY Zenon, <1>3, <1>5, <1>6
  <2>3. \A i \in Call : thread'[i] \in {"sent", "wait"} =>
          next'[i] \in DOMAIN nodes'[At(i)]
    BY Zenon, <1>0, <1>2, <1>6, <1>8 DEF TypeOK
  <2> QED
    BY Zenon, <1>0, <1>2, <1>7, <2>1, <2>2, <2>3 DEF TypeOK
<1>10. ASSUME NEW i \in Call, Spared(At(i)), i[1] = c PROVE thread[i] = "none"
  <2>1. pc[i[1]] \in {"start", "idle", "held", "exited"}
    BY <1>1, <1>10
  <2> QED
    BY Zenon, <1>0, <1>10, <2>1, BetweenCalls
<1>11. StageInv'
  <2>1. ASSUME NEW i \in Call, Spared(At(i))', thread'[i] # "none"
        PROVE  i = Current(i[1])' /\ pc'[i[1]] = Procedure(thread'[i])
    <3>1. CASE i = j
      <4>1. Current(c)' = j
        BY Zenon, <1>6 DEF Current
      <4> QED
        BY Zenon, <1>3, <1>6, <1>8, <3>1, <4>1
    <3>2. CASE i # j
      <4>1. Spared(At(i)) /\ thread'[i] = thread[i] /\ i[1] # c /\ i[1] \in Client
        BY Zenon, <1>6, <1>7, <1>10, <2>1, <3>2, Calls
      <4>2. i = Current(i[1]) /\ pc[i[1]] = Procedure(thread[i])
        BY Zenon, <1>0, <2>1, <4>1 DEF StageInv
      <4>3. Current(i[1])' = Current(i[1]) /\ pc'[i[1]] = pc[i[1]]
        BY Zenon, <1>6, <4>1 DEF Current
      <4> QED
        BY Zenon, <4>1, <4>2, <4>3
    <3> QED
      BY Zenon, <3>1, <3>2
  <2>2. \A n \in Node : ~up'[n] => n \in died'
    BY Zenon, <1>0, <1>2 DEF StageInv
  <2> QED
    BY Zenon, <2>1, <2>2 DEF StageInv
<1>12. Current(c)' = j
  BY Zenon, <1>6 DEF Current
<1>13. ASSUME NEW d \in Client, NEW m
       PROVE  /\ InUse(d)' => InUse(d)
              /\ Passed(d, m)' => Passed(d, m)
              /\ Deferred(d, m)' => Deferred(d, m)
  <2>1. CASE d = c
    <3>1. ~Passed(c, m)' /\ ~Deferred(c, m)'
      BY <1>1, <1>6, <1>8, <1>12 DEF Passed, Deferred
    <3>2. InUse(c)' => InUse(c)
      BY <1>1, <1>6, <1>8, <1>12 DEF InUse
    <3> QED
      BY Zenon, <2>1, <3>1, <3>2
  <2>2. CASE d # c
    <3>1. Current(d) \in Call => thread'[Current(d)] = thread[Current(d)]
      <4>1. Current(d) # j
        BY <2>2 DEF Current
      <4> QED
        BY Zenon, <1>6, <4>1
    <3> QED
      BY Zenon, <1>2, <1>6, <2>2, <3>1, LoopSame
  <2> QED
    BY Zenon, <2>1, <2>2
<1>14. OwnerInv'
  <2>1. \A i \in Call : thread'[i] = "mutex" => thread[i] = "mutex"
    BY Zenon, <1>6, <1>8
  <2>2. /\ \A i \in Call : thread'[i] = "mutex" => listed'[At(i)]
        /\ \A n \in Node : lock'[n] => listed'[n] /\ requesting_cs'[n]
    BY Zenon, <1>0, <1>7, <2>1 DEF OwnerInv
  <2> QED
    BY Zenon, <1>0, <1>7, <1>13, <2>2, OwnerFrame
<1>15. TableInv'
  <2>1. pc'[c] \notin {"start", "init", "exited"} => pc[c] \notin {"start", "init", "exited"}
    BY <1>1, <1>6
  <2> QED
    BY Zenon, <1>0, <1>2, <1>6, <1>7, <2>1, TableFrame
<1>16. LoopInv'
  BY Zenon, <1>0, <1>2, <1>6, <1>8 DEF LoopInv
<1>17. RequestInv'
  <2> SUFFICES ASSUME NEW r \in requests', Spared(At(r.call))'
               PROVE  /\ r.call[2] <= calls'[r.call[1]]
                      /\ thread'[r.call] \in Asking \cup {"none"}
                      /\ thread'[r.call] \in Asking =>
                           /\ r.seqno = myseqno'[At(r.call)]
                           /\ r.index \in DOMAIN nodes'[At(r.call)]
                           /\ r.to = nodes'[At(r.call)][r.index]
    BY Zenon DEF RequestInv
  <2>1. r \in requests /\ r.call \in Call /\ At(r.call) \in Node
    BY <1>0, <1>2, Calls DEF TypeOK, Request
  <2>2. /\ r.call[2] <= calls[r.call[1]]
        /\ thread[r.call] \in Asking \cup {"none"}
        /\ thread[r.call] \in Asking =>
             /\ r.seqno = myseqno[At(r.call)] /\ r.index \in DOMAIN nodes[At(r.call)]
             /\ r.to = nodes[At(r.call)][r.index]
    BY Zenon, <1>0, <1>7, <2>1 DEF RequestInv
  <2>3. r.call # j
    <3>1. calls[c] \in Nat
      BY Zenon, <1>0, Typed
    <3>2. ~(calls[c] + 1 <= calls[c])
      BY ONLY <3>1
    <3> QED
      BY Zenon, <1>3, <2>2, <3>2
  <2>4. r.call[2] <= calls'[r.call[1]]
    <3>1. CASE r.call[1] = c
      <4>1. /\ r.call[2] \in Int /\ calls[c] \in Nat /\ r.call[2] <= calls[c]
            /\ calls'[c] = calls[c] + 1
        BY <1>0, <1>6, <2>1, <2>2, <3>1, Typed, Calls, Bounds
      <4>2. r.call[2] <= calls'[c]
        BY ONLY <4>1
      <4> QED
        BY Zenon, <3>1, <4>2
    <3>2. CASE r.call[1] # c
      BY Zenon, <1>6, <2>1, <2>2, <3>2, Calls
    <3> QED
      BY Zenon, <3>1, <3>2
  <2> QED
    BY Zenon, <1>2, <1>6, <1>7, <2>1, <2>2, <2>3, <2>4
<1>18. PermissionInv'
  BY Zenon, <1>0, <1>2, <1>7, <1>9, <1>13, PermissionFrame
<1>19. FirstDeath'
  BY Zenon, <1>0, <1>2 DEF FirstDeath
<1> QED
  BY Zenon, <1>9, <1>11, <1>14, <1>15, <1>16, <1>17, <1>18, <1>19 DEF RInv

\* The call of another client.
LEMMA OtherCall ==
  ASSUME NEW j \in Call, NEW d \in Client, d # j[1]
  PROVE  Current(d) # j /\ Current(d)' # j
<1>1. j = <<j[1], j[2]>>
  BY Zenon, Calls
<1> QED
  BY <1>1 DEF Current

\* The current call of a client is served by its server.
LEMMA CurrentCall == \A c \in Client : Current(c) \in Call => At(Current(c)) = server[c]
BY Bounds DEF At, Current

\* The reply of a thread reaches the client, which waits for it if the server
\* is spared.
LEMMA Replied ==
  ASSUME TypeOK, StageInv, NEW j \in Call, thread[j] # "none", Reply(j)
  PROVE  /\ pc' \in [Client -> {"start", "init", "idle", "acquire", "held", "release",
                                "exited"}]
         /\ \A d \in Client : d # j[1] => pc'[d] = pc[d]
         /\ Spared(At(j)) => /\ j = Current(j[1]) /\ pc[j[1]] = Procedure(thread[j])
                             /\ pc'[j[1]] = Returned(j[1])
<1>1. /\ pc \in [Client -> {"start", "init", "idle", "acquire", "held", "release", "exited"}]
      /\ j[1] \in Client
  BY Zenon, Calls DEF TypeOK
<1>2. Returned(j[1]) \in {"start", "init", "idle", "acquire", "held", "release", "exited"}
  BY <1>1 DEF Returned
<1>3. /\ pc' \in [Client -> {"start", "init", "idle", "acquire", "held", "release", "exited"}]
      /\ \A d \in Client : d # j[1] => pc'[d] = pc[d]
      /\ calls[j[1]] = j[2] => pc'[j[1]] = Returned(j[1])
  BY <1>1, <1>2 DEF Reply
<1>4. Spared(At(j)) => j = Current(j[1]) /\ pc[j[1]] = Procedure(thread[j])
  BY Zenon DEF StageInv
<1>5. j = Current(j[1]) => calls[j[1]] = j[2]
  <2>1. j = <<j[1], j[2]>>
    BY Zenon, Calls
  <2> QED
    BY <2>1 DEF Current
<1> QED
  BY Zenon, <1>3, <1>4, <1>5

\* A thread ends with its reply, and others move on within their procedures.
LEMMA RepliedStage ==
  ASSUME TypeOK, StageInv, NEW j \in Call, thread[j] # "none", Reply(j),
         UNCHANGED <<up, died, calls>>, thread'[j] = "none",
         \A n \in Node : Spared(n)' => Spared(n),
         \A i \in Call : thread'[i] # "none" =>
           thread[i] # "none" /\ Procedure(thread'[i]) = Procedure(thread[i])
  PROVE  StageInv'
<1>1. ASSUME NEW i \in Call, Spared(At(i))', thread'[i] # "none"
      PROVE  pc'[i[1]] = pc[i[1]]
  <2>1. i # j /\ thread[i] # "none" /\ Spared(At(i)) /\ i[1] \in Client
    BY Zenon, <1>1, Calls
  <2>2. i = Current(i[1])
    BY Zenon, <2>1 DEF StageInv
  <2>3. i[1] # j[1]
    <3>1. CASE i[1] = j[1]
      <4>1. Spared(At(j))
        BY Zenon, <2>1, <3>1 DEF At
      <4>2. j = Current(j[1])
        BY Zenon, <4>1 DEF StageInv
      <4> QED
        BY Zenon, <2>1, <2>2, <3>1, <4>2
    <3> QED
      BY Zenon, <3>1
  <2> QED
    BY Zenon, <2>1, <2>3, Replied
<1>2. \A n \in Node : ~up'[n] => n \in died'
  BY Zenon DEF StageInv
<1> QED
  BY Zenon, <1>1, <1>2, StageFrame

\* What an append leaves where it was, and what it adds.
LEMMA Appended ==
  ASSUME NEW S, NEW s \in Seq(S), NEW t \in Seq(S)
  PROVE  /\ s \o t \in Seq(S) /\ Len(s) <= Len(s \o t)
         /\ \A i \in DOMAIN s : i \in DOMAIN (s \o t) /\ (s \o t)[i] = s[i]
         /\ \A j \in DOMAIN t : Len(s) + j \in DOMAIN (s \o t) /\ (s \o t)[Len(s) + j] = t[j]
         /\ \A i \in DOMAIN (s \o t) : i \in DOMAIN s \/ \E j \in DOMAIN t : i = Len(s) + j
<1>1. s \o t \in Seq(S) /\ Len(s \o t) = Len(s) + Len(t)
  OBVIOUS
<1>2. Len(s) \in Nat /\ Len(t) \in Nat
  OBVIOUS
<1>3. DOMAIN s = 1 .. Len(s) /\ DOMAIN t = 1 .. Len(t) /\ DOMAIN (s \o t) = 1 .. Len(s) + Len(t)
  BY <1>1
<1>4. \A i \in 1 .. Len(s) : i \in 1 .. Len(s) + Len(t) /\ (s \o t)[i] = s[i]
  BY <1>2
<1>5. \A j \in 1 .. Len(t) : Len(s) + j \in 1 .. Len(s) + Len(t) /\ (s \o t)[Len(s) + j] = t[j]
  BY <1>2
<1>6. \A i \in 1 .. Len(s) + Len(t) : i \in 1 .. Len(s) \/ \E j \in 1 .. Len(t) : i = Len(s) + j
  <2>1. \A i \in 1 .. Len(s) + Len(t) : i \in 1 .. Len(s) \/ i - Len(s) \in 1 .. Len(t)
    BY ONLY <1>2
  <2>2. \A i \in 1 .. Len(s) + Len(t) : i = Len(s) + (i - Len(s))
    BY ONLY <1>2
  <2> QED
    BY Zenon, <2>1, <2>2
<1>7. Len(s) <= Len(s \o t)
  BY ONLY <1>1, <1>2
<1> QED
  BY Zenon, <1>1, <1>3, <1>4, <1>5, <1>6, <1>7

\* init_lock_mgr: the table grows at its end, so no request loop loses its place.
LEMMA InitStep ==
  ASSUME RInv, NEW j \in Call, init_lock_mgr(j)
  PROVE  RInv'
<1> DEFINE n == At(j)
<1> DEFINE T == others[n]
<1>0. /\ TypeOK /\ StageInv /\ OwnerInv /\ TableInv /\ LoopInv /\ RequestInv
      /\ PermissionInv /\ FirstDeath
  BY Zenon DEF RInv
<1>1. /\ UNCHANGED <<up, listed, lock, requesting_cs, myseqno, highestseqno>>
      /\ UNCHANGED <<calls, next, requests, died, abandoned, skipped>>
      /\ UNCHANGED <<crashes, starts, timeouts>>
  BY Zenon DEF init_lock_mgr, lockvar, history, bounds
<1>2. n \in Node /\ nodes[n] \in Seq(Node) /\ j[1] \in Client /\ n = server[j[1]]
  BY Zenon, <1>0, Typed, Calls
<1>3. /\ nodes'[n] = nodes[n] \o T
      /\ \A q \in Node : q # n => nodes'[q] = nodes[q]
      /\ DOMAIN nodes' = Node /\ nodes' = [q \in Node |-> nodes'[q]]
  <2>1. nodes' = [nodes EXCEPT ![n] = nodes[n] \o T] /\ nodes \in [Node -> Seq(Node)]
    BY Zenon, <1>0 DEF init_lock_mgr, TypeOK
  <2> QED
    BY <1>2, <2>1
<1>4. /\ thread[j] = "init" /\ thread'[j] = "none"
      /\ \A i \in Call : i # j => thread'[i] = thread[i]
      /\ thread' \in [Call -> {"none", "init", "acquire", "mutex", "ask", "sent", "wait",
                               "release"}]
  <2>1. /\ thread' = [thread EXCEPT ![j] = "none"] /\ thread[j] = "init"
        /\ thread \in [Call -> {"none", "init", "acquire", "mutex", "ask", "sent", "wait",
                                "release"}]
    BY Zenon, <1>0 DEF init_lock_mgr, TypeOK
  <2> QED
    BY ONLY <2>1, j \in Call
<1>5. /\ T \in Seq(Node) /\ \A i \in DOMAIN T : T[i] # n
      /\ \A m \in Node \ {n} : \E i \in DOMAIN T : T[i] = m
  BY Zenon, <1>2, Others
<1>6. \A q \in Node : /\ Spared(q)' => Spared(q)
                      /\ myseqno'[q] = myseqno[q] /\ highestseqno[q] <= highestseqno'[q]
  <2>1. \A k \in Int : k <= k
    OBVIOUS
  <2> QED
    BY Zenon, <1>0, <1>1, <2>1, Typed DEF Spared
<1>7. /\ pc' \in [Client -> {"start", "init", "idle", "acquire", "held", "release", "exited"}]
      /\ \A d \in Client : d # j[1] => pc'[d] = pc[d]
      /\ Spared(n) => pc'[j[1]] = "idle"
  <2>1. Reply(j) /\ thread[j] # "none"
    BY <1>4 DEF init_lock_mgr
  <2>2. Procedure("init") = "init"
    BY DEF Procedure, Asking
  <2>3. pc[j[1]] = "init" => Returned(j[1]) = "idle"
    BY DEF Returned
  <2> QED
    BY Zenon, <1>0, <1>4, <2>1, <2>2, <2>3, Replied
<1> HIDE DEF n, T
<1>8. /\ nodes'[n] \in Seq(Node) /\ Len(nodes[n]) <= Len(nodes'[n])
      /\ \A i \in DOMAIN nodes[n] : i \in DOMAIN nodes'[n] /\ nodes'[n][i] = nodes[n][i]
      /\ \A k \in DOMAIN T :
           Len(nodes[n]) + k \in DOMAIN nodes'[n] /\ nodes'[n][Len(nodes[n]) + k] = T[k]
      /\ \A i \in DOMAIN nodes'[n] :
           i \in DOMAIN nodes[n] \/ \E k \in DOMAIN T : i = Len(nodes[n]) + k
  <2>1. nodes[n] \in Seq(Node) /\ T \in Seq(Node)
    BY Zenon, <1>2, <1>5
  <2> DEFINE s == nodes[n]
  <2> DEFINE u == s \o T
  <2>2. /\ u \in Seq(Node) /\ Len(s) <= Len(u)
        /\ \A i \in DOMAIN s : i \in DOMAIN u /\ u[i] = s[i]
        /\ \A k \in DOMAIN T : Len(s) + k \in DOMAIN u /\ u[Len(s) + k] = T[k]
        /\ \A i \in DOMAIN u : i \in DOMAIN s \/ \E k \in DOMAIN T : i = Len(s) + k
    BY <2>1, Appended
  <2>3. nodes'[n] = u
    BY Zenon, <1>3
  <2> HIDE DEF u
  <2> QED
    BY Zenon, <2>2, <2>3
<1>9. ASSUME NEW q \in Node
      PROVE  /\ nodes'[q] \in Seq(Node) /\ Len(nodes[q]) <= Len(nodes'[q])
             /\ \A i \in DOMAIN nodes[q] : i \in DOMAIN nodes'[q] /\ nodes'[q][i] = nodes[q][i]
  <2>1. CASE q = n
    BY Zenon, <1>8, <2>1
  <2>2. CASE q # n
    <3>1. nodes'[q] = nodes[q] /\ nodes[q] \in Seq(Node) /\ Len(nodes[q]) \in Nat
      BY Zenon, <1>0, <1>3, <2>2, Typed
    <3>2. \A k \in Nat : k <= k
      OBVIOUS
    <3> QED
      BY Zenon, <3>1, <3>2
  <2> QED
    BY Zenon, <2>1, <2>2
<1>10. TypeOK'
  <2>1. nodes' \in [Node -> Seq(Node)]
    BY <1>3, <1>9
  <2>2. \A i \in Call : thread'[i] \in {"sent", "wait"} => next'[i] \in DOMAIN nodes'[At(i)]
    <3>1. \A i \in Call : thread'[i] \in {"sent", "wait"} => thread'[i] = thread[i]
      BY <1>4
    <3> QED
      BY Zenon, <1>0, <1>1, <1>9, <3>1, Calls DEF TypeOK
  <2> QED
    BY Zenon, <1>0, <1>1, <1>4, <1>7, <2>1, <2>2 DEF TypeOK
<1>11. StageInv'
  <2>1. Reply(j) /\ thread[j] # "none"
    BY <1>4 DEF init_lock_mgr
  <2> QED
    BY Zenon, <1>0, <1>1, <1>4, <1>6, <2>1, RepliedStage
<1>12. ASSUME NEW d \in Client, Spared(server[d])'
       PROVE  /\ pc'[d] \in {"held", "release", "acquire"} =>
                   /\ pc'[d] = pc[d] /\ Current(d)' = Current(d)
                   /\ Current(d) \in Call => thread'[Current(d)] = thread[Current(d)]
              /\ InUse(d)' => InUse(d)
  <2>1. d = j[1] => pc'[d] = "idle"
    BY Zenon, <1>2, <1>6, <1>7, <1>12
  <2>2. d # j[1] => pc'[d] = pc[d] /\ Current(d) # j
    BY Zenon, <1>7, OtherCall
  <2>3. Current(d)' = Current(d)
    BY Zenon, <1>1 DEF Current
  <2>4. "idle" \notin {"held", "release", "acquire"}
    OBVIOUS
  <2>5. pc'[d] \in {"held", "release", "acquire"} =>
          /\ pc'[d] = pc[d] /\ Current(d)' = Current(d)
          /\ Current(d) \in Call => thread'[Current(d)] = thread[Current(d)]
    BY Zenon, <1>4, <2>1, <2>2, <2>3, <2>4
  <2>6. InUse(d)' => pc'[d] \in {"held", "release", "acquire"}
    BY Zenon DEF InUse
  <2>7. InUse(d)' => InUse(d)
    BY Zenon, <2>5, <2>6 DEF InUse
  <2> QED
    BY Zenon, <2>5, <2>7
<1>13. OwnerInv'
  <2>1. \A i \in Call : thread'[i] = "mutex" => thread[i] = "mutex"
    BY <1>4
  <2>2. /\ \A i \in Call : thread'[i] = "mutex" => listed'[At(i)]
        /\ \A q \in Node : lock'[q] => listed'[q] /\ requesting_cs'[q]
    BY Zenon, <1>0, <1>1, <2>1 DEF OwnerInv
  <2> QED
    BY Zenon, <1>0, <1>1, <1>6, <1>12, <2>2, OwnerFrame
<1>14. TableInv'
  <2>1. ASSUME NEW q \in Node, NEW i \in DOMAIN nodes'[q]
        PROVE  nodes'[q][i] # q
    <3>1. CASE q # n
      BY Zenon, <1>0, <1>3, <2>1, <3>1 DEF TableInv
    <3>2. CASE q = n /\ i \in DOMAIN nodes[n]
      <4>1. nodes[n][i] # n
        BY Zenon, <1>0, <1>2, <3>2 DEF TableInv
      <4> QED
        BY Zenon, <1>8, <3>2, <4>1
    <3>3. CASE q = n /\ i \notin DOMAIN nodes[n]
      <4>1. PICK k \in DOMAIN T : i = Len(nodes[n]) + k
        BY Zenon, <1>8, <2>1, <3>3
      <4>2. nodes'[n][i] = T[k]
        BY Zenon, <1>8, <4>1
      <4> QED
        BY Zenon, <1>5, <3>3, <4>2
    <3> QED
      BY Zenon, <3>1, <3>2, <3>3
  <2>2. ASSUME NEW d \in Client, Spared(server[d])',
               pc'[d] \notin {"start", "init", "exited"}, NEW m \in Node \ {server[d]}
        PROVE  \E i \in DOMAIN nodes'[server[d]] : nodes'[server[d]][i] = m
    <3>1. CASE server[d] = n
      <4>1. PICK k \in DOMAIN T : T[k] = m
        BY Zenon, <1>5, <2>2, <3>1
      <4>2. /\ Len(nodes[n]) + k \in DOMAIN nodes'[n]
            /\ nodes'[n][Len(nodes[n]) + k] = m
        BY Zenon, <1>8, <4>1
      <4> QED
        BY Zenon, <3>1, <4>2
    <3>2. CASE server[d] # n
      <4>1. d # j[1] /\ Spared(server[d]) /\ server[d] \in Node
        BY Zenon, <1>2, <1>6, <2>2, <3>2, Bounds
      <4>2. pc[d] \notin {"start", "init", "exited"}
        BY Zenon, <1>7, <2>2, <4>1
      <4>3. \E i \in DOMAIN nodes[server[d]] : nodes[server[d]][i] = m
        BY Zenon, <1>0, <4>1, <4>2 DEF TableInv
      <4> QED
        BY Zenon, <1>9, <4>1, <4>3
    <3> QED
      BY Zenon, <3>1, <3>2
  <2> QED
    BY Zenon, <2>1, <2>2 DEF TableInv
<1>15. LoopInv'
  <2>1. ASSUME NEW i \in Call, thread'[i] \in Asking
        PROVE  next'[i] >= 1 /\ next'[i] <= Len(nodes'[At(i)]) + 1
    <3>1. thread[i] \in Asking
      BY <1>4, <2>1 DEF Asking
    <3>2. next'[i] = next[i] /\ next[i] \in Nat /\ At(i) \in Node
      BY Zenon, <1>0, <1>1, Typed, Calls
    <3>3. next[i] >= 1 /\ next[i] <= Len(nodes[At(i)]) + 1
      BY Zenon, <1>0, <3>1 DEF LoopInv
    <3>4. /\ Len(nodes[At(i)]) \in Nat /\ Len(nodes'[At(i)]) \in Nat
          /\ Len(nodes[At(i)]) <= Len(nodes'[At(i)])
      BY Zenon, <1>0, <1>9, <3>2, Typed, Tables
    <3> QED
      BY ONLY <3>2, <3>3, <3>4
  <2> QED
    BY Zenon, <2>1 DEF LoopInv
<1>16. RequestInv'
  <2> SUFFICES ASSUME NEW r \in requests', Spared(At(r.call))'
               PROVE  /\ r.call[2] <= calls'[r.call[1]]
                      /\ thread'[r.call] \in Asking \cup {"none"}
                      /\ thread'[r.call] \in Asking =>
                           /\ r.seqno = myseqno'[At(r.call)]
                           /\ r.index \in DOMAIN nodes'[At(r.call)]
                           /\ r.to = nodes'[At(r.call)][r.index]
    BY Zenon DEF RequestInv
  <2>1. r \in requests /\ r.call \in Call /\ At(r.call) \in Node
    BY <1>0, <1>1, Calls DEF TypeOK, Request
  <2>2. /\ r.call[2] <= calls[r.call[1]]
        /\ thread[r.call] \in Asking \cup {"none"}
        /\ thread[r.call] \in Asking =>
             /\ r.seqno = myseqno[At(r.call)] /\ r.index \in DOMAIN nodes[At(r.call)]
             /\ r.to = nodes[At(r.call)][r.index]
    BY Zenon, <1>0, <1>6, <2>1 DEF RequestInv
  <2>3. "none" \notin Asking
    BY DEF Asking
  <2> QED
    BY Zenon, <1>1, <1>4, <1>9, <2>1, <2>2, <2>3
<1>17. PermissionInv'
  <2>1. ASSUME NEW d \in Client, NEW m \in Node \ {server[d]}, Spared(server[d])'
        PROVE  /\ Deferred(d, m)' => Deferred(d, m)
               /\ Passed(d, m)' => Passed(d, m)
    <3>1. server[d] \in Node /\ next' = next
      BY Zenon, <1>1, Bounds
    <3>2. pc'[d] \in {"held", "acquire"} =>
            /\ pc'[d] = pc[d] /\ Current(d)' = Current(d)
            /\ Current(d) \in Call => thread'[Current(d)] = thread[Current(d)]
      BY Zenon, <1>12, <2>1
    <3>3. Deferred(d, m)' => Deferred(d, m)
      <4>1. SUFFICES ASSUME Deferred(d, m)' PROVE Deferred(d, m)
        OBVIOUS
      <4>2. /\ pc[d] = "acquire" /\ Current(d) \in Call /\ thread[Current(d)] = "wait"
            /\ nodes'[server[d]][next[Current(d)]] = m
        BY Zenon, <3>1, <3>2, <4>1, CurrentCall DEF Deferred, WaitsFor
      <4>3. next[Current(d)] \in DOMAIN nodes[server[d]]
        BY Zenon, <1>0, <4>2, CurrentCall DEF TypeOK
      <4> QED
        BY Zenon, <1>9, <3>1, <4>2, <4>3, CurrentCall DEF Deferred, WaitsFor
    <3>4. ASSUME Current(d) \in Call, thread[Current(d)] \in Asking,
                 NEW i \in DOMAIN nodes'[server[d]], i < next[Current(d)]
          PROVE  i \in DOMAIN nodes[server[d]]
      <4>1. DOMAIN nodes[server[d]] = 1 .. Len(nodes[server[d]])
            /\ Len(nodes[server[d]]) \in Nat
        BY Zenon, <1>0, <3>1, Typed
      <4>2. DOMAIN nodes'[server[d]] = 1 .. Len(nodes'[server[d]])
            /\ Len(nodes'[server[d]]) \in Nat
        BY Zenon, <1>9, <3>1, Tables
      <4>3. next[Current(d)] <= Len(nodes[server[d]]) + 1 /\ next[Current(d)] \in Nat
        BY Zenon, <1>0, <3>4, Typed, CurrentCall DEF LoopInv
      <4> QED
        BY ONLY <3>4, <4>1, <4>2, <4>3
    <3>5. Passed(d, m)' => Passed(d, m)
      <4>1. CASE pc'[d] = "held"
        BY Zenon, <3>2, <4>1 DEF Passed
      <4>2. CASE pc'[d] # "held"
        <5>1. SUFFICES ASSUME Passed(d, m)' PROVE Passed(d, m)
          OBVIOUS
        <5>2. /\ pc[d] = "acquire" /\ Current(d) \in Call /\ thread[Current(d)] \in Asking
              /\ \E i \in DOMAIN nodes'[server[d]] :
                   i < next[Current(d)] /\ nodes'[server[d]][i] = m
          BY Zenon, <3>1, <3>2, <4>2, <5>1 DEF Passed
        <5> QED
          BY Zenon, <1>9, <3>1, <3>4, <5>2 DEF Passed
      <4> QED
        BY Zenon, <4>1, <4>2
    <3> QED
      BY Zenon, <3>3, <3>5
  <2> QED
    BY Zenon, <1>0, <1>1, <1>6, <1>10, <2>1, PermissionFrame
<1>18. FirstDeath'
  BY Zenon, <1>0, <1>1 DEF FirstDeath
<1> QED
  BY Zenon, <1>10, <1>11, <1>13, <1>14, <1>15, <1>16, <1>17, <1>18 DEF RInv

\* A step of one thread of acquire_lock within its procedure, with the mutex of
\* its server as it was.
LEMMA ThreadStep ==
  ASSUME RInv, TypeOK', RequestInv', PermissionInv', NEW j \in Call,
         UNCHANGED <<up, nodes, lock, requesting_cs, pc, calls, died, abandoned, crashes>>,
         \A n \in Node : listed[n] => listed'[n],
         \A i \in Call : i # j => thread'[i] = thread[i] /\ next'[i] = next[i],
         thread'[j] # "none" =>
           thread[j] # "none" /\ Procedure(thread'[j]) = Procedure(thread[j]),
         thread'[j] = "mutex" => listed'[At(j)],
         thread'[j] \in Asking =>
           /\ thread[j] \in Asking
           /\ next'[j] >= 1 /\ next'[j] <= Len(nodes[At(j)]) + 1
  PROVE  RInv'
<1>0. TypeOK /\ StageInv /\ OwnerInv /\ TableInv /\ LoopInv /\ FirstDeath
  BY Zenon DEF RInv
<1>1. \A n \in Node : Spared(n)' <=> Spared(n)
  BY Zenon DEF Spared
<1>2. StageInv'
  <2>1. \A n \in Node : ~up'[n] => n \in died'
    BY Zenon, <1>0 DEF StageInv
  <2> QED
    BY Zenon, <1>0, <1>1, <2>1, StageFrame
<1>3. OwnerInv'
  <2>1. \A i \in Call : thread'[i] = "mutex" => listed'[At(i)]
    <3>1. \A i \in Call : i # j /\ thread'[i] = "mutex" => listed[At(i)]
      BY Zenon, <1>0 DEF OwnerInv
    <3> QED
      BY Zenon, <3>1, Calls
  <2>2. \A n \in Node : lock'[n] => listed'[n] /\ requesting_cs'[n]
    BY Zenon, <1>0 DEF OwnerInv
  <2>3. \A c \in Client : InUse(c)' => InUse(c)
    <3>1. \A c \in Client : Current(c)' = Current(c)
      BY Zenon DEF Current
    <3>2. \A i \in Call : thread'[i] \in Asking => thread[i] \in Asking
      BY Zenon
    <3> QED
      BY Zenon, <3>1, <3>2 DEF InUse
  <2> QED
    BY Zenon, <1>0, <1>1, <2>1, <2>2, <2>3, OwnerFrame
<1>4. TableInv'
  BY Zenon, <1>0, <1>1, TableFrame
<1>5. LoopInv'
  BY Zenon, <1>0 DEF LoopInv
<1>6. FirstDeath'
  BY Zenon, <1>0 DEF FirstDeath
<1> QED
  BY Zenon, <1>2, <1>3, <1>4, <1>5, <1>6 DEF RInv

\* find_lockvar enters the lock in the list.
LEMMA FindStep ==
  ASSUME RInv, NEW j \in Call, find_lockvar(j)
  PROVE  RInv'
<1>0. /\ TypeOK /\ RequestInv /\ PermissionInv
  BY Zenon DEF RInv
<1>1. /\ UNCHANGED <<up, nodes, lock, requesting_cs, myseqno, highestseqno, pc, calls>>
      /\ UNCHANGED <<next, requests, died, abandoned, skipped, crashes, starts, timeouts>>
      /\ thread[j] = "acquire" /\ thread' = [thread EXCEPT ![j] = "mutex"]
      /\ listed' = [listed EXCEPT ![At(j)] = TRUE]
  BY Zenon DEF find_lockvar, history, bounds
<1>2. /\ thread \in [Call -> {"none", "init", "acquire", "mutex", "ask", "sent", "wait",
                              "release"}]
      /\ listed \in [Node -> BOOLEAN] /\ At(j) \in Node
  BY Zenon, <1>0, Calls DEF TypeOK
<1>3. /\ thread'[j] = "mutex" /\ \A i \in Call : i # j => thread'[i] = thread[i]
      /\ thread' \in [Call -> {"none", "init", "acquire", "mutex", "ask", "sent", "wait",
                               "release"}]
  BY ONLY <1>1, <1>2, j \in Call
<1>4. /\ listed'[At(j)] /\ listed' \in [Node -> BOOLEAN]
      /\ \A n \in Node : listed[n] => listed'[n]
  BY ONLY <1>1, <1>2
<1>5. /\ "mutex" \notin Asking /\ "mutex" \notin {"none", "sent", "wait"}
      /\ "acquire" \notin Asking /\ "acquire" # "none"
      /\ Procedure("mutex") = Procedure("acquire")
  BY DEF Asking, Procedure
<1>6. TypeOK'
  <2>1. \A i \in Call : thread'[i] \in {"sent", "wait"} => next'[i] \in DOMAIN nodes'[At(i)]
    BY Zenon, <1>0, <1>1, <1>3, <1>5 DEF TypeOK
  <2> QED
    BY Zenon, <1>0, <1>1, <1>3, <1>4, <2>1 DEF TypeOK
<1>7. \A n \in Node : /\ Spared(n)' => Spared(n)
                      /\ myseqno'[n] = myseqno[n] /\ highestseqno[n] <= highestseqno'[n]
  <2>1. \A k \in Int : k <= k
    OBVIOUS
  <2> QED
    BY Zenon, <1>0, <1>1, <2>1, Typed DEF Spared
<1>8. RequestInv'
  <2>1. requests \subseteq Request /\ requests' \subseteq requests
    BY <1>0, <1>1 DEF TypeOK
  <2>2. \A i \in Call : /\ thread[i] = "none" => thread'[i] = "none"
                        /\ thread[i] \in Asking => thread'[i] \in Asking \cup {"none"}
    BY Zenon, <1>1, <1>3, <1>5
  <2> QED
    BY Zenon, <1>0, <1>1, <1>7, <2>1, <2>2, RequestFrame
<1>9. PermissionInv'
  <2>1. ASSUME NEW c \in Client, NEW m
        PROVE  /\ Deferred(c, m)' => Deferred(c, m)
               /\ Passed(c, m)' => Passed(c, m)
    <3>1. Current(c)' = Current(c)
      BY Zenon, <1>1 DEF Current
    <3>2. CASE Current(c) = j
      <4>1. ~Deferred(c, m)'
        BY Zenon, <1>3, <1>5, <3>1, <3>2 DEF Deferred
      <4>2. Passed(c, m)' => Passed(c, m)
        BY Zenon, <1>1, <1>3, <1>5, <3>1, <3>2 DEF Passed
      <4> QED
        BY Zenon, <4>1, <4>2
    <3>3. CASE Current(c) # j
      BY Zenon, <1>1, <1>3, <3>3, LoopSame
    <3> QED
      BY Zenon, <3>2, <3>3
  <2> QED
    BY Zenon, <1>0, <1>1, <1>6, <1>7, <2>1, PermissionFrame
<1> QED
  BY Zenon, <1>1, <1>3, <1>4, <1>5, <1>6, <1>8, <1>9, ThreadStep

\* A request is sent to a peer that runs.
LEMMA SendStep ==
  ASSUME RInv, NEW j \in Call, request(j), up[nodes[At(j)][next[j]]]
  PROVE  RInv'
<1> DEFINE n == At(j)
<1> DEFINE p == nodes[n][next[j]]
<1> DEFINE s == [call |-> j, index |-> next[j], to |-> p, seqno |-> myseqno[n]]
<1>0. /\ TypeOK /\ StageInv /\ LoopInv /\ RequestInv /\ PermissionInv
  BY Zenon DEF RInv
<1>1. /\ UNCHANGED <<up, nodes, lockvar, pc, calls, next>>
      /\ UNCHANGED <<died, abandoned, skipped, crashes, starts, timeouts>>
      /\ thread[j] = "ask" /\ thread' = [thread EXCEPT ![j] = "sent"]
      /\ next[j] \in DOMAIN nodes[n] /\ requests' = requests \cup {s}
  BY Zenon DEF request, history, bounds
<1>2. UNCHANGED <<listed, lock, requesting_cs, myseqno, highestseqno>>
  BY Zenon, <1>1 DEF lockvar
<1>3. /\ thread'[j] = "sent" /\ \A i \in Call : i # j => thread'[i] = thread[i]
      /\ thread' \in [Call -> {"none", "init", "acquire", "mutex", "ask", "sent", "wait",
                               "release"}]
  <2>1. thread \in [Call -> {"none", "init", "acquire", "mutex", "ask", "sent", "wait",
                             "release"}]
    BY Zenon, <1>0 DEF TypeOK
  <2> QED
    BY ONLY <1>1, <2>1, j \in Call
<1>4. /\ "sent" \in Asking /\ "sent" \notin {"none", "mutex", "wait"} /\ "ask" \in Asking
      /\ "ask" # "none" /\ Procedure("sent") = Procedure("ask")
  BY DEF Asking, Procedure
<1>5. n \in Node /\ p \in Node /\ next[j] \in Nat /\ s \in Request
  <2>1. /\ n \in Node /\ nodes[n] \in Seq(Node) /\ next[j] \in Nat
        /\ next[j] \in DOMAIN nodes[n]
    BY Zenon, <1>0, <1>1, Typed, Calls
  <2>2. p \in Node
    BY <2>1
  <2>3. myseqno[n] \in -MaxInt - 1 .. MaxInt
    BY <1>0, <2>1 DEF TypeOK
  <2> QED
    BY <2>1, <2>2, <2>3 DEF Request
<1>6. TypeOK'
  <2>1. \A i \in Call : thread'[i] \in {"sent", "wait"} => next'[i] \in DOMAIN nodes'[At(i)]
    BY Zenon, <1>0, <1>1, <1>3 DEF TypeOK
  <2>2. requests' \subseteq Request
    BY Zenon, <1>0, <1>1, <1>5 DEF TypeOK
  <2> QED
    BY Zenon, <1>0, <1>1, <1>2, <1>3, <2>1, <2>2 DEF TypeOK
<1>7. \A q \in Node : /\ Spared(q)' => Spared(q)
                      /\ myseqno'[q] = myseqno[q] /\ highestseqno[q] <= highestseqno'[q]
  <2>1. \A k \in Int : k <= k
    OBVIOUS
  <2> QED
    BY Zenon, <1>0, <1>1, <1>2, <2>1, Typed DEF Spared
<1>8. RequestInv'
  <2> SUFFICES ASSUME NEW r \in requests', Spared(At(r.call))'
               PROVE  /\ r.call[2] <= calls'[r.call[1]]
                      /\ thread'[r.call] \in Asking \cup {"none"}
                      /\ thread'[r.call] \in Asking =>
                           /\ r.seqno = myseqno'[At(r.call)]
                           /\ r.index \in DOMAIN nodes'[At(r.call)]
                           /\ r.to = nodes'[At(r.call)][r.index]
    BY Zenon DEF RequestInv
  <2>1. CASE r \in requests
    <3>1. r.call \in Call /\ At(r.call) \in Node
      BY <1>0, <2>1, Calls DEF TypeOK, Request
    <3>2. /\ r.call[2] <= calls[r.call[1]]
          /\ thread[r.call] \in Asking \cup {"none"}
          /\ thread[r.call] \in Asking =>
               /\ r.seqno = myseqno[At(r.call)] /\ r.index \in DOMAIN nodes[At(r.call)]
               /\ r.to = nodes[At(r.call)][r.index]
      BY Zenon, <1>0, <1>7, <2>1, <3>1 DEF RequestInv
    <3> QED
      BY Zenon, <1>1, <1>2, <1>3, <1>4, <3>1, <3>2
  <2>2. CASE r = s
    <3>1. r.call = j /\ r.index = next[j] /\ r.to = p /\ r.seqno = myseqno[n]
      BY <2>2
    <3>2. j[2] <= calls[j[1]]
      <4>1. j = Current(j[1]) /\ j[1] \in Client /\ j = <<j[1], j[2]>>
        BY Zenon, <1>0, <1>1, <1>4, <1>5, <1>7, <3>1, Calls DEF StageInv
      <4>2. j[2] = calls[j[1]] /\ calls[j[1]] \in Nat
        BY <1>0, <4>1, Typed DEF Current
      <4> QED
        BY ONLY <4>2
    <3> QED
      BY Zenon, <1>1, <1>2, <1>3, <1>4, <3>1, <3>2
  <2> QED
    BY Zenon, <1>1, <2>1, <2>2
<1>9. PermissionInv'
  <2>1. ASSUME NEW c \in Client, NEW m
        PROVE  /\ Deferred(c, m)' => Deferred(c, m)
               /\ Passed(c, m)' => Passed(c, m)
    <3>1. Current(c)' = Current(c)
      BY Zenon, <1>1 DEF Current
    <3>2. CASE Current(c) = j
      <4>1. ~Deferred(c, m)'
        BY Zenon, <1>3, <1>4, <3>1, <3>2 DEF Deferred
      <4>2. Passed(c, m)' => Passed(c, m)
        BY Zenon, <1>1, <1>3, <1>4, <3>1, <3>2 DEF Passed
      <4> QED
        BY Zenon, <4>1, <4>2
    <3>3. CASE Current(c) # j
      BY Zenon, <1>1, <1>3, <3>3, LoopSame
    <3> QED
      BY Zenon, <3>2, <3>3
  <2> QED
    BY Zenon, <1>0, <1>1, <1>2, <1>6, <1>7, <2>1, PermissionFrame
<1>10. next'[j] >= 1 /\ next'[j] <= Len(nodes[At(j)]) + 1
  BY Zenon, <1>0, <1>1, <1>4 DEF LoopInv
<1>11. /\ UNCHANGED <<up, nodes, lock, requesting_cs, pc, calls, died, abandoned, crashes>>
       /\ \A q \in Node : listed[q] => listed'[q]
       /\ \A i \in Call : i # j => thread'[i] = thread[i] /\ next'[i] = next[i]
  BY Zenon, <1>1, <1>2, <1>3
<1>12. /\ thread[j] # "none" /\ Procedure(thread'[j]) = Procedure(thread[j])
       /\ thread'[j] # "mutex" /\ thread[j] \in Asking
  BY Zenon, <1>1, <1>3, <1>4
<1> HIDE DEF s
<1> QED
  BY Zenon, <1>6, <1>8, <1>9, <1>10, <1>11, <1>12, ThreadStep

\* A request is given up.  Its peer is then among those given up.
LEMMA RequestTimesOutStep ==
  ASSUME RInv, NEW j \in Call, RequestTimesOut(j)
  PROVE  RInv'
<1> DEFINE n == At(j)
<1> DEFINE p == nodes[n][next[j]]
<1>0. /\ TypeOK /\ StageInv /\ RequestInv /\ PermissionInv
  BY Zenon DEF RInv
<1>1. /\ UNCHANGED <<up, nodes, lockvar, pc, calls, requests, died, abandoned, crashes, starts>>
      /\ thread[j] \in {"sent", "wait"} /\ thread' = [thread EXCEPT ![j] = "ask"]
      /\ next' = [next EXCEPT ![j] = next[j] + 1]
      /\ skipped' = [skipped EXCEPT ![n] = skipped[n] \cup {p}]
      /\ timeouts < MaxTimeouts /\ timeouts' = timeouts + 1
  BY Zenon DEF RequestTimesOut
<1>2. UNCHANGED <<listed, lock, requesting_cs, myseqno, highestseqno>>
  BY Zenon, <1>1 DEF lockvar
<1>3. /\ thread'[j] = "ask" /\ \A i \in Call : i # j => thread'[i] = thread[i]
      /\ next'[j] = next[j] + 1 /\ \A i \in Call : i # j => next'[i] = next[i]
      /\ thread' \in [Call -> {"none", "init", "acquire", "mutex", "ask", "sent", "wait",
                               "release"}]
      /\ next' \in [Call -> Nat]
  <2>1. /\ thread \in [Call -> {"none", "init", "acquire", "mutex", "ask", "sent", "wait",
                                "release"}]
        /\ next \in [Call -> Nat]
    BY Zenon, <1>0 DEF TypeOK
  <2> QED
    BY ONLY <1>1, <2>1, j \in Call
<1>4. /\ "ask" \in Asking /\ "ask" \notin {"none", "mutex", "sent", "wait"}
      /\ \A s \in {"sent", "wait"} :
           s \in Asking /\ s # "none" /\ Procedure("ask") = Procedure(s)
  BY DEF Asking, Procedure
<1>5. n \in Node /\ p \in Node
  <2>1. n \in Node /\ nodes[n] \in Seq(Node) /\ next[j] \in DOMAIN nodes[n]
    BY Zenon, <1>0, <1>1, Typed, Calls, NextPosition
  <2> QED
    BY <2>1
<1>6. /\ skipped'[n] = skipped[n] \cup {p} /\ skipped' \in [Node -> SUBSET Node]
      /\ \A q \in Node : q # n => skipped'[q] = skipped[q]
  <2>1. skipped \in [Node -> SUBSET Node]
    BY Zenon, <1>0 DEF TypeOK
  <2> HIDE DEF n, p
  <2> QED
    BY <1>1, <1>5, <2>1
<1>7. TypeOK'
  <2>1. \A i \in Call : thread'[i] \in {"sent", "wait"} => next'[i] \in DOMAIN nodes'[At(i)]
    BY Zenon, <1>0, <1>1, <1>3, <1>4 DEF TypeOK
  <2>2. timeouts' \in 0 .. MaxTimeouts
    <3>1. timeouts \in 0 .. MaxTimeouts /\ MaxTimeouts \in Nat
      BY Zenon, <1>0, Bounds DEF TypeOK
    <3> QED
      BY ONLY <1>1, <3>1
  <2> QED
    BY Zenon, <1>0, <1>1, <1>2, <1>3, <1>6, <2>1, <2>2 DEF TypeOK
<1>8. \A q \in Node : /\ Spared(q)' => Spared(q)
                      /\ myseqno'[q] = myseqno[q] /\ highestseqno[q] <= highestseqno'[q]
  <2>1. \A k \in Int : k <= k
    OBVIOUS
  <2> QED
    BY Zenon, <1>0, <1>1, <1>2, <2>1, Typed DEF Spared
<1>9. RequestInv'
  <2>1. requests \subseteq Request /\ requests' \subseteq requests
    BY <1>0, <1>1 DEF TypeOK
  <2>2. \A i \in Call : /\ thread[i] = "none" => thread'[i] = "none"
                        /\ thread[i] \in Asking => thread'[i] \in Asking \cup {"none"}
    BY Zenon, <1>1, <1>3, <1>4
  <2> QED
    BY Zenon, <1>0, <1>1, <1>8, <2>1, <2>2, RequestFrame
<1>10. PermissionInv'
  <2>1. ASSUME NEW c \in Client, NEW m \in Node \ {server[c]},
               m \notin skipped'[server[c]]
        PROVE  /\ m \notin skipped[server[c]]
               /\ Deferred(c, m)' => Deferred(c, m)
               /\ Passed(c, m)' => Passed(c, m)
    <3>1. m \notin skipped[server[c]] /\ (server[c] = n => m # p)
      BY <1>6, <2>1, Bounds
    <3>2. CASE Current(c) = j
      <4>1. server[c] = n
        BY Zenon, <3>2, CurrentCall
      <4>2. nodes[server[c]][next[Current(c)]] # m
        BY Zenon, <3>1, <3>2, <4>1
      <4> QED
        BY Zenon, <1>0, <1>1, <1>3, <3>1, <3>2, <4>2, LoopNext
    <3>3. CASE Current(c) # j
      BY Zenon, <1>1, <1>3, <3>1, <3>3, LoopSame
    <3> QED
      BY Zenon, <3>2, <3>3
  <2> QED
    BY Zenon, <1>0, <1>2, <1>7, <1>8, <2>1, PermissionFrame
<1>11. next'[j] >= 1 /\ next'[j] <= Len(nodes[At(j)]) + 1
  BY Zenon, <1>0, <1>1, <1>3, NextPosition
<1>12. /\ UNCHANGED <<up, nodes, lock, requesting_cs, pc, calls, died, abandoned, crashes>>
       /\ \A q \in Node : listed[q] => listed'[q]
       /\ \A i \in Call : i # j => thread'[i] = thread[i] /\ next'[i] = next[i]
  BY Zenon, <1>1, <1>2, <1>3
<1>13. /\ thread[j] # "none" /\ Procedure(thread'[j]) = Procedure(thread[j])
       /\ thread'[j] # "mutex" /\ thread[j] \in Asking
  BY Zenon, <1>1, <1>3, <1>4
<1> QED
  BY Zenon, <1>7, <1>9, <1>10, <1>11, <1>12, <1>13, ThreadStep

\* request_1_svc.  The peer sees the number; if it replies at once to a request
\* that is still awaited, its mutex is free or the request precedes its own.
LEMMA AnswerStep ==
  ASSUME RInv, NEW r \in requests, request_1_svc(r)
  PROVE  RInv'
<1> DEFINE j == r.call
<1> DEFINE n == At(j)
<1> DEFINE p == r.to
<1>0. /\ TypeOK /\ StageInv /\ OwnerInv /\ TableInv /\ LoopInv /\ RequestInv
      /\ PermissionInv
  BY Zenon DEF RInv
<1>1. /\ UNCHANGED <<up, nodes, lock, requesting_cs, myseqno, pc, calls>>
      /\ UNCHANGED <<died, abandoned, skipped, crashes, starts, timeouts>>
      /\ listed' = [listed EXCEPT ![p] = TRUE]
      /\ highestseqno' = [highestseqno EXCEPT ![p] = Larger(highestseqno[p], r.seqno)]
      /\ requests' = requests \ {r}
  BY Zenon DEF request_1_svc, history, bounds
<1>2. j \in Call /\ n \in Node /\ p \in Node /\ r.seqno \in -MaxInt - 1 .. MaxInt
  <2>1. r \in Request
    BY Zenon, <1>0 DEF TypeOK
  <2> QED
    BY <2>1, Calls DEF Request
<1>3. /\ listed' \in [Node -> BOOLEAN] /\ \A q \in Node : listed[q] => listed'[q]
      /\ highestseqno' \in [Node -> 0 .. MaxInt]
      /\ \A q \in Node : highestseqno[q] <= highestseqno'[q]
      /\ r.seqno <= highestseqno'[p]
  <2>1. listed \in [Node -> BOOLEAN] /\ highestseqno \in [Node -> 0 .. MaxInt]
    BY Zenon, <1>0 DEF TypeOK
  <2>2. listed' \in [Node -> BOOLEAN] /\ \A q \in Node : listed[q] => listed'[q]
    BY <1>1, <2>1
  <2>3. highestseqno[p] \in 0 .. MaxInt /\ MaxInt \in Nat
    BY <1>2, <2>1, Bounds
  <2>4. /\ Larger(highestseqno[p], r.seqno) \in 0 .. MaxInt
        /\ highestseqno[p] <= Larger(highestseqno[p], r.seqno)
        /\ r.seqno <= Larger(highestseqno[p], r.seqno)
    BY ONLY <1>2, <2>3 DEF Larger
  <2>5. \A q \in Node : highestseqno[q] <= highestseqno[q]
    <3>1. \A k \in Int : k <= k
      OBVIOUS
    <3> QED
      BY Zenon, <1>0, <3>1, Typed
  <2> HIDE DEF p
  <2>6. /\ highestseqno'[p] = Larger(highestseqno[p], r.seqno)
        /\ \A q \in Node : q # p => highestseqno'[q] = highestseqno[q]
        /\ highestseqno' \in [Node -> 0 .. MaxInt]
    BY <1>1, <1>2, <2>1, <2>4
  <2> QED
    BY Zenon, <2>2, <2>4, <2>5, <2>6
<1>4. \/ ~Awaited(r) /\ UNCHANGED <<thread, next>>
      \/ Awaited(r) /\ Defers(r) /\ thread' = [thread EXCEPT ![j] = "wait"] /\ next' = next
      \/ /\ Awaited(r) /\ ~Defers(r) /\ thread' = [thread EXCEPT ![j] = "ask"]
         /\ next' = [next EXCEPT ![j] = next[j] + 1]
  <2>1. CASE ~Awaited(r)
    BY <2>1 DEF request_1_svc
  <2>2. CASE Awaited(r) /\ Defers(r)
    BY <2>2 DEF request_1_svc
  <2>3. CASE Awaited(r) /\ ~Defers(r)
    BY <2>3 DEF request_1_svc
  <2> QED
    BY Zenon, <2>1, <2>2, <2>3
<1>5. /\ \A i \in Call : i # j => thread'[i] = thread[i] /\ next'[i] = next[i]
      /\ \/ ~Awaited(r) /\ thread'[j] = thread[j] /\ next'[j] = next[j]
         \/ /\ Awaited(r) /\ Defers(r) /\ thread[j] = "sent"
            /\ thread'[j] = "wait" /\ next'[j] = next[j]
         \/ /\ Awaited(r) /\ ~Defers(r) /\ thread[j] = "sent"
            /\ thread'[j] = "ask" /\ next'[j] = next[j] + 1
      /\ thread' \in [Call -> {"none", "init", "acquire", "mutex", "ask", "sent", "wait",
                               "release"}]
      /\ next' \in [Call -> Nat]
  <2>1. /\ thread \in [Call -> {"none", "init", "acquire", "mutex", "ask", "sent", "wait",
                                "release"}]
        /\ next \in [Call -> Nat]
    BY Zenon, <1>0 DEF TypeOK
  <2>2. Awaited(r) => thread[j] = "sent"
    BY Zenon DEF Awaited
  <2>3. j \in Call
    BY Zenon, <1>2
  <2> HIDE DEF j
  <2> QED
    BY ONLY <1>4, <2>1, <2>2, <2>3
<1> HIDE DEF j, n, p
<1>6. /\ "ask" \in Asking /\ "sent" \in Asking /\ "wait" \in Asking
      /\ "ask" \notin {"none", "mutex", "sent", "wait"}
      /\ "sent" \notin {"none", "mutex"} /\ "wait" \notin {"none", "mutex"}
      /\ Procedure("ask") = Procedure("sent") /\ Procedure("wait") = Procedure("sent")
  BY DEF Asking, Procedure
<1>7. TypeOK'
  <2>1. \A i \in Call : thread'[i] \in {"sent", "wait"} => next'[i] \in DOMAIN nodes'[At(i)]
    <3>1. thread'[j] \in {"sent", "wait"} => next'[j] \in DOMAIN nodes'[At(j)]
      <4>1. thread'[j] \in {"sent", "wait"} =>
              thread[j] \in {"sent", "wait"} /\ next'[j] = next[j]
        BY <1>5
      <4> QED
        BY Zenon, <1>0, <1>1, <1>2, <4>1 DEF TypeOK
    <3>2. \A i \in Call : i # j /\ thread'[i] \in {"sent", "wait"} =>
            next'[i] \in DOMAIN nodes'[At(i)]
      BY Zenon, <1>0, <1>1, <1>5 DEF TypeOK
    <3> QED
      BY Zenon, <3>1, <3>2
  <2>2. requests' \subseteq Request
    BY <1>0, <1>1 DEF TypeOK
  <2> QED
    BY Zenon, <1>0, <1>1, <1>3, <1>5, <2>1, <2>2 DEF TypeOK
<1>8. \A q \in Node : Spared(q)' => Spared(q)
  BY Zenon, <1>1 DEF Spared
<1>9. RequestInv'
  <2>1. requests \subseteq Request /\ requests' \subseteq requests
    BY <1>0, <1>1 DEF TypeOK
  <2>2. \A i \in Call : /\ thread[i] = "none" => thread'[i] = "none"
                        /\ thread[i] \in Asking => thread'[i] \in Asking \cup {"none"}
    BY Zenon, <1>5, <1>6
  <2> QED
    BY Zenon, <1>0, <1>1, <1>8, <2>1, <2>2, RequestFrame
<1>10. ASSUME Awaited(r), Spared(n)
       PROVE  /\ r.seqno = myseqno[n] /\ nodes[n][next[j]] = p /\ n # p
  <2>1. thread[j] \in Asking /\ next[j] = r.index
    BY Zenon, <1>6, <1>10 DEF Awaited, j
  <2>2. r.seqno = myseqno[n] /\ r.index \in DOMAIN nodes[n] /\ p = nodes[n][r.index]
    BY Zenon, <1>0, <1>10, <2>1 DEF RequestInv, j, n, p
  <2> QED
    BY Zenon, <1>0, <1>2, <2>1, <2>2 DEF TableInv
<1>11. PermissionInv'
  <2> SUFFICES ASSUME NEW c \in Client, NEW m \in Node \ {server[c]},
                      Spared(server[c])', Spared(m)', m \notin skipped'[server[c]]
               PROVE  /\ Deferred(c, m)' \/ Passed(c, m)' =>
                           myseqno'[server[c]] <= highestseqno'[m]
                      /\ Passed(c, m)' /\ lock'[m] /\ ~Wrapped(server[c])' /\ ~Wrapped(m)'
                           => Before(server[c], m)'
    BY Zenon DEF PermissionInv
  <2>1. /\ server[c] \in Node /\ m \in Node /\ Spared(server[c]) /\ Spared(m)
        /\ m \notin skipped[server[c]] /\ server[c] # m
    BY Zenon, <1>1, <1>8, Bounds
  <2>2. /\ Deferred(c, m) \/ Passed(c, m) => myseqno[server[c]] <= highestseqno[m]
        /\ Passed(c, m) /\ lock[m] /\ ~Wrapped(server[c]) /\ ~Wrapped(m)
             => Before(server[c], m)
    BY Zenon, <1>0, <2>1 DEF PermissionInv
  <2>3. myseqno[server[c]] <= highestseqno[m] => myseqno'[server[c]] <= highestseqno'[m]
    <3>1. /\ myseqno[server[c]] \in Int /\ highestseqno[m] \in Int
          /\ highestseqno[m] <= highestseqno'[m] /\ myseqno' = myseqno
      BY Zenon, <1>0, <1>1, <1>3, <2>1, Typed
    <3>2. highestseqno'[m] \in Int
      BY <1>3, <2>1, Bounds
    <3> QED
      BY ONLY <3>1, <3>2
  <2>4. /\ Before(server[c], m)' <=> Before(server[c], m)
        /\ Wrapped(server[c])' <=> Wrapped(server[c])
        /\ Wrapped(m)' <=> Wrapped(m)
        /\ lock'[m] = lock[m]
    BY Zenon, <1>1 DEF Before, Wrapped
  <2>5. CASE Current(c) = j /\ Awaited(r) /\ m = p
    <3>1. n = server[c]
      BY Zenon, <1>2, <2>5, CurrentCall DEF n
    <3>2. r.seqno = myseqno[server[c]]
      BY Zenon, <1>10, <2>1, <2>5, <3>1
    <3>3. myseqno'[server[c]] <= highestseqno'[m]
      BY Zenon, <1>1, <1>3, <2>5, <3>2
    <3>4. CASE Defers(r)
      <4>1. thread'[j] = "wait" /\ next'[j] = next[j] /\ thread[j] = "sent"
        BY Zenon, <1>5, <2>5, <3>4
      <4>2. Passed(c, m)' => Passed(c, m)
        <5>1. Current(c)' = Current(c)
          BY Zenon, <1>1 DEF Current
        <5> QED
          BY Zenon, <1>1, <1>6, <2>5, <4>1, <5>1 DEF Passed
      <4> QED
        BY Zenon, <2>2, <2>4, <3>3, <4>2
    <3>5. CASE ~Defers(r)
      <4>1. lock[m] => requesting_cs[m]
        BY Zenon, <1>0, <2>1 DEF OwnerInv
      <4>2. requesting_cs[m] => ~(r.seqno > myseqno[m]) /\ ~(r.seqno = myseqno[m] /\ n > m)
        BY Zenon, <2>5, <3>5 DEF Defers, n, p, j
      <4>3. myseqno[server[c]] \in Int /\ myseqno[m] \in Int /\ server[c] \in Int /\ m \in Int
        BY Zenon, <1>0, <2>1, Typed, Bounds
      <4>4. requesting_cs[m] => Before(server[c], m)
        BY ONLY <2>1, <3>1, <3>2, <4>2, <4>3 DEF Before
      <4> QED
        BY Zenon, <2>4, <3>3, <4>1, <4>4
    <3> QED
      BY Zenon, <3>4, <3>5
  <2>6. CASE ~(Current(c) = j /\ Awaited(r) /\ m = p)
    <3>1. (Deferred(c, m)' => Deferred(c, m)) /\ (Passed(c, m)' => Passed(c, m))
      <4>1. CASE Current(c) # j \/ ~Awaited(r)
        BY Zenon, <1>1, <1>5, <4>1, LoopSame
      <4>2. CASE Current(c) = j /\ Awaited(r)
        <5>1. n = server[c] /\ m # p
          BY Zenon, <1>2, <2>6, <4>2, CurrentCall DEF n
        <5>2. nodes[server[c]][next[Current(c)]] # m
          BY Zenon, <1>10, <2>1, <4>2, <5>1
        <5>3. Current(c)' = Current(c)
          BY Zenon, <1>1 DEF Current
        <5>4. CASE Defers(r)
          <6>1. thread'[j] = "wait" /\ next'[j] = next[j] /\ thread[j] = "sent"
            BY Zenon, <1>5, <4>2, <5>4
          <6>2. Passed(c, m)' => Passed(c, m)
            BY Zenon, <1>1, <1>6, <4>2, <5>3, <6>1 DEF Passed
          <6>3. ~Deferred(c, m)'
            BY Zenon, <1>1, <1>2, <4>2, <5>1, <5>2, <5>3, <6>1 DEF Deferred, WaitsFor, n
          <6> QED
            BY Zenon, <6>2, <6>3
        <5>5. CASE ~Defers(r)
          <6>1. /\ thread'[j] = "ask" /\ next'[j] = next[j] + 1
                /\ thread[j] \in {"sent", "wait"}
            BY Zenon, <1>5, <4>2, <5>5
          <6> QED
            BY Zenon, <1>0, <1>1, <1>2, <4>2, <5>2, <6>1, LoopNext
        <5> QED
          BY Zenon, <5>4, <5>5
      <4> QED
        BY Zenon, <4>1, <4>2
    <3> QED
      BY Zenon, <2>2, <2>3, <2>4, <3>1
  <2> QED
    BY Zenon, <2>5, <2>6
<1>12. thread'[j] \in Asking => next'[j] >= 1 /\ next'[j] <= Len(nodes[At(j)]) + 1
  <2>1. CASE thread'[j] = thread[j] /\ next'[j] = next[j]
    BY Zenon, <1>0, <1>2, <2>1 DEF LoopInv
  <2>2. CASE thread[j] = "sent" /\ next'[j] = next[j]
    BY Zenon, <1>0, <1>2, <1>6, <2>2 DEF LoopInv
  <2>3. CASE thread[j] = "sent" /\ next'[j] = next[j] + 1
    <3>1. thread[j] \in {"sent", "wait"}
      BY Zenon, <2>3
    <3> QED
      BY Zenon, <1>0, <1>2, <2>3, <3>1, NextPosition
  <2> QED
    BY Zenon, <1>5, <2>1, <2>2, <2>3
<1>13. /\ thread'[j] # "none" =>
            thread[j] # "none" /\ Procedure(thread'[j]) = Procedure(thread[j])
       /\ thread'[j] = "mutex" => listed'[At(j)]
       /\ thread'[j] \in Asking => thread[j] \in Asking
  <2>1. thread'[j] = "mutex" => thread[j] = "mutex"
    BY Zenon, <1>5, <1>6
  <2>2. thread'[j] = "mutex" => listed'[At(j)]
    BY Zenon, <1>0, <1>2, <1>3, <2>1 DEF OwnerInv, n
  <2> QED
    BY Zenon, <1>5, <1>6, <2>2
<1>14. UNCHANGED <<up, nodes, lock, requesting_cs, pc, calls, died, abandoned, crashes>>
  BY Zenon, <1>1
<1> QED
  BY Zenon, <1>2, <1>3, <1>5, <1>7, <1>9, <1>11, <1>12, <1>13, <1>14, ThreadStep

\* acquire_lock takes the mutex and a number: on a spared server nobody used the
\* mutex, and the number is above every one the server has seen, or wraps.
LEMMA TakeMutexStep ==
  ASSUME RInv, NEW j \in Call, TakeMutex(j)
  PROVE  RInv'
<1> DEFINE n == At(j)
<1>0. /\ TypeOK /\ StageInv /\ OwnerInv /\ TableInv /\ LoopInv /\ RequestInv
      /\ PermissionInv /\ FirstDeath
  BY Zenon DEF RInv
<1>1. /\ UNCHANGED <<up, nodes, listed, highestseqno, pc, calls, requests>>
      /\ UNCHANGED <<died, abandoned, crashes, starts, timeouts>>
      /\ thread[j] = "mutex" /\ ~lock[n]
      /\ lock' = [lock EXCEPT ![n] = TRUE]
      /\ requesting_cs' = [requesting_cs EXCEPT ![n] = TRUE]
      /\ myseqno' = [myseqno EXCEPT ![n] = NextSeqno(n)]
      /\ thread' = [thread EXCEPT ![j] = "ask"] /\ next' = [next EXCEPT ![j] = 1]
      /\ skipped' = [skipped EXCEPT ![n] = {}]
  BY Zenon DEF TakeMutex, bounds
<1>2. n \in Node /\ n = server[j[1]] /\ j[1] \in Client
  BY Zenon, Calls
<1>3. /\ lock'[n] /\ requesting_cs'[n] /\ myseqno'[n] = NextSeqno(n)
      /\ \A q \in Node : q # n =>
           /\ lock'[q] = lock[q] /\ requesting_cs'[q] = requesting_cs[q]
           /\ myseqno'[q] = myseqno[q] /\ skipped'[q] = skipped[q]
      /\ lock' \in [Node -> BOOLEAN] /\ requesting_cs' \in [Node -> BOOLEAN]
      /\ skipped' \in [Node -> SUBSET Node]
  <2>1. /\ lock \in [Node -> BOOLEAN] /\ requesting_cs \in [Node -> BOOLEAN]
        /\ myseqno \in [Node -> -MaxInt - 1 .. MaxInt] /\ skipped \in [Node -> SUBSET Node]
    BY Zenon, <1>0 DEF TypeOK
  <2> HIDE DEF n
  <2> QED
    BY <1>1, <1>2, <2>1
<1>4. /\ thread'[j] = "ask" /\ next'[j] = 1
      /\ \A i \in Call : i # j => thread'[i] = thread[i] /\ next'[i] = next[i]
      /\ thread' \in [Call -> {"none", "init", "acquire", "mutex", "ask", "sent", "wait",
                               "release"}]
      /\ next' \in [Call -> Nat]
  <2>1. /\ thread \in [Call -> {"none", "init", "acquire", "mutex", "ask", "sent", "wait",
                                "release"}]
        /\ next \in [Call -> Nat]
    BY Zenon, <1>0 DEF TypeOK
  <2> QED
    BY ONLY <1>1, <2>1, j \in Call
<1>5. /\ "ask" \in Asking /\ "ask" \notin {"none", "mutex", "sent", "wait"}
      /\ "mutex" \notin Asking \cup {"none"} /\ Procedure("ask") = Procedure("mutex")
  BY DEF Asking, Procedure
<1>6. /\ NextSeqno(n) \in -MaxInt - 1 .. MaxInt
      /\ NextSeqno(n) = highestseqno[n] + 1 \/ NextSeqno(n) < 0
  <2>1. highestseqno[n] \in 0 .. MaxInt /\ MaxInt \in Nat
    BY <1>0, <1>2, Bounds DEF TypeOK
  <2> QED
    BY ONLY <2>1 DEF NextSeqno
<1> HIDE DEF n
<1>7. TypeOK'
  <2>1. myseqno' \in [Node -> -MaxInt - 1 .. MaxInt]
    <3>1. myseqno \in [Node -> -MaxInt - 1 .. MaxInt]
      BY Zenon, <1>0 DEF TypeOK
    <3> QED
      BY <1>1, <1>6, <3>1
  <2>2. \A i \in Call : thread'[i] \in {"sent", "wait"} => next'[i] \in DOMAIN nodes'[At(i)]
    BY Zenon, <1>0, <1>1, <1>4, <1>5 DEF TypeOK
  <2> QED
    BY Zenon, <1>0, <1>1, <1>3, <1>4, <2>1, <2>2 DEF TypeOK
<1>8. \A q \in Node : Spared(q)' <=> Spared(q)
  BY Zenon, <1>1 DEF Spared
<1>9. StageInv'
  <2>1. \A q \in Node : ~up'[q] => q \in died'
    BY Zenon, <1>0, <1>1 DEF StageInv
  <2> QED
    BY Zenon, <1>0, <1>1, <1>4, <1>5, <1>8, <2>1, StageFrame
<1>10. ASSUME NEW d \in Client, d # j[1]
       PROVE  /\ InUse(d)' <=> InUse(d)
              /\ \A m : (Passed(d, m)' <=> Passed(d, m)) /\ (Deferred(d, m)' <=> Deferred(d, m))
  <2>1. Current(d) # j
    BY Zenon, <1>10, OtherCall
  <2>2. Current(d) \in Call =>
          thread'[Current(d)] = thread[Current(d)] /\ next'[Current(d)] = next[Current(d)]
    BY Zenon, <1>4, <2>1
  <2>3. ASSUME NEW m
        PROVE  /\ InUse(d)' <=> InUse(d)
               /\ Passed(d, m)' <=> Passed(d, m)
               /\ Deferred(d, m)' <=> Deferred(d, m)
    BY Zenon, <1>1, <2>2, LoopSame
  <2> QED
    BY Zenon, <2>3
<1>11. Spared(n) => \A d \in Client : server[d] = n => ~InUse(d)
  BY Zenon, <1>0, <1>1 DEF OwnerInv
<1>12. OwnerInv'
  <2>0. listed[n]
    BY Zenon, <1>0, <1>1 DEF OwnerInv, n
  <2>1. \A q \in Node : lock'[q] => listed'[q] /\ requesting_cs'[q]
    BY Zenon, <1>0, <1>1, <1>3, <2>0 DEF OwnerInv
  <2>2. \A i \in Call : thread'[i] = "mutex" => listed'[At(i)]
    BY Zenon, <1>0, <1>1, <1>4, <1>5 DEF OwnerInv
  <2>3. ASSUME NEW d \in Client, Spared(server[d])', InUse(d)'
        PROVE  /\ lock'[server[d]]
               /\ \A e \in Client : server[e] = server[d] /\ InUse(e)' => e = d
    <3>0. Spared(server[d]) /\ server[d] \in Node
      BY Zenon, <1>8, <2>3, Bounds
    <3>1. CASE server[d] = n
      <4>1. \A e \in Client : server[e] = n /\ InUse(e)' => e = j[1]
        BY Zenon, <1>10, <1>11, <3>0, <3>1
      <4> QED
        BY Zenon, <1>3, <2>3, <3>1, <4>1
    <3>2. CASE server[d] # n
      <4>1. \A e \in Client : server[e] = server[d] => e # j[1]
        BY Zenon, <1>2, <3>2
      <4>2. InUse(d)
        BY Zenon, <1>10, <2>3, <4>1
      <4>3. /\ lock[server[d]]
            /\ \A e \in Client : server[e] = server[d] /\ InUse(e) => e = d
        BY Zenon, <1>0, <3>0, <4>2 DEF OwnerInv
      <4> QED
        BY Zenon, <1>3, <1>10, <3>0, <3>2, <4>1, <4>3
    <3> QED
      BY Zenon, <3>1, <3>2
  <2> QED
    BY Zenon, <2>1, <2>2, <2>3 DEF OwnerInv
<1>13. TableInv'
  BY Zenon, <1>0, <1>1, <1>8, TableFrame
<1>14. LoopInv'
  <2>1. next'[j] >= 1 /\ next'[j] <= Len(nodes'[At(j)]) + 1
    <3>1. Len(nodes[At(j)]) \in Nat /\ nodes' = nodes
      BY Zenon, <1>0, <1>1, Typed, Calls
    <3> QED
      BY ONLY <1>4, <3>1
  <2>2. \A i \in Call : i # j /\ thread'[i] \in Asking =>
           next'[i] >= 1 /\ next'[i] <= Len(nodes'[At(i)]) + 1
    BY Zenon, <1>0, <1>1, <1>4 DEF LoopInv
  <2> QED
    BY Zenon, <2>1, <2>2 DEF LoopInv
<1>15. RequestInv'
  <2> SUFFICES ASSUME NEW r \in requests', Spared(At(r.call))'
               PROVE  /\ r.call[2] <= calls'[r.call[1]]
                      /\ thread'[r.call] \in Asking \cup {"none"}
                      /\ thread'[r.call] \in Asking =>
                           /\ r.seqno = myseqno'[At(r.call)]
                           /\ r.index \in DOMAIN nodes'[At(r.call)]
                           /\ r.to = nodes'[At(r.call)][r.index]
    BY Zenon DEF RequestInv
  <2>1. r \in requests /\ r.call \in Call /\ At(r.call) \in Node
    BY <1>0, <1>1, Calls DEF TypeOK, Request
  <2>2. /\ r.call[2] <= calls[r.call[1]]
        /\ thread[r.call] \in Asking \cup {"none"}
        /\ thread[r.call] \in Asking =>
             /\ r.seqno = myseqno[At(r.call)] /\ r.index \in DOMAIN nodes[At(r.call)]
             /\ r.to = nodes[At(r.call)][r.index]
    BY Zenon, <1>0, <1>8, <2>1 DEF RequestInv
  <2>3. r.call # j
    BY Zenon, <1>1, <1>5, <2>2
  <2>4. thread[r.call] \in Asking => At(r.call) # n
    <3>1. SUFFICES ASSUME thread[r.call] \in Asking, At(r.call) = n PROVE FALSE
      OBVIOUS
    <3>2. Spared(n) /\ r.call[1] \in Client /\ server[r.call[1]] = n
      BY Zenon, <1>8, <2>1, <3>1, Calls
    <3>3. \A k \in Asking : k # "none" /\ Procedure(k) = "acquire"
      BY DEF Asking, Procedure
    <3>4. r.call = Current(r.call[1]) /\ pc[r.call[1]] = "acquire"
      BY Zenon, <1>0, <2>1, <3>1, <3>2, <3>3 DEF StageInv
    <3>5. InUse(r.call[1])
      BY Zenon, <2>1, <3>1, <3>4 DEF InUse
    <3> QED
      BY Zenon, <1>11, <3>2, <3>5
  <2> QED
    BY Zenon, <1>1, <1>3, <1>4, <2>1, <2>2, <2>3, <2>4
<1>16. PermissionInv'
  <2> SUFFICES ASSUME NEW d \in Client, NEW m \in Node \ {server[d]},
                      Spared(server[d])', Spared(m)', m \notin skipped'[server[d]]
               PROVE  /\ Deferred(d, m)' \/ Passed(d, m)' =>
                           myseqno'[server[d]] <= highestseqno'[m]
                      /\ Passed(d, m)' /\ lock'[m] /\ ~Wrapped(server[d])' /\ ~Wrapped(m)'
                           => Before(server[d], m)'
    BY Zenon DEF PermissionInv
  <2> DEFINE s == server[d]
  <2>1. s \in Node /\ m \in Node /\ s # m /\ Spared(s) /\ Spared(m)
    BY Zenon, <1>8, Bounds
  <2>2. CASE s = n
    <3>1. CASE d = j[1]
      <4>1. j = Current(d) /\ pc[d] = "acquire"
        <5>1. Procedure("mutex") = "acquire"
          BY DEF Procedure
        <5> QED
          BY Zenon, <1>0, <1>1, <1>5, <2>1, <2>2, <3>1, <5>1 DEF StageInv, n
      <4>2. Current(d)' = j /\ pc'[d] = "acquire"
        BY Zenon, <1>1, <4>1 DEF Current
      <4>3. \A i \in DOMAIN nodes'[s] : ~(i < 1)
        BY <1>0, <1>1, <2>1, Typed
      <4>4. ~Passed(d, m)'
        BY <1>4, <4>2, <4>3 DEF Passed
      <4>5. ~Deferred(d, m)'
        BY Zenon, <1>4, <1>5, <4>2 DEF Deferred
      <4> QED
        BY Zenon, <4>4, <4>5
    <3>2. CASE d # j[1]
      <4>1. ~InUse(d)
        BY Zenon, <1>11, <2>1, <2>2
      <4>2. "wait" \in Asking
        BY DEF Asking
      <4>3. ~Passed(d, m) /\ ~Deferred(d, m)
        BY Zenon, <4>1, <4>2 DEF Deferred, Passed, InUse
      <4> QED
        BY Zenon, <1>10, <3>2, <4>3
    <3> QED
      BY Zenon, <3>1, <3>2
  <2>3. CASE s # n
    <3>1. /\ d # j[1] /\ myseqno'[s] = myseqno[s] /\ highestseqno'[m] = highestseqno[m]
          /\ m \notin skipped[s]
      BY Zenon, <1>1, <1>2, <1>3, <2>1, <2>3
    <3>2. (Deferred(d, m)' <=> Deferred(d, m)) /\ (Passed(d, m)' <=> Passed(d, m))
      BY Zenon, <1>10, <3>1
    <3>3. /\ Deferred(d, m) \/ Passed(d, m) => myseqno[s] <= highestseqno[m]
          /\ Passed(d, m) /\ lock[m] /\ ~Wrapped(s) /\ ~Wrapped(m) => Before(s, m)
      BY Zenon, <1>0, <2>1, <3>1 DEF PermissionInv
    <3>4. CASE m = n
      <4>1. myseqno[s] \in Int /\ highestseqno[m] \in Int
        BY Zenon, <1>0, <2>1, Typed
      <4>2. myseqno'[m] = highestseqno[m] + 1 \/ myseqno'[m] < 0
        BY Zenon, <1>3, <1>6, <3>4
      <4>3. myseqno[s] <= highestseqno[m] /\ ~(myseqno'[m] < 0) => myseqno[s] < myseqno'[m]
        BY ONLY <4>1, <4>2
      <4> QED
        BY Zenon, <3>1, <3>2, <3>3, <4>3 DEF Wrapped, Before
    <3>5. CASE m # n
      BY Zenon, <1>3, <2>1, <3>1, <3>2, <3>3, <3>5 DEF Wrapped, Before
    <3> QED
      BY Zenon, <3>4, <3>5
  <2> QED
    BY Zenon, <2>2, <2>3
<1>17. FirstDeath'
  BY Zenon, <1>0, <1>1 DEF FirstDeath
<1> QED
  BY Zenon, <1>7, <1>9, <1>12, <1>13, <1>14, <1>15, <1>16, <1>17 DEF RInv

\* acquire_lock returns: the loop has come past every machine of the table.
LEMMA AcquiredStep ==
  ASSUME RInv, NEW j \in Call, Acquired(j)
  PROVE  RInv'
<1> DEFINE n == At(j)
<1>0. /\ TypeOK /\ StageInv /\ OwnerInv /\ TableInv /\ LoopInv /\ RequestInv
      /\ PermissionInv /\ FirstDeath
  BY Zenon DEF RInv
<1>1. /\ UNCHANGED <<up, nodes, lockvar, calls, requests>>
      /\ UNCHANGED <<died, abandoned, skipped, crashes, starts, timeouts>>
      /\ thread[j] = "ask" /\ next[j] \notin DOMAIN nodes[n] /\ Reply(j)
      /\ thread' = [thread EXCEPT ![j] = "none"] /\ next' = [next EXCEPT ![j] = 1]
      /\ abandoned \subseteq abandoned'
  BY Zenon DEF Acquired, history, bounds
<1>2. n \in Node /\ n = server[j[1]] /\ j[1] \in Client
  BY Zenon, Calls
<1>3. /\ UNCHANGED <<listed, lock, requesting_cs, myseqno, highestseqno>>
      /\ \A q \in Node : Spared(q)' =>
           Spared(q) /\ myseqno'[q] = myseqno[q] /\ highestseqno[q] <= highestseqno'[q]
  BY Zenon, <1>0, <1>1, Kept
<1>4. /\ thread'[j] = "none" /\ next'[j] = 1
      /\ \A i \in Call : i # j => thread'[i] = thread[i] /\ next'[i] = next[i]
      /\ thread' \in [Call -> {"none", "init", "acquire", "mutex", "ask", "sent", "wait",
                               "release"}]
      /\ next' \in [Call -> Nat]
  <2>1. /\ thread \in [Call -> {"none", "init", "acquire", "mutex", "ask", "sent", "wait",
                                "release"}]
        /\ next \in [Call -> Nat]
    BY Zenon, <1>0 DEF TypeOK
  <2> QED
    BY ONLY <1>1, <2>1, j \in Call
<1>5. /\ "none" \notin Asking /\ "none" \notin {"mutex", "sent", "wait"}
      /\ "ask" \in Asking /\ "ask" # "none" /\ Procedure("ask") = "acquire"
  BY DEF Asking, Procedure
<1>6. /\ pc' \in [Client -> {"start", "init", "idle", "acquire", "held", "release", "exited"}]
      /\ \A d \in Client : d # j[1] => pc'[d] = pc[d]
      /\ Spared(n) => j = Current(j[1]) /\ pc[j[1]] = "acquire" /\ pc'[j[1]] = "held"
  <2>1. pc[j[1]] = "acquire" => Returned(j[1]) = "held"
    BY DEF Returned
  <2> QED
    BY Zenon, <1>0, <1>1, <1>5, <2>1, Replied
<1>7. TypeOK'
  <2>1. \A i \in Call : thread'[i] \in {"sent", "wait"} => next'[i] \in DOMAIN nodes'[At(i)]
    BY Zenon, <1>0, <1>1, <1>4, <1>5 DEF TypeOK
  <2> QED
    BY Zenon, <1>0, <1>1, <1>3, <1>4, <1>6, <2>1 DEF TypeOK
<1>8. StageInv'
  BY Zenon, <1>0, <1>1, <1>3, <1>4, <1>5, RepliedStage
<1>9. Spared(n) => /\ InUse(j[1])
                   /\ \A m \in Node \ {n} : Passed(j[1], m)
  <2> SUFFICES ASSUME Spared(n)
               PROVE  InUse(j[1]) /\ \A m \in Node \ {n} : Passed(j[1], m)
    OBVIOUS
  <2>1. j = Current(j[1]) /\ pc[j[1]] = "acquire" /\ thread[j] \in Asking
    BY Zenon, <1>1, <1>5, <1>6
  <2>2. \A i \in DOMAIN nodes[n] : i < next[j]
    <3>1. /\ DOMAIN nodes[n] = 1 .. Len(nodes[n]) /\ Len(nodes[n]) \in Nat
          /\ next[j] \in Nat /\ next[j] \notin DOMAIN nodes[n]
      BY Zenon, <1>0, <1>1, <1>2, Typed
    <3>2. next[j] >= 1
      BY Zenon, <1>0, <2>1 DEF LoopInv
    <3> QED
      BY ONLY <3>1, <3>2
  <2>3. \A m \in Node \ {n} : \E i \in DOMAIN nodes[n] : nodes[n][i] = m
    <3>1. pc[j[1]] \notin {"start", "init", "exited"}
      BY <2>1
    <3> QED
      <4>1. Spared(server[j[1]])
        BY Zenon, <1>2
      <4>2. \A m \in Node \ {server[j[1]]} :
              \E i \in DOMAIN nodes[server[j[1]]] : nodes[server[j[1]]][i] = m
        BY Zenon, <1>0, <1>2, <3>1, <4>1 DEF TableInv
      <4> HIDE DEF n
      <4> QED
        BY Zenon, <1>2, <4>2
  <2>4. InUse(j[1])
    BY Zenon, <2>1 DEF InUse
  <2>5. \A m \in Node \ {n} : Passed(j[1], m)
    BY Zenon, <1>2, <2>1, <2>2, <2>3 DEF Passed
  <2> QED
    BY Zenon, <2>4, <2>5
<1> HIDE DEF n
<1>10. ASSUME NEW d \in Client, NEW m \in Node \ {server[d]}, Spared(server[d])'
       PROVE  /\ Passed(d, m)' => Passed(d, m)
              /\ Deferred(d, m)' => Deferred(d, m)
  <2>1. CASE d = j[1]
    <3>1. Spared(n) /\ m \in Node \ {n}
      BY Zenon, <1>2, <1>3, <1>10, <2>1
    <3>2. pc'[d] = "held"
      BY Zenon, <1>6, <2>1, <3>1
    <3>3. ~Deferred(d, m)'
      BY <3>2 DEF Deferred
    <3> QED
      BY Zenon, <1>9, <2>1, <3>1, <3>3
  <2>2. CASE d # j[1]
    <3>1. Current(d) # j
      BY Zenon, <2>2, OtherCall
    <3> QED
      BY Zenon, <1>1, <1>4, <1>6, <2>2, <3>1, LoopSame
  <2> QED
    BY Zenon, <2>1, <2>2
<1>11. ASSUME NEW d \in Client, Spared(server[d])' PROVE InUse(d)' => InUse(d)
  <2>1. CASE d = j[1]
    BY Zenon, <1>2, <1>3, <1>9, <1>11, <2>1
  <2>2. CASE d # j[1]
    <3>1. Current(d) # j
      BY Zenon, <2>2, OtherCall
    <3> QED
      BY Zenon, <1>1, <1>4, <1>6, <2>2, <3>1, LoopSame
  <2> QED
    BY Zenon, <2>1, <2>2
<1>12. OwnerInv'
  <2>1. \A i \in Call : thread'[i] = "mutex" => thread[i] = "mutex"
    BY Zenon, <1>4, <1>5
  <2>2. /\ \A i \in Call : thread'[i] = "mutex" => listed'[At(i)]
        /\ \A q \in Node : lock'[q] => listed'[q] /\ requesting_cs'[q]
    BY Zenon, <1>0, <1>3, <2>1 DEF OwnerInv
  <2> QED
    BY Zenon, <1>0, <1>3, <1>11, <2>2, OwnerFrame
<1>13. TableInv'
  <2>1. "acquire" \notin {"start", "init", "exited"}
    OBVIOUS
  <2>2. \A d \in Client : Spared(server[d])' /\ pc'[d] \notin {"start", "init", "exited"}
          => pc[d] \notin {"start", "init", "exited"}
    BY Zenon, <1>2, <1>3, <1>6, <2>1
  <2> QED
    BY Zenon, <1>0, <1>1, <1>3, <2>2, TableFrame
<1>14. LoopInv'
  BY Zenon, <1>0, <1>1, <1>4, <1>5 DEF LoopInv
<1>15. RequestInv'
  <2>1. requests \subseteq Request /\ requests' \subseteq requests
    BY <1>0, <1>1 DEF TypeOK
  <2>2. \A i \in Call : /\ thread[i] = "none" => thread'[i] = "none"
                        /\ thread[i] \in Asking => thread'[i] \in Asking \cup {"none"}
    BY Zenon, <1>4
  <2> QED
    BY Zenon, <1>0, <1>1, <1>3, <2>1, <2>2, RequestFrame
<1>16. PermissionInv'
  BY Zenon, <1>0, <1>1, <1>3, <1>7, <1>10, PermissionFrame
<1>17. FirstDeath'
  BY Zenon, <1>0, <1>1 DEF FirstDeath
<1> QED
  BY Zenon, <1>7, <1>8, <1>12, <1>13, <1>14, <1>15, <1>16, <1>17 DEF RInv

\* release_lock with the lock in the list: the mutex is free, so those that it
\* wakes may come past this server.
LEMMA ReleaseStep ==
  ASSUME RInv, NEW j \in Call, ReleaseListed(j)
  PROVE  RInv'
<1> DEFINE n == At(j)
<1> DEFINE Woken == {i \in Call : thread[i] = "wait" /\ WaitsFor(i, n)}
<1>0. /\ TypeOK /\ StageInv /\ OwnerInv /\ TableInv /\ LoopInv /\ RequestInv
      /\ PermissionInv /\ FirstDeath
  BY Zenon DEF RInv
<1>1. /\ UNCHANGED <<up, nodes, listed, requesting_cs, myseqno, highestseqno, calls>>
      /\ UNCHANGED <<requests, died, abandoned, skipped, crashes, starts, timeouts>>
      /\ thread[j] = "release" /\ Reply(j) /\ lock' = [lock EXCEPT ![n] = FALSE]
      /\ thread' = [i \in Call |-> IF i = j THEN "none"
                                   ELSE IF i \in Woken THEN "ask" ELSE thread[i]]
      /\ next' = [i \in Call |-> IF i \in Woken THEN next[i] + 1 ELSE next[i]]
  BY Zenon DEF ReleaseListed, history, bounds
<1>2. n \in Node /\ n = server[j[1]] /\ j[1] \in Client
  BY Zenon, Calls
<1>3. /\ \A i \in Woken : /\ i \in Call /\ i # j /\ thread[i] = "wait"
                          /\ nodes[At(i)][next[i]] = n
  BY <1>1 DEF WaitsFor
<1> HIDE DEF Woken
<1>4. /\ thread'[j] = "none" /\ next'[j] = next[j]
      /\ \A i \in Call : i \in Woken => thread'[i] = "ask" /\ next'[i] = next[i] + 1
      /\ \A i \in Call : i # j /\ i \notin Woken =>
           thread'[i] = thread[i] /\ next'[i] = next[i]
  BY <1>1, <1>3
<1>5. /\ thread' \in [Call -> {"none", "init", "acquire", "mutex", "ask", "sent", "wait",
                               "release"}]
      /\ next' \in [Call -> Nat]
  <2>1. /\ thread \in [Call -> {"none", "init", "acquire", "mutex", "ask", "sent", "wait",
                                "release"}]
        /\ next \in [Call -> Nat]
    BY Zenon, <1>0 DEF TypeOK
  <2> QED
    BY <1>1, <2>1
<1>6. /\ lock'[n] = FALSE /\ \A q \in Node : q # n => lock'[q] = lock[q]
      /\ lock' \in [Node -> BOOLEAN]
  <2>1. lock \in [Node -> BOOLEAN]
    BY Zenon, <1>0 DEF TypeOK
  <2> HIDE DEF n
  <2> QED
    BY <1>1, <1>2, <2>1
<1>7. /\ "none" \notin Asking /\ "none" \notin {"mutex", "sent", "wait"}
      /\ "ask" \in Asking /\ "ask" \notin {"none", "mutex", "sent", "wait"}
      /\ "wait" \in Asking /\ "wait" # "none" /\ Procedure("ask") = Procedure("wait")
      /\ "release" \notin Asking /\ "release" # "none" /\ Procedure("release") = "release"
  BY DEF Asking, Procedure
<1>8. /\ pc' \in [Client -> {"start", "init", "idle", "acquire", "held", "release", "exited"}]
      /\ \A d \in Client : d # j[1] => pc'[d] = pc[d]
      /\ Spared(n) => pc[j[1]] = "release" /\ pc'[j[1]] = "idle"
  <2>1. pc[j[1]] = "release" => Returned(j[1]) = "idle"
    BY DEF Returned
  <2> QED
    BY Zenon, <1>0, <1>1, <1>7, <2>1, Replied
<1>9. TypeOK'
  <2>1. \A i \in Call : thread'[i] \in {"sent", "wait"} => next'[i] \in DOMAIN nodes'[At(i)]
    BY Zenon, <1>0, <1>1, <1>4, <1>7 DEF TypeOK
  <2> QED
    BY Zenon, <1>0, <1>1, <1>5, <1>6, <1>8, <2>1 DEF TypeOK
<1>10. \A q \in Node : /\ Spared(q)' => Spared(q)
                       /\ myseqno'[q] = myseqno[q] /\ highestseqno[q] <= highestseqno'[q]
  <2>1. \A k \in Int : k <= k
    OBVIOUS
  <2> QED
    BY Zenon, <1>0, <1>1, <2>1, Typed DEF Spared
<1>11. \A i \in Call : thread'[i] # "none" =>
         thread[i] # "none" /\ Procedure(thread'[i]) = Procedure(thread[i])
  BY Zenon, <1>3, <1>4, <1>7
<1>12. StageInv'
  BY Zenon, <1>0, <1>1, <1>4, <1>7, <1>10, <1>11, RepliedStage
<1> HIDE DEF n
<1>13. ASSUME NEW d \in Client, d # j[1], NEW m
       PROVE  /\ InUse(d)' <=> InUse(d)
              /\ Deferred(d, m)' => Deferred(d, m)
              /\ Passed(d, m)' => Passed(d, m) \/ (m = n /\ Deferred(d, m))
  <2>1. Current(d) # j /\ pc'[d] = pc[d] /\ calls' = calls /\ nodes' = nodes
    BY Zenon, <1>1, <1>8, <1>13, OtherCall
  <2>2. CASE Current(d) \in Woken
    <3>1. /\ Current(d) \in Call /\ thread[Current(d)] = "wait"
          /\ thread[Current(d)] \in {"sent", "wait"}
          /\ thread'[Current(d)] = "ask" /\ next'[Current(d)] = next[Current(d)] + 1
          /\ nodes[server[d]][next[Current(d)]] = n
      BY Zenon, <1>3, <1>4, <2>2, CurrentCall
    <3>2. /\ InUse(d)' <=> InUse(d)
          /\ ~Deferred(d, m)'
          /\ Passed(d, m)' => Passed(d, m) \/ m = n
      BY Zenon, <1>0, <2>1, <3>1, LoopNext
    <3>3. Passed(d, m)' => pc[d] = "held" \/ pc[d] = "acquire"
      BY Zenon, <2>1 DEF Passed
    <3>4. pc[d] = "held" => Passed(d, m)
      BY Zenon DEF Passed
    <3>5. pc[d] = "acquire" /\ m = n => Deferred(d, m)
      BY Zenon, <3>1, CurrentCall DEF Deferred, WaitsFor
    <3> QED
      BY Zenon, <3>2, <3>3, <3>4, <3>5
  <2>3. CASE Current(d) \notin Woken
    BY Zenon, <1>4, <2>1, <2>3, LoopSame
  <2> QED
    BY Zenon, <2>2, <2>3
<1>14. Spared(n) => /\ ~InUse(j[1])' /\ \A m : ~Passed(j[1], m)' /\ ~Deferred(j[1], m)'
                    /\ \A d \in Client : server[d] = n => ~InUse(d)'
  <2> SUFFICES ASSUME Spared(n)
               PROVE  /\ ~InUse(j[1])' /\ \A m : ~Passed(j[1], m)' /\ ~Deferred(j[1], m)'
                      /\ \A d \in Client : server[d] = n => ~InUse(d)'
    OBVIOUS
  <2>1. pc[j[1]] = "release" /\ pc'[j[1]] = "idle"
    BY Zenon, <1>8
  <2>2. ~InUse(j[1])' /\ \A m : ~Passed(j[1], m)' /\ ~Deferred(j[1], m)'
    BY <2>1 DEF InUse, Passed, Deferred
  <2>3. InUse(j[1])
    BY <2>1 DEF InUse
  <2>4. \A d \in Client : server[d] = n /\ InUse(d) => d = j[1]
    <3>1. Spared(server[j[1]])
      BY Zenon, <1>2
    <3>2. \A d \in Client : server[d] = server[j[1]] /\ InUse(d) => d = j[1]
      BY Zenon, <1>0, <1>2, <2>3, <3>1 DEF OwnerInv
    <3> QED
      BY Zenon, <1>2, <3>2
  <2>5. \A d \in Client : server[d] = n => ~InUse(d)'
    BY Zenon, <1>13, <2>2, <2>4
  <2> QED
    BY Zenon, <2>2, <2>5
<1>15. OwnerInv'
  <2>1. \A i \in Call : thread'[i] = "mutex" => thread[i] = "mutex"
    BY Zenon, <1>4, <1>7
  <2>2. /\ \A i \in Call : thread'[i] = "mutex" => listed'[At(i)]
        /\ \A q \in Node : lock'[q] => listed'[q] /\ requesting_cs'[q]
    BY Zenon, <1>0, <1>1, <1>6, <2>1 DEF OwnerInv
  <2>3. ASSUME NEW d \in Client, Spared(server[d])', InUse(d)'
        PROVE  InUse(d) /\ lock'[server[d]] = lock[server[d]]
    <3>1. server[d] # n
      BY Zenon, <1>2, <1>10, <1>14, <2>3
    <3>2. d # j[1] /\ server[d] \in Node
      BY Zenon, <1>2, <3>1, Bounds
    <3> QED
      BY Zenon, <1>6, <1>13, <2>3, <3>1, <3>2
  <2> QED
    BY Zenon, <1>0, <1>10, <2>2, <2>3, OwnerFrame
<1>16. TableInv'
  <2>1. "release" \notin {"start", "init", "exited"}
    OBVIOUS
  <2>2. \A d \in Client : Spared(server[d])' /\ pc'[d] \notin {"start", "init", "exited"}
          => pc[d] \notin {"start", "init", "exited"}
    BY Zenon, <1>2, <1>8, <1>10, <2>1
  <2> QED
    BY Zenon, <1>0, <1>1, <1>10, <2>2, TableFrame
<1>17. LoopInv'
  <2>1. ASSUME NEW i \in Call, thread'[i] \in Asking
        PROVE  next'[i] >= 1 /\ next'[i] <= Len(nodes'[At(i)]) + 1
    <3>1. CASE i \in Woken
      <4>1. thread[i] \in {"sent", "wait"} /\ next'[i] = next[i] + 1 /\ nodes' = nodes
        BY Zenon, <1>1, <1>3, <1>4, <3>1
      <4> QED
        BY Zenon, <1>0, <4>1, NextPosition
    <3>2. CASE i \notin Woken
      BY Zenon, <1>0, <1>1, <1>4, <1>7, <2>1, <3>2 DEF LoopInv
    <3> QED
      BY Zenon, <3>1, <3>2
  <2> QED
    BY Zenon, <2>1 DEF LoopInv
<1>18. RequestInv'
  <2>1. requests \subseteq Request /\ requests' \subseteq requests
    BY <1>0, <1>1 DEF TypeOK
  <2>2. \A i \in Call : /\ thread[i] = "none" => thread'[i] = "none"
                        /\ thread[i] \in Asking => thread'[i] \in Asking \cup {"none"}
    BY Zenon, <1>3, <1>4, <1>7
  <2> QED
    BY Zenon, <1>0, <1>1, <1>10, <2>1, <2>2, RequestFrame
<1>19. PermissionInv'
  <2>1. ASSUME NEW d \in Client, NEW m \in Node \ {server[d]}, Spared(server[d])'
        PROVE  /\ Deferred(d, m)' \/ Passed(d, m)' => Deferred(d, m) \/ Passed(d, m)
               /\ Passed(d, m)' /\ lock'[m] => Passed(d, m) /\ lock[m]
    <3>1. CASE d = j[1]
      BY Zenon, <1>2, <1>10, <1>14, <2>1, <3>1
    <3>2. CASE d # j[1]
      BY Zenon, <1>6, <1>13, <3>2
    <3> QED
      BY Zenon, <3>1, <3>2
  <2> QED
    BY Zenon, <1>0, <1>1, <1>9, <1>10, <2>1, PermissionFrame
<1>20. FirstDeath'
  BY Zenon, <1>0, <1>1 DEF FirstDeath
<1> QED
  BY Zenon, <1>9, <1>12, <1>15, <1>16, <1>17, <1>18, <1>19, <1>20 DEF RInv

\* The three ways in which a server dies.  Without a stop from outside or a call
\* given up, no peer is down and the lock of a release is in the list.
LEMMA DeathSteps ==
  ASSUME RInv
  PROVE  /\ \A n \in Node : Crash(n) => RInv'
         /\ \A j \in Call : request(j) /\ ~up[nodes[At(j)][next[j]]] => RInv'
         /\ \A j \in Call : ReleaseUnlisted(j) => RInv'
<1>0. TypeOK /\ StageInv /\ OwnerInv /\ FirstDeath
  BY Zenon DEF RInv
<1>1. ASSUME NEW n \in Node, Crash(n)
      PROVE  RInv'
  <2>1. crashes' \in 0 .. MaxCrashes /\ crashes' # 0
    <3>1. /\ crashes \in 0 .. MaxCrashes /\ MaxCrashes \in Nat /\ crashes < MaxCrashes
          /\ crashes' = crashes + 1
      BY Zenon, <1>0, <1>1, Bounds DEF Crash, TypeOK
    <3> QED
      BY ONLY <3>1
  <2>2. Dies(n)
    BY Zenon, <1>1 DEF Crash
  <2> QED
    BY Zenon, <2>1, <2>2, DiesStep
<1>2. ASSUME NEW n \in Node, ~Spared(n) PROVE crashes # 0 \/ abandoned # {}
  BY <1>0, <1>2 DEF FirstDeath, Spared
<1>3. ASSUME NEW j \in Call, request(j), ~up[nodes[At(j)][next[j]]]
      PROVE  RInv'
  <2>1. nodes[At(j)] \in Seq(Node) /\ next[j] \in DOMAIN nodes[At(j)] /\ At(j) \in Node
    BY Zenon, <1>0, <1>3, Typed, Calls DEF request
  <2>2. nodes[At(j)][next[j]] \in Node
    BY <2>1
  <2>3. ~Spared(nodes[At(j)][next[j]])
    BY <1>0, <1>3, <2>2 DEF StageInv, Spared
  <2>4. Dies(At(j)) /\ UNCHANGED crashes
    BY Zenon, <1>3 DEF request
  <2>5. crashes' \in 0 .. MaxCrashes
    BY Zenon, <1>0, <2>4 DEF TypeOK
  <2> QED
    BY Zenon, <1>2, <2>1, <2>2, <2>3, <2>4, <2>5, DiesStep
<1>4. ASSUME NEW j \in Call, ReleaseUnlisted(j)
      PROVE  RInv'
  <2>1. /\ thread[j] = "release" /\ ~listed[At(j)] /\ At(j) \in Node /\ j[1] \in Client
        /\ At(j) = server[j[1]]
    BY Zenon, <1>4, Calls DEF ReleaseUnlisted
  <2>2. ~Spared(At(j))
    <3>1. SUFFICES ASSUME Spared(At(j)) PROVE FALSE
      OBVIOUS
    <3>2. "release" # "none" /\ Procedure("release") = "release"
      BY DEF Procedure, Asking
    <3>3. pc[j[1]] = "release"
      BY Zenon, <1>0, <2>1, <3>1, <3>2 DEF StageInv
    <3>4. InUse(j[1]) /\ Spared(server[j[1]])
      BY <2>1, <3>1, <3>3 DEF InUse
    <3>5. listed[server[j[1]]]
      BY Zenon, <1>0, <2>1, <3>4, Bounds DEF OwnerInv
    <3> QED
      BY Zenon, <2>1, <3>5
  <2>3. Dies(At(j)) /\ UNCHANGED crashes
    BY Zenon, <1>4 DEF ReleaseUnlisted
  <2>4. crashes' \in 0 .. MaxCrashes
    BY Zenon, <1>0, <2>3 DEF TypeOK
  <2> QED
    BY Zenon, <1>2, <2>1, <2>2, <2>3, <2>4, DiesStep
<1> QED
  BY Zenon, <1>1, <1>3, <1>4

\* A step that changes nothing.
LEMMA Stutter == RInv /\ UNCHANGED vars => RInv'
<1> SUFFICES ASSUME RInv, UNCHANGED vars PROVE RInv'
  OBVIOUS
<1>1. /\ up' = up /\ nodes' = nodes /\ listed' = listed /\ lock' = lock
      /\ requesting_cs' = requesting_cs /\ myseqno' = myseqno
      /\ highestseqno' = highestseqno /\ pc' = pc /\ calls' = calls
      /\ thread' = thread /\ next' = next /\ requests' = requests
      /\ died' = died /\ abandoned' = abandoned /\ skipped' = skipped
      /\ crashes' = crashes /\ starts' = starts /\ timeouts' = timeouts
  BY Zenon DEF vars, lockvar, history, bounds
<1>0. /\ TypeOK /\ StageInv /\ OwnerInv /\ TableInv /\ LoopInv /\ RequestInv
      /\ PermissionInv /\ FirstDeath
  BY Zenon DEF RInv
<1>2. TypeOK'
  BY Zenon, <1>0, <1>1 DEF TypeOK
<1>3. StageInv' /\ LoopInv' /\ FirstDeath'
  BY Zenon, <1>0, <1>1 DEF StageInv, LoopInv, FirstDeath, Spared, Current
<1>4. OwnerInv' /\ RequestInv'
  BY Zenon, <1>0, <1>1 DEF OwnerInv, RequestInv, Spared, InUse, Current
<1>5. \A q \in Node : Spared(q)' =>
        Spared(q) /\ myseqno'[q] = myseqno[q] /\ highestseqno[q] <= highestseqno'[q]
  BY Zenon, <1>0, <1>1, Kept DEF lockvar
<1>6. TableInv'
  BY Zenon, <1>0, <1>1, <1>5, TableFrame
<1>7. PermissionInv'
  <2>1. ASSUME NEW c \in Client, NEW m
        PROVE  (Passed(c, m)' <=> Passed(c, m)) /\ (Deferred(c, m)' <=> Deferred(c, m))
    BY Zenon, <1>1, LoopSame
  <2> QED
    BY Zenon, <1>0, <1>1, <1>2, <1>5, <2>1, PermissionFrame
<1> QED
  BY Zenon, <1>2, <1>3, <1>4, <1>6, <1>7 DEF RInv

\* RInv is an invariant of the lock manager whose servers die and come back and
\* whose calls are given up, in whatever order that happens.
THEOREM RInvInvariant == Spec => []RInv
<1>1. ASSUME RInv, Next
      PROVE  RInv'
  <2>1. ASSUME NEW n \in Node, Crash(n) \/ Start(n)
        PROVE  RInv'
    BY Zenon, <1>1, <2>1, DeathSteps, StartStep
  <2>2. ASSUME NEW c \in Client,
               \/ create_client_exits(c) \/ CallTimesOut(c)
               \/ psu_init_lock_mgr(c) \/ psu_acquire_lock(c) \/ psu_release_lock(c)
        PROVE  RInv'
    BY Zenon, <1>1, <2>2, ClientSteps, BeginStep
  <2>3. ASSUME NEW j \in Call,
               \/ init_lock_mgr(j)
               \/ find_lockvar(j) \/ TakeMutex(j) \/ request(j) \/ RequestTimesOut(j)
               \/ Acquired(j)
               \/ ReleaseListed(j) \/ ReleaseUnlisted(j)
        PROVE  RInv'
    <3>1. CASE init_lock_mgr(j) \/ find_lockvar(j) \/ TakeMutex(j)
      BY Zenon, <1>1, <3>1, InitStep, FindStep, TakeMutexStep
    <3>2. CASE request(j)
      BY Zenon, <1>1, <3>2, SendStep, DeathSteps
    <3>3. CASE RequestTimesOut(j) \/ Acquired(j)
      BY Zenon, <1>1, <3>3, RequestTimesOutStep, AcquiredStep
    <3>4. CASE ReleaseListed(j) \/ ReleaseUnlisted(j)
      BY Zenon, <1>1, <3>4, ReleaseStep, DeathSteps
    <3> QED
      BY Zenon, <2>3, <3>1, <3>2, <3>3, <3>4
  <2>4. ASSUME NEW r \in requests, request_1_svc(r)
        PROVE  RInv'
    BY Zenon, <1>1, <2>4, AnswerStep
  <2> QED
    BY Zenon, <1>1, <2>1, <2>2, <2>3, <2>4 DEF Next
<1>2. RInv /\ [Next]_vars => RInv'
  BY Zenon, <1>1, Stutter
<1> QED
  BY InitRInv, <1>2, PTL DEF Spec

\* The variables of the servers and of their clients keep their types, and a
\* thread that waits has a peer to wait for, whichever servers die and whichever
\* calls are given up.
THEOREM TypeCorrect == Spec => []TypeOK
<1>1. RInv => TypeOK
  BY Zenon DEF RInv
<1> QED
  BY <1>1, RInvInvariant, PTL

\* No server exits in create_client or fails the assertion of release_lock
\* before some server has been stopped from outside or some client has given up
\* a call.
THEOREM DeathsStartOutside == Spec => []FirstDeath
<1>1. RInv => FirstDeath
  BY Zenon DEF RInv
<1> QED
  BY <1>1, RInvInvariant, PTL

\* Clients of spared servers exclude each other, with all calls allowed to fail:
\* on one server by its mutex, on two because each request would precede the
\* other.
THEOREM SurvivorsExclude == Spec => []SurvivorsExclusive
<1>1. RInv => SurvivorsExclusive
  <2> SUFFICES ASSUME RInv, NEW c \in Client, NEW d \in Client,
                      c # d, pc[c] = "held", pc[d] = "held",
                      Spared(server[c]), Spared(server[d])
               PROVE  /\ server[c] # server[d]
                      /\ \/ Wrapped(server[c]) \/ Wrapped(server[d])
                         \/ server[d] \in skipped[server[c]]
                         \/ server[c] \in skipped[server[d]]
    BY Zenon DEF SurvivorsExclusive
  <2>0. TypeOK /\ OwnerInv /\ PermissionInv
    BY Zenon DEF RInv
  <2>1. InUse(c) /\ InUse(d)
    BY DEF InUse
  <2>2. server[c] # server[d] /\ lock[server[c]] /\ lock[server[d]]
    BY Zenon, <2>0, <2>1 DEF OwnerInv
  <2>3. server[c] \in Node /\ server[d] \in Node
    BY Zenon, Bounds
  <2>4. Passed(c, server[d]) /\ Passed(d, server[c])
    BY Zenon DEF Passed
  <2>5. /\ ~Wrapped(server[c]) /\ ~Wrapped(server[d])
        /\ server[d] \notin skipped[server[c]] /\ server[c] \notin skipped[server[d]]
        => Before(server[c], server[d]) /\ Before(server[d], server[c])
    BY Zenon, <2>0, <2>2, <2>3, <2>4 DEF PermissionInv
  <2>6. ~(Before(server[c], server[d]) /\ Before(server[d], server[c]))
    <3>1. /\ server[c] \in Int /\ server[d] \in Int
          /\ myseqno[server[c]] \in Int /\ myseqno[server[d]] \in Int
      BY Zenon, <2>0, <2>3, Typed, Bounds
    <3> QED
      BY ONLY <3>1 DEF Before
  <2> QED
    BY Zenon, <2>2, <2>5, <2>6
<1> QED
  BY <1>1, RInvInvariant, PTL
=============================================================================
