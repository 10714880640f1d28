------------------------- MODULE LockMgrStepProofs -------------------------
(***************************************************************************)
(* Every step of LockMgr preserves the first parts of IInv: the types, the *)
(* ownership of lockvar->lock, the node table, the request loop and the    *)
(* handlers of requests.                                                   *)
(***************************************************************************)
EXTENDS LockMgrInvariant, TLAPS

\* Every client thread calls the server of a node (127.0.0.1).
LEMMA HomeIsNode ==
  \A t \in Thread : Home[t] \in Node
BY LockMgrAssumption

\* Loops count upwards from the first element.
LEMMA IndexFacts ==
  1 \in Index /\ \A i \in Index : i \in Nat /\ i >= 1 /\ i + 1 \in Index
BY DEF Index

\* The indices of a sequence.
LEMMA SeqDomain ==
  ASSUME NEW S, NEW s \in Seq(S)
  PROVE  /\ DOMAIN s = 1 .. Len(s)
         /\ Len(s) \in Nat
         /\ \A i \in DOMAIN s : i \in Nat /\ i >= 1 /\ i <= Len(s)
OBVIOUS

\* Overwriting entries of a sequence (RequestTimesOut) leaves a sequence.
LEMMA OverwriteSeq ==
  ASSUME NEW S, NEW s \in Seq(S), NEW f \in [DOMAIN s -> S]
  PROVE  f \in Seq(S)
BY SeqDomain

\* The node a waiting caller's request is at (line 135) is another node.
LEMMA PeerOfWaiting ==
  ASSUME TypeOK, TableInv, LoopInv, NEW t \in Thread, pc[t] = "wait"
  PROVE  /\ next[Home[t]] \in DOMAIN nodes[Home[t]]
         /\ Peer(Home[t]) \in Node \ {Home[t]}
<1>1. Home[t] \in Node
  BY HomeIsNode
<1>2. nodes[Home[t]] \in Seq(Node)
  BY <1>1 DEF TypeOK, TableType
<1>3. next[Home[t]] \in 1 .. Len(nodes[Home[t]])
  BY <1>1, <1>2, IndexFacts DEF LoopInv, TypeOK, ServerType
<1> QED
  BY <1>1, <1>2, <1>3 DEF TableInv, Peer

\* The same for a request that is being handled (call is not "none").
LEMMA PeerOfCaller ==
  ASSUME TypeOK, TableInv, LoopInv, NEW n \in Node, call[n] # "none"
  PROVE  next[n] \in DOMAIN nodes[n] /\ Peer(n) \in Node \ {n}
<1>1. PICK t \in Thread : Home[t] = n /\ pc[t] = "wait"
  BY DEF LoopInv
<1> QED
  BY <1>1, PeerOfWaiting

----------------------------------------------------------------------------
(* Which actions may change what.                                           *)

\* Only init_lock_mgr_1_svc writes the node table.
LEMMA TableFrame ==
  ASSUME [Next]_vars, \A n \in Node : ~InitStep(n)
  PROVE  UNCHANGED nodeVars
BY ZenonT(40)
   DEF Next, vars, psu_acquire_lock, psu_release_lock, ServerStep, TakeMutex,
       LoadHighest, FlagVisible, StoreSeqno, SendRequest, ReplyReceived,
       EnterCS, WakeDeferred, WakeDone, FreeDeferred, TakeMutexEarlyLoad,
       RequestTimesOut, request_1_svc, HandlerLoad, HandlerReload,
       HandlerStore, HandlerCheck, HandlerTie, HandlerAppend,
       HandlerAppendLost, HandlerLock, LateLoad, LateStore

----------------------------------------------------------------------------
\* A token of the node list is a node.
LEMMA TokenIsNode ==
  ASSUME NEW n \in Node, InitToken(n)
  PROVE  NodeStr[n][token[n]] \in Node
<1>1. token[n] \in 1 .. Len(NodeStr[n]) /\ NodeStr[n] \in Seq(Node)
  BY Zenon, LockMgrAssumption DEF InitToken
<1> QED
  BY <1>1

\* init_lock_mgr_1_svc puts nodes into the table.
LEMMA TableTypeStep ==
  ASSUME TableType, [Next]_vars
  PROVE  TableType'
<1>1. ASSUME NEW n \in Node, psu_init_lock_mgr(n)
      PROVE  TableType'
  BY <1>1 DEF psu_init_lock_mgr, TableType
<1>2. ASSUME NEW n \in Node, InitToken(n)
      PROVE  TableType'
  <2>1. NodeStr[n][token[n]] \in Node
    BY <1>2, TokenIsNode
  <2> QED
    BY SMTT(30), <1>2, <2>1 DEF InitToken, TableType
<1>3. ASSUME NEW n \in Node, InitDone(n)
      PROVE  TableType'
  BY <1>3 DEF InitDone, TableType
<1>4. CASE UNCHANGED nodeVars
  BY <1>4 DEF nodeVars, TableType
<1> QED
  BY <1>1, <1>2, <1>3, <1>4, TableFrame DEF InitStep

\* The fields of LockVar keep their types.
LEMMA LockVarTypeStep ==
  ASSUME TypeOK, [Next]_vars
  PROVE  LockVarType'
<1> USE DEF LockVarType
<1>0. LockVarType
  BY DEF TypeOK
<1>1. CASE UNCHANGED <<lock, fieldVars, deffered>>
  BY <1>0, <1>1 DEF fieldVars
<1>2. ASSUME NEW t \in Thread, TakeMutex(t) \/ TakeMutexEarlyLoad(t)
      PROVE  LockVarType'
  <2>1. CASE TakeMutex(t)
    BY Zenon, <1>0, <2>1 DEF TakeMutex, fieldVars, deferVars
  <2>2. CASE TakeMutexEarlyLoad(t)
    BY Zenon, <1>0, <2>2 DEF TakeMutexEarlyLoad, fieldVars, deferVars
  <2> QED
    BY <1>2, <2>1, <2>2
<1>3. ASSUME NEW t \in Thread, FlagVisible(t)
      PROVE  LockVarType'
  BY Zenon, <1>0, <1>3 DEF FlagVisible, deferVars
<1>4. ASSUME NEW t \in Thread, StoreSeqno(t)
      PROVE  LockVarType'
  <2>1. loaded[Home[t]] + 1 \in Nat
    BY SMTT(30), HomeIsNode DEF TypeOK, ServerType
  <2> QED
    BY Zenon, <1>0, <1>4, <2>1 DEF StoreSeqno, NextSeqno, deferVars
<1>5. ASSUME NEW t \in Thread, RequestTimesOut(t)
      PROVE  LockVarType'
  <2> DEFINE n == Home[t]
             d(m) == [i \in DOMAIN deffered[m] |->
                        IF deffered[m][i] = n THEN None ELSE deffered[m][i]]
  <2>1. ASSUME NEW m \in Node
        PROVE  d(m) \in Seq(Waiter)
    <3>1. deffered[m] \in Seq(Waiter) /\ None \in Waiter
      BY <1>0 DEF Waiter
    <3>2. d(m) \in [DOMAIN deffered[m] -> Waiter]
      BY SMTT(30), <3>1
    <3> QED
      BY <3>1, <3>2, OverwriteSeq
  <2>2. deffered' = [deffered EXCEPT ![Peer(n)] = d(Peer(n))]
    BY <1>5 DEF RequestTimesOut
  <2>3. deffered' \in [Node -> Seq(Waiter)]
    BY Zenon, <1>0, <2>1, <2>2
  <2> QED
    BY <1>0, <1>5, <2>3 DEF RequestTimesOut, fieldVars
<1>6. ASSUME NEW t \in Thread, FreeDeferred(t)
      PROVE  LockVarType'
  <2>0. <<>> \in Seq(Waiter)
    OBVIOUS
  <2>1. deffered' \in [Node -> Seq(Waiter)]
    BY Zenon, <1>0, <1>6, <2>0 DEF FreeDeferred
  <2>2. lock' \in [Node -> Thread \cup {None}]
    BY Zenon, <1>0, <1>6 DEF FreeDeferred
  <2> QED
    BY <1>0, <1>6, <2>1, <2>2 DEF FreeDeferred, fieldVars
<1>7. ASSUME NEW n \in Node, HandlerStore(n)
      PROVE  LockVarType'
  <2>1. reg[n] \in Nat
    BY DEF TypeOK, HandlerType
  <2> QED
    BY Zenon, <1>0, <1>7, <2>1 DEF HandlerStore, deferVars
<1>8. ASSUME NEW n \in Node, HandlerAppend(n)
      PROVE  LockVarType'
  <2>1. n \in Waiter
    BY DEF Waiter
  <2>2. \A m \in Node : Append(deffered[m], n) \in Seq(Waiter)
    BY <1>0, <2>1
  <2>3. deffered' \in [Node -> Seq(Waiter)]
    BY Zenon, <1>0, <1>8, <2>2 DEF HandlerAppend
  <2> QED
    BY <1>0, <1>8, <2>3 DEF HandlerAppend, fieldVars
<1>9. ASSUME NEW m \in Node, LateStore(m)
      PROVE  LockVarType'
  <2>1. lateStore[m] \subseteq Nat
    BY DEF TypeOK, HandlerType
  <2> QED
    BY <1>0, <1>9, <2>1 DEF LateStore, deferVars
<1> QED
  BY Zenon, <1>1, <1>2, <1>3, <1>4, <1>5, <1>6, <1>7, <1>8, <1>9
     DEF Next, vars, InitStep, psu_init_lock_mgr, InitToken, InitDone,
         psu_acquire_lock, psu_release_lock, ServerStep, LoadHighest,
         SendRequest, ReplyReceived, EnterCS, WakeDeferred, WakeDone,
         request_1_svc, HandlerLoad, HandlerReload, HandlerCheck, HandlerTie,
         HandlerAppendLost, HandlerLock, LateLoad, deferVars

\* The indices and registers of the acquiring and releasing threads keep
\* their types.
LEMMA ServerTypeStep ==
  ASSUME TypeOK, [Next]_vars
  PROVE  ServerType'
<1> USE DEF ServerType, Stages
<1>0. ServerType
  BY DEF TypeOK
<1>1. CASE UNCHANGED <<calls, pc, loaded, next, cursor>>
  BY <1>0, <1>1
<1>2. ASSUME NEW t \in Thread, psu_acquire_lock(t) \/ psu_release_lock(t)
      PROVE  ServerType'
  <2>1. CASE psu_acquire_lock(t)
    BY <1>0, <2>1 DEF psu_acquire_lock, deferVars, callVars
  <2>2. CASE psu_release_lock(t)
    BY <1>0, <2>2 DEF psu_release_lock, deferVars, callVars
  <2> QED
    BY <1>2, <2>1, <2>2
<1>3. ASSUME NEW t \in Thread, ServerStep(t)
      PROVE  ServerType'
  <2>1. CASE TakeMutex(t)
    BY <1>0, <2>1 DEF TakeMutex, deferVars, callVars
  <2>2. CASE LoadHighest(t)
    <3>1. highestseqno[Home[t]] \in Nat
      BY HomeIsNode DEF TypeOK, LockVarType
    <3> QED
      BY Zenon, <1>0, <2>2, <3>1 DEF LoadHighest, deferVars, callVars
  <2>3. CASE FlagVisible(t)
    BY <1>0, <2>3 DEF FlagVisible, deferVars, callVars
  <2>4. CASE StoreSeqno(t)
    BY Zenon, <1>0, <2>4, IndexFacts DEF StoreSeqno, deferVars
  <2>5. CASE SendRequest(t)
    BY <1>0, <2>5 DEF SendRequest, deferVars
  <2>6. CASE ReplyReceived(t)
    BY Zenon, <1>0, <2>6, IndexFacts DEF ReplyReceived, deferVars
  <2>7. CASE EnterCS(t)
    BY <1>0, <2>7 DEF EnterCS, deferVars, callVars
  <2>8. CASE WakeDeferred(t)
    BY Zenon, <1>0, <2>8, IndexFacts DEF WakeDeferred
  <2>9. CASE WakeDone(t)
    BY <1>0, <2>9 DEF WakeDone, deferVars, callVars
  <2>10. CASE FreeDeferred(t)
    BY Zenon, <1>0, <2>10, IndexFacts DEF FreeDeferred, callVars
  <2> QED
    BY SMTT(30), <1>3, <2>1, <2>2, <2>3, <2>4, <2>5, <2>6, <2>7, <2>8, <2>9, <2>10
       DEF ServerStep
<1>4. ASSUME NEW t \in Thread, TakeMutexEarlyLoad(t)
      PROVE  ServerType'
  <2>1. highestseqno[Home[t]] \in Nat
    BY HomeIsNode DEF TypeOK, LockVarType
  <2> QED
    BY Zenon, <1>0, <1>4, <2>1 DEF TakeMutexEarlyLoad, deferVars, callVars
<1>5. ASSUME NEW t \in Thread, RequestTimesOut(t)
      PROVE  ServerType'
  BY Zenon, <1>0, <1>5, IndexFacts DEF RequestTimesOut
<1> QED
  BY Zenon, <1>1, <1>2, <1>3, <1>4, <1>5
     DEF Next, vars, InitStep, psu_init_lock_mgr, InitToken, InitDone,
         request_1_svc, HandlerLoad, HandlerReload, HandlerStore,
         HandlerCheck, HandlerTie, HandlerAppend, HandlerAppendLost,
         HandlerLock, LateLoad, LateStore, deferVars, callVars

\* The stages and registers of the request handlers keep their types.
LEMMA HandlerTypeStep ==
  ASSUME TypeOK, TableInv, LoopInv, [Next]_vars
  PROVE  HandlerType'
<1> USE DEF HandlerType, HandlerStages
<1>0. HandlerType
  BY DEF TypeOK
<1>1. CASE UNCHANGED <<call, reg, lateVars>>
  BY <1>0, <1>1 DEF lateVars
<1>2. ASSUME NEW t \in Thread,
             SendRequest(t) \/ ReplyReceived(t) \/ WakeDeferred(t)
      PROVE  HandlerType'
  <2>1. CASE SendRequest(t)
    BY Zenon, <1>0, <2>1 DEF SendRequest, lateVars
  <2>2. CASE ReplyReceived(t)
    BY Zenon, <1>0, <2>2 DEF ReplyReceived, lateVars
  <2>3. CASE WakeDeferred(t)
    BY Zenon, <1>0, <2>3 DEF WakeDeferred, lateVars
  <2> QED
    BY <1>2, <2>1, <2>2, <2>3
<1>3. ASSUME NEW t \in Thread, RequestTimesOut(t)
      PROVE  HandlerType'
  <2>1. myseqno[Home[t]] \in Nat /\ reg[Home[t]] \in Nat
    BY <1>0, HomeIsNode DEF TypeOK, LockVarType
  <2>2. late' \in [Node -> SUBSET Nat] /\ lateStore' \in [Node -> SUBSET Nat]
    BY Zenon, <1>0, <1>3, <2>1 DEF RequestTimesOut
  <2>3. call' \in [Node -> HandlerStages] /\ reg' \in [Node -> Nat]
    BY Zenon, <1>0, <1>3 DEF RequestTimesOut
  <2> QED
    BY <2>2, <2>3
<1>4. ASSUME NEW n \in Node, request_1_svc(n)
      PROVE  HandlerType'
  <2>1. myseqno[n] \in Nat
    BY DEF TypeOK, LockVarType
  <2>2. CASE HandlerLoad(n)
    BY <1>0, <2>1, <2>2 DEF HandlerLoad, lateVars
  <2>3. CASE HandlerReload(n)
    <3>1. Peer(n) \in Node
      BY <2>3, PeerOfCaller DEF HandlerReload
    <3>2. highestseqno[Peer(n)] \in Nat
      BY <3>1 DEF TypeOK, LockVarType
    <3> QED
      BY <1>0, <2>3, <3>2 DEF HandlerReload, lateVars
  <2>4. CASE HandlerStore(n)
    BY <1>0, <2>4 DEF HandlerStore, lateVars
  <2>5. CASE HandlerCheck(n) \/ HandlerTie(n)
    BY <1>0, <2>5 DEF HandlerCheck, HandlerTie, lateVars
  <2>6. CASE HandlerAppend(n) \/ HandlerAppendLost(n) \/ HandlerLock(n)
    BY Zenon, <1>0, <2>6
       DEF HandlerAppend, HandlerAppendLost, HandlerLock, lateVars
  <2> QED
    BY <1>4, <2>2, <2>3, <2>4, <2>5, <2>6 DEF request_1_svc
<1>5. ASSUME NEW m \in Node, LateLoad(m)
      PROVE  HandlerType'
  <2>1. highestseqno[m] \in Nat
    BY DEF TypeOK, LockVarType
  <2> QED
    BY <1>0, <1>5, <2>1 DEF LateLoad
<1>6. ASSUME NEW m \in Node, LateStore(m)
      PROVE  HandlerType'
  BY <1>0, <1>6 DEF LateStore
<1> QED
  BY Zenon, <1>1, <1>2, <1>3, <1>4, <1>5, <1>6
     DEF Next, vars, InitStep, psu_init_lock_mgr, InitToken, InitDone,
         psu_acquire_lock, psu_release_lock, ServerStep, TakeMutex,
         LoadHighest, FlagVisible, StoreSeqno, EnterCS, WakeDone,
         FreeDeferred, TakeMutexEarlyLoad, callVars

\* Only nodes are recorded as asked: the peer of a waiting caller is one.
LEMMA HistoryTypeStep ==
  ASSUME TypeOK, TableInv, LoopInv, [Next]_vars
  PROVE  HistoryType'
<1> USE DEF HistoryType
<1>0. HistoryType
  BY DEF TypeOK
<1>1. CASE UNCHANGED histVars
  BY <1>0, <1>1 DEF histVars
<1>2. ASSUME NEW t \in Thread, TakeMutexEarlyLoad(t) \/ StoreSeqno(t)
      PROVE  HistoryType'
  BY SMTT(30), <1>0, <1>2 DEF TakeMutexEarlyLoad, StoreSeqno
<1>3. ASSUME NEW t \in Thread, ReplyReceived(t) \/ RequestTimesOut(t)
      PROVE  HistoryType'
  <2>1. Peer(Home[t]) \in Node
    BY Zenon, <1>3, PeerOfWaiting DEF ReplyReceived, RequestTimesOut
  <2> QED
    BY SMTT(30), <1>0, <1>3, <2>1 DEF ReplyReceived, RequestTimesOut
<1>4. ASSUME NEW n \in Node, HandlerStore(n) \/ LateStore(n)
      PROVE  HistoryType'
  BY <1>0, <1>4 DEF HandlerStore, LateStore
<1> QED
  BY Zenon, <1>1, <1>2, <1>3, <1>4
     DEF Next, vars, InitStep, psu_init_lock_mgr, InitToken, InitDone,
         psu_acquire_lock, psu_release_lock, ServerStep, TakeMutex,
         LoadHighest, FlagVisible, SendRequest, EnterCS, WakeDeferred,
         WakeDone, FreeDeferred, request_1_svc, HandlerLoad, HandlerReload,
         HandlerCheck, HandlerTie, HandlerAppend, HandlerAppendLost,
         HandlerLock, LateLoad

\* Every step keeps the type invariant.
LEMMA TypeStep ==
  ASSUME TypeOK, TableInv, LoopInv, [Next]_vars
  PROVE  TypeOK'
BY TableTypeStep, LockVarTypeStep, ServerTypeStep, HandlerTypeStep,
   HistoryTypeStep DEF TypeOK

----------------------------------------------------------------------------
\* lockvar->lock has one owner at a time: pthread_mutex_lock lets a thread
\* pass only when no other thread of the node is between lines 123 and 159.
LEMMA OwnerStep ==
  ASSUME TypeOK, OwnerInv, [Next]_vars
  PROVE  OwnerInv'
<1> SUFFICES ASSUME NEW u \in Thread
             PROVE  /\ Owning(u)' => lock'[Home[u]] = u
                    /\ pc'[u] # "idle" => inits'[Home[u]] > 0
  BY Zenon DEF OwnerInv, Owning
<1> USE DEF Owning
<1>0. /\ Home[u] \in Node /\ pc \in [Thread -> Stages]
      /\ lock \in [Node -> Thread \cup {None}]
      /\ inits \in [Node -> Nat]
      /\ Owning(u) => lock[Home[u]] = u
      /\ pc[u] # "idle" => inits[Home[u]] > 0
  BY Zenon, HomeIsNode DEF TypeOK, TableType, LockVarType, ServerType, OwnerInv
<1>1. ASSUME NEW n \in Node, InitStep(n)
      PROVE  /\ UNCHANGED <<pc, lock>>
             /\ inits[Home[u]] > 0 => inits'[Home[u]] > 0
  <2>1. /\ UNCHANGED <<pc, lock>>
        /\ inits' = inits \/ inits' = [inits EXCEPT ![n] = @ + 1]
    BY Zenon, <1>1 DEF InitStep, psu_init_lock_mgr, InitToken, InitDone
  <2> QED
    BY <1>0, <2>1
<1>2. ASSUME NEW t \in Thread, psu_acquire_lock(t)
      PROVE  /\ UNCHANGED <<lock, inits>> /\ inits[Home[t]] > 0
             /\ pc' = [pc EXCEPT ![t] = "mutex"]
  BY Zenon, <1>2 DEF psu_acquire_lock, nodeVars
<1>3. ASSUME NEW t \in Thread, TakeMutex(t) \/ TakeMutexEarlyLoad(t)
      PROVE  /\ inits' = inits /\ lock[Home[t]] = None
             /\ lock' = [lock EXCEPT ![Home[t]] = t]
             /\ pc[t] = "mutex"
             /\ \E s \in {"load", "flag"} : pc' = [pc EXCEPT ![t] = s]
  BY Zenon, <1>3 DEF TakeMutex, TakeMutexEarlyLoad, MutexFree, nodeVars
<1>4. ASSUME NEW t \in Thread, FreeDeferred(t)
      PROVE  /\ inits' = inits /\ pc[t] = "free"
             /\ lock' = [lock EXCEPT ![Home[t]] = None]
             /\ pc' = [pc EXCEPT ![t] = "idle"]
  BY Zenon, <1>4 DEF FreeDeferred, nodeVars
<1>5. ASSUME NEW t \in Thread,
             \/ LoadHighest(t) \/ FlagVisible(t) \/ StoreSeqno(t)
             \/ SendRequest(t) \/ ReplyReceived(t) \/ RequestTimesOut(t)
             \/ EnterCS(t) \/ psu_release_lock(t) \/ WakeDone(t)
      PROVE  /\ UNCHANGED <<lock, inits>> /\ Owning(t)
             /\ \E s \in Stages : pc' = [pc EXCEPT ![t] = s]
  BY Zenon, <1>5 DEF LoadHighest, FlagVisible, StoreSeqno, SendRequest,
              ReplyReceived, RequestTimesOut, EnterCS, psu_release_lock,
              WakeDone, nodeVars, Stages
<1>6. CASE UNCHANGED <<pc, lock, inits>>
  BY <1>0, <1>6
<1>7. ASSUME NEW t \in Thread, TakeMutex(t) \/ TakeMutexEarlyLoad(t)
      PROVE  /\ Owning(u)' => lock'[Home[u]] = u
             /\ pc'[u] # "idle" => inits'[Home[u]] > 0
  <2>1. None # u
    BY LockMgrAssumption
  <2>2. CASE u = t
    BY <1>0, <1>3, <1>7, <2>2
  <2>3. CASE u # t
    <3>1. pc'[u] = pc[u] /\ inits'[Home[u]] = inits[Home[u]]
      BY <1>0, <1>3, <1>7, <2>3
    <3>2. Home[u] = Home[t] => ~Owning(u)
      BY <1>0, <1>3, <1>7, <2>1
    <3>3. Home[u] # Home[t] => lock'[Home[u]] = lock[Home[u]]
      BY <1>0, <1>3, <1>7
    <3> QED
      BY <1>0, <3>1, <3>2, <3>3
  <2> QED
    BY <2>2, <2>3
<1>8. ASSUME NEW t \in Thread, FreeDeferred(t)
      PROVE  /\ Owning(u)' => lock'[Home[u]] = u
             /\ pc'[u] # "idle" => inits'[Home[u]] > 0
  <2>1. lock[Home[t]] = t
    BY <1>4, <1>8 DEF OwnerInv
  <2> QED
    BY <1>0, <1>4, <1>8, <2>1
<1> QED
  BY ZenonT(40), <1>0, <1>1, <1>2, <1>5, <1>6, <1>7, <1>8
     DEF Next, vars, ServerStep, WakeDeferred, request_1_svc, HandlerLoad,
         HandlerReload, HandlerStore, HandlerCheck, HandlerTie, HandlerAppend,
         HandlerAppendLost, HandlerLock, LateLoad, LateStore, nodeVars

\* Two threads of one node are not both inside the mutex of its LockVar.
LEMMA OneOwner ==
  ASSUME OwnerInv, NEW t \in Thread, NEW u \in Thread,
         Home[t] = Home[u], Owning(t), Owning(u)
  PROVE  t = u
BY DEF OwnerInv

\* init_lock_mgr_1_svc only appends (line 98), so what was in the table stays
\* where it was.
LEMMA TableGrows ==
  ASSUME TypeOK, [Next]_vars, NEW n \in Node
  PROVE  /\ Len(nodes[n]) <= Len(nodes'[n])
         /\ \A i \in DOMAIN nodes[n] :
              i \in DOMAIN nodes'[n] /\ nodes'[n][i] = nodes[n][i]
<1>1. nodes[n] \in Seq(Node) /\ nodes \in [Node -> Seq(Node)]
  BY DEF TypeOK, TableType
<1>2. ASSUME NEW k \in Node, InitToken(k)
      PROVE  \/ nodes'[n] = nodes[n]
             \/ \E m \in Node : nodes'[n] = Append(nodes[n], m)
  BY Zenon, <1>1, <1>2, TokenIsNode DEF InitToken
<1>3. CASE nodes'[n] = nodes[n]
  BY <1>1, <1>3
<1>4. ASSUME NEW m \in Node, nodes'[n] = Append(nodes[n], m)
      PROVE  /\ Len(nodes[n]) <= Len(nodes'[n])
             /\ \A i \in DOMAIN nodes[n] :
                  i \in DOMAIN nodes'[n] /\ nodes'[n][i] = nodes[n][i]
  BY <1>1, <1>4
<1> QED
  BY <1>2, <1>3, <1>4, TableFrame
     DEF InitStep, psu_init_lock_mgr, InitDone, nodeVars

\* init_lock_mgr_1_svc skips the local node and puts every token it passes
\* into the table.
LEMMA TableStep ==
  ASSUME TypeOK, TableInv, [Next]_vars
  PROVE  TableInv'
<1> SUFFICES ASSUME NEW n \in Node
             PROVE  /\ \A i \in DOMAIN nodes'[n] : nodes'[n][i] # n
                    /\ \A i \in DOMAIN NodeStr[n] :
                         i < token'[n] /\ NodeStr[n][i] # n =>
                           Listed(n, NodeStr[n][i])'
                    /\ inits'[n] > 0 => \A m \in Node \ {n} : Listed(n, m)'
  BY Zenon DEF TableInv
<1>1. /\ nodes[n] \in Seq(Node) /\ nodes \in [Node -> Seq(Node)]
      /\ token \in [Node -> Nat] /\ inits \in [Node -> Nat]
      /\ NodeStr[n] \in Seq(Node)
  BY Zenon, LockMgrAssumption DEF TypeOK, TableType
<1>2. \A m : Listed(n, m) => Listed(n, m)'
  BY TableGrows DEF Listed
<1>3. /\ \A i \in DOMAIN nodes[n] : nodes[n][i] # n
      /\ \A i \in DOMAIN NodeStr[n] :
           i < token[n] /\ NodeStr[n][i] # n => Listed(n, NodeStr[n][i])
      /\ inits[n] > 0 => \A m \in Node \ {n} : Listed(n, m)
  BY Zenon DEF TableInv
<1>4. CASE psu_init_lock_mgr(n)
  <2>1. nodes' = nodes /\ inits' = inits /\ token'[n] = 1
    BY Zenon, <1>1, <1>4 DEF psu_init_lock_mgr
  <2>2. \A i \in DOMAIN NodeStr[n] : ~(i < 1)
    BY <1>1, SeqDomain
  <2> QED
    BY Zenon, <1>2, <1>3, <2>1, <2>2
<1>5. CASE InitToken(n)
  <2>1. PICK pch \in Node : pch = NodeStr[n][token[n]]
    BY <1>5, TokenIsNode
  <2>2. token'[n] = token[n] + 1 /\ token[n] \in Nat /\ inits' = inits
    BY Zenon, <1>1, <1>5 DEF InitToken
  <2>3. \A i \in DOMAIN NodeStr[n] : i \in Nat
    BY Zenon, <1>1, SeqDomain
  <2>4. \A i \in DOMAIN NodeStr[n] :
          i < token'[n] => i < token[n] \/ i = token[n]
    BY <2>2, <2>3
  <2>5. CASE pch = n
    <3>1. nodes'[n] = nodes[n]
      BY Zenon, <1>1, <1>5, <2>1, <2>5 DEF InitToken
    <3> QED
      BY Zenon, <1>2, <1>3, <2>1, <2>2, <2>4, <2>5, <3>1
  <2>6. CASE pch # n
    <3>1. nodes'[n] = Append(nodes[n], pch)
      BY Zenon, <1>1, <1>5, <2>1, <2>6 DEF InitToken
    <3>2. /\ DOMAIN nodes'[n] = 1 .. Len(nodes[n]) + 1
          /\ nodes'[n][Len(nodes[n]) + 1] = pch
          /\ \A i \in 1 .. Len(nodes[n]) : nodes'[n][i] = nodes[n][i]
      BY <1>1, <3>1
    <3>3. Listed(n, pch)'
      <4>1. Len(nodes[n]) + 1 \in DOMAIN nodes'[n]
        BY <1>1, <3>2, SeqDomain
      <4> QED
        BY SMTT(30), <3>2, <4>1 DEF Listed
    <3>4. ASSUME NEW i \in DOMAIN nodes'[n]
          PROVE  nodes'[n][i] # n
      <4>1. i \in 1 .. Len(nodes[n]) \/ i = Len(nodes[n]) + 1
        BY SMTT(30), <1>1, <3>2
      <4>2. DOMAIN nodes[n] = 1 .. Len(nodes[n])
        BY <1>1
      <4> QED
        BY Zenon, <1>3, <2>6, <3>2, <4>1, <4>2
    <3> QED
      BY Zenon, <1>2, <1>3, <2>1, <2>2, <2>4, <3>3, <3>4
  <2> QED
    BY Zenon, <2>5, <2>6
<1>6. CASE InitDone(n)
  <2>1. \A i \in DOMAIN NodeStr[n] : i < token[n]
    BY SMTT(20), <1>1, <1>6 DEF InitDone
  <2>2. \A m \in Node \ {n} : Listed(n, m)
    BY <1>3, <2>1, LockMgrAssumption
  <2>3. nodes' = nodes /\ token'[n] = 0
    BY <1>1, <1>6 DEF InitDone
  <2>4. \A i \in DOMAIN NodeStr[n] : ~(i < 0)
    BY <1>1
  <2> QED
    BY Zenon, <1>2, <1>3, <2>2, <2>3, <2>4
<1>7. CASE nodes'[n] = nodes[n] /\ token'[n] = token[n] /\ inits'[n] = inits[n]
  BY Zenon, <1>2, <1>3, <1>7
<1>8. ASSUME NEW k \in Node \ {n}, InitStep(k)
      PROVE  nodes'[n] = nodes[n] /\ token'[n] = token[n] /\ inits'[n] = inits[n]
  BY Zenon, <1>1, <1>8 DEF InitStep, psu_init_lock_mgr, InitToken, InitDone
<1> QED
  BY Zenon, <1>4, <1>5, <1>6, <1>7, <1>8, TableFrame DEF InitStep, nodeVars
----------------------------------------------------------------------------
(* The request loop.  LoopInv is about one thread and the table and history *)
(* of its node, about the pending requests, and about the replies recorded. *)

\* What LoopInv says of the thread u.
ThreadLoop(u) ==
  /\ Requesting(u) =>
       /\ next[Home[u]] <= Len(nodes[Home[u]]) + 1
       /\ \A i \in DOMAIN nodes[Home[u]] :
            i < next[Home[u]] =>
              nodes[Home[u]][i] \in granted[Home[u]] \cup skipped[Home[u]]
  /\ pc[u] = "wait" => next[Home[u]] <= Len(nodes[Home[u]])
  /\ InCS(u) =>
       Node \ {Home[u]} \subseteq granted[Home[u]] \cup skipped[Home[u]]

\* The request loop of u goes through the table by one node at a time, and
\* nobody else changes its index or its record of replies.
LEMMA ThreadLoopStep ==
  ASSUME IInv, [Next]_vars, NEW u \in Thread
  PROVE  ThreadLoop(u)'
<1> DEFINE h == Home[u]
<1>0. /\ h \in Node
      /\ nodes[h] \in Seq(Node) /\ Len(nodes[h]) \in Nat
      /\ DOMAIN nodes[h] = 1 .. Len(nodes[h])
      /\ pc \in [Thread -> Stages]
      /\ next \in [Node -> Index] /\ next[h] \in Nat /\ next[h] >= 1
      /\ granted \in [Node -> SUBSET Node]
      /\ skipped \in [Node -> SUBSET Node]
  BY SMTT(30), HomeIsNode, SeqDomain, IndexFacts
     DEF IInv, TypeOK, TableType, ServerType, HistoryType
<1>1. ThreadLoop(u)
  BY DEF IInv, LoopInv, ThreadLoop, EveryPeerAsked
<1>2. CASE /\ UNCHANGED <<nodes, next, granted, skipped>>
           /\ pc'[u] = pc[u] \/ ~Requesting(u)'
  BY SMTT(30), <1>1, <1>2 DEF ThreadLoop, Requesting, InCS
<1>3. ASSUME NEW n \in Node, InitStep(n)
      PROVE  ThreadLoop(u)'
  <2>1. UNCHANGED <<next, granted, skipped, pc>>
    BY <1>3 DEF InitStep, psu_init_lock_mgr, InitToken, InitDone, callVars,
                histVars
  <2>2. /\ nodes'[h] \in Seq(Node) /\ Len(nodes'[h]) \in Nat
        /\ DOMAIN nodes'[h] = 1 .. Len(nodes'[h])
    BY Zenon, <1>0, TableTypeStep, SeqDomain DEF IInv, TypeOK, TableType
  <2>3. /\ Len(nodes[h]) <= Len(nodes'[h])
        /\ \A i \in DOMAIN nodes[h] : nodes'[h][i] = nodes[h][i]
    BY SMTT(30), <1>0, TableGrows DEF IInv
  <2>4. ASSUME Requesting(u), NEW i \in DOMAIN nodes'[h], i < next[h]
        PROVE  nodes'[h][i] \in granted[h] \cup skipped[h]
    <3>1. next[h] <= Len(nodes[h]) + 1
      BY <1>1, <2>4 DEF ThreadLoop
    <3>2. i \in DOMAIN nodes[h]
      BY SMTT(30), <1>0, <2>2, <2>4, <3>1
    <3> QED
      BY <1>1, <2>3, <2>4, <3>2 DEF ThreadLoop
  <2>5. /\ Requesting(u) => next[h] <= Len(nodes'[h]) + 1
        /\ pc[u] = "wait" => next[h] <= Len(nodes'[h])
    BY SMTT(30), <1>0, <1>1, <2>2, <2>3 DEF ThreadLoop
  <2> QED
    BY SMTT(30), <1>1, <2>1, <2>4, <2>5 DEF ThreadLoop, Requesting, InCS
<1>4. ASSUME NEW t \in Thread \ {u},
             StoreSeqno(t) \/ ReplyReceived(t) \/ RequestTimesOut(t)
      PROVE  ThreadLoop(u)'
  <2>1. pc'[u] = pc[u] /\ nodes' = nodes /\ Owning(t)
    BY Zenon, <1>0, <1>4
       DEF StoreSeqno, ReplyReceived, RequestTimesOut, nodeVars, Owning
  <2>2. CASE Home[t] = h
    <3>1. ~Owning(u)
      BY SMTT(30), <1>4, <2>1, <2>2, OneOwner DEF IInv
    <3> QED
      BY <2>1, <3>1 DEF ThreadLoop, Owning, Requesting, InCS
  <2>3. CASE Home[t] # h
    <3>1. /\ next'[h] = next[h] /\ granted'[h] = granted[h]
          /\ skipped'[h] = skipped[h]
      BY ZenonT(40), <1>0, <1>4, <2>3 DEF StoreSeqno, ReplyReceived, RequestTimesOut
    <3> QED
      BY <1>1, <2>1, <3>1 DEF ThreadLoop, Requesting, InCS
  <2> QED
    BY <2>2, <2>3
<1>5. CASE StoreSeqno(u)
  <2>1. nodes' = nodes /\ next'[h] = 1 /\ pc'[u] = "loop"
    BY <1>0, <1>5 DEF StoreSeqno, nodeVars
  <2> QED
    BY <1>0, <2>1 DEF ThreadLoop, InCS
<1>6. CASE SendRequest(u)
  <2>1. /\ UNCHANGED <<nodes, next, granted, skipped>> /\ pc'[u] = "wait"
        /\ Requesting(u) /\ ~(next[h] > Len(nodes[h]))
    BY <1>0, <1>6
       DEF SendRequest, AllAsked, nodeVars, histVars, Requesting
  <2> QED
    BY SMTT(30), <1>0, <1>1, <2>1 DEF ThreadLoop, InCS
<1>7. CASE ReplyReceived(u) \/ RequestTimesOut(u)
  <2>1. /\ nodes' = nodes /\ next'[h] = next[h] + 1 /\ pc'[u] = "loop"
        /\ pc[u] = "wait" /\ Requesting(u)
        /\ granted'[h] \cup skipped'[h] =
             granted[h] \cup skipped[h] \cup {nodes[h][next[h]]}
    <3>1. CASE ReplyReceived(u)
      BY Zenon, <1>0, <3>1 DEF ReplyReceived, nodeVars, Requesting, Peer
    <3>2. CASE RequestTimesOut(u)
      BY Zenon, <1>0, <3>2 DEF RequestTimesOut, nodeVars, Requesting, Peer
    <3> QED
      BY <1>7, <3>1, <3>2
  <2>2. \A i \in DOMAIN nodes[h] : i < next[h] + 1 => i < next[h] \/ i = next[h]
    BY SMTT(30), <1>0
  <2>3. next[h] + 1 <= Len(nodes[h]) + 1
    BY <1>0, <1>1, <2>1 DEF ThreadLoop
  <2>4. \A i \in DOMAIN nodes[h] :
          i < next[h] + 1 => nodes[h][i] \in granted'[h] \cup skipped'[h]
    BY Zenon, <1>1, <2>1, <2>2 DEF ThreadLoop
  <2> QED
    BY Zenon, <2>1, <2>3, <2>4 DEF ThreadLoop, InCS
<1>8. CASE EnterCS(u)
  <2>1. /\ UNCHANGED <<nodes, next, granted, skipped>> /\ pc'[u] = "cs"
        /\ Requesting(u) /\ next[h] > Len(nodes[h]) /\ pc[u] # "idle"
    BY Zenon, <1>0, <1>8
       DEF EnterCS, AllAsked, nodeVars, callVars, histVars, Requesting
  <2>2. \A m \in Node \ {h} : Listed(h, m)
    BY <1>0, <2>1 DEF IInv, OwnerInv, TableInv
  <2>3. \A i \in DOMAIN nodes[h] : i < next[h]
    BY SMTT(30), <1>0, <2>1
  <2>4. Node \ {h} \subseteq granted[h] \cup skipped[h]
    BY SMTT(30), <1>1, <2>1, <2>2, <2>3 DEF ThreadLoop, Listed
  <2> QED
    BY Zenon, <1>1, <2>1, <2>4 DEF ThreadLoop, InCS
<1>9. ASSUME NEW t \in Thread, SendRequest(t) \/ EnterCS(t), t # u
      PROVE  /\ UNCHANGED <<nodes, next, granted, skipped>>
             /\ pc'[u] = pc[u]
  BY <1>0, <1>9 DEF SendRequest, EnterCS, nodeVars, callVars, histVars
<1>10. ASSUME NEW t \in Thread,
              \/ psu_acquire_lock(t) \/ TakeMutex(t) \/ LoadHighest(t)
              \/ TakeMutexEarlyLoad(t) \/ FlagVisible(t)
              \/ psu_release_lock(t) \/ WakeDeferred(t) \/ WakeDone(t)
              \/ FreeDeferred(t)
       PROVE  /\ UNCHANGED <<nodes, next, granted, skipped>>
              /\ pc'[u] = pc[u] \/ ~Requesting(u)'
  BY Zenon, <1>0, <1>10
     DEF psu_acquire_lock, TakeMutex, LoadHighest, TakeMutexEarlyLoad,
         FlagVisible, psu_release_lock, WakeDeferred, WakeDone, FreeDeferred,
         nodeVars, callVars, histVars, Requesting
<1>11. ASSUME NEW n \in Node, request_1_svc(n) \/ LateLoad(n) \/ LateStore(n)
       PROVE  UNCHANGED <<nodes, next, granted, skipped, pc>>
  BY Zenon, <1>11
     DEF request_1_svc, HandlerLoad, HandlerReload, HandlerStore,
         HandlerCheck, HandlerTie, HandlerAppend, HandlerAppendLost,
         HandlerLock, LateLoad, LateStore, nodeVars, histVars
<1>12. CASE UNCHANGED vars
  BY <1>2, <1>12 DEF vars, nodeVars, callVars, histVars
<1> QED
  BY <1>2, <1>3, <1>4, <1>5, <1>6, <1>7, <1>8, <1>9, <1>10, <1>11, <1>12
     DEF Next, ServerStep

\* A pending request has a caller that waits for it: request_1 is the only
\* place where the caller leaves the wait, and it ends the request.
LEMMA CallStep ==
  ASSUME IInv, [Next]_vars, NEW n \in Node, call'[n] # "none"
  PROVE  \E t \in Thread : Home[t] = n /\ pc'[t] = "wait"
<1>0. call \in [Node -> HandlerStages] /\ pc \in [Thread -> Stages]
  BY DEF IInv, TypeOK, HandlerType, ServerType
<1>1. ASSUME NEW t \in Thread, SendRequest(t), Home[t] = n
      PROVE  pc'[t] = "wait"
  BY <1>0, <1>1 DEF SendRequest
<1>2. ASSUME call[n] # "none",
             \A t \in Thread : Home[t] = n /\ pc[t] = "wait" => pc'[t] = "wait"
      PROVE  \E t \in Thread : Home[t] = n /\ pc'[t] = "wait"
  BY Zenon, <1>2 DEF IInv, LoopInv
<1>3. ASSUME NEW t \in Thread, ReplyReceived(t) \/ RequestTimesOut(t)
      PROVE  /\ Home[t] # n /\ call'[n] = call[n]
             /\ \A u \in Thread :
                  Home[u] = n /\ pc[u] = "wait" => pc'[u] = "wait"
  BY <1>0, <1>3, HomeIsNode DEF ReplyReceived, RequestTimesOut
<1>4. ASSUME NEW t \in Thread, SendRequest(t), Home[t] # n
      PROVE  /\ call'[n] = call[n]
             /\ \A u \in Thread : pc[u] = "wait" => pc'[u] = "wait"
  BY <1>0, <1>4, HomeIsNode DEF SendRequest
<1>5. ASSUME NEW t \in Thread,
             \/ psu_acquire_lock(t) \/ TakeMutex(t) \/ LoadHighest(t)
             \/ TakeMutexEarlyLoad(t) \/ FlagVisible(t) \/ StoreSeqno(t)
             \/ EnterCS(t) \/ psu_release_lock(t) \/ WakeDone(t)
             \/ FreeDeferred(t)
      PROVE  /\ call'[n] = call[n]
             /\ \A u \in Thread : pc[u] = "wait" => pc'[u] = "wait"
  BY Zenon, <1>0, <1>5
     DEF psu_acquire_lock, TakeMutex, LoadHighest, TakeMutexEarlyLoad,
         FlagVisible, StoreSeqno, EnterCS, psu_release_lock, WakeDone,
         FreeDeferred, callVars
<1>6. ASSUME NEW t \in Thread, WakeDeferred(t)
      PROVE  call[n] # "none" /\ pc' = pc
  BY Zenon, <1>0, <1>6 DEF WakeDeferred, HandlerOn
<1>7. ASSUME NEW k \in Node,
             request_1_svc(k) \/ LateLoad(k) \/ LateStore(k) \/ InitStep(k)
      PROVE  call[n] # "none" /\ pc' = pc
  BY Zenon, <1>0, <1>7
     DEF request_1_svc, HandlerLoad, HandlerReload, HandlerStore,
         HandlerCheck, HandlerTie, HandlerAppend, HandlerAppendLost,
         HandlerLock, LateLoad, LateStore, InitStep, psu_init_lock_mgr,
         InitToken, InitDone, callVars
<1>8. CASE UNCHANGED vars
  BY Zenon, <1>2, <1>8 DEF vars, callVars
<1> QED
  BY Zenon, <1>1, <1>2, <1>3, <1>4, <1>5, <1>6, <1>7, <1>8 DEF Next, ServerStep

\* A node never has its own reply: the table does not name it.
LEMMA GrantedStep ==
  ASSUME IInv, [Next]_vars, NEW n \in Node
  PROVE  n \notin granted'[n]
<1>0. granted \in [Node -> SUBSET Node] /\ n \notin granted[n]
  BY SMTT(30) DEF IInv, TypeOK, HistoryType, LoopInv
<1>1. ASSUME NEW t \in Thread, ReplyReceived(t)
      PROVE  n \notin granted'[n]
  <2>1. Peer(Home[t]) # Home[t] /\ Home[t] \in Node
    BY <1>1, PeerOfWaiting, HomeIsNode DEF ReplyReceived, IInv
  <2> QED
    BY <1>0, <1>1, <2>1 DEF ReplyReceived
<1>2. ASSUME NEW t \in Thread, StoreSeqno(t)
      PROVE  n \notin granted'[n]
  BY <1>0, <1>2 DEF StoreSeqno
<1>3. CASE granted' = granted
  BY <1>0, <1>3
<1> QED
  BY ZenonT(40), <1>1, <1>2, <1>3
     DEF Next, vars, InitStep, psu_init_lock_mgr, InitToken, InitDone,
         psu_acquire_lock, psu_release_lock, ServerStep, TakeMutex,
         LoadHighest, FlagVisible, SendRequest, EnterCS, WakeDeferred,
         WakeDone, FreeDeferred, TakeMutexEarlyLoad, RequestTimesOut,
         request_1_svc, HandlerLoad, HandlerReload, HandlerStore,
         HandlerCheck, HandlerTie, HandlerAppend, HandlerAppendLost,
         HandlerLock, LateLoad, LateStore, histVars

\* Every step keeps the invariant of the request loop.
LEMMA LoopStep ==
  ASSUME IInv, [Next]_vars
  PROVE  LoopInv'
<1>1. \A u \in Thread : ThreadLoop(u)'
  BY ThreadLoopStep
<1>2. \A n \in Node :
        call'[n] # "none" => \E t \in Thread : Home[t] = n /\ pc'[t] = "wait"
  BY CallStep
<1>3. \A n \in Node : n \notin granted'[n]
  BY GrantedStep
<1> QED
  BY Zenon, <1>1, <1>2, <1>3 DEF LoopInv, ThreadLoop, EveryPeerAsked

----------------------------------------------------------------------------
(* What never goes back, and what stands still while a request is pending. *)

\* Once a race has taken effect on a LockVar it is on record.
LEMMA RacedGrows ==
  ASSUME IInv, [Next]_vars, NEW m \in Node
  PROVE  raced[m] \subseteq raced'[m]
<1>0. raced \in [Node -> SUBSET {"lost", "early"}]
  BY DEF IInv, TypeOK, HistoryType
<1>1. ASSUME NEW t \in Thread, TakeMutexEarlyLoad(t)
      PROVE  raced[m] \subseteq raced'[m]
  BY Zenon, <1>0, <1>1 DEF TakeMutexEarlyLoad
<1>2. ASSUME NEW n \in Node, HandlerStore(n) \/ LateStore(n)
      PROVE  raced[m] \subseteq raced'[m]
  BY SMTT(30), <1>0, <1>2 DEF HandlerStore, LateStore
<1> QED
  BY ZenonT(40), <1>1, <1>2
     DEF Next, vars, InitStep, psu_init_lock_mgr, InitToken, InitDone,
         psu_acquire_lock, psu_release_lock, ServerStep, TakeMutex,
         LoadHighest, FlagVisible, StoreSeqno, SendRequest, ReplyReceived,
         EnterCS, WakeDeferred, WakeDone, FreeDeferred, RequestTimesOut,
         request_1_svc, HandlerLoad, HandlerReload, HandlerCheck, HandlerTie,
         HandlerAppend, HandlerAppendLost, HandlerLock, LateLoad, histVars

\* highestseqno of an unraced LockVar never decreases.
LEMMA HighestGrows ==
  ASSUME IInv, [Next]_vars, NEW m \in Node, raced'[m] = {}
  PROVE  highestseqno[m] <= highestseqno'[m]
<1>0. /\ highestseqno \in [Node -> Nat] /\ highestseqno[m] \in Nat
      /\ raced \in [Node -> SUBSET {"lost", "early"}]
      /\ reg \in [Node -> Nat] /\ lateStore \in [Node -> SUBSET Nat]
  BY Zenon DEF IInv, TypeOK, LockVarType, HandlerType, HistoryType
<1>1. ASSUME NEW n \in Node, HandlerStore(n)
      PROVE  highestseqno[m] <= highestseqno'[m]
  BY SMTT(30), <1>0, <1>1 DEF HandlerStore
<1>2. ASSUME NEW n \in Node, LateStore(n)
      PROVE  highestseqno[m] <= highestseqno'[m]
  BY <1>0, <1>2 DEF LateStore
<1>3. CASE highestseqno' = highestseqno
  BY <1>0, <1>3
<1> QED
  BY ZenonT(40), <1>1, <1>2, <1>3
     DEF Next, vars, InitStep, psu_init_lock_mgr, InitToken, InitDone,
         psu_acquire_lock, psu_release_lock, ServerStep, TakeMutex,
         LoadHighest, FlagVisible, StoreSeqno, SendRequest, ReplyReceived,
         EnterCS, WakeDeferred, WakeDone, FreeDeferred, TakeMutexEarlyLoad,
         RequestTimesOut, request_1_svc, HandlerLoad, HandlerReload,
         HandlerCheck, HandlerTie, HandlerAppend, HandlerAppendLost,
         HandlerLock, LateLoad, fieldVars

\* myseqno is written by line 126 only.
LEMMA SeqnoFrame ==
  ASSUME [Next]_vars, \A t \in Thread : ~StoreSeqno(t)
  PROVE  myseqno' = myseqno
BY ZenonT(40) DEF Next, vars, InitStep, psu_init_lock_mgr, InitToken, InitDone,
       psu_acquire_lock, psu_release_lock, ServerStep, TakeMutex,
       LoadHighest, FlagVisible, SendRequest, ReplyReceived, EnterCS,
       WakeDeferred, WakeDone, FreeDeferred, TakeMutexEarlyLoad,
       RequestTimesOut, request_1_svc, HandlerLoad, HandlerReload,
       HandlerStore, HandlerCheck, HandlerTie, HandlerAppend,
       HandlerAppendLost, HandlerLock, LateLoad, LateStore, fieldVars

\* myseqno of a node changes only while its acquirer is at line 126.
LEMMA SeqnoStable ==
  ASSUME IInv, [Next]_vars, NEW t \in Thread, Owning(t), pc[t] # "store"
  PROVE  myseqno'[Home[t]] = myseqno[Home[t]]
<1>0. myseqno \in [Node -> Nat] /\ Home[t] \in Node
  BY Zenon, HomeIsNode DEF IInv, TypeOK, LockVarType
<1>1. ASSUME NEW u \in Thread, StoreSeqno(u)
      PROVE  Home[u] # Home[t]
  BY <1>1, OneOwner DEF StoreSeqno, Owning, IInv
<1>2. ASSUME NEW u \in Thread, StoreSeqno(u)
      PROVE  myseqno'[Home[t]] = myseqno[Home[t]]
  BY Zenon, <1>0, <1>1, <1>2 DEF StoreSeqno
<1> QED
  BY Zenon, <1>2, SeqnoFrame

\* myseqno of an unraced LockVar never decreases.
LEMMA SeqnoGrows ==
  ASSUME IInv, [Next]_vars, NEW m \in Node, raced'[m] = {}
  PROVE  myseqno[m] <= myseqno'[m]
<1>0. myseqno \in [Node -> Nat] /\ raced[m] = {}
  BY Zenon, RacedGrows DEF IInv, TypeOK, LockVarType
<1>1. ASSUME NEW t \in Thread, StoreSeqno(t)
      PROVE  myseqno[m] <= myseqno'[m]
  <2>1. CASE Home[t] = m
    <3>1. myseqno[m] <= loaded[m] + 1
      BY Zenon, <1>0, <1>1, <2>1 DEF IInv, FieldInv, StoreSeqno
    <3> QED
      BY SMTT(20), <1>0, <1>1, <2>1, <3>1 DEF StoreSeqno, NextSeqno
  <2>2. CASE Home[t] # m
    BY <1>0, <1>1, <2>2 DEF StoreSeqno
  <2> QED
    BY <2>1, <2>2
<1> QED
  BY <1>0, <1>1, SeqnoFrame

\* While a request is pending its caller stays at line 136: the node asked
\* and the number sent stay the same.
LEMMA PendingStable ==
  ASSUME IInv, [Next]_vars, NEW n \in Node, call[n] # "none", call'[n] # "none"
  PROVE  Peer(n)' = Peer(n) /\ myseqno'[n] = myseqno[n]
<1>1. PICK t \in Thread : Home[t] = n /\ pc[t] = "wait"
  BY Zenon DEF IInv, LoopInv
<1>2. myseqno'[n] = myseqno[n]
  BY Zenon, <1>1, SeqnoStable DEF Owning
<1>3. next \in [Node -> Index]
  BY Zenon DEF IInv, TypeOK, ServerType
<1>4. ASSUME NEW u \in Thread, StoreSeqno(u)
      PROVE  next'[n] = next[n]
  <2>1. Home[u] # n
    BY Zenon, <1>1, <1>4, OneOwner DEF StoreSeqno, Owning, IInv
  <2> QED
    BY Zenon, <1>3, <1>4, <2>1 DEF StoreSeqno
<1>5. ASSUME NEW u \in Thread, ReplyReceived(u) \/ RequestTimesOut(u)
      PROVE  next'[n] = next[n]
  <2>1. call \in [Node -> HandlerStages]
    BY DEF IInv, TypeOK, HandlerType
  <2>2. Home[u] # n
    BY Zenon, <1>5, <2>1 DEF ReplyReceived, RequestTimesOut
  <2> QED
    BY Zenon, <1>3, <1>5, <2>2 DEF ReplyReceived, RequestTimesOut
<1>6. next'[n] = next[n]
  BY ZenonT(40), <1>4, <1>5
     DEF Next, vars, InitStep, psu_init_lock_mgr, InitToken, InitDone,
         psu_acquire_lock, psu_release_lock, ServerStep, TakeMutex,
         LoadHighest, FlagVisible, SendRequest, EnterCS, WakeDeferred,
         WakeDone, FreeDeferred, TakeMutexEarlyLoad, request_1_svc,
         HandlerLoad, HandlerReload, HandlerStore, HandlerCheck, HandlerTie,
         HandlerAppend, HandlerAppendLost, HandlerLock, LateLoad, LateStore,
         callVars
<1>7. next[n] \in DOMAIN nodes[n]
  BY Zenon, PeerOfCaller DEF IInv
<1>8. nodes'[n][next[n]] = nodes[n][next[n]]
  BY <1>7, TableGrows DEF IInv
<1> QED
  BY Zenon, <1>2, <1>6, <1>8 DEF Peer

\* What HandlerInv says of the request of n.
Handled(n) ==
  call[n] # "none" /\ raced[Peer(n)] = {} =>
    /\ call[n] \in {"reload"} \cup Raised =>
         myseqno[n] <= highestseqno[Peer(n)]
    /\ call[n] = "loaded" => myseqno[n] <= reg[n]
    /\ call[n] = "tie" => myseqno[n] <= myseqno[Peer(n)]

\* A step that does not move the handler of n keeps what the handler knows:
\* highestseqno and myseqno of the unraced node it runs on only grow.
LEMMA HandledStable ==
  ASSUME IInv, [Next]_vars, NEW n \in Node,
         call'[n] = call[n], reg'[n] = reg[n]
  PROVE  Handled(n)'
<1> SUFFICES ASSUME call[n] # "none", raced'[Peer(n)'] = {}
             PROVE  /\ call[n] \in {"reload"} \cup Raised =>
                         myseqno'[n] <= highestseqno'[Peer(n)']
                    /\ call[n] = "loaded" => myseqno'[n] <= reg[n]
                    /\ call[n] = "tie" => myseqno'[n] <= myseqno'[Peer(n)']
  BY Zenon DEF Handled
<1>1. Peer(n)' = Peer(n) /\ myseqno'[n] = myseqno[n] /\ Peer(n) \in Node
  BY PendingStable, PeerOfCaller DEF IInv
<1>2. PICK m \in Node : m = Peer(n)
  BY <1>1
<1>3. /\ raced[m] = {} /\ highestseqno[m] <= highestseqno'[m]
      /\ myseqno[m] <= myseqno'[m]
  BY <1>1, <1>2, RacedGrows, HighestGrows, SeqnoGrows
<1>4. /\ myseqno[n] \in Nat /\ myseqno[m] \in Nat /\ highestseqno[m] \in Nat
      /\ myseqno'[m] \in Nat /\ highestseqno'[m] \in Nat
  BY Zenon, LockVarTypeStep DEF IInv, TypeOK, LockVarType
<1>5. /\ call[n] \in {"reload"} \cup Raised => myseqno[n] <= highestseqno[m]
      /\ call[n] = "loaded" => myseqno[n] <= reg[n]
      /\ call[n] = "tie" => myseqno[n] <= myseqno[m]
  BY Zenon, <1>2, <1>3 DEF IInv, HandlerInv
<1> QED
  BY <1>1, <1>2, <1>3, <1>4, <1>5

\* The handler of n moves: lines 170 to 174 establish what it knows.
LEMMA HandledMoves ==
  ASSUME IInv, [Next]_vars, NEW n \in Node, request_1_svc(n)
  PROVE  Handled(n)'
<1>1. call[n] # "none" /\ Peer(n) \in Node
  BY Zenon, PeerOfCaller
     DEF request_1_svc, HandlerLoad, HandlerReload, HandlerStore,
         HandlerCheck, HandlerTie, HandlerAppend, HandlerAppendLost,
         HandlerLock, IInv
<1>2. PICK m \in Node : m = Peer(n)
  BY <1>1
<1>3. Peer(n)' = m /\ myseqno' = myseqno
  BY Zenon, <1>2
     DEF request_1_svc, HandlerLoad, HandlerReload, HandlerStore,
         HandlerCheck, HandlerTie, HandlerAppend, HandlerAppendLost,
         HandlerLock, Peer, nodeVars, fieldVars
<1>4. /\ call \in [Node -> HandlerStages] /\ reg \in [Node -> Nat]
      /\ highestseqno \in [Node -> Nat] /\ myseqno \in [Node -> Nat]
      /\ myseqno[n] \in Nat /\ myseqno[m] \in Nat /\ highestseqno[m] \in Nat
      /\ reg[n] \in Nat
  BY DEF IInv, TypeOK, LockVarType, HandlerType
<1>5. /\ raced'[m] = {} => raced[m] = {}
      /\ raced[m] = {} /\ call[n] \in {"reload"} \cup Raised =>
           myseqno[n] <= highestseqno[m]
      /\ raced[m] = {} /\ call[n] = "loaded" => myseqno[n] <= reg[n]
  BY Zenon, <1>1, <1>2, RacedGrows DEF IInv, HandlerInv
<1>6. CASE HandlerLoad(n)
  <2>1. /\ highestseqno' = highestseqno
        /\ \/ call'[n] = "loaded" /\ reg'[n] = myseqno[n]
           \/ call'[n] = "reload" /\ ~(myseqno[n] > highestseqno[m])
    BY <1>2, <1>4, <1>6 DEF HandlerLoad, Exceeds, fieldVars
  <2> QED
    BY <1>3, <1>4, <2>1 DEF Handled, Raised
<1>7. CASE HandlerReload(n)
  BY <1>2, <1>3, <1>4, <1>5, <1>7 DEF HandlerReload, Handled, Raised, fieldVars
<1>8. CASE HandlerStore(n)
  BY Zenon, <1>2, <1>3, <1>4, <1>5, <1>8 DEF HandlerStore, Handled, Raised
<1>9. CASE HandlerCheck(n)
  BY <1>2, <1>3, <1>4, <1>5, <1>9
     DEF HandlerCheck, Later, Handled, Raised, fieldVars
<1>10. CASE HandlerTie(n) \/ HandlerLock(n)
  BY Zenon, <1>2, <1>3, <1>4, <1>5, <1>10
     DEF HandlerTie, HandlerLock, Handled, Raised, fieldVars
<1>11. CASE HandlerAppend(n) \/ HandlerAppendLost(n)
  BY Zenon, <1>2, <1>3, <1>4, <1>5, <1>11
     DEF HandlerAppend, HandlerAppendLost, Handled, Raised, fieldVars
<1> QED
  BY Zenon, <1>6, <1>7, <1>8, <1>9, <1>10, <1>11, <1>5 DEF request_1_svc

\* Every step keeps what request handlers know.
LEMMA HandlerStep ==
  ASSUME IInv, [Next]_vars
  PROVE  HandlerInv'
<1> SUFFICES ASSUME NEW n \in Node
             PROVE  Handled(n)'
  BY Zenon DEF HandlerInv, Handled
<1>0. call \in [Node -> HandlerStages] /\ reg \in [Node -> Nat]
  BY DEF IInv, TypeOK, HandlerType
<1>1. ASSUME NEW k \in Node, request_1_svc(k)
      PROVE  k = n \/ (call'[n] = call[n] /\ reg'[n] = reg[n])
  BY Zenon, <1>0, <1>1
     DEF request_1_svc, HandlerLoad, HandlerReload, HandlerStore,
         HandlerCheck, HandlerTie, HandlerAppend, HandlerAppendLost,
         HandlerLock
<1>2. ASSUME NEW t \in Thread, SendRequest(t)
      PROVE  call'[n] = "sent" \/ (call'[n] = call[n] /\ reg'[n] = reg[n])
  BY <1>0, <1>2 DEF SendRequest
<1>3. ASSUME NEW t \in Thread, ReplyReceived(t) \/ RequestTimesOut(t)
      PROVE  call'[n] = "none" \/ (call'[n] = call[n] /\ reg'[n] = reg[n])
  BY Zenon, <1>0, <1>3 DEF ReplyReceived, RequestTimesOut
<1>4. CASE call'[n] \in {"none", "sent"}
  BY Zenon, <1>4 DEF Handled, Raised
<1>5. ASSUME NEW t \in Thread, WakeDeferred(t), call'[n] # call[n]
      PROVE  Handled(n)'
  <2>1. call[n] \in {"lock", "blocked"} /\ call'[n] = "replied"
    BY Zenon, <1>0, <1>5 DEF WakeDeferred, HandlerOn
  <2>2. UNCHANGED <<nodes, next, fieldVars, raced>>
    BY Zenon, <1>5 DEF WakeDeferred, nodeVars, histVars
  <2> QED
    BY Zenon, <2>1, <2>2
       DEF IInv, HandlerInv, Handled, Raised, Peer, fieldVars
<1>6. ASSUME NEW t \in Thread, WakeDeferred(t)
      PROVE  reg'[n] = reg[n]
  BY Zenon, <1>6 DEF WakeDeferred
<1> QED
  BY ZenonT(40), <1>1, <1>2, <1>3, <1>4, <1>5, <1>6, HandledStable, HandledMoves
     DEF Next, vars, InitStep, psu_init_lock_mgr, InitToken, InitDone,
         psu_acquire_lock, psu_release_lock, ServerStep, TakeMutex,
         LoadHighest, FlagVisible, StoreSeqno, EnterCS, WakeDone,
         FreeDeferred, TakeMutexEarlyLoad, LateLoad, LateStore, callVars
============================================================================
