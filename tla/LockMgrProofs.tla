--------------------------- MODULE LockMgrProofs ---------------------------
(***************************************************************************)
(* Proofs about LockMgr: IInv is an inductive invariant, and the safety    *)
(* properties of LockMgr follow from it, for any number of nodes, threads  *)
(* and calls, with or without timeouts and early loads.                    *)
(***************************************************************************)
EXTENDS LockMgrStepProofs, LockMgrRefinement

\* requesting_cs is set by line 125 and never reset.
LEMMA RequestingGrows ==
  ASSUME IInv, [Next]_vars, NEW n \in Node, requesting_cs[n]
  PROVE  requesting_cs'[n]
<1>0. requesting_cs \in [Node -> BOOLEAN]
  BY DEF IInv, TypeOK, LockVarType
<1>1. ASSUME NEW t \in Thread, TakeMutex(t) \/ FlagVisible(t)
      PROVE  requesting_cs'[n]
  BY <1>0, <1>1 DEF TakeMutex, FlagVisible
<1> QED
  BY ZenonT(40), <1>1
     DEF Next, vars, InitStep, psu_init_lock_mgr, InitToken, InitDone,
         psu_acquire_lock, psu_release_lock, ServerStep, LoadHighest,
         StoreSeqno, SendRequest, ReplyReceived, EnterCS, WakeDeferred,
         WakeDone, FreeDeferred, TakeMutexEarlyLoad, RequestTimesOut,
         request_1_svc, HandlerLoad, HandlerReload, HandlerStore,
         HandlerCheck, HandlerTie, HandlerAppend, HandlerAppendLost,
         HandlerLock, LateLoad, LateStore, fieldVars

\* How the stage of a thread can change: only a step of the thread itself
\* changes it, and these are the ways into the stages the invariant is about.
LEMMA StageOrigin ==
  ASSUME IInv, [Next]_vars, NEW u \in Thread, pc'[u] # pc[u]
  PROVE  /\ pc'[u] = "flag" => TakeMutexEarlyLoad(u)
         /\ pc'[u] = "load" => TakeMutex(u)
         /\ pc'[u] = "store" => LoadHighest(u) \/ FlagVisible(u)
         /\ Requesting(u)' => Requesting(u) \/ StoreSeqno(u)
         /\ Owning(u)' => Owning(u) \/ TakeMutex(u) \/ TakeMutexEarlyLoad(u)
         /\ pc[u] = "flag" => FlagVisible(u)
<1>0. pc \in [Thread -> Stages]
  BY DEF IInv, TypeOK, ServerType
<1> USE DEF Requesting, Owning
<1>1. ASSUME NEW t \in Thread, ServerStep(t)
      PROVE  t = u
  BY Zenon, <1>0, <1>1
     DEF ServerStep, TakeMutex, LoadHighest, FlagVisible, StoreSeqno,
         SendRequest, ReplyReceived, EnterCS, WakeDeferred, WakeDone,
         FreeDeferred
<1>2. ASSUME NEW t \in Thread,
             \/ psu_acquire_lock(t) \/ psu_release_lock(t)
             \/ TakeMutexEarlyLoad(t) \/ RequestTimesOut(t)
      PROVE  t = u
  BY Zenon, <1>0, <1>2
     DEF psu_acquire_lock, psu_release_lock, TakeMutexEarlyLoad,
         RequestTimesOut
<1>3. \/ ServerStep(u) \/ psu_acquire_lock(u) \/ psu_release_lock(u)
      \/ TakeMutexEarlyLoad(u) \/ RequestTimesOut(u)
  BY ZenonT(40), <1>1, <1>2
     DEF Next, vars, InitStep, psu_init_lock_mgr, InitToken, InitDone,
         request_1_svc, HandlerLoad, HandlerReload, HandlerStore,
         HandlerCheck, HandlerTie, HandlerAppend, HandlerAppendLost,
         HandlerLock, LateLoad, LateStore
<1>4. CASE \/ psu_acquire_lock(u) \/ psu_release_lock(u)
           \/ TakeMutexEarlyLoad(u) \/ RequestTimesOut(u)
  BY Zenon, <1>0, <1>4
     DEF psu_acquire_lock, psu_release_lock, TakeMutexEarlyLoad,
         RequestTimesOut
<1>5. CASE ServerStep(u)
  BY Zenon, <1>0, <1>5
     DEF ServerStep, TakeMutex, LoadHighest, FlagVisible, StoreSeqno,
         SendRequest, ReplyReceived, EnterCS, WakeDeferred, WakeDone,
         FreeDeferred
<1> QED
  BY <1>3, <1>4, <1>5

\* Line 126 works on a value of highestseqno that only its own thread loads.
LEMMA LoadedStable ==
  ASSUME IInv, [Next]_vars, NEW u \in Thread, pc[u] = "store", pc'[u] = "store"
  PROVE  loaded'[Home[u]] = loaded[Home[u]]
<1>0. /\ pc \in [Thread -> Stages] /\ loaded \in [Node -> Nat]
      /\ Home[u] \in Node
  BY HomeIsNode DEF IInv, TypeOK, ServerType
<1>1. ASSUME NEW t \in Thread,
             \/ LoadHighest(t) \/ TakeMutexEarlyLoad(t) \/ StoreSeqno(t)
      PROVE  loaded'[Home[u]] = loaded[Home[u]]
  <2>1. CASE t = u
    BY SMTT(30), <1>0, <1>1, <2>1
       DEF LoadHighest, TakeMutexEarlyLoad, StoreSeqno
  <2>2. CASE t # u
    <3>1. lock[Home[u]] = u
      BY DEF IInv, OwnerInv, Owning
    <3>2. u # None
      BY LockMgrAssumption
    <3>3. Home[t] # Home[u]
      BY Zenon, <1>1, <2>2, <3>1, <3>2
         DEF LoadHighest, TakeMutexEarlyLoad, StoreSeqno, MutexFree, IInv,
             OwnerInv, Owning
    <3> QED
      BY <1>0, <1>1, <3>3 DEF LoadHighest, TakeMutexEarlyLoad, StoreSeqno
  <2> QED
    BY SMTT(30), <2>1, <2>2
<1> QED
  BY ZenonT(40), <1>1
     DEF Next, vars, InitStep, psu_init_lock_mgr, InitToken, InitDone,
         psu_acquire_lock, psu_release_lock, ServerStep, TakeMutex,
         FlagVisible, SendRequest, ReplyReceived, EnterCS, WakeDeferred,
         WakeDone, FreeDeferred, RequestTimesOut, request_1_svc, HandlerLoad,
         HandlerReload, HandlerStore, HandlerCheck, HandlerTie, HandlerAppend,
         HandlerAppendLost, HandlerLock, LateLoad, LateStore

\* Every step keeps the relations between the fields of a LockVar.
LEMMA FieldStep ==
  ASSUME IInv, [Next]_vars
  PROVE  FieldInv'
<1>0. /\ myseqno \in [Node -> Nat] /\ highestseqno \in [Node -> Nat]
      /\ myseqno' \in [Node -> Nat] /\ highestseqno' \in [Node -> Nat]
      /\ loaded \in [Node -> Nat] /\ pc \in [Thread -> Stages]
      /\ requesting_cs \in [Node -> BOOLEAN]
      /\ raced \in [Node -> SUBSET {"lost", "early"}]
  BY LockVarTypeStep DEF IInv, TypeOK, LockVarType, ServerType, HistoryType
<1>1. ASSUME NEW u \in Thread, pc'[u] = "flag"
      PROVE  raced'[Home[u]] # {}
  <2>1. CASE pc[u] = "flag"
    BY Zenon, <2>1, RacedGrows, HomeIsNode DEF IInv, FieldInv
  <2>2. CASE TakeMutexEarlyLoad(u)
    BY Zenon, <1>0, <2>2, HomeIsNode DEF TakeMutexEarlyLoad
  <2> QED
    BY <1>1, <2>1, <2>2, StageOrigin
<1>2. ASSUME NEW u \in Thread, Owning(u)', pc'[u] # "flag"
      PROVE  requesting_cs'[Home[u]]
  <2>1. CASE Owning(u) /\ pc[u] # "flag"
    BY <2>1, RequestingGrows, HomeIsNode DEF IInv, FieldInv
  <2>2. CASE TakeMutex(u) \/ FlagVisible(u)
    BY <1>0, <2>2, HomeIsNode DEF TakeMutex, FlagVisible
  <2>3. TakeMutexEarlyLoad(u) => pc'[u] = "flag"
    BY SMTT(30), <1>0 DEF TakeMutexEarlyLoad
  <2> QED
    BY SMTT(30), <1>2, <2>1, <2>2, <2>3, StageOrigin DEF Owning
<1>3. ASSUME NEW u \in Thread, pc'[u] = "store", raced'[Home[u]] = {}
      PROVE  /\ loaded'[Home[u]] <= highestseqno'[Home[u]]
             /\ myseqno'[Home[u]] <= loaded'[Home[u]] + 1
  <2> DEFINE h == Home[u]
  <2>1. /\ h \in Node /\ raced[h] = {}
        /\ highestseqno[h] <= highestseqno'[h]
    BY SMTT(30), <1>3, HomeIsNode, RacedGrows, HighestGrows
  <2>2. CASE pc[u] = "store"
    <3>1. /\ loaded[h] <= highestseqno[h] /\ myseqno[h] <= loaded[h] + 1
      BY Zenon, <2>1, <2>2 DEF IInv, FieldInv
    <3>2. loaded'[h] = loaded[h]
      BY <1>3, <2>2, LoadedStable
    <3>3. myseqno'[h] = myseqno[h]
      <4>1. ASSUME NEW t \in Thread, StoreSeqno(t)
            PROVE  Home[t] # h
        <5>1. t # u
          BY <1>0, <1>3, <4>1 DEF StoreSeqno
        <5> QED
          BY Zenon, <2>2, <4>1, <5>1, OneOwner DEF StoreSeqno, Owning, IInv
      <4> QED
        BY Zenon, <1>0, <2>1, <4>1, SeqnoFrame DEF StoreSeqno
    <3> QED
      BY <1>0, <2>1, <3>1, <3>2, <3>3
  <2>3. CASE LoadHighest(u)
    <3>1. myseqno[h] <= highestseqno[h] + 1
      BY <2>1 DEF IInv, FieldInv
    <3>2. /\ loaded'[h] = highestseqno[h] /\ highestseqno' = highestseqno
          /\ myseqno' = myseqno
      BY <1>0, <2>1, <2>3 DEF LoadHighest, fieldVars
    <3> QED
      BY <1>0, <2>1, <3>1, <3>2
  <2>4. ~FlagVisible(u)
    BY Zenon, <2>1 DEF FlagVisible, IInv, FieldInv
  <2> QED
    BY <1>3, <2>2, <2>3, <2>4, StageOrigin
<1>4. ASSUME NEW n \in Node, raced'[n] = {}
      PROVE  myseqno'[n] <= highestseqno'[n] + 1
  <2>1. /\ raced[n] = {} /\ highestseqno[n] <= highestseqno'[n]
        /\ myseqno[n] <= highestseqno[n] + 1
    BY Zenon, <1>4, RacedGrows, HighestGrows DEF IInv, FieldInv
  <2>2. ASSUME NEW t \in Thread, StoreSeqno(t)
        PROVE  myseqno'[n] <= highestseqno'[n] + 1
    <3>1. CASE Home[t] = n
      <4>1. loaded[n] <= highestseqno[n]
        BY <2>1, <2>2, <3>1 DEF StoreSeqno, IInv, FieldInv
      <4>2. myseqno'[n] = loaded[n] + 1
        BY <1>0, <2>2, <3>1 DEF StoreSeqno, NextSeqno
      <4> QED
        BY <1>0, <2>1, <4>1, <4>2
    <3>2. CASE Home[t] # n
      <4>1. myseqno'[n] = myseqno[n]
        BY <1>0, <2>2, <3>2 DEF StoreSeqno
      <4> QED
        BY <1>0, <2>1, <4>1
    <3> QED
      BY <3>1, <3>2
  <2> QED
    BY <1>0, <2>1, <2>2, SeqnoFrame
<1> QED
  BY <1>1, <1>2, <1>3, <1>4 DEF FieldInv, Owning

----------------------------------------------------------------------------
(* Replies.                                                                *)

\* The handler of n's request goes to "replied" on m in this step.
Replies(n, m) == call[n] # "replied" /\ call'[n] = "replied" /\ Peer(n) = m

\* Where a permission comes from: n had it before, or m replies in this step.
LEMMA PermittedOrigin ==
  ASSUME IInv, [Next]_vars, NEW t \in Thread, NEW m \in Node,
         Requesting(t)', Permitted(Home[t], m)'
  PROVE  Requesting(t) /\ (Permitted(Home[t], m) \/ Replies(Home[t], m))
<1> DEFINE n == Home[t]
<1>0. /\ n \in Node /\ call \in [Node -> HandlerStages]
      /\ granted \in [Node -> SUBSET Node] /\ pc \in [Thread -> Stages]
  BY HomeIsNode DEF IInv, TypeOK, HandlerType, HistoryType, ServerType
<1>1. ~StoreSeqno(t)
  <2>1. SUFFICES ASSUME StoreSeqno(t)
                 PROVE  FALSE
    OBVIOUS
  <2>2. granted'[n] = {} /\ call'[n] = call[n]
    BY <1>0, <2>1 DEF StoreSeqno
  <2>3. call[n] # "none"
    BY <2>2 DEF Permitted, HandlerOn
  <2>4. PICK u \in Thread : Home[u] = n /\ pc[u] = "wait"
    BY Zenon, <1>0, <2>3 DEF IInv, LoopInv
  <2> QED
    BY <2>1, <2>4, OneOwner DEF StoreSeqno, Owning, IInv
<1>2. Requesting(t)
  BY Zenon, <1>1, StageOrigin DEF Requesting
<1>3. CASE HandlerOn(n, m, {"replied"})'
  <2>1. call'[n] = "replied" /\ Peer(n)' = m
    BY SMTT(30), <1>3 DEF HandlerOn
  <2>2. call[n] # "none"
    <3>1. SUFFICES ASSUME call[n] = "none"
                   PROVE  call'[n] # "replied"
      BY <2>1
    <3> QED
      BY ZenonT(40), <1>0, <3>1
         DEF Next, vars, InitStep, psu_init_lock_mgr, InitToken, InitDone,
             psu_acquire_lock, psu_release_lock, ServerStep, TakeMutex,
             LoadHighest, FlagVisible, StoreSeqno, SendRequest,
             ReplyReceived, EnterCS, WakeDeferred, WakeDone, FreeDeferred,
             TakeMutexEarlyLoad, RequestTimesOut, request_1_svc,
             HandlerLoad, HandlerReload, HandlerStore, HandlerCheck,
             HandlerTie, HandlerAppend, HandlerAppendLost, HandlerLock,
             LateLoad, LateStore, callVars, HandlerOn
  <2>3. Peer(n) = m
    BY <1>0, <2>1, <2>2, PendingStable
  <2> QED
    BY <1>0, <1>2, <2>1, <2>3 DEF Permitted, HandlerOn, Replies
<1>4. CASE m \in granted'[n]
  <2>1. ASSUME NEW u \in Thread, ReplyReceived(u)
        PROVE  Permitted(n, m)
    <3>1. CASE Home[u] = n
      BY <1>0, <1>4, <2>1, <3>1 DEF ReplyReceived, Permitted, HandlerOn
    <3>2. CASE Home[u] # n
      BY <1>0, <1>4, <2>1, <3>2 DEF ReplyReceived, Permitted
    <3> QED
      BY <3>1, <3>2
  <2>2. ASSUME NEW u \in Thread, StoreSeqno(u)
        PROVE  Permitted(n, m)
    BY <1>0, <1>4, <2>2 DEF StoreSeqno, Permitted
  <2>3. ASSUME granted' = granted
        PROVE  Permitted(n, m)
    BY <1>4, <2>3 DEF Permitted
  <2>4. Permitted(n, m)
    BY ZenonT(40), <2>1, <2>2, <2>3
       DEF Next, vars, InitStep, psu_init_lock_mgr, InitToken, InitDone,
           psu_acquire_lock, psu_release_lock, ServerStep, TakeMutex,
           LoadHighest, FlagVisible, SendRequest, EnterCS, WakeDeferred,
           WakeDone, FreeDeferred, TakeMutexEarlyLoad, RequestTimesOut,
           request_1_svc, HandlerLoad, HandlerReload, HandlerStore,
           HandlerCheck, HandlerTie, HandlerAppend, HandlerAppendLost,
           HandlerLock, LateLoad, LateStore, histVars
  <2> QED
    BY <1>2, <2>4
<1> QED
  BY Zenon, <1>3, <1>4 DEF Permitted

\* What the reply of m means to t, and in particular against the thread u.
Precedes(t, m, u) ==
  Home[u] = m =>
    /\ pc[u] = "store" => Before(myseqno[Home[t]], Home[t], loaded[m] + 1, m)
    /\ Requesting(u) => Before(myseqno[Home[t]], Home[t], myseqno[m], m)

\* A permission that n has keeps its meaning: when m starts a request of its
\* own it takes a number above highestseqno, which n's number has reached.
LEMMA PermissionKept ==
  ASSUME IInv, [Next]_vars, NEW t \in Thread, NEW m \in Node, NEW u \in Thread,
         Requesting(t), Permitted(Home[t], m), raced'[m] = {}
  PROVE  myseqno'[Home[t]] <= highestseqno'[m] /\ Precedes(t, m, u)'
<1> DEFINE n == Home[t]
<1>0. /\ n \in Node /\ raced[m] = {}
      /\ myseqno \in [Node -> Nat] /\ myseqno' \in [Node -> Nat]
      /\ highestseqno[m] \in Nat /\ highestseqno'[m] \in Nat
      /\ loaded \in [Node -> Nat] /\ Mac[n] \in Nat /\ Mac[m] \in Nat
  BY Zenon, HomeIsNode, RacedGrows, LockVarTypeStep, LockMgrAssumption
     DEF IInv, TypeOK, LockVarType, ServerType
<1>1. myseqno'[n] = myseqno[n]
  BY Zenon, SeqnoStable DEF Requesting, Owning
<1>2. myseqno[n] <= highestseqno[m] /\ Precedes(t, m, u)
  BY Zenon, <1>0 DEF IInv, PermissionInv, Precedes
<1>3. highestseqno[m] <= highestseqno'[m]
  BY HighestGrows
<1>4. ASSUME Home[u] = m, pc'[u] = "store"
      PROVE  Before(myseqno[n], n, loaded'[m] + 1, m)
  <2>1. CASE pc[u] = "store"
    BY Zenon, <1>2, <1>4, <2>1, LoadedStable DEF Precedes
  <2>2. CASE LoadHighest(u)
    <3>1. loaded'[m] = highestseqno[m]
      BY Zenon, <1>0, <1>4, <2>2 DEF LoadHighest
    <3> QED
      BY <1>0, <1>2, <3>1 DEF Before
  <2>3. ~FlagVisible(u)
    BY Zenon, <1>0, <1>4 DEF FlagVisible, IInv, FieldInv
  <2> QED
    BY Zenon, <1>4, <2>1, <2>2, <2>3, StageOrigin
<1>5. ASSUME Home[u] = m, Requesting(u)'
      PROVE  Before(myseqno[n], n, myseqno'[m], m)
  <2>1. CASE Requesting(u)
    <3>1. myseqno'[m] = myseqno[m]
      BY Zenon, <1>5, <2>1, SeqnoStable DEF Requesting, Owning
    <3> QED
      BY Zenon, <1>2, <1>5, <2>1, <3>1 DEF Precedes
  <2>2. CASE StoreSeqno(u)
    <3>1. myseqno'[m] = loaded[m] + 1 /\ pc[u] = "store"
      BY Zenon, <1>0, <1>5, <2>2 DEF StoreSeqno, NextSeqno
    <3> QED
      BY Zenon, <1>2, <1>5, <3>1 DEF Precedes
  <2> QED
    BY Zenon, <1>5, <2>1, <2>2, StageOrigin DEF Requesting
<1> QED
  BY <1>0, <1>1, <1>2, <1>3, <1>4, <1>5 DEF Precedes

\* A reply is sent when m is not requesting, when the request precedes that
\* of m (lines 172 to 174), or when m has left its critical section.
LEMMA PermissionGiven ==
  ASSUME IInv, [Next]_vars, NEW t \in Thread, NEW m \in Node, NEW u \in Thread,
         Requesting(t), Replies(Home[t], m), raced'[m] = {}
  PROVE  myseqno'[Home[t]] <= highestseqno'[m] /\ Precedes(t, m, u)'
<1> DEFINE n == Home[t]
<1>0. /\ n \in Node /\ raced[m] = {}
      /\ call \in [Node -> HandlerStages]
      /\ myseqno \in [Node -> Nat] /\ myseqno[n] \in Nat /\ myseqno[m] \in Nat
      /\ highestseqno[m] \in Nat /\ loaded[m] \in Nat
      /\ Mac[n] \in Nat /\ Mac[m] \in Nat
  BY ZenonT(40), HomeIsNode, RacedGrows, LockMgrAssumption
     DEF IInv, TypeOK, LockVarType, ServerType, HandlerType
<1>1. \/ HandlerCheck(n) \/ HandlerTie(n)
      \/ \E w \in Thread :
           WakeDeferred(w) /\ HandlerOn(n, Home[w], {"lock", "blocked"})
  <2>0. call[n] # "replied" /\ call'[n] = "replied"
    BY SMTT(20) DEF Replies
  <2>1. ASSUME NEW w \in Thread, WakeDeferred(w)
        PROVE  HandlerOn(n, Home[w], {"lock", "blocked"})
    BY Zenon, <1>0, <2>0, <2>1 DEF WakeDeferred, HandlerOn
  <2>2. ASSUME NEW k \in Node, request_1_svc(k)
        PROVE  HandlerCheck(n) \/ HandlerTie(n)
    BY Zenon, <1>0, <2>0, <2>2
       DEF request_1_svc, HandlerLoad, HandlerReload, HandlerCheck,
           HandlerTie, HandlerStore, HandlerAppend, HandlerAppendLost,
           HandlerLock
  <2>3. ASSUME NEW w \in Thread,
               SendRequest(w) \/ ReplyReceived(w) \/ RequestTimesOut(w)
        PROVE  FALSE
    BY Zenon, <1>0, <2>0, <2>3 DEF SendRequest, ReplyReceived, RequestTimesOut
  <2> QED
    BY ZenonT(40), <2>0, <2>1, <2>2, <2>3
       DEF Next, vars, InitStep, psu_init_lock_mgr, InitToken, InitDone,
           psu_acquire_lock, psu_release_lock, ServerStep, TakeMutex,
           LoadHighest, FlagVisible, StoreSeqno, EnterCS, WakeDone,
           FreeDeferred, TakeMutexEarlyLoad, LateLoad, LateStore, callVars
<1>2. UNCHANGED <<fieldVars, pc, loaded>>
  BY Zenon, <1>1 DEF HandlerCheck, HandlerTie, WakeDeferred
<1>3. m # n /\ myseqno[n] <= highestseqno[m]
  <2>1. call[n] \in Raised
    BY Zenon, <1>1 DEF HandlerCheck, HandlerTie, HandlerOn, Raised
  <2> QED
    BY Zenon, <1>0, <2>1, PeerOfCaller DEF Replies, IInv, HandlerInv, Raised
<1>4. CASE HandlerCheck(n)
  <2>1. ~requesting_cs[m]
    BY Zenon, <1>0, <1>4 DEF HandlerCheck, Replies
  <2>2. Home[u] = m => ~Owning(u)
    BY Zenon, <1>0, <2>1 DEF IInv, FieldInv
  <2> QED
    BY Zenon, <1>2, <1>3, <2>2 DEF Precedes, Owning, Requesting, fieldVars
<1>5. CASE HandlerTie(n)
  <2>1. call[n] = "tie" /\ ~TieLost(n, m)
    BY Zenon, <1>0, <1>5 DEF HandlerTie, Replies
  <2>2. myseqno[n] <= myseqno[m] /\ Mac[n] # Mac[m]
    BY Zenon, <1>0, <1>3, <2>1, LockMgrAssumption DEF IInv, HandlerInv, Replies
  <2>3. Before(myseqno[n], n, myseqno[m], m)
    BY SMTT(20), <1>0, <2>1, <2>2 DEF Before, TieLost
  <2>4. ASSUME Home[u] = m, pc[u] = "store"
        PROVE  Before(myseqno[n], n, loaded[m] + 1, m)
    <3>1. myseqno[m] <= loaded[m] + 1
      BY Zenon, <1>0, <2>4 DEF IInv, FieldInv
    <3> QED
      BY <1>0, <2>3, <3>1 DEF Before
  <2> QED
    BY Zenon, <1>2, <1>3, <2>3, <2>4 DEF Precedes, Requesting, fieldVars
<1>6. ASSUME NEW w \in Thread, WakeDeferred(w), Home[w] = m
      PROVE  Precedes(t, m, u)'
  <2>1. pc[w] = "wake"
    BY Zenon, <1>6 DEF WakeDeferred
  <2>2. Home[u] = m => pc[u] # "store" /\ ~Requesting(u)
    BY Zenon, <1>6, <2>1, OneOwner DEF IInv, Owning, Requesting
  <2> QED
    BY Zenon, <1>2, <2>2 DEF Precedes, Requesting
<1> QED
  BY Zenon, <1>1, <1>2, <1>3, <1>4, <1>5, <1>6
     DEF HandlerOn, Replies, fieldVars

\* Every step keeps the meaning of replies.
LEMMA PermissionStep ==
  ASSUME IInv, [Next]_vars
  PROVE  PermissionInv'
<1>1. ASSUME NEW t \in Thread, NEW m \in Node, NEW u \in Thread,
             Requesting(t)', Permitted(Home[t], m)', raced'[m] = {}
      PROVE  myseqno'[Home[t]] <= highestseqno'[m] /\ Precedes(t, m, u)'
  BY Zenon, <1>1, PermittedOrigin, PermissionKept, PermissionGiven
<1> QED
  BY Zenon, <1>1 DEF PermissionInv, Precedes

----------------------------------------------------------------------------
\* The state after initialize_global_variable, with a new LockVar on every
\* node, satisfies the invariant.
LEMMA InitInv == Init => IInv
<1> SUFFICES ASSUME Init
             PROVE  IInv
  OBVIOUS
<1>1. TypeOK
  <2>1. <<>> \in Seq(Node) /\ <<>> \in Seq(Waiter)
    OBVIOUS
  <2> QED
    BY Zenon, <2>1, IndexFacts
       DEF Init, TypeOK, TableType, LockVarType, ServerType, HandlerType,
           HistoryType, Stages, HandlerStages
<1>2. \A t \in Thread : pc[t] = "idle"
  BY DEF Init
<1>3. OwnerInv
  BY <1>2 DEF OwnerInv, Owning
<1>4. TableInv
  <2>1. \A n \in Node : \A i \in DOMAIN NodeStr[n] : ~(i < 0)
    <3>1. \A n \in Node : NodeStr[n] \in Seq(Node)
      BY LockMgrAssumption
    <3> QED
      BY <3>1, SeqDomain
  <2>2. \A n \in Node : nodes[n] = <<>>
    BY DEF Init
  <2>3. \A i \in DOMAIN <<>> : FALSE
    OBVIOUS
  <2>4. \A n \in Node : \A i \in DOMAIN nodes[n] : FALSE
    BY Zenon, <2>2, <2>3
  <2>5. \A n \in Node : token[n] = 0 /\ inits[n] = 0
    BY DEF Init
  <2>6. \A n \in Node : ~(inits[n] > 0)
    BY <2>5, ~(0 > 0)
  <2> QED
    BY <2>1, <2>4, <2>5, <2>6 DEF TableInv
<1>5. LoopInv
  BY Zenon, <1>2 DEF Init, LoopInv, EveryPeerAsked, Requesting, InCS
<1>6. HandlerInv
  BY Zenon DEF Init, HandlerInv
<1>7. FieldInv
  BY <1>2 DEF Init, FieldInv, Owning
<1>8. PermissionInv
  BY Zenon, <1>2 DEF PermissionInv, Requesting
<1> QED
  BY <1>1, <1>3, <1>4, <1>5, <1>6, <1>7, <1>8 DEF IInv

\* Every step of the lock manager preserves the invariant.
LEMMA NextInv == IInv /\ [Next]_vars => IInv'
<1> SUFFICES ASSUME IInv, [Next]_vars
             PROVE  IInv'
  OBVIOUS
<1>1. TypeOK' /\ OwnerInv' /\ TableInv'
  BY TypeStep, OwnerStep, TableStep DEF IInv
<1>2. LoopInv' /\ HandlerInv' /\ FieldInv' /\ PermissionInv'
  BY LoopStep, HandlerStep, FieldStep, PermissionStep
<1> QED
  BY <1>1, <1>2 DEF IInv

\* The invariant of the lock manager: every reachable state satisfies IInv,
\* whatever the number of nodes, threads, calls and faults.
THEOREM InductiveInvariant == Spec => []IInv
<1>1. Init => IInv
  BY InitInv
<1>2. IInv /\ [Next]_vars => IInv'
  BY NextInv
<1> QED
  BY <1>1, <1>2, PTL DEF Spec

\* Every reachable state of the lock manager is well typed; in particular the
\* request loop of acquire_lock_1_svc never leaves the node table.
THEOREM TypeCorrect == Spec => []TypeOK
<1>1. IInv => TypeOK
  BY DEF IInv
<1> QED
  BY <1>1, InductiveInvariant, PTL

\* A holder that has the reply of an unraced node precedes its request.
LEMMA OrderFromInv == IInv => ServedInOrder
BY Zenon, HomeIsNode
   DEF IInv, PermissionInv, ServedInOrder, Permitted, Requesting, InCS

\* The lock is served in the order of (myseqno, mac): the test of lines 172
\* to 174 and the assignment of line 170 together enforce it, on every node
\* whose LockVar no race has hit.
THEOREM Ordered == Spec => []ServedInOrder
BY OrderFromInv, InductiveInvariant, PTL

\* Two holders would each precede the other.
LEMMA ExclusionFromInv == IInv => MutualExclusion
<1> SUFFICES ASSUME IInv, NEW t \in Thread, NEW u \in Thread,
                    InCS(t), InCS(u), t # u
             PROVE  Home[t] # Home[u] /\ Excused(Home[t], Home[u])
  BY DEF MutualExclusion
<1> DEFINE n == Home[t]
           m == Home[u]
<1>1. n # m /\ n \in Node /\ m \in Node
  BY OneOwner, HomeIsNode DEF IInv, Owning, InCS
<1>2. SUFFICES ASSUME ~Excused(n, m)
               PROVE  FALSE
  BY <1>1
<1>3. m \in granted[n] /\ n \in granted[m]
  BY Zenon, <1>1, <1>2 DEF IInv, LoopInv, EveryPeerAsked, Excused
<1>4. /\ Before(myseqno[n], n, myseqno[m], m)
      /\ Before(myseqno[m], m, myseqno[n], n)
  BY Zenon, <1>2, <1>3, OrderFromInv
     DEF ServedInOrder, Requesting, InCS, Excused
<1>5. /\ myseqno[n] \in Nat /\ myseqno[m] \in Nat
      /\ Mac[n] \in Nat /\ Mac[m] \in Nat
  BY Zenon, <1>1, LockMgrAssumption DEF IInv, TypeOK, LockVarType
<1> QED
  BY <1>4, <1>5 DEF Before

\* psu_acquire_lock returns to two threads at a time only on two nodes of
\* which one ignored a failed call to the other or was hit by a data race.
THEOREM Exclusion == Spec => []MutualExclusion
BY ExclusionFromInv, InductiveInvariant, PTL

\* acquire_lock_1_svc asks every other node before it returns, although
\* init_lock_mgr_1_svc may extend the table it walks through.
THEOREM AllPeersAsked == Spec => []EveryPeerAsked
<1>1. IInv => EveryPeerAsked
  BY Zenon DEF IInv, LoopInv
<1> QED
  BY <1>1, InductiveInvariant, PTL

\* A node that replied has seen a number at least as large as the request's.
THEOREM RepliesRemembered == Spec => []ReplyIsRemembered
<1>1. IInv => ReplyIsRemembered
  <2> SUFFICES ASSUME IInv, NEW t \in Thread, NEW m \in granted[Home[t]],
                      Requesting(t), raced[m] = {}
               PROVE  myseqno[Home[t]] <= highestseqno[m]
    BY Zenon DEF ReplyIsRemembered
  <2>1. m \in Node
    BY HomeIsNode DEF IInv, TypeOK, HistoryType
  <2> QED
    BY Zenon, <2>1 DEF IInv, PermissionInv, Permitted
<1> QED
  BY <1>1, InductiveInvariant, PTL


----------------------------------------------------------------------------
(* The lock manager as a lock service.                                      *)

\* The numbers of a node's own acquisitions never go back, unless a race took
\* effect on its LockVar.
THEOREM SeqnosGrow == Spec => SeqnoNeverFalls
<1>1. IInv /\ [Next]_vars =>
        [\A n \in Node : raced'[n] = {} => myseqno[n] <= myseqno'[n]]_vars
  BY Zenon, SeqnoGrows
<1> QED
  BY <1>1, InductiveInvariant, PTL DEF Spec, SeqnoNeverFalls

\* The stage of the call of t changes to x.
Moves(t, x) ==
  /\ pc' = [pc EXCEPT ![t] = x]
  /\ \/ pc[t] = "idle" /\ x = "mutex"
     \/ Acquiring(t) /\ x \in {"flag", "load", "store", "loop", "wait"}
     \/ pc[t] = "loop" /\ x = "cs"
     \/ pc[t] = "cs" /\ x = "wake"
     \/ pc[t] = "wake" /\ x = "free"
     \/ pc[t] = "free" /\ x = "idle"

\* A call of psu_acquire_lock or psu_release_lock goes from stage to stage in
\* one order, and a step moves at most one call.
LEMMA StageMoves ==
  ASSUME [Next]_vars
  PROVE  pc' = pc \/ \E t \in Thread : \E x \in Stages : Moves(t, x)
<1>1. ASSUME NEW t \in Thread, ServerStep(t)
      PROVE  pc' = pc \/ \E x \in Stages : Moves(t, x)
  <2>1. CASE TakeMutex(t)
    BY Zenon, <2>1 DEF TakeMutex, Moves, Acquiring, Stages
  <2>2. CASE LoadHighest(t) \/ FlagVisible(t)
    BY Zenon, <2>2 DEF LoadHighest, FlagVisible, Moves, Acquiring, Stages
  <2>3. CASE StoreSeqno(t) \/ SendRequest(t) \/ ReplyReceived(t)
    BY Zenon, <2>3 DEF StoreSeqno, SendRequest, ReplyReceived, Moves, Acquiring, Stages
  <2>4. CASE EnterCS(t) \/ WakeDeferred(t)
    BY Zenon, <2>4 DEF EnterCS, WakeDeferred, Moves, Stages
  <2>5. CASE WakeDone(t) \/ FreeDeferred(t)
    BY Zenon, <2>5 DEF WakeDone, FreeDeferred, Moves, Stages
  <2> QED
    BY Zenon, <1>1, <2>1, <2>2, <2>3, <2>4, <2>5 DEF ServerStep
<1>2. ASSUME NEW t \in Thread, psu_acquire_lock(t) \/ psu_release_lock(t)
      PROVE  \E x \in Stages : Moves(t, x)
  BY Zenon, <1>2 DEF psu_acquire_lock, psu_release_lock, Moves, Stages
<1>3. ASSUME NEW t \in Thread, TakeMutexEarlyLoad(t) \/ RequestTimesOut(t)
      PROVE  \E x \in Stages : Moves(t, x)
  BY Zenon, <1>3 DEF TakeMutexEarlyLoad, RequestTimesOut, Moves, Acquiring, Stages
<1>4. CASE pc' # pc
  BY ZenonT(40), <1>1, <1>2, <1>3, <1>4
     DEF Next, vars, InitStep, psu_init_lock_mgr, InitToken, InitDone,
         request_1_svc, HandlerLoad, HandlerReload, HandlerStore,
         HandlerCheck, HandlerTie, HandlerAppend, HandlerAppendLost,
         HandlerLock, LateLoad, LateStore
<1> QED
  BY Zenon, <1>4

\* The abstract state of a thread is a function of its stage.
LEMMA AbstractStage ==
  ASSUME NEW t \in Thread
  PROVE  /\ pc[t] = "idle" => AbstractState(t) = "idle"
         /\ Acquiring(t) => AbstractState(t) = "waiting"
         /\ pc[t] = "cs" => AbstractState(t) = "holding"
         /\ pc[t] \in {"wake", "free"} => AbstractState(t) = "releasing"
         /\ pc[t] \in Stages /\ AbstractState(t) = "holding" => InCS(t)
BY DEF AbstractState, Acquiring, Stages, InCS

\* The same of the next state.
LEMMA AbstractStageNext ==
  ASSUME NEW t \in Thread
  PROVE  /\ pc'[t] = "idle" => AbstractState(t)' = "idle"
         /\ Acquiring(t)' => AbstractState(t)' = "waiting"
         /\ pc'[t] = "cs" => AbstractState(t)' = "holding"
         /\ pc'[t] \in {"wake", "free"} => AbstractState(t)' = "releasing"
BY DEF AbstractState, Acquiring, Stages


\* A step after which there is one holder is a step of the lock service, or
\* leaves the abstract state as it is.
LEMMA ServiceStep ==
  ASSUME TypeOK, [Next]_vars, OneHolder'
  PROVE  LS!LSNext \/ abstract' = abstract
<1>0. pc \in [Thread -> Stages]
  BY Zenon DEF TypeOK, ServerType
<1>1. CASE pc' = pc
  <2>1. \A u \in Thread : AbstractState(u)' = AbstractState(u)
    BY Zenon, <1>1 DEF AbstractState, Acquiring
  <2> QED
    BY Zenon, <2>1 DEF abstract
<1>2. ASSUME NEW t \in Thread, NEW x \in Stages, Moves(t, x)
      PROVE  LS!LSNext \/ abstract' = abstract
  <2>1. pc'[t] = x /\ \A u \in Thread : u # t => pc'[u] = pc[u]
    BY Zenon, <1>0, <1>2 DEF Moves
  <2>2. abstract' = [abstract EXCEPT ![t] = AbstractState(t)']
    <3>1. \A u \in Thread : u # t => AbstractState(u)' = AbstractState(u)
      BY Zenon, <2>1 DEF AbstractState, Acquiring
    <3> QED
      BY <3>1 DEF abstract
  <2>3. \A u \in Thread : abstract[u] = AbstractState(u)
    BY Zenon DEF abstract
  <2>4. AbstractState(t)' = AbstractState(t) => abstract' = abstract
    BY Zenon, <2>2, <2>3 DEF abstract
  <2>5. CASE pc[t] = "idle" /\ x = "mutex"
    <3>1. abstract[t] = "idle" /\ AbstractState(t)' = "waiting"
      BY <2>1, <2>3, <2>5, AbstractStage, AbstractStageNext DEF Acquiring
    <3> QED
      BY Zenon, <2>2, <3>1 DEF LS!LSNext, LS!Acquire
  <2>6. CASE Acquiring(t) /\ x \in {"flag", "load", "store", "loop", "wait"}
    <3>1. AbstractState(t) = "waiting" /\ AbstractState(t)' = "waiting"
      BY <2>1, <2>6, AbstractStage, AbstractStageNext DEF Acquiring
    <3> QED
      BY Zenon, <2>4, <3>1
  <2>7. CASE pc[t] = "loop" /\ x = "cs"
    <3>1. abstract[t] = "waiting" /\ AbstractState(t)' = "holding"
      BY <2>1, <2>3, <2>7, AbstractStage, AbstractStageNext DEF Acquiring
    <3>2. ASSUME NEW u \in Thread, abstract[u] = "holding"
          PROVE  FALSE
      <4>1. u # t
        BY <3>1, <3>2
      <4>2. pc[u] \in Stages
        BY Zenon, <1>0
      <4>3. InCS(u)' /\ InCS(t)'
        BY Zenon, <2>1, <2>3, <2>7, <3>2, <4>1, <4>2, AbstractStage DEF InCS
      <4> QED
        BY Zenon, <4>1, <4>3 DEF OneHolder
    <3> QED
      BY Zenon, <2>2, <3>1, <3>2 DEF LS!LSNext, LS!Grant
  <2>8. CASE pc[t] = "cs" /\ x = "wake"
    <3>1. abstract[t] = "holding" /\ AbstractState(t)' = "releasing"
      BY <2>1, <2>3, <2>8, AbstractStage, AbstractStageNext
    <3> QED
      BY Zenon, <2>2, <3>1 DEF LS!LSNext, LS!Release
  <2>9. CASE pc[t] = "wake" /\ x = "free"
    <3>1. AbstractState(t) = "releasing" /\ AbstractState(t)' = "releasing"
      BY <2>1, <2>9, AbstractStage, AbstractStageNext
    <3> QED
      BY Zenon, <2>4, <3>1
  <2>10. CASE pc[t] = "free" /\ x = "idle"
    <3>1. abstract[t] = "releasing" /\ AbstractState(t)' = "idle"
      BY <2>1, <2>3, <2>10, AbstractStage, AbstractStageNext
    <3> QED
      BY Zenon, <2>2, <3>1 DEF LS!LSNext, LS!Done
  <2> QED
    BY Zenon, <1>2, <2>5, <2>6, <2>7, <2>8, <2>9, <2>10 DEF Moves
<1> QED
  BY Zenon, <1>1, <1>2, StageMoves

\* In any system each step of the lock manager that leaves nobody excused is
\* one of the lock service: a thread is granted the lock when nobody holds it.
THEOREM ServiceSteps == Spec => ServiceStepUnlessExcused
<1>1. TypeOK /\ MutualExclusion' /\ [Next]_vars =>
        [(\A n, m \in Node : ~Excused(n, m)') => LS!LSNext]_abstract
  <2> SUFFICES ASSUME TypeOK, MutualExclusion', [Next]_vars,
                      \A n, m \in Node : ~Excused(n, m)'
               PROVE  LS!LSNext \/ abstract' = abstract
    BY Zenon
  <2>1. OneHolder'
    BY Zenon, HomeIsNode DEF MutualExclusion, OneHolder
  <2> QED
    BY Zenon, <2>1, ServiceStep
<1> QED
  BY <1>1, TypeCorrect, Exclusion, PTL DEF Spec, ServiceStepUnlessExcused


----------------------------------------------------------------------------
(* A calm system.                                                           *)

\* Nothing fails in a calm system: what only a fault starts does not happen.
LEMMA CalmSteps ==
  ASSUME Calm, CalmInv, [Next]_vars
  PROVE  /\ \A t \in Thread : ~TakeMutexEarlyLoad(t) /\ ~RequestTimesOut(t)
         /\ \A m \in Node : ~LateLoad(m) /\ ~LateStore(m)
<1>1. \A m \in Node : late[m] = {} /\ lateStore[m] = {}
  BY Zenon DEF CalmInv
<1>2. Faults = {}
  BY Zenon DEF Calm
<1>3. \A t \in Thread : ~TakeMutexEarlyLoad(t) /\ ~RequestTimesOut(t)
  BY Zenon, <1>2 DEF TakeMutexEarlyLoad, RequestTimesOut
<1>4. \A m \in Node : ~LateLoad(m) /\ ~LateStore(m)
  BY Zenon, <1>1 DEF LateLoad, LateStore
<1> QED
  BY Zenon, <1>3, <1>4

\* The handler that stores to the highestseqno of m is the only one on m.
LEMMA CalmStore ==
  ASSUME Calm, IInv, CalmInv, NEW k \in Node, HandlerStore(k)
  PROVE  /\ \A n \in Node : raced'[n] = {}
         /\ \A n \in Node : n # k /\ call[n] = "loaded" =>
              highestseqno'[Peer(n)] = highestseqno[Peer(n)]
<1>0. /\ highestseqno \in [Node -> Nat] /\ reg \in [Node -> Nat]
      /\ raced \in [Node -> SUBSET {"lost", "early"}]
  BY Zenon DEF IInv, TypeOK, LockVarType, HandlerType, HistoryType
<1>1. call[k] = "loaded" /\ \A n \in Node : raced[n] = {}
  BY Zenon DEF HandlerStore, CalmInv
<1>2. \A n \in Node : call[n] = "loaded" => Peer(n) \in Node \ {n}
  BY Zenon, PeerOfCaller DEF IInv
<1>3. PICK m \in Node : m = Peer(k) /\ m # k
  BY Zenon, <1>1, <1>2
<1>4. highestseqno[m] <= reg[k]
  BY Zenon, <1>1, <1>3 DEF CalmInv
<1>5. ~(reg[k] < highestseqno[m])
  <2>1. reg[k] \in Nat /\ highestseqno[m] \in Nat
    BY Zenon, <1>0
  <2> QED
    BY ONLY <1>4, <2>1
<1>6. raced' = [raced EXCEPT ![m] = @]
  BY Zenon, <1>3, <1>5 DEF HandlerStore
<1>7. \A n \in Node : raced'[n] = {}
  BY <1>0, <1>1, <1>6
<1>8. ASSUME NEW n \in Node, n # k, call[n] = "loaded"
      PROVE  highestseqno'[Peer(n)] = highestseqno[Peer(n)]
  <2>1. Peer(n) \in Node /\ Peer(n) # m
    BY Zenon, <1>2, <1>3, <1>8 DEF Calm
  <2>2. highestseqno' = [highestseqno EXCEPT ![m] = reg[k]]
    BY Zenon, <1>3 DEF HandlerStore
  <2> QED
    BY <1>0, <2>1, <2>2
<1> QED
  BY Zenon, <1>7, <1>8

\* The value a handler is about to store is the larger of its request's number
\* and of highestseqno, and stays so until it is stored.
LEMMA CalmLoaded ==
  ASSUME Calm, IInv, CalmInv, [Next]_vars, NEW n \in Node, call'[n] = "loaded"
  PROVE  highestseqno'[Peer(n)'] <= reg'[n]
<1>0. /\ highestseqno \in [Node -> Nat] /\ reg \in [Node -> Nat] /\ myseqno \in [Node -> Nat]
      /\ call \in [Node -> HandlerStages]
  BY Zenon DEF IInv, TypeOK, LockVarType, HandlerType
<1>1. CASE HandlerLoad(n)
  <2>1. /\ call[n] = "sent" /\ highestseqno' = highestseqno /\ Peer(n)' = Peer(n)
        /\ reg'[n] = myseqno[n] /\ Exceeds(n, Peer(n))
    BY <1>0, <1>1 DEF HandlerLoad, fieldVars, nodeVars, Peer
  <2>2. Peer(n) \in Node
    BY Zenon, <2>1, PeerOfCaller DEF IInv
  <2>3. highestseqno[Peer(n)] \in Nat /\ myseqno[n] \in Nat
    BY Zenon, <1>0, <2>2
  <2> QED
    BY ONLY <2>1, <2>3 DEF Exceeds
<1>2. CASE HandlerReload(n)
  <2>1. /\ call[n] = "reload" /\ highestseqno' = highestseqno /\ Peer(n)' = Peer(n)
        /\ reg'[n] = highestseqno[Peer(n)]
    BY <1>0, <1>2 DEF HandlerReload, fieldVars, nodeVars, Peer
  <2>2. highestseqno[Peer(n)] \in Nat
    BY Zenon, <1>0, <2>1, PeerOfCaller DEF IInv
  <2> QED
    BY ONLY <2>1, <2>2
<1>3. CASE ~HandlerLoad(n) /\ ~HandlerReload(n)
  <2>1. call[n] = "loaded" /\ reg'[n] = reg[n]
    <3>1. ASSUME NEW k \in Node, request_1_svc(k)
          PROVE  call[n] = "loaded" /\ reg'[n] = reg[n]
      <4>1. CASE k = n
        BY <1>0, <1>3, <3>1, <4>1
           DEF request_1_svc, HandlerStore, HandlerCheck, HandlerTie, HandlerAppend,
               HandlerAppendLost, HandlerLock
      <4>2. CASE k # n
        <5>1. call'[n] = call[n]
          BY ZenonT(30), <1>0, <3>1, <4>2
             DEF request_1_svc, HandlerLoad, HandlerReload, HandlerStore, HandlerCheck,
                 HandlerTie, HandlerAppend, HandlerAppendLost, HandlerLock
        <5>2. reg'[n] = reg[n]
          BY ZenonT(30), <1>0, <3>1, <4>2
             DEF request_1_svc, HandlerLoad, HandlerReload, HandlerStore, HandlerCheck,
                 HandlerTie, HandlerAppend, HandlerAppendLost, HandlerLock
        <5> QED
          BY Zenon, <5>1, <5>2
      <4> QED
        BY Zenon, <4>1, <4>2
    <3>2. ASSUME NEW t \in Thread, SendRequest(t) \/ ReplyReceived(t) \/ WakeDeferred(t)
          PROVE  call[n] = "loaded" /\ reg'[n] = reg[n]
      <4>1. reg' = reg
        BY Zenon, <3>2 DEF SendRequest, ReplyReceived, WakeDeferred, callVars
      <4>2. call[n] = "loaded"
        BY <1>0, <3>2 DEF SendRequest, ReplyReceived, WakeDeferred
      <4> QED
        BY Zenon, <4>1, <4>2
    <3>3. CASE call' = call /\ reg' = reg
      BY Zenon, <3>3
    <3> QED
      BY ZenonT(60), <3>1, <3>2, <3>3, CalmSteps
         DEF Next, vars, InitStep, psu_init_lock_mgr, InitToken, InitDone,
             psu_acquire_lock, psu_release_lock, ServerStep, TakeMutex, LoadHighest,
             FlagVisible, StoreSeqno, EnterCS, WakeDone, FreeDeferred, callVars
  <2>2. Peer(n)' = Peer(n) /\ Peer(n) \in Node
    BY <2>1, PendingStable, PeerOfCaller DEF IInv
  <2>3. highestseqno'[Peer(n)] = highestseqno[Peer(n)]
    <3>1. ASSUME NEW k \in Node, HandlerStore(k)
          PROVE  highestseqno'[Peer(n)] = highestseqno[Peer(n)]
      <4>1. k # n
        BY <1>0, <3>1 DEF HandlerStore
      <4> QED
        BY Zenon, <2>1, <3>1, <4>1, CalmStore
    <3> QED
      BY ZenonT(60), <3>1, CalmSteps
         DEF Next, vars, InitStep, psu_init_lock_mgr, InitToken, InitDone,
             psu_acquire_lock, psu_release_lock, ServerStep, TakeMutex, LoadHighest,
             FlagVisible, StoreSeqno, SendRequest, ReplyReceived, EnterCS, WakeDeferred,
             WakeDone, FreeDeferred, request_1_svc, HandlerLoad, HandlerReload,
             HandlerCheck, HandlerTie, HandlerAppend, HandlerAppendLost, HandlerLock,
             fieldVars
  <2>4. highestseqno[Peer(n)] <= reg[n]
    BY Zenon, <2>1 DEF CalmInv
  <2> QED
    BY Zenon, <2>1, <2>2, <2>3, <2>4
<1> QED
  BY Zenon, <1>1, <1>2, <1>3


\* A calm system stays calm.
LEMMA CalmStep == IInv /\ CalmInv /\ [Next]_vars => CalmInv'
<1> SUFFICES ASSUME IInv, CalmInv, [Next]_vars, Calm,
                    NEW n \in Node
             PROVE  /\ raced'[n] = {} /\ skipped'[n] = {}
                    /\ late'[n] = {} /\ lateStore'[n] = {}
                    /\ call'[n] = "loaded" => highestseqno'[Peer(n)'] <= reg'[n]
  BY Zenon DEF CalmInv, Calm
<1>0. /\ raced[n] = {} /\ skipped[n] = {} /\ late[n] = {} /\ lateStore[n] = {}
      /\ skipped \in [Node -> SUBSET Node]
  BY Zenon DEF CalmInv, IInv, TypeOK, HistoryType
<1>1. ASSUME NEW k \in Node, HandlerStore(k)
      PROVE  raced'[n] = {}
  BY Zenon, <1>1, CalmStore
<1>2. raced'[n] = {}
  BY ZenonT(60), <1>0, <1>1, CalmSteps
     DEF Next, vars, InitStep, psu_init_lock_mgr, InitToken, InitDone,
         psu_acquire_lock, psu_release_lock, ServerStep, TakeMutex, LoadHighest,
         FlagVisible, StoreSeqno, SendRequest, ReplyReceived, EnterCS, WakeDeferred,
         WakeDone, FreeDeferred, request_1_svc, HandlerLoad, HandlerReload,
         HandlerCheck, HandlerTie, HandlerAppend, HandlerAppendLost, HandlerLock,
         histVars
<1>3. ASSUME NEW t \in Thread, StoreSeqno(t)
      PROVE  skipped'[n] = {}
  BY <1>0, <1>3 DEF StoreSeqno
<1>4. skipped'[n] = {}
  BY ZenonT(60), <1>0, <1>3, CalmSteps
     DEF Next, vars, InitStep, psu_init_lock_mgr, InitToken, InitDone,
         psu_acquire_lock, psu_release_lock, ServerStep, TakeMutex, LoadHighest,
         FlagVisible, SendRequest, ReplyReceived, EnterCS, WakeDeferred,
         WakeDone, FreeDeferred, request_1_svc, HandlerLoad, HandlerReload,
         HandlerStore, HandlerCheck, HandlerTie, HandlerAppend, HandlerAppendLost,
         HandlerLock, histVars
<1>5. late'[n] = {} /\ lateStore'[n] = {}
  BY ZenonT(60), <1>0, CalmSteps
     DEF Next, vars, InitStep, psu_init_lock_mgr, InitToken, InitDone,
         psu_acquire_lock, psu_release_lock, ServerStep, TakeMutex, LoadHighest,
         FlagVisible, StoreSeqno, SendRequest, ReplyReceived, EnterCS, WakeDeferred,
         WakeDone, FreeDeferred, request_1_svc, HandlerLoad, HandlerReload,
         HandlerStore, HandlerCheck, HandlerTie, HandlerAppend, HandlerAppendLost,
         HandlerLock, callVars, lateVars
<1>6. call'[n] = "loaded" => highestseqno'[Peer(n)'] <= reg'[n]
  BY Zenon, CalmLoaded
<1> QED
  BY Zenon, <1>2, <1>4, <1>5, <1>6

\* With at most two nodes and no faults, no update of highestseqno is lost and
\* no failed call is ignored.
THEOREM CalmInvariant == Spec => []CalmInv
<1>1. Init => CalmInv
  BY DEF Init, CalmInv
<1> QED
  BY <1>1, CalmStep, InductiveInvariant, PTL DEF Spec

\* With at most two nodes and no faults, psu_acquire_lock and psu_release_lock
\* implement the lock service: the refinement, for any number of clients, calls
\* and initialisations.
THEOREM Implements ==
  ASSUME Calm
  PROVE  Spec => ImplementsLockService
<1>1. Init => LS!LSInit
  <2> SUFFICES ASSUME Init PROVE LS!LSInit
    OBVIOUS
  <2>1. \A t \in Thread : AbstractState(t) = "idle"
    BY Zenon, AbstractStage DEF Init
  <2> QED
    BY Zenon, <2>1 DEF LS!LSInit, abstract
<1>2. TypeOK /\ MutualExclusion' /\ CalmInv' /\ [Next]_vars => [LS!LSNext]_abstract
  <2> SUFFICES ASSUME TypeOK, MutualExclusion', CalmInv', [Next]_vars
               PROVE  LS!LSNext \/ abstract' = abstract
    BY Zenon
  <2>1. \A n \in Node : raced'[n] = {} /\ skipped'[n] = {}
    BY Zenon DEF CalmInv, Calm
  <2>2. \A n, m \in Node : ~Excused(n, m)'
    BY <2>1 DEF Excused
  <2>3. OneHolder'
    BY Zenon, <2>2, HomeIsNode DEF MutualExclusion, OneHolder
  <2> QED
    BY Zenon, <2>3, ServiceStep
<1> QED
  BY <1>1, <1>2, TypeCorrect, Exclusion, CalmInvariant, PTL
     DEF Spec, ImplementsLockService, LS!LSSpec
============================================================================
