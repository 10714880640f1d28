-------------------------- MODULE DispatcherProofs --------------------------
(***************************************************************************)
(* Proofs of OwnReply and OwnRequest for any number of connections and     *)
(* transports.                                                             *)
(***************************************************************************)
EXTENDS Dispatcher, TLAPS

LEMMA DispatcherInit == Init => DInv
<1> SUFFICES ASSUME Init PROVE DInv
  OBVIOUS
<1>1. worker \in [Conn -> Worker] /\ \A k \in Conn : worker[k].pc = "none"
  BY DEF Init, Worker
<1>2. /\ conn \in [Conn -> {"new", "call", "closed"}]
      /\ slot \in [Slot -> Conn \cup {None}]
      /\ printed \in [Conn -> Conn \cup {None}]
      /\ \A k \in Conn : printed[k] = None
  BY DEF Init
<1>3. replies \in [Conn -> Seq(Conn)] /\ \A k \in Conn : replies[k] = <<>>
  BY DEF Init
<1>4. \A k \in Conn : Waiting(k)
  BY <1>1, <1>3, DispatcherAssumption DEF Init, Waiting
<1> QED
  BY <1>1, <1>2, <1>3, <1>4 DEF DInv

\* The client of k opens or closes its connection.
LEMMA ClientStep ==
  ASSUME DInv, NEW k \in Conn, create_client(k) \/ clnt_destroy(k)
  PROVE  DInv'
<1>1. UNCHANGED <<slot, worker, replies, printed, up>>
  BY DEF create_client, clnt_destroy
<1>2. /\ conn' \in [Conn -> {"new", "call", "closed"}]
      /\ \A l \in Conn : l # k => conn'[l] = conn[l]
      /\ conn'[k] \in {"call", "closed"}
      /\ conn'[k] = "call" => conn[k] = "new"
  BY DEF DInv, create_client, clnt_destroy
<1>g. /\ gaveup' = {} => gaveup = {}
      /\ conn'[k] = "closed" /\ gaveup' = {} /\ up => replies[k] # <<>>
  <2>1. CASE create_client(k)
    BY <2>1 DEF create_client, DInv
  <2>2. CASE clnt_destroy(k)
    BY <2>2 DEF clnt_destroy
  <2> QED
    BY <2>1, <2>2
<1>3. ASSUME NEW l \in Conn, Waiting(l), gaveup' = {}, up
      PROVE  Waiting(l)'
  <2>1. CASE l # k
    BY <1>1, <1>2, <1>3, <2>1 DEF Waiting
  <2>2. CASE l = k
    <3>1. worker[k].pc \in {"none", "local", "reply", "free", "done"}
      BY DEF DInv, Worker
    <3> QED
      BY <1>1, <1>2, <1>g, <1>3, <2>2, <3>1 DEF Waiting
  <2> QED
    BY <2>1, <2>2
<1> QED
  BY <1>1, <1>2, <1>g, <1>3 DEF DInv

LEMMA AcceptStep ==
  ASSUME DInv, NEW k \in Conn, NEW s \in Slot, accept(k, s)
  PROVE  DInv'
<1>1. UNCHANGED <<conn, worker, replies, printed, up, gaveup>>
  BY DEF accept
<1>2. /\ slot' \in [Slot -> Conn \cup {None}]
      /\ \A t \in Slot : t # s => slot'[t] = slot[t]
      /\ slot'[s] = k /\ slot[s] = None /\ conn[k] # "new"
  BY DEF DInv, accept
<1>3. ASSUME NEW l \in Conn, Waiting(l)
      PROVE  Waiting(l)'
  <2>1. l # None
    BY DispatcherAssumption
  <2> QED
    BY <1>1, <1>2, <1>3, <2>1 DEF Waiting
<1> QED
  BY <1>1, <1>2, <1>3 DEF DInv

LEMMA DestroyStep ==
  ASSUME DInv, NEW k \in Conn, NEW s \in Slot, svc_destroy(k, s)
  PROVE  DInv'
<1>1. UNCHANGED <<conn, worker, replies, printed, up, gaveup>>
  BY DEF svc_destroy
<1>2. /\ slot' \in [Slot -> Conn \cup {None}]
      /\ \A t \in Slot : t # s => slot'[t] = slot[t]
      /\ slot'[s] = None /\ slot[s] = k /\ conn[k] = "closed"
  BY DEF DInv, svc_destroy
<1>3. ASSUME NEW l \in Conn, Waiting(l)
      PROVE  Waiting(l)'
  <2>1. l # None
    BY DispatcherAssumption
  <2> QED
    BY <1>1, <1>2, <1>3, <2>1 DEF Waiting
<1> QED
  BY <1>1, <1>2, <1>3 DEF DInv

\* A step that changes only the thread for k, and possibly what came through
\* connection k or what the thread has printed.
LEMMA ThreadStep ==
  ASSUME DInv, NEW k \in Conn, NEW w \in Worker,
         worker' = [worker EXCEPT ![k] = w],
         replies' \in [Conn -> Seq(Conn)],
         printed' \in [Conn -> Conn \cup {None}],
         \A l \in Conn : l # k => printed'[l] = printed[l],
         gaveup = {} => \A l \in Conn : l # k => replies'[l] = replies[l],
         w.pc \in {"local", "reply", "free"} => w.rqstp = k,
         printed'[k] \in {None, k},
         gaveup = {} => replies'[k] \in {<<>>, <<k>>},
         gaveup = {} /\ up' => Waiting(k)',
         up, UNCHANGED <<conn, slot, gaveup>>
  PROVE  DInv'
<1>1. /\ worker' \in [Conn -> Worker]
      /\ worker'[k] = w
      /\ \A l \in Conn : l # k => worker'[l] = worker[l]
  BY DEF DInv
<1>2. ASSUME NEW l \in Conn, l # k, Waiting(l), gaveup = {}
      PROVE  Waiting(l)'
  BY <1>1, <1>2 DEF Waiting
<1>3. \A l \in Conn : gaveup = {} /\ up' => Waiting(l)'
  BY <1>2 DEF DInv
<1>4. \A l \in Conn : /\ worker'[l].pc \in {"local", "reply", "free"} =>
                           worker'[l].rqstp = l
                      /\ printed'[l] \in {None, l}
                      /\ gaveup = {} => replies'[l] \in {<<>>, <<l>>}
  BY SMTT(30), <1>1 DEF DInv
<1> QED
  BY <1>1, <1>3, <1>4 DEF DInv

LEMMA DispatchStep ==
  ASSUME DInv, NEW k \in Conn, NEW s \in Slot, dispatcher(k, s)
  PROVE  DInv'
<1>1. /\ up /\ UNCHANGED <<conn, slot, printed, up, gaveup>>
      /\ slot[s] = k /\ worker[k].pc = "none"
  BY DEF dispatcher
<1>2. worker[k] \in Worker /\ conn[k] \in {"new", "call", "closed"}
  BY DEF DInv
<1>3. gaveup = {} => replies[k] = <<>> /\ conn[k] = "call"
  BY <1>1, <1>2 DEF DInv, Waiting
<1>a. CASE k \in Null
  <2> DEFINE w == [worker[k] EXCEPT !.pc = "done"]
  <2>1. /\ worker' = [worker EXCEPT ![k] = w]
        /\ replies' = [replies EXCEPT ![k] = Append(@, k)]
    BY <1>a DEF dispatcher
  <2>2. w \in Worker /\ w.pc = "done"
    BY <1>2 DEF Worker
  <2> HIDE DEF w
  <2>3. /\ replies' \in [Conn -> Seq(Conn)]
        /\ \A l \in Conn : l # k => replies'[l] = replies[l]
        /\ replies[k] = <<>> => replies'[k] = <<k>>
    <3>1. replies \in [Conn -> Seq(Conn)]
      BY DEF DInv
    <3>2. replies' = [replies EXCEPT ![k] = Append(replies[k], k)]
      BY <2>1
    <3>3. replies[k] \in Seq(Conn) /\ Append(replies[k], k) \in Seq(Conn)
      BY <3>1
    <3>4. replies' \in [Conn -> Seq(Conn)] /\ replies'[k] = Append(replies[k], k)
      BY <3>1, <3>2, <3>3
    <3>5. \A l \in Conn : l # k => replies'[l] = replies[l]
      BY <3>1, <3>2
    <3>6. ASSUME replies[k] = <<>>
          PROVE  replies'[k] = <<k>>
      <4>1. Append(<<>>, k) = <<k>>
        OBVIOUS
      <4> QED
        BY <3>4, <3>6, <4>1
    <3> QED
      BY <3>4, <3>5, <3>6
  <2>4. gaveup = {} => Waiting(k)'
    <3>1. worker'[k] = w
      BY SMTT(30), <2>1 DEF DInv
    <3> QED
      BY <1>1, <1>3, <2>2, <2>3, <3>1 DEF Waiting
  <2> QED
    BY <1>1, <1>3, <2>1, <2>2, <2>3, <2>4, ThreadStep DEF DInv
<1>b. CASE k \notin Null
  <2> DEFINE w == [pc |-> "local", transp |-> s, rqstp |-> k]
  <2>1. worker' = [worker EXCEPT ![k] = w] /\ replies' = replies
    BY <1>b DEF dispatcher, ThreadData
  <2>2. w \in Worker /\ w.pc = "local" /\ w.transp = s /\ w.rqstp = k
    BY DEF Worker
  <2> HIDE DEF w
  <2>3. gaveup = {} => Waiting(k)'
    <3>1. worker'[k] = w
      BY <2>1 DEF DInv
    <3> QED
      BY <1>1, <1>3, <2>1, <2>2, <3>1 DEF Waiting
  <2> QED
    BY <1>1, <2>1, <2>2, <2>3, ThreadStep DEF DInv
<1> QED
  BY <1>a, <1>b

LEMMA RunStep ==
  ASSUME DInv, NEW k \in Conn, Run(k)
  PROVE  DInv'
<1>1. worker[k] \in Worker /\ up /\ UNCHANGED <<conn, slot, gaveup>>
  BY DEF DInv, Run, local, sendreply, freeargs
<1>a. CASE local(k)
  <2> DEFINE w == [worker[k] EXCEPT !.pc = "reply"]
  <2>1. /\ worker' = [worker EXCEPT ![k] = w] /\ worker[k].pc = "local"
        /\ UNCHANGED <<replies, printed, up>>
    BY <1>a DEF local
  <2>2. /\ w \in Worker /\ w.pc = "reply" /\ w.transp = worker[k].transp
        /\ w.rqstp = worker[k].rqstp
    BY <1>1 DEF Worker
  <2> HIDE DEF w
  <2>3. gaveup = {} => Waiting(k)'
    <3>1. worker'[k] = w
      BY <2>1 DEF DInv
    <3> QED
      BY <1>1, <2>1, <2>2, <3>1 DEF DInv, Waiting
  <2> QED
    BY <1>1, <2>1, <2>2, <2>3, ThreadStep DEF DInv
<1>b. CASE sendreply(k)
  <2> DEFINE w == [worker[k] EXCEPT !.pc = "free"]
  <2>1. /\ worker' = [worker EXCEPT ![k] = w] /\ worker[k].pc = "reply"
        /\ printed' = printed
        /\ replies' = IF There(k) = None THEN replies
                      ELSE [replies EXCEPT ![There(k)] = Append(@, k)]
    BY <1>b DEF sendreply
  <2>2. /\ w \in Worker /\ w.pc = "free" /\ w.transp = worker[k].transp
        /\ w.rqstp = worker[k].rqstp
    BY SMTT(30), <1>1 DEF Worker
  <2> HIDE DEF w
  <2>3. gaveup = {} => There(k) = k /\ replies[k] = <<>> /\ k # None
    BY <1>1, <2>1, DispatcherAssumption DEF DInv, Waiting, There
  <2>4. replies' \in [Conn -> Seq(Conn)]
    <3>1. \A l \in Conn : Append(replies[l], k) \in Seq(Conn)
      BY DEF DInv
    <3> QED
      BY <2>1, <3>1 DEF DInv
  <2>5. gaveup = {} => /\ replies'[k] = <<k>>
                       /\ \A l \in Conn : l # k => replies'[l] = replies[l]
    BY <2>1, <2>3 DEF DInv
  <2>6. gaveup = {} => Waiting(k)'
    <3>1. worker'[k] = w
      BY SMTT(30), <2>1 DEF DInv
    <3> QED
      BY <1>1, <2>1, <2>2, <2>5, <3>1 DEF DInv, Waiting
  <2> QED
    BY <1>1, <2>1, <2>2, <2>4, <2>5, <2>6, ThreadStep DEF DInv
<1>c. CASE freeargs(k)
  <2> DEFINE w == [worker[k] EXCEPT !.pc = "done"]
  <2>1. /\ worker' = [worker EXCEPT ![k] = w] /\ worker[k].pc = "free"
        /\ replies' = replies
        /\ printed' = printed \/ printed' = [printed EXCEPT ![k] = worker[k].rqstp]
    BY <1>c DEF freeargs, Request
  <2>2. w \in Worker /\ w.pc = "done"
    BY <1>1 DEF Worker
  <2> HIDE DEF w
  <2>3. /\ printed' \in [Conn -> Conn \cup {None}] /\ printed'[k] \in {None, k}
        /\ \A l \in Conn : l # k => printed'[l] = printed[l]
    <3>1. CASE printed' = printed
      BY <3>1 DEF DInv
    <3>2. CASE printed' = [printed EXCEPT ![k] = worker[k].rqstp]
      BY <2>1, <3>2 DEF DInv
    <3> QED
      BY SMTT(30), <2>1, <3>1, <3>2
  <2>4. gaveup = {} => Waiting(k)'
    <3>1. worker'[k] = w
      BY <2>1 DEF DInv
    <3> QED
      BY <1>1, <2>1, <2>2, <3>1 DEF DInv, Waiting
  <2> QED
    BY <1>1, <2>1, <2>2, <2>3, <2>4, ThreadStep DEF DInv
<1> QED
  BY <1>a, <1>b, <1>c DEF Run

\* Up to the reply, a thread finds the transport of its call, as long as
\* clients wait for their replies.
THEOREM DispatcherInductive == Spec => []DInv
<1>1. ASSUME DInv, [Next]_vars
      PROVE  DInv'
  <2>1. ASSUME NEW k \in Conn, NEW s \in Slot,
               accept(k, s) \/ dispatcher(k, s) \/ svc_destroy(k, s)
        PROVE  DInv'
    BY <1>1, <2>1, AcceptStep, DispatchStep, DestroyStep
  <2>2. ASSUME NEW k \in Conn, create_client(k) \/ clnt_destroy(k) \/ Run(k)
        PROVE  DInv'
    BY <1>1, <2>2, ClientStep, RunStep
  <2>3. CASE UNCHANGED vars
    BY <1>1, <2>3 DEF vars, DInv, Waiting
  <2> QED
    BY <1>1, <2>1, <2>2, <2>3 DEF Next, Loop
<1> QED
  BY <1>1, DispatcherInit, PTL DEF Spec

\* Clients that wait get one reply, to their own call.
THEOREM RepliesMatch == Spec => []OwnReply
<1>1. DInv => OwnReply
  BY DEF DInv, OwnReply
<1> QED
  BY <1>1, DispatcherInductive, PTL

\* Each thread works with the request it was started for.
THEOREM RequestsKept == Spec => []OwnRequest
<1>1. DInv => OwnRequest
  BY DEF DInv, OwnRequest
<1> QED
  BY <1>1, DispatcherInductive, PTL


----------------------------------------------------------------------------
(* Types.                                                                   *)

\* A record of a thread with another stage.
LEMMA WorkerMoves ==
  ASSUME worker \in [Conn -> Worker], NEW k \in Conn,
         NEW x \in {"reply", "free", "done"},
         worker' = [worker EXCEPT ![k].pc = x]
  PROVE  /\ worker' \in [Conn -> Worker]
         /\ worker'[k].pc = x /\ worker'[k].transp = worker[k].transp
         /\ \A l \in Conn : l # k => worker'[l] = worker[l]
<1>1. worker[k] \in Worker
  OBVIOUS
<1>2. [worker[k] EXCEPT !.pc = x] \in Worker
  BY <1>1 DEF Worker
<1>3. worker' = [worker EXCEPT ![k] = [worker[k] EXCEPT !.pc = x]]
  OBVIOUS
<1>4. worker'[k] = [worker[k] EXCEPT !.pc = x]
  BY <1>3
<1>5. worker'[k].pc = x /\ worker'[k].transp = worker[k].transp
  BY <1>1, <1>4 DEF Worker
<1> QED
  BY <1>2, <1>3, <1>5

\* A thread is started with the transport of its request.
LEMMA TypeStep == TypeOK /\ [Next]_vars => TypeOK'
<1> SUFFICES ASSUME TypeOK, [Next]_vars PROVE TypeOK'
  OBVIOUS
<1>0. /\ conn \in [Conn -> {"new", "call", "closed"}]
      /\ slot \in [Slot -> Conn \cup {None}] /\ rqstp \in Conn \cup {None}
      /\ worker \in [Conn -> Worker] /\ replies \in [Conn -> Seq(Conn)]
      /\ printed \in [Conn -> Conn \cup {None}] /\ up \in BOOLEAN
      /\ misuse \subseteq Conn /\ gaveup \subseteq Conn
      /\ \A k \in Conn : worker[k].pc \in {"local", "reply", "free"} =>
                           worker[k].transp \in Slot
  BY Zenon DEF TypeOK
<1>1. CASE UNCHANGED vars
  BY Zenon, <1>1 DEF TypeOK, vars
<1>2. ASSUME NEW k \in Conn, create_client(k) \/ clnt_destroy(k)
      PROVE  TypeOK'
  <2>1. /\ UNCHANGED <<slot, rqstp, worker, replies, printed, up, misuse>>
        /\ conn' \in [Conn -> {"new", "call", "closed"}]
    BY <1>0, <1>2 DEF create_client, clnt_destroy
  <2>2. gaveup' \subseteq Conn
    BY Zenon, <1>0, <1>2 DEF create_client, clnt_destroy
  <2> QED
    BY Zenon, <1>0, <2>1, <2>2 DEF TypeOK
<1>3. ASSUME NEW k \in Conn, NEW s \in Slot, accept(k, s) \/ svc_destroy(k, s)
      PROVE  TypeOK'
  <2>1. /\ UNCHANGED <<conn, rqstp, worker, replies, printed, up, misuse, gaveup>>
        /\ slot' \in [Slot -> Conn \cup {None}]
    BY <1>0, <1>3 DEF accept, svc_destroy
  <2> QED
    BY Zenon, <1>0, <2>1 DEF TypeOK
<1>4. ASSUME NEW k \in Conn, NEW s \in Slot, dispatcher(k, s)
      PROVE  TypeOK'
  <2>1. UNCHANGED <<conn, slot, printed, up, misuse, gaveup>> /\ rqstp' = k
    BY Zenon, <1>4 DEF dispatcher
  <2>2. replies' \in [Conn -> Seq(Conn)]
    <3>1. Append(replies[k], k) \in Seq(Conn)
      BY <1>0
    <3> QED
      BY <1>0, <1>4, <3>1 DEF dispatcher
  <2>3. /\ worker' \in [Conn -> Worker]
        /\ \A l \in Conn : worker'[l].pc \in {"local", "reply", "free"} =>
                             worker'[l].transp \in Slot
    <3>1. CASE k \in Null
      <4>1. worker' = [worker EXCEPT ![k].pc = "done"]
        BY Zenon, <1>4, <3>1 DEF dispatcher
      <4>2. /\ worker' \in [Conn -> Worker] /\ worker'[k].pc = "done"
            /\ \A l \in Conn : l # k => worker'[l] = worker[l]
        BY <1>0, <4>1, WorkerMoves
      <4> QED
        BY <1>0, <4>2
    <3>2. CASE k \notin Null
      <4>1. worker' = [worker EXCEPT ![k] = ThreadData(k, s)]
        BY Zenon, <1>4, <3>2 DEF dispatcher
      <4>2. ThreadData(k, s) \in Worker /\ ThreadData(k, s).transp = s
        BY DEF ThreadData, Worker
      <4>3. /\ worker' \in [Conn -> Worker] /\ worker'[k].transp = s
            /\ \A l \in Conn : l # k => worker'[l] = worker[l]
        BY <1>0, <4>1, <4>2
      <4> QED
        BY <1>0, <4>3
    <3> QED
      BY Zenon, <3>1, <3>2
  <2> QED
    BY Zenon, <1>0, <2>1, <2>2, <2>3 DEF TypeOK
<1>5. ASSUME NEW k \in Conn, local(k) \/ sendreply(k) \/ freeargs(k)
      PROVE  TypeOK'
  <2>1. UNCHANGED <<conn, slot, rqstp, gaveup>>
    BY Zenon, <1>5 DEF local, sendreply, freeargs
  <2>2. PICK x \in {"reply", "free", "done"} : worker' = [worker EXCEPT ![k].pc = x]
    BY Zenon, <1>5 DEF local, sendreply, freeargs
  <2>3. worker[k].pc \in {"local", "reply", "free"}
    BY Zenon, <1>5 DEF local, sendreply, freeargs
  <2>4. worker[k].transp \in Slot
    BY Zenon, <1>0, <2>3
  <2>5. /\ worker' \in [Conn -> Worker]
        /\ worker'[k].pc = x /\ worker'[k].transp = worker[k].transp
        /\ \A l \in Conn : l # k => worker'[l] = worker[l]
    BY Zenon, <1>0, <2>2, WorkerMoves
  <2>6. \A l \in Conn : worker'[l].pc \in {"local", "reply", "free"} =>
                          worker'[l].transp \in Slot
    BY Zenon, <1>0, <2>4, <2>5
  <2>7. There(k) \in Conn \cup {None}
    BY Zenon, <1>0, <2>4 DEF There
  <2>8. replies' \in [Conn -> Seq(Conn)]
    <3>1. CASE replies' = replies
      BY Zenon, <1>0, <3>1
    <3>2. CASE There(k) # None /\ replies' = [replies EXCEPT ![There(k)] = Append(@, k)]
      <4>1. There(k) \in Conn
        BY Zenon, <2>7, <3>2
      <4>2. Append(replies[There(k)], k) \in Seq(Conn)
        BY <1>0, <4>1
      <4> QED
        BY <1>0, <3>2, <4>1, <4>2
    <3> QED
      BY Zenon, <1>5, <3>1, <3>2 DEF local, sendreply, freeargs
  <2>9. misuse' \subseteq Conn /\ up' \in BOOLEAN
    <3>1. CASE local(k)
      BY Zenon, <1>0, <3>1 DEF local
    <3>2. CASE Touch(k)
      BY Zenon, <1>0, <3>2 DEF Touch
    <3> QED
      BY Zenon, <1>5, <3>1, <3>2 DEF sendreply, freeargs
  <2>10. printed' \in [Conn -> Conn \cup {None}]
    <3>1. worker[k].rqstp \in Conn \cup {None}
      BY <1>0 DEF Worker
    <3>2. CASE printed' = printed
      BY Zenon, <1>0, <3>2
    <3>3. CASE printed' = [printed EXCEPT ![k] = Request(k)]
      BY <1>0, <3>1, <3>3 DEF Request
    <3> QED
      BY Zenon, <1>5, <3>2, <3>3 DEF local, sendreply, freeargs
  <2> QED
    BY Zenon, <1>0, <2>1, <2>5, <2>6, <2>8, <2>9, <2>10 DEF TypeOK
<1> QED
  BY Zenon, <1>1, <1>2, <1>3, <1>4, <1>5 DEF Next, Loop, Run

\* The state of the server and of its clients keeps its types; in particular a
\* thread that is to use a transport has one.
THEOREM TypeCorrect == Spec => []TypeOK
<1>1. Init => TypeOK
  <2> SUFFICES ASSUME Init PROVE TypeOK
    OBVIOUS
  <2>1. worker \in [Conn -> Worker] /\ \A k \in Conn : worker[k].pc = "none"
    BY DEF Init, Worker
  <2>2. replies \in [Conn -> Seq(Conn)]
    BY DEF Init
  <2> QED
    BY <2>1, <2>2 DEF Init, TypeOK
<1> QED
  BY <1>1, TypeStep, PTL DEF Spec
============================================================================
