----------------------------- MODULE Dispatcher -----------------------------
(***************************************************************************)
(* The multi-threaded RPC server of the lock manager and of the thread     *)
(* migrator: dispatcher and run of utility.c with the svc_run loop of the  *)
(* RPC library around them.                                                *)
(*                                                                         *)
(* Every client call has a connection of its own: create_client, one call, *)
(* clnt_destroy.  The loop accepts the connection and allocates a          *)
(* transport, hands the request to dispatcher, and frees the transport     *)
(* when it finds the connection closed.  A worker thread keeps the address *)
(* of the transport.  A slot is memory for a transport: it is used again   *)
(* by a later connection.                                                  *)
(*                                                                         *)
(* A definition whose name has a suffix is a wrong version of the one      *)
(* after it.                                                               *)
(***************************************************************************)
EXTENDS Integers, Sequences

CONSTANTS
  Conn,    \* connections, each with one call
  Null,    \* those whose call is NULLPROC
  Slot,    \* addresses at which transports are allocated
  Faults,  \* {"giveup"} if clients may time out or die, otherwise {}
  None     \* no connection, no slot

ASSUME DispatcherAssumption ==
  /\ Null \subseteq Conn
  /\ Faults \subseteq {"giveup"}
  /\ None \notin Conn \cup Slot

VARIABLES
  conn,     \* conn[k]: the client of connection k
  slot,     \* slot[s]: the connection whose transport is at s, or None
  rqstp,    \* the request object of the loop: the last request read
  worker,   \* worker[k]: the thread_data and progress of the thread for k
  replies,  \* replies[k]: the calls whose replies came through k
  printed,  \* printed[k]: the request that the thread for k reports
  up,       \* the server process runs
  misuse,   \* history: calls whose thread used a transport not its own
  gaveup    \* history: calls whose client closed before any reply came

vars == <<conn, slot, rqstp, worker, replies, printed, up, misuse, gaveup>>

Worker == [pc : {"none", "local", "reply", "free", "done"},
           transp : Slot \cup {None}, rqstp : Conn \cup {None}]

Init ==
  /\ conn = [k \in Conn |-> "new"]
  /\ slot = [s \in Slot |-> None]
  /\ rqstp = None
  /\ worker = [k \in Conn |-> [pc |-> "none", transp |-> None, rqstp |-> None]]
  /\ replies = [k \in Conn |-> <<>>]
  /\ printed = [k \in Conn |-> None]
  /\ up = TRUE
  /\ misuse = {}
  /\ gaveup = {}

----------------------------------------------------------------------------
(* A client: create_client, the call of its stub, clnt_destroy.  Without a  *)
(* server create_client ends the client, and a call in progress fails.      *)

create_client(k) ==
  /\ conn[k] = "new" /\ up
  /\ conn' = [conn EXCEPT ![k] = "call"]
  /\ UNCHANGED <<slot, rqstp, worker, replies, printed, up, misuse, gaveup>>

clnt_destroy(k) ==
  /\ \/ conn[k] = "call" /\ replies[k] # <<>>
     \/ conn[k] = "call" /\ "giveup" \in Faults
     \/ conn[k] = "call" /\ ~up
  /\ conn' = [conn EXCEPT ![k] = "closed"]
  /\ gaveup' = IF up /\ replies[k] = <<>> THEN gaveup \cup {k} ELSE gaveup
  /\ UNCHANGED <<slot, rqstp, worker, replies, printed, up, misuse>>

----------------------------------------------------------------------------
(* The loop of the server.                                                  *)

accept(k, s) ==
  /\ up /\ conn[k] # "new" /\ worker[k].pc = "none"
  /\ \A t \in Slot : slot[t] # k
  /\ slot[s] = None
  /\ slot' = [slot EXCEPT ![s] = k]
  /\ UNCHANGED <<conn, rqstp, worker, replies, printed, up, misuse, gaveup>>

\* The thread gets a copy of the request, because the loop goes on.
ThreadData(k, s) == [pc |-> "local", transp |-> s, rqstp |-> k]
ThreadData_NoTransp(k, s) == [pc |-> "local", transp |-> None, rqstp |-> k]

\* NULLPROC is answered here, any other procedure by a thread of its own.
dispatcher_NullGoesOn(k, s) ==
  /\ up /\ slot[s] = k /\ worker[k].pc = "none"
  /\ rqstp' = k
  /\ replies' = IF k \in Null THEN [replies EXCEPT ![k] = Append(@, k)]
                              ELSE replies
  /\ worker' = [worker EXCEPT ![k] = ThreadData(k, s)]
  /\ UNCHANGED <<conn, slot, printed, up, misuse, gaveup>>
dispatcher_NoTransp(k, s) ==
  /\ up /\ slot[s] = k /\ worker[k].pc = "none"
  /\ rqstp' = k
  /\ worker' = [worker EXCEPT ![k] = ThreadData_NoTransp(k, s)]
  /\ UNCHANGED <<conn, slot, replies, printed, up, misuse, gaveup>>
dispatcher(k, s) ==
  /\ up /\ slot[s] = k /\ worker[k].pc = "none"
  /\ rqstp' = k
  /\ IF k \in Null
     THEN /\ replies' = [replies EXCEPT ![k] = Append(@, k)]
          /\ worker' = [worker EXCEPT ![k].pc = "done"]
     ELSE /\ worker' = [worker EXCEPT ![k] = ThreadData(k, s)]
          /\ UNCHANGED replies
  /\ UNCHANGED <<conn, slot, printed, up, misuse, gaveup>>

\* The loop finds that the client has closed the connection.
svc_destroy(k, s) ==
  /\ up /\ slot[s] = k /\ worker[k].pc # "none"
  /\ conn[k] = "closed"
  /\ slot' = [slot EXCEPT ![s] = None]
  /\ UNCHANGED <<conn, rqstp, worker, replies, printed, up, misuse, gaveup>>

----------------------------------------------------------------------------
(* run: the thread for the call of connection k.                            *)

local(k) ==
  /\ up /\ worker[k].pc = "local"
  /\ worker' = [worker EXCEPT ![k].pc = "reply"]
  /\ UNCHANGED <<conn, slot, rqstp, replies, printed, up, misuse, gaveup>>

\* A use of the transport reaches whatever connection has it now.  When the
\* memory is free, the operations that its xp_ops points to may still be
\* there or the server dies.
There(k) == slot[worker[k].transp]

Touch(k) ==
  /\ misuse' = IF There(k) = k THEN misuse ELSE misuse \cup {k}
  /\ up' \in IF There(k) = None THEN BOOLEAN ELSE {TRUE}

\* A reply carries the transaction number kept in the transport, so that the
\* client at the other end takes it for the reply to its own call.
sendreply_OnFailure(k) ==
  /\ up /\ worker[k].pc = "reply"
  /\ worker' = [worker EXCEPT ![k].pc = "free"]
  /\ UNCHANGED <<conn, slot, rqstp, replies, printed, up, misuse, gaveup>>
sendreply(k) ==
  /\ up /\ worker[k].pc = "reply"
  /\ worker' = [worker EXCEPT ![k].pc = "free"]
  /\ replies' = IF There(k) = None THEN replies
                ELSE [replies EXCEPT ![There(k)] = Append(@, k)]
  /\ Touch(k)
  /\ UNCHANGED <<conn, slot, rqstp, printed, gaveup>>

Request_Shared(k) == rqstp
Request(k) == worker[k].rqstp

\* svc_freeargs, and the message with the procedure that has finished.
freeargs(k) ==
  /\ up /\ worker[k].pc = "free"
  /\ worker' = [worker EXCEPT ![k].pc = "done"]
  /\ Touch(k)
  /\ printed' = IF up' THEN [printed EXCEPT ![k] = Request(k)] ELSE printed
  /\ UNCHANGED <<conn, slot, rqstp, replies, gaveup>>

----------------------------------------------------------------------------
Loop ==
  \E k \in Conn, s \in Slot : accept(k, s) \/ dispatcher(k, s) \/ svc_destroy(k, s)

Run(k) == local(k) \/ sendreply(k) \/ freeargs(k)

Next ==
  \/ \E k \in Conn : create_client(k)
  \/ \E k \in Conn : clnt_destroy(k)
  \/ Loop
  \/ \E k \in Conn : Run(k)

Spec == Init /\ [][Next]_vars

\* The loop and the threads run on, and a client whose call has returned
\* closes its connection.
FairSpec ==
  /\ Spec
  /\ WF_vars(Loop)
  /\ \A k \in Conn : WF_vars(Run(k))
  /\ \A k \in Conn : WF_vars((replies[k] # <<>> \/ ~up) /\ clnt_destroy(k))

----------------------------------------------------------------------------
TypeOK ==
  /\ conn \in [Conn -> {"new", "call", "closed"}]
  /\ slot \in [Slot -> Conn \cup {None}]
  /\ rqstp \in Conn \cup {None}
  /\ worker \in [Conn -> Worker]
  /\ \A k \in Conn : worker[k].pc \in {"local", "reply", "free"} =>
                       worker[k].transp \in Slot
  /\ replies \in [Conn -> Seq(Conn)]
  /\ printed \in [Conn -> Conn \cup {None}]
  /\ up \in BOOLEAN
  /\ misuse \subseteq Conn
  /\ gaveup \subseteq Conn

\* As long as all clients have waited for their replies, each gets one reply,
\* and its own, although threads and the loop share the transports without a
\* lock.
OwnReply ==
  gaveup = {} => \A k \in Conn : replies[k] \in {<<>>, <<k>>}

\* A thread works with the request it was started for, whatever the loop has
\* read since, also for clients that have given up.
OwnRequest ==
  \A k \in Conn : printed[k] \in {None, k}

\* No call stays open: its thread runs to the end and its client gets a reply,
\* whatever the order in which the loop gets to the connections, or a thread
\* has used a freed transport and the server is dead.
EveryCallServed ==
  \A k \in Conn :
    conn[k] = "call" ~> /\ conn[k] = "closed"
                        /\ worker[k].pc = "done" \/ (~up /\ misuse # {})

----------------------------------------------------------------------------
\* The inductive invariant behind OwnReply and OwnRequest.  While clients
\* wait, the thread for a call finds the transport of the call up to the
\* reply.
Waiting(k) ==
  /\ \A s \in Slot : slot[s] = k => conn[k] # "new"
  /\ worker[k].pc = "none" => replies[k] = <<>> /\ conn[k] # "closed"
  /\ worker[k].pc \in {"local", "reply"} =>
       /\ replies[k] = <<>> /\ conn[k] = "call"
       /\ worker[k].transp \in Slot /\ slot[worker[k].transp] = k
  /\ worker[k].pc \in {"free", "done"} => replies[k] = <<k>>

DInv ==
  /\ conn \in [Conn -> {"new", "call", "closed"}]
  /\ slot \in [Slot -> Conn \cup {None}]
  /\ worker \in [Conn -> Worker]
  /\ replies \in [Conn -> Seq(Conn)]
  /\ printed \in [Conn -> Conn \cup {None}]
  /\ \A k \in Conn :
       /\ worker[k].pc \in {"local", "reply", "free"} => worker[k].rqstp = k
       /\ printed[k] \in {None, k}
       /\ gaveup = {} => replies[k] \in {<<>>, <<k>>}
       /\ gaveup = {} /\ up => Waiting(k)
=============================================================================
