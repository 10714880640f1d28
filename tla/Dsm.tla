-------------------------------- MODULE Dsm --------------------------------
(***************************************************************************)
(* The DSM client library (psu_dsm.c) on top of the servers of DsmServer.  *)
(* A client process is linked with the library and calls the server of its *)
(* own machine.                                                            *)
(***************************************************************************)
EXTENDS DsmServer

CONSTANTS
  Host,      \* Host[c]: the machine client c runs on
  Request,   \* arguments of psu_dsm_malloc: records of a name and a size
  PAGE_SIZE, \* bytes of a segment, whatever size was asked for
  MaxMalloc  \* calls of psu_dsm_malloc per client

ASSUME HostAssumption == Host \in [Client -> Machine]

ASSUME RequestAssumption == Request \subseteq [name : Name, size : Size]

ASSUME PageidAssumption == Pageid = {pageid(r.name, r.size) : r \in Request}

ASSUME BoundAssumption ==
  /\ PAGE_SIZE \in Nat
  /\ MaxMalloc \in Nat

VARIABLES
  pc,        \* pc[c]: where the library is in client c
  cur,       \* cur[c]: the request psu_dsm_malloc is working on, or None
  attached,  \* attached[c]: requests whose memory client c has
  mallocs    \* mallocs[c]: calls of psu_dsm_malloc so far

clientVars == <<pc, cur, attached, mallocs>>
vars == <<serverVars, clientVars>>

Init ==
  /\ ServerInit
  /\ pc = [c \in Client |-> "new"]
  /\ cur = [c \in Client |-> None]
  /\ attached = [c \in Client |-> {}]
  /\ mallocs = [c \in Client |-> 0]

----------------------------------------------------------------------------
At(c, stage) == alive[c] /\ pc[c] = stage

Goto(c, stage) == pc' = [pc EXCEPT ![c] = stage]

psu_dsm_init(c) ==
  /\ At(c, "new")
  /\ dsm' = [dsm EXCEPT ![c] = <<>>]
  /\ Goto(c, "ready")
  /\ UNCHANGED <<alive, dir, segs, rpcVars, jobVars, hit, creators, excuse,
                 cur, attached, mallocs>>

\* clnt_create fails and the client exits, or page_creat is sent.
psu_dsm_malloc(c, r) ==
  /\ At(c, "ready")
  /\ mallocs[c] < MaxMalloc
  /\ mallocs' = [mallocs EXCEPT ![c] = @ + 1]
  /\ IF alive[Host[c]]
     THEN /\ Send(c, Host[c], "creat", pageid(r.name, r.size))
          /\ cur' = [cur EXCEPT ![c] = r]
          /\ Goto(c, "creat")
          /\ UNCHANGED alive
     ELSE Kill(c) /\ UNCHANGED <<rpcVars, cur, pc>>
  /\ UNCHANGED <<memVars, jobVars, hit, creators, excuse, attached>>

\* The second half: shmget without IPC_CREAT, exit when there is no segment.
malloc_attach(c) ==
  /\ At(c, "creat") /\ reply[c] # None
  /\ IF reply[c] = 1 /\ clientKey(cur[c].name) \in segs[Host[c]]
     THEN /\ attached' = [attached EXCEPT ![c] = @ \cup {cur[c]}]
          /\ dsm' = [dsm EXCEPT ![c] =
                       insert_dsm(pageid(cur[c].name, cur[c].size), @)]
          /\ Goto(c, "ready")
          /\ cur' = [cur EXCEPT ![c] = None]
          /\ Received(c)
          /\ UNCHANGED alive
     ELSE Kill(c) /\ UNCHANGED <<attached, dsm, pc, cur, waits, reply>>
  /\ UNCHANGED <<dir, segs, calls, jobVars, hit, creators, excuse, mallocs>>

\* An access past the first page of a larger allocation.  cdsm is empty, so
\* get_name_from_addr returns with the entry uninitialized and the page sent
\* is arbitrary; on a list with an entry it would never return.
segv_handler(c) ==
  /\ At(c, "ready")
  /\ \E r \in attached[c] : r.size > PAGE_SIZE
  /\ dsm[c] = <<>>
  /\ IF alive[Host[c]]
     THEN /\ \E entry \in Pageid : Send(c, Host[c], "locate", entry)
          /\ Goto(c, "locate")
          /\ UNCHANGED alive
     ELSE Kill(c) /\ UNCHANGED <<rpcVars, pc>>
  /\ excuse' = excuse \cup {"segv"}
  /\ UNCHANGED <<memVars, jobVars, hit, creators, cur, attached, mallocs>>

\* The request goes through the client handle that clnt_destroy has freed.
\* It reaches the name server when the second clnt_create was given the same
\* memory, otherwise the call fails and the handler dies of the NULL.
segv_request(c) ==
  /\ At(c, "locate") /\ reply[c] # None
  /\ \/ /\ alive[reply[c]]
        /\ \E entry \in Pageid :
             calls' = calls \cup {[from |-> c, to |-> reply[c],
                                   proc |-> "request", page |-> entry]}
        /\ waits' = [waits EXCEPT ![c] = reply[c]]
        /\ reply' = [reply EXCEPT ![c] = None]
        /\ Goto(c, "request")
        /\ UNCHANGED alive
     \/ Kill(c) /\ UNCHANGED <<rpcVars, pc>>
  /\ UNCHANGED <<memVars, jobVars, hit, creators, excuse, cur, attached,
                 mallocs>>

ClientStep(c) ==
  \/ psu_dsm_init(c)
  \/ malloc_attach(c)
  \/ segv_request(c)

Next ==
  \/ \E m \in Machine : Serve(m) /\ UNCHANGED clientVars
  \/ \E m \in Machine : creat_no_shm(m) /\ UNCHANGED clientVars
  \/ \E m \in Machine : Crash(m) /\ UNCHANGED clientVars
  \/ \E p \in Process : CallFails(p) /\ UNCHANGED clientVars
  \/ \E c \in Client : ClientStep(c)
  \/ \E c \in Client, r \in Request : psu_dsm_malloc(c, r)
  \/ \E c \in Client : segv_handler(c)

Spec == Init /\ [][Next]_vars

\* A server goes on with its calls, a call to a server that cannot answer
\* times out, and a client goes on with the call it is in.
FairSpec ==
  /\ Spec
  /\ \A m \in Machine : WF_vars(Serve(m) /\ UNCHANGED clientVars)
  /\ \A p \in Process : WF_vars(CallFails(p) /\ UNCHANGED clientVars)
  /\ \A c \in Client : WF_vars(ClientStep(c))

----------------------------------------------------------------------------
TypeOK ==
  /\ alive \in [Process -> BOOLEAN]
  /\ dir \in [Machine -> Seq(Pageid)]
  /\ dsm \in [Process -> Seq(Pageid)]
  /\ segs \in [Machine -> SUBSET (0 .. KeyRange - 1)]
  /\ calls \subseteq Call
  /\ waits \in [Process -> Machine \cup {None}]
  /\ reply \in [Process -> Machine \cup {0, 1, None}]
  /\ job \in [Machine -> Call \cup {None}]
  /\ idx \in [Machine -> 1 .. Len(server) + 1]
  /\ hit \in [Machine -> BOOLEAN]
  /\ noes \in [Machine -> SUBSET Machine]
  /\ creators \subseteq Machine \X Pageid
  /\ excuse \subseteq {"slow", "crash", "shm", "overlap", "segv"}
  /\ pc \in [Client -> {"new", "ready", "creat", "locate", "request"}]
  /\ cur \in [Client -> Request \cup {None}]
  /\ attached \in [Client -> SUBSET Request]
  /\ mallocs \in [Client -> 0 .. MaxMalloc]

\* No server ever finds a page in a directory (its own, or another's that
\* answers page_find with 1): the branches of page_creat, page_locate and
\* page_request that move pages between machines cannot run.
NoHit == \A m \in Machine : ~hit[m]

\* A server creates a page only after every other server has told it, during
\* this very call of page_creat, that it has no entry for the page.
EveryServerAsked ==
  \A m \in Machine :
    alive[m] /\ job[m] # None /\ LoopOver(m) => noes[m] = Machine \ {m}

\* psu_dsm_malloc finds the segment its server says it has created, when the
\* name is shorter than NAME_LEN: the two compute the key separately.
SegmentFound ==
  \A c \in Client :
    At(c, "creat") /\ reply[c] = 1 /\ Len(cur[c].name) < NAME_LEN
      => clientKey(cur[c].name) \in segs[Host[c]]

\* No call is lost.  A process that waits has its call in transit, has it
\* being worked on by page_creat, has the reply, or called a server that has
\* died; and it has only one of the first three.
CallAccounted ==
  \A p \in Process :
    alive[p] /\ waits[p] # None =>
      LET m == waits[p]
          sent == \E k \in calls : k.from = p
          served == job[m] # None /\ job[m].from = p
          answered == reply[p] # None
      IN  /\ sent \/ served \/ answered \/ ~alive[m]
          /\ ~(sent /\ served) /\ ~(sent /\ answered) /\ ~(served /\ answered)

\* A server dies only after one of the events in excuse: two page_creat at
\* the same time, a fault in a client, a slow answer, a crash, no memory.
ServersSurvive == excuse = {} => \A m \in Machine : alive[m]

\* psu_dsm_malloc does not hang: it returns, or its process exits.
MallocEnds ==
  \A c \in Client : pc[c] = "creat" ~> (pc[c] # "creat" \/ ~alive[c])

----------------------------------------------------------------------------
\* README.md:25, the local server contacts all servers "to find who's
\* directory has the name": a page has one name server.
OneNameServer ==
  \A x, y \in creators : x[2].name = y[2].name => x[1] = y[1]
============================================================================
