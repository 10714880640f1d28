----------------------------- MODULE DsmServer -----------------------------
(***************************************************************************)
(* The DSM servers (psu_dsm_server.c, psu_dsm_msg_svc.c), one per machine. *)
(* A server has a single thread: svc_run takes one call, runs its handler  *)
(* to the end and answers.  A handler that calls another server keeps its  *)
(* own server from serving anybody.                                        *)
(*                                                                         *)
(* A call is a record of calls until a server takes it.  Its caller waits  *)
(* in clnt_call for the reply and gets NULL after 25 seconds or when the   *)
(* connection breaks.  No caller survives NULL: the servers and the fault  *)
(* handler dereference it, psu_dsm_malloc exits.  A connection to a server *)
(* that is busy succeeds, to one that has died it does not.                *)
(*                                                                         *)
(* The branches for a page that search_dir finds (page_creat 97-137 and    *)
(* 158-200, page_locate 49-76, page_request 284-371) end in the flag hit,  *)
(* and so do page_update and page_fetch, which only they call.  NoHit says *)
(* that the flag is never set.                                             *)
(***************************************************************************)
EXTENDS DsmUtil

CONSTANTS
  Machine,  \* the machines, each running one server
  server,   \* the table server[] of init
  Client,   \* client processes
  Pageid,   \* the pages a call can name
  Faults,   \* which of "slow", "crash", "shm" a behaviour may contain
  None      \* no reply, no job, no callee

Process == Machine \cup Client

Call == [from : Process, to : Machine,
         proc : {"find", "locate", "creat", "request"}, page : Pageid]

ASSUME DsmServerAssumption ==
  /\ server \in Seq(Machine)
  /\ \A m \in Machine : \E i \in DOMAIN server : server[i] = m
  /\ Machine \cap Client = {}
  /\ Faults \subseteq {"slow", "crash", "shm"}
  /\ None \notin Process \cup Nat \cup Call

VARIABLES
  alive,   \* alive[p]: process p has not exited or been killed
  dir,     \* dir[m]: the directory of server m
  dsm,     \* dsm[p]: the list of shared pages of p (dsm, cdsm)
  segs,    \* segs[m]: keys of the shared memory segments of machine m
  calls,   \* calls sent and not yet taken by a server
  waits,   \* waits[p]: the machine whose reply p waits for, or None
  reply,   \* reply[p]: the reply p has not yet looked at, or None
  job,     \* job[m]: the page_creat call that server m is working on
  idx,     \* idx[m]: the loop index i of that call
  hit,     \* hit[m]: server m has entered a branch for a page it knows
  noes,    \* history: servers that told m's page_creat they have no entry
  creators,\* history: pairs of a server and a page it created
  excuse   \* history: the events after which a server may die

rpcVars == <<calls, waits, reply>>
memVars == <<dir, dsm, segs>>
jobVars == <<job, idx, noes>>
serverVars == <<alive, memVars, rpcVars, jobVars, hit, creators, excuse>>

\* init and main: no directory, no pages, no call being served.
ServerInit ==
  /\ alive = [p \in Process |-> TRUE]
  /\ dir = [m \in Machine |-> <<>>]
  /\ dsm = [p \in Process |-> <<>>]
  /\ segs = [m \in Machine |-> {}]
  /\ calls = {}
  /\ waits = [p \in Process |-> None]
  /\ reply = [p \in Process |-> None]
  /\ job = [m \in Machine |-> None]
  /\ idx = [m \in Machine |-> 1]
  /\ hit = [m \in Machine |-> FALSE]
  /\ noes = [m \in Machine |-> {}]
  /\ creators = {}
  /\ excuse = {}

----------------------------------------------------------------------------
(* Remote procedure calls (psu_dsm_msg_clnt.c, psu_dsm_1).                  *)

Kill(p) == alive' = [alive EXCEPT ![p] = FALSE]

Send(p, m, proc, page) ==
  /\ calls' = calls \cup {[from |-> p, to |-> m, proc |-> proc, page |-> page]}
  /\ waits' = [waits EXCEPT ![p] = m]
  /\ UNCHANGED reply

\* psu_dsm_1 takes the next call once the previous one has been answered.
Idle(m) == alive[m] /\ job[m] = None /\ ~hit[m]

Takes(m, k, proc) == Idle(m) /\ k \in calls /\ k.to = m /\ k.proc = proc

\* svc_sendreply: nobody looks at the reply to a caller that has died.
Reply_Lost(k, value) == UNCHANGED reply
Reply(k, value) ==
  reply' = IF alive[k.from] THEN [reply EXCEPT ![k.from] = value] ELSE reply

\* p reads the reply it waited for.
Received(p) ==
  /\ waits' = [waits EXCEPT ![p] = None]
  /\ reply' = [reply EXCEPT ![p] = None]

\* m will not answer: it has died, or waits for a server that waits too.
Blocked(m) ==
  \/ ~alive[m]
  \/ waits[m] # None /\ waits[waits[m]] # None

\* The call of p fails and p dies of the NULL it returns.
CallFails_NoTimeout(p) ==
  /\ alive[p] /\ waits[p] # None /\ reply[p] = None
  /\ ~alive[waits[p]]
  /\ Kill(p)
  /\ UNCHANGED <<memVars, rpcVars, jobVars, hit, creators, excuse>>
CallFails(p) ==
  /\ alive[p] /\ waits[p] # None /\ reply[p] = None
  /\ Blocked(waits[p]) \/ "slow" \in Faults
  /\ Kill(p)
  /\ excuse' = IF Blocked(waits[p]) THEN excuse ELSE excuse \cup {"slow"}
  /\ UNCHANGED <<memVars, rpcVars, jobVars, hit, creators>>

----------------------------------------------------------------------------
(* The procedures of server m.                                              *)

page_find(m, k) ==
  /\ Takes(m, k, "find")
  /\ calls' = calls \ {k}
  /\ Reply(k, IF search_dir(k.page, dir[m]) THEN 1 ELSE 0)
  /\ UNCHANGED <<alive, memVars, waits, jobVars, hit, creators, excuse>>

\* The test is the wrong way round: a page that is not in the local
\* directory is said to be here.
page_locate(m, k) ==
  /\ Takes(m, k, "locate")
  /\ calls' = calls \ {k}
  /\ IF search_dir(k.page, dir[m])
     THEN hit' = [hit EXCEPT ![m] = TRUE] /\ UNCHANGED reply
     ELSE Reply(k, m) /\ UNCHANGED hit
  /\ UNCHANGED <<alive, memVars, waits, jobVars, creators, excuse>>

\* A page that is not in the directory ends the server.
page_request(m, k) ==
  /\ Takes(m, k, "request")
  /\ calls' = calls \ {k}
  /\ IF search_dir(k.page, dir[m])
     THEN hit' = [hit EXCEPT ![m] = TRUE] /\ UNCHANGED alive
     ELSE Kill(m) /\ UNCHANGED hit
  /\ UNCHANGED <<memVars, waits, reply, jobVars, creators, excuse>>

\* The local directory first, then the other servers one by one.
page_creat(m, k) ==
  /\ Takes(m, k, "creat")
  /\ calls' = calls \ {k}
  /\ IF search_dir(k.page, dir[m])
     THEN hit' = [hit EXCEPT ![m] = TRUE] /\ UNCHANGED <<jobVars, excuse>>
     ELSE /\ job' = [job EXCEPT ![m] = k]
          /\ idx' = [idx EXCEPT ![m] = 1]
          /\ noes' = [noes EXCEPT ![m] = {}]
          /\ excuse' = IF \E q \in Machine \ {m} : job[q] # None
                       THEN excuse \cup {"overlap"} ELSE excuse
          /\ UNCHANGED hit
  /\ UNCHANGED <<alive, memVars, waits, reply, creators>>

\* The loop over server[] is at an entry.
Looping(m) == alive[m] /\ ~hit[m] /\ job[m] # None /\ waits[m] = None

\* i < nserver fails.
LoopOver_OffByOne(m) == idx[m] >= Len(server)
LoopOver(m) == idx[m] > Len(server)

\* The entry is the local host.
IsSelf_Never(m) == FALSE
IsSelf(m) == server[idx[m]] = m

creat_skip(m) ==
  /\ Looping(m) /\ ~LoopOver(m) /\ IsSelf(m)
  /\ idx' = [idx EXCEPT ![m] = @ + 1]
  /\ UNCHANGED <<alive, memVars, rpcVars, job, noes, hit, creators, excuse>>

\* clnt_create fails and the server exits, or page_find is sent.
creat_ask(m) ==
  /\ Looping(m) /\ ~LoopOver(m) /\ ~IsSelf(m)
  /\ LET q == server[idx[m]]
     IN  IF alive[q] THEN Send(m, q, "find", job[m].page) /\ UNCHANGED alive
                     ELSE Kill(m) /\ UNCHANGED rpcVars
  /\ UNCHANGED <<memVars, jobVars, hit, creators, excuse>>

creat_answer(m) ==
  /\ alive[m] /\ job[m] # None /\ reply[m] # None
  /\ IF reply[m] = 1
     THEN hit' = [hit EXCEPT ![m] = TRUE] /\ UNCHANGED <<idx, noes>>
     ELSE /\ idx' = [idx EXCEPT ![m] = @ + 1]
          /\ noes' = [noes EXCEPT ![m] = @ \cup {waits[m]}]
          /\ UNCHANGED hit
  /\ Received(m)
  /\ UNCHANGED <<alive, memVars, calls, job, creators, excuse>>

\* Nobody has the page: m becomes its name server and answers 1.
creat_local(m) ==
  LET page == job[m].page
  IN  /\ Looping(m) /\ LoopOver(m)
      /\ dir' = [dir EXCEPT ![m] = insert_dir(page, @)]
      /\ segs' = [segs EXCEPT ![m] = @ \cup {serverKey(page)}]
      /\ dsm' = [dsm EXCEPT ![m] = insert_dsm(page, @)]
      /\ creators' = creators \cup {<<m, page>>}
      /\ Reply(job[m], 1)
      /\ job' = [job EXCEPT ![m] = None]
      /\ UNCHANGED <<alive, calls, waits, idx, noes, hit, excuse>>

\* shmget returns -1 and the server exits, after insert_dir.
creat_no_shm(m) ==
  /\ "shm" \in Faults
  /\ Looping(m) /\ LoopOver(m)
  /\ dir' = [dir EXCEPT ![m] = insert_dir(job[m].page, @)]
  /\ Kill(m)
  /\ excuse' = excuse \cup {"shm"}
  /\ UNCHANGED <<dsm, segs, rpcVars, jobVars, hit, creators>>

\* The server process is killed from outside.
Crash(m) ==
  /\ "crash" \in Faults
  /\ alive[m]
  /\ Kill(m)
  /\ excuse' = excuse \cup {"crash"}
  /\ UNCHANGED <<memVars, rpcVars, jobVars, hit, creators>>

Serve(m) ==
  \/ \E k \in calls : \/ page_find(m, k)
                      \/ page_locate(m, k)
                      \/ page_request(m, k)
                      \/ page_creat(m, k)
  \/ creat_skip(m)
  \/ creat_ask(m)
  \/ creat_answer(m)
  \/ creat_local(m)
============================================================================
