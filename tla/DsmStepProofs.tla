---------------------------- MODULE DsmStepProofs ---------------------------
(***************************************************************************)
(* The steps of the DSM servers and clients, and the failures, preserve    *)
(* IInv.  Each lemma has one step per conjunct of IInv.                    *)
(***************************************************************************)
EXTENDS DsmInvariant, TLAPS

\* A process that dies changes nothing else, except that its death may need
\* an excuse.
LEMMA ProcessDies ==
  ASSUME IInv, NEW p \in Process,
         alive' = [alive EXCEPT ![p] = FALSE],
         excuse \subseteq excuse',
         excuse' \subseteq {"slow", "crash", "shm", "overlap", "segv"},
         excuse' # {} \/ p \in Client,
         UNCHANGED <<dir, dsm, segs, hit, calls, waits, reply, job, idx, noes,
                     pc, cur>>
  PROVE  IInv'
<1> USE DEF Process
<1>1. /\ \A q \in Process : q # p => alive'[q] = alive[q]
      /\ ~alive'[p]
      /\ p \in Client => p \notin Machine
  BY Zenon, DsmServerAssumption DEF IInv, Types
<1>2. Types'
  BY Zenon DEF IInv, Types
<1>3. Empty' /\ InTransit' /\ Working'
  BY DEF IInv, Empty, InTransit, Working
<1>4. ServerWaits' /\ LoopProgress' /\ ClientWaits'
  BY Zenon DEF IInv, ServerWaits, LoopProgress, ClientWaits
<1>5. Excused'
  BY Zenon, <1>1 DEF IInv, Excused
<1>6. NotLost'
  BY Zenon, <1>1 DEF IInv, Types, NotLost
<1> QED
  BY Zenon, <1>2, <1>3, <1>4, <1>5, <1>6 DEF IInv

LEMMA FindStep ==
  ASSUME IInv, NEW m \in Machine, NEW k \in calls, page_find(m, k), UNCHANGED clientVars
  PROVE  IInv'
<1> USE DEF Process
<1>1. /\ k \in Call /\ k.to = m /\ k.proc = "find"
      /\ waits[k.from] = m /\ reply[k.from] = None
      /\ calls' = calls \ {k}
  BY Zenon DEF IInv, Types, InTransit, page_find, Takes
<1>2. k.from \in Machine
  BY ZenonT(60), <1>1 DEF IInv, Types, InTransit, ClientWaits, Call
<1>3. reply' = IF alive[k.from] THEN [reply EXCEPT ![k.from] = 0] ELSE reply
  BY <1>1 DEF IInv, Empty, page_find, Reply, search_dir
<1>4. Types'
  BY Zenon, <1>1, <1>2, <1>3
     DEF IInv, Types, page_find, clientVars, jobVars, memVars
<1>5. Empty'
  BY Zenon DEF IInv, Empty, page_find, memVars
<1>6. InTransit'
  BY Zenon, <1>1, <1>2, <1>3
     DEF IInv, Types, InTransit, page_find, clientVars, Call
<1>7. Working'
  BY SMTT(30), <1>1, <1>2, <1>3, DsmServerAssumption
     DEF IInv, Types, Working, page_find, clientVars, jobVars, Call
<1>8. ServerWaits'
  BY SMTT(30), <1>1, <1>2, <1>3, DsmServerAssumption
     DEF IInv, Types, ServerWaits, page_find, jobVars
<1>9. LoopProgress'
  BY Zenon DEF IInv, LoopProgress, page_find, jobVars
<1>10. ClientWaits'
  <2>1. \A c \in Client : reply'[c] = reply[c]
    BY ZenonT(60), <1>2, <1>3, DsmServerAssumption DEF IInv, Types
  <2> QED
    BY Zenon, <2>1 DEF IInv, ClientWaits, page_find, clientVars, memVars
<1>11. Excused'
  BY Zenon DEF IInv, Excused, page_find, clientVars, jobVars
<1>12. NotLost'
  <2>1. \A p \in Process : alive[p] /\ p = k.from => reply'[p] = 0
    BY Zenon, <1>1, <1>3 DEF IInv, Types
  <2>2. \A p \in Process : p # k.from => reply'[p] = reply[p]
    BY Zenon, <1>1, <1>3 DEF IInv, Types
  <2> QED
    BY <1>1, <2>1, <2>2, DsmServerAssumption DEF IInv, NotLost, page_find, jobVars
<1> QED
  BY Zenon, <1>4, <1>5, <1>6, <1>7, <1>8, <1>9, <1>10, <1>11, <1>12 DEF IInv

LEMMA LocateStep ==
  ASSUME IInv, NEW m \in Machine, NEW k \in calls, page_locate(m, k), UNCHANGED clientVars
  PROVE  IInv'
<1> USE DEF Process
<1>1. /\ k \in Call /\ k.to = m /\ k.proc = "locate"
      /\ waits[k.from] = m /\ reply[k.from] = None
      /\ calls' = calls \ {k}
  BY Zenon DEF IInv, Types, InTransit, page_locate, Takes
<1>2. k.from \in Client /\ pc[k.from] = "locate" /\ k.from \notin Machine
  BY Zenon, <1>1, DsmServerAssumption DEF IInv, Types, InTransit, Call
<1>3. /\ reply' = IF alive[k.from] THEN [reply EXCEPT ![k.from] = m] ELSE reply
      /\ hit' = hit
  BY SMTT(30), <1>1 DEF IInv, Empty, page_locate, Reply, search_dir
<1>4. Types'
  BY Zenon, <1>1, <1>2, <1>3
     DEF IInv, Types, page_locate, clientVars, jobVars, memVars
<1>5. Empty'
  BY Zenon, <1>3 DEF IInv, Empty, page_locate, memVars
<1>6. InTransit'
  BY ZenonT(60), <1>1, <1>2, <1>3
     DEF IInv, Types, InTransit, page_locate, clientVars, Call
<1>7. Working'
  BY SMTT(30), <1>1, <1>2, <1>3, DsmServerAssumption
     DEF IInv, Types, Working, page_locate, clientVars, jobVars, Call
<1>8. ServerWaits'
  BY SMTT(30), <1>1, <1>2, <1>3, DsmServerAssumption
     DEF IInv, Types, ServerWaits, page_locate, jobVars
<1>9. LoopProgress'
  BY Zenon DEF IInv, LoopProgress, page_locate, jobVars
<1>10. ClientWaits'
  <2>1. \A c \in Client : c # k.from => reply'[c] = reply[c]
    BY Zenon, <1>2, <1>3, DsmServerAssumption DEF IInv, Types
  <2>2. reply'[k.from] \in Machine \cup {None}
    BY Zenon, <1>1, <1>2, <1>3 DEF IInv, Types
  <2> QED
    BY ZenonT(60), <1>1, <1>2, <2>1, <2>2, DsmServerAssumption
       DEF IInv, ClientWaits, page_locate, clientVars, memVars
<1>11. Excused'
  BY Zenon DEF IInv, Excused, page_locate, clientVars, jobVars
<1>12. NotLost'
  <2>1. \A p \in Process : alive[p] /\ p = k.from => reply'[p] = m
    BY Zenon, <1>1, <1>3 DEF IInv, Types
  <2>2. \A p \in Process : p # k.from => reply'[p] = reply[p]
    BY Zenon, <1>1, <1>3 DEF IInv, Types
  <2> QED
    BY ZenonT(60), <1>1, <2>1, <2>2, DsmServerAssumption
       DEF IInv, NotLost, page_locate, jobVars
<1> QED
  BY Zenon, <1>4, <1>5, <1>6, <1>7, <1>8, <1>9, <1>10, <1>11, <1>12 DEF IInv

LEMMA RequestStep ==
  ASSUME IInv, NEW m \in Machine, NEW k \in calls, page_request(m, k), UNCHANGED clientVars
  PROVE  IInv'
<1> USE DEF Process
<1>1. /\ k \in Call /\ k.to = m /\ k.proc = "request"
      /\ waits[k.from] = m
      /\ calls' = calls \ {k}
  BY Zenon DEF IInv, Types, InTransit, page_request, Takes
<1>2. k.from \in Client /\ pc[k.from] = "request"
  BY Zenon, <1>1, DsmServerAssumption DEF IInv, Types, InTransit, Call
<1>3. /\ alive' = [alive EXCEPT ![m] = FALSE]
      /\ hit' = hit
  BY <1>1 DEF IInv, Empty, page_request, Kill, search_dir
<1>4. Types'
  BY Zenon, <1>1, <1>2, <1>3
     DEF IInv, Types, page_request, clientVars, jobVars, memVars
<1>5. Empty'
  BY Zenon, <1>3 DEF IInv, Empty, page_request, memVars
<1>6. InTransit'
  BY Zenon, <1>1 DEF IInv, InTransit, page_request, clientVars
<1>7. Working'
  BY ZenonT(60), <1>1 DEF IInv, Working, page_request, clientVars, jobVars
<1>8. ServerWaits'
  BY Zenon DEF IInv, ServerWaits, page_request, jobVars
<1>9. LoopProgress'
  BY Zenon DEF IInv, LoopProgress, page_request, jobVars
<1>10. ClientWaits'
  BY Zenon DEF IInv, ClientWaits, page_request, clientVars, memVars
<1>11. Excused'
  BY Zenon, <1>2 DEF IInv, Excused, page_request, clientVars, jobVars
<1>12. NotLost'
  <2>1. \A p \in Process : alive'[p] => alive[p]
    BY Zenon, <1>3 DEF IInv, Types
  <2>2. \A p \in Process : ~alive[p] => ~alive'[p]
    BY Zenon, <1>3 DEF IInv, Types
  <2>3. ~alive'[m]
    BY Zenon, <1>3 DEF IInv, Types
  <2> QED
    BY SMTT(30), <1>1, <2>1, <2>2, <2>3, DsmServerAssumption
       DEF IInv, Types, NotLost, page_request, jobVars
<1> QED
  BY Zenon, <1>4, <1>5, <1>6, <1>7, <1>8, <1>9, <1>10, <1>11, <1>12 DEF IInv

LEMMA CreatStep ==
  ASSUME IInv, NEW m \in Machine, NEW k \in calls, page_creat(m, k), UNCHANGED clientVars
  PROVE  IInv'
<1> USE DEF Process
<1>1. /\ k \in Call /\ k.to = m /\ k.proc = "creat"
      /\ waits[k.from] = m /\ reply[k.from] = None
      /\ k.page = pageid(cur[k.from].name, cur[k.from].size)
      /\ calls' = calls \ {k}
      /\ job[m] = None
  BY Zenon DEF IInv, Types, InTransit, page_creat, Takes, Idle
<1>2. k.from \in Client /\ pc[k.from] = "creat"
  BY Zenon, <1>1, DsmServerAssumption DEF IInv, Types, InTransit, Call
<1>3. /\ hit' = hit
      /\ job' = [job EXCEPT ![m] = k]
      /\ idx' = [idx EXCEPT ![m] = 1]
      /\ noes' = [noes EXCEPT ![m] = {}]
      /\ excuse' = IF \E q \in Machine \ {m} : job[q] # None
                   THEN excuse \cup {"overlap"} ELSE excuse
  BY <1>1 DEF IInv, Empty, page_creat, search_dir
<1>a. waits[m] = None
  BY Zenon, <1>1 DEF IInv, ServerWaits
<1>b. Len(server) \in Nat
  BY DsmServerAssumption
<1>4. Types'
  BY <1>1, <1>2, <1>3, <1>b DEF IInv, Types, page_creat, clientVars, memVars
<1>5. Empty'
  BY Zenon, <1>3 DEF IInv, Empty, page_creat, memVars
<1>6. InTransit'
  BY Zenon, <1>1 DEF IInv, InTransit, page_creat, clientVars
<1>7. Working'
  <2> SUFFICES ASSUME NEW q \in Machine, job'[q] # None
               PROVE  LET c == job'[q].from
                      IN  /\ c \in Client
                          /\ pc[c] = "creat"
                          /\ waits[c] = q
                          /\ reply[c] = None
                          /\ job'[q].page = pageid(cur[c].name, cur[c].size)
                          /\ \A l \in calls' : l.from # c
    BY Zenon DEF Working, page_creat, clientVars
  <2>1. CASE q = m
    <3>1. job'[q] = k
      BY Zenon, <2>1, <1>3 DEF IInv, Types
    <3>2. \A l \in calls' : l.from # k.from
      BY Zenon, <1>1 DEF IInv, InTransit
    <3> QED
      BY Zenon, <1>1, <1>2, <2>1, <3>1, <3>2
  <2>2. CASE q # m
    <3>1. job'[q] = job[q]
      BY Zenon, <2>2, <1>3 DEF IInv, Types
    <3> QED
      BY <1>1, <3>1 DEF IInv, Working
  <2> QED
    BY Zenon, <2>1, <2>2
<1>8. ServerWaits'
  BY Zenon, <1>3, <1>a DEF IInv, Types, ServerWaits, page_creat
<1>9. LoopProgress'
  <2>1. \A q \in Machine : q # m => job'[q] = job[q] /\ idx'[q] = idx[q] /\ noes'[q] = noes[q]
    BY Zenon, <1>3 DEF IInv, Types
  <2>2. idx'[m] = 1 /\ noes'[m] = {}
    BY Zenon, <1>3 DEF IInv, Types
  <2> QED
    BY <2>1, <2>2 DEF IInv, LoopProgress
<1>10. ClientWaits'
  BY Zenon DEF IInv, ClientWaits, page_creat, clientVars, memVars
<1>11. Excused'
  <2>1. \A q \in Machine : q # m => job'[q] = job[q]
    BY Zenon, <1>3 DEF IInv, Types
  <2>2. excuse \subseteq excuse'
    BY Zenon, <1>3
  <2>3. \A q \in Machine : q # m /\ job[q] # None => "overlap" \in excuse'
    BY Zenon, <1>3
  <2> QED
    BY Zenon, <2>1, <2>2, <2>3 DEF IInv, Excused, page_creat, clientVars
<1>12. NotLost'
  <2>1. job'[m] = k
    BY Zenon, <1>3 DEF IInv, Types
  <2>2. \A q \in Machine : q # m => job'[q] = job[q]
    BY Zenon, <1>3 DEF IInv, Types
  <2>3. \A l \in calls : l # k => l \in calls'
    BY Zenon, <1>1
  <2>4. k # None /\ waits[k.from] # None
    BY Zenon, <1>1, DsmServerAssumption
  <2>5. /\ \A p \in Process : p # k.from => \A l \in calls : l.from = p => l \in calls'
        /\ \A p \in Process : p # k.from /\ waits[p] = m => ~(job[m] # None /\ job[m].from = p)
    BY Zenon, <1>1, <2>3
  <2> QED
    BY <1>1, <2>1, <2>2, <2>4, <2>5 DEF IInv, Types, NotLost, page_creat
<1> QED
  BY Zenon, <1>4, <1>5, <1>6, <1>7, <1>8, <1>9, <1>10, <1>11, <1>12 DEF IInv

LEMMA SkipStep ==
  ASSUME IInv, NEW m \in Machine, creat_skip(m), UNCHANGED clientVars
  PROVE  IInv'
<1> USE DEF Process
<1>1. /\ idx[m] <= Len(server)
      /\ waits[m] = None
      /\ server[idx[m]] = m
      /\ idx' = [idx EXCEPT ![m] = idx[m] + 1]
  BY DsmServerAssumption DEF IInv, Types, creat_skip, Looping, LoopOver, IsSelf
<1>2. Len(server) \in Nat
  BY DsmServerAssumption
<1>3. /\ idx'[m] = idx[m] + 1
      /\ \A q \in Machine : q # m => idx'[q] = idx[q]
  BY Zenon, <1>1 DEF IInv, Types
<1>4. Types'
  BY <1>1, <1>2 DEF IInv, Types, creat_skip, clientVars, rpcVars, memVars
<1>5. Empty'
  BY Zenon DEF IInv, Empty, creat_skip, memVars
<1>6. InTransit'
  BY Zenon DEF IInv, InTransit, creat_skip, clientVars, rpcVars
<1>7. Working'
  BY Zenon DEF IInv, Working, creat_skip, clientVars, rpcVars
<1>8. ServerWaits'
  BY Zenon, <1>1, <1>3 DEF IInv, ServerWaits, creat_skip, rpcVars
<1>9. LoopProgress'
  <2>1. \A i \in 1 .. idx'[m] - 1 : i = idx[m] \/ i \in 1 .. idx[m] - 1
    BY SMTT(30), <1>3 DEF IInv, Types
  <2> QED
    BY Zenon, <1>1, <1>3, <2>1 DEF IInv, LoopProgress, creat_skip
<1>10. ClientWaits'
  BY Zenon DEF IInv, ClientWaits, creat_skip, clientVars, rpcVars, memVars
<1>11. Excused'
  BY Zenon DEF IInv, Excused, creat_skip, clientVars
<1>12. NotLost'
  BY Zenon DEF IInv, NotLost, creat_skip, rpcVars
<1> QED
  BY Zenon, <1>4, <1>5, <1>6, <1>7, <1>8, <1>9, <1>10, <1>11, <1>12 DEF IInv

LEMMA AskStep ==
  ASSUME IInv, NEW m \in Machine, creat_ask(m), UNCHANGED clientVars
  PROVE  IInv'
<1> USE DEF Process
<1> DEFINE q == server[idx[m]]
<1> DEFINE k == [from |-> m, to |-> q, proc |-> "find", page |-> job[m].page]
<1>1. /\ alive[m] /\ job[m] # None
      /\ idx[m] <= Len(server)
      /\ waits[m] = None
      /\ q \in Machine /\ q # m
  BY DsmServerAssumption DEF IInv, Types, creat_ask, Looping, LoopOver, IsSelf
<1>2. job[m] \in Call /\ job[m].page \in Pageid
  BY Zenon, <1>1 DEF IInv, Types, Call
<1>3. k \in Call
  BY Zenon, <1>1, <1>2 DEF Call
<1>4. Empty'
  BY Zenon DEF IInv, Empty, creat_ask, memVars
<1>5. LoopProgress'
  BY Zenon DEF IInv, LoopProgress, creat_ask, jobVars
<1>a. CASE alive[q]
  <2>1. /\ calls' = calls \cup {k}
        /\ waits' = [waits EXCEPT ![m] = q]
        /\ reply' = reply /\ alive' = alive
    BY Zenon, <1>a DEF creat_ask, Send
  <2>2. /\ waits'[m] = q
        /\ \A p \in Process : p # m => waits'[p] = waits[p]
    BY Zenon, <2>1 DEF IInv, Types
  <2>3. \A l \in calls : l.from # m
    BY SMTT(30), <1>1, DsmServerAssumption DEF IInv, Types, InTransit, Call
  <2>4. Types'
    BY Zenon, <1>1, <1>3, <2>1
       DEF IInv, Types, creat_ask, clientVars, jobVars, memVars
  <2>5. reply[m] = None
    BY Zenon, <1>1 DEF IInv, ServerWaits
  <2>6. InTransit'
    <3>1. \A l \in calls : l.from \in Process /\ waits'[l.from] = waits[l.from]
      BY Zenon, <2>2, <2>3 DEF IInv, Types, Call
    <3>2. /\ waits'[k.from] = k.to /\ reply'[k.from] = None
          /\ k.from \in Machine /\ k.from \notin Client
          /\ k.proc = "find"
      BY Zenon, <1>1, <2>1, <2>2, <2>5, DsmServerAssumption
    <3> QED
      BY <2>1, <2>3, <3>1, <3>2 DEF IInv, InTransit, clientVars
  <2>7. Working'
    <3>1. \A p \in Client : waits'[p] = waits[p] /\ k.from # p
      BY Zenon, <2>2, DsmServerAssumption
    <3> QED
      BY ZenonT(60), <2>1, <3>1
         DEF IInv, Working, creat_ask, clientVars, jobVars
  <2>8. ServerWaits'
    BY SMTT(30), <1>1, <2>1, <2>2, <2>5, DsmServerAssumption
       DEF IInv, ServerWaits, creat_ask, jobVars
  <2>9. ClientWaits'
    <3>1. \A c \in Client : waits'[c] = waits[c]
      BY Zenon, <2>2, DsmServerAssumption
    <3> QED
      BY Zenon, <2>1, <3>1
         DEF IInv, ClientWaits, creat_ask, clientVars, memVars
  <2>10. Excused'
    BY ZenonT(60), <2>1 DEF IInv, Excused, creat_ask, clientVars, jobVars
  <2>11. NotLost'
    <3>1. k \in calls' /\ k.from = m
      BY Zenon, <2>1
    <3>2. \A l \in calls : l \in calls'
      BY Zenon, <2>1
    <3> QED
      BY Zenon, <2>1, <2>2, <3>1, <3>2 DEF IInv, NotLost, creat_ask, jobVars
  <2> QED
    BY Zenon, <1>4, <1>5, <2>4, <2>6, <2>7, <2>8, <2>9, <2>10, <2>11 DEF IInv
<1>b. CASE ~alive[q]
  <2>1. /\ alive' = [alive EXCEPT ![m] = FALSE]
        /\ UNCHANGED <<dir, dsm, segs, hit, calls, waits, reply, job, idx, noes,
                       pc, cur, excuse>>
    BY Zenon, <1>b DEF creat_ask, Kill, memVars, rpcVars, jobVars, clientVars
  <2>2. excuse # {} /\ excuse \subseteq {"slow", "crash", "shm", "overlap", "segv"}
    BY Zenon, <1>1, <1>b DEF IInv, Types, Excused
  <2> QED
    BY Zenon, <2>1, <2>2, ProcessDies
<1> QED
  BY Zenon, <1>a, <1>b

LEMMA AnswerStep ==
  ASSUME IInv, NEW m \in Machine, creat_answer(m), UNCHANGED clientVars
  PROVE  IInv'
<1> USE DEF Process
<1>1. /\ alive[m] /\ job[m] # None
      /\ reply[m] = 0
      /\ waits[m] # None /\ waits[m] \in Machine
      /\ idx[m] <= Len(server)
      /\ waits[m] = server[idx[m]]
      /\ waits[m] # m
      /\ Len(server) \in Nat
  BY DsmServerAssumption DEF IInv, Types, ServerWaits, creat_answer
<1>2. /\ hit' = hit
      /\ idx' = [idx EXCEPT ![m] = idx[m] + 1]
      /\ noes' = [noes EXCEPT ![m] = noes[m] \cup {waits[m]}]
      /\ waits' = [waits EXCEPT ![m] = None]
      /\ reply' = [reply EXCEPT ![m] = None]
  BY <1>1 DEF creat_answer, Received
<1>3. /\ idx'[m] = idx[m] + 1 /\ noes'[m] = noes[m] \cup {waits[m]}
      /\ \A q \in Machine : q # m => idx'[q] = idx[q] /\ noes'[q] = noes[q]
  BY Zenon, <1>2 DEF IInv, Types
<1>a. /\ waits'[m] = None /\ reply'[m] = None
      /\ \A p \in Process : p # m => waits'[p] = waits[p] /\ reply'[p] = reply[p]
  BY Zenon, <1>2 DEF IInv, Types
<1>b. \A l \in calls : l.from \in Process /\ l.from # m
  BY SMTT(30), <1>1, DsmServerAssumption DEF IInv, Types, InTransit, Call
<1>c. \A c \in Client : waits'[c] = waits[c] /\ reply'[c] = reply[c]
  BY Zenon, <1>a, DsmServerAssumption
<1>4. Types'
  BY <1>1, <1>2 DEF IInv, Types, creat_answer, clientVars, memVars
<1>5. Empty'
  BY Zenon, <1>2 DEF IInv, Empty, creat_answer, memVars
<1>6. InTransit'
  BY ZenonT(60), <1>a, <1>b DEF IInv, InTransit, creat_answer, clientVars
<1>7. Working'
  BY ZenonT(60), <1>c DEF IInv, Working, creat_answer, clientVars
<1>8. ServerWaits'
  BY <1>a, <1>3 DEF IInv, ServerWaits, creat_answer
<1>9. LoopProgress'
  <2>1. \A i \in 1 .. idx'[m] - 1 : i = idx[m] \/ i \in 1 .. idx[m] - 1
    BY SMTT(30), <1>3 DEF IInv, Types
  <2> QED
    BY <1>1, <1>3, <2>1 DEF IInv, LoopProgress, creat_answer
<1>10. ClientWaits'
  BY Zenon, <1>c DEF IInv, ClientWaits, creat_answer, clientVars, memVars
<1>11. Excused'
  BY Zenon DEF IInv, Excused, creat_answer, clientVars
<1>12. NotLost'
  BY Zenon, <1>a DEF IInv, NotLost, creat_answer
<1> QED
  BY Zenon, <1>4, <1>5, <1>6, <1>7, <1>8, <1>9, <1>10, <1>11, <1>12 DEF IInv

LEMMA LocalStep ==
  ASSUME IInv, NEW m \in Machine, creat_local(m), UNCHANGED clientVars
  PROVE  IInv'
<1> USE DEF Process
<1> DEFINE c == job[m].from
<1> DEFINE page == job[m].page
<1>1. /\ job[m] # None /\ waits[m] = None
      /\ c \in Client /\ c \notin Machine
      /\ pc[c] = "creat"
      /\ waits[c] = m
      /\ reply[c] = None
      /\ page = pageid(cur[c].name, cur[c].size)
      /\ \A l \in calls : l.from # c
  BY Zenon, DsmServerAssumption DEF IInv, Working, creat_local, Looping
<1>2. /\ segs' = [segs EXCEPT ![m] = @ \cup {serverKey(page)}]
      /\ reply' = IF alive[c] THEN [reply EXCEPT ![c] = 1] ELSE reply
      /\ job' = [job EXCEPT ![m] = None]
  BY Zenon DEF creat_local, Reply
<1>3. /\ serverKey(page) \in segs'[m]
      /\ \A q \in Machine : segs[q] \subseteq segs'[q]
  BY Zenon, <1>2 DEF IInv, Types
<1>a. /\ \A p \in Process : p # c => reply'[p] = reply[p]
      /\ alive[c] => reply'[c] = 1
      /\ \A q \in Machine : reply'[q] = reply[q]
  BY Zenon, <1>1, <1>2 DEF IInv, Types
<1>b. job'[m] = None /\ \A q \in Machine : q # m => job'[q] = job[q]
  BY Zenon, <1>2 DEF IInv, Types
<1>4. Types'
  <2>1. Types /\ UNCHANGED <<alive, calls, waits, idx, noes, excuse, pc, cur>>
    BY Zenon DEF IInv, creat_local, clientVars
  <2>2. segs' = [q \in Machine |-> segs'[q]]
    <3>1. segs = [q \in Machine |-> segs[q]]
      BY Zenon, <2>1 DEF Types
    <3>2. segs' = [segs EXCEPT ![m] = segs[m] \cup {serverKey(page)}]
      BY Zenon, <1>2
    <3> HIDE DEF page
    <3> QED
      BY ONLY Zenon, <3>1, <3>2
  <2>3. reply' \in [Process -> Machine \cup {0, 1, None}]
    BY Zenon, <1>1, <1>2, <2>1 DEF Types
  <2>4. job' \in [Machine -> Call \cup {None}]
    BY Zenon, <1>2, <2>1 DEF Types
  <2> QED
    BY Zenon, <2>1, <2>2, <2>3, <2>4 DEF Types
<1>5. Empty'
  BY Zenon DEF IInv, Empty, creat_local, insert_dir, insert_dsm
<1>6. InTransit'
  <2>1. \A l \in calls : l.from \in Process
    BY Zenon DEF IInv, Types, Call
  <2> QED
    BY Zenon, <1>1, <1>a, <2>1 DEF IInv, InTransit, creat_local, clientVars
<1>7. Working'
  <2>1. Working /\ UNCHANGED <<pc, cur, waits, calls>>
    BY Zenon DEF IInv, creat_local, clientVars
  <2> SUFFICES ASSUME NEW q \in Machine, job'[q] # None
               PROVE  /\ job'[q].from \in Client
                      /\ pc'[job'[q].from] = "creat"
                      /\ waits'[job'[q].from] = q
                      /\ reply'[job'[q].from] = None
                      /\ job'[q].page = pageid(cur'[job'[q].from].name,
                                               cur'[job'[q].from].size)
                      /\ \A k \in calls' : k.from # job'[q].from
    BY ZenonT(30) DEF Working
  <2>2. q # m /\ job[q] # None /\ job'[q] = job[q]
    BY ZenonT(30), <1>b
  <2>3. /\ job[q].from \in Client
        /\ pc[job[q].from] = "creat"
        /\ waits[job[q].from] = q
        /\ reply[job[q].from] = None
        /\ job[q].page = pageid(cur[job[q].from].name, cur[job[q].from].size)
        /\ \A k \in calls : k.from # job[q].from
    BY ZenonT(30), <2>1, <2>2 DEF Working
  <2>4. job[q].from # c /\ job[q].from \in Process
    BY ZenonT(30), <1>1, <2>2, <2>3
  <2>5. reply'[job[q].from] = None
    BY ZenonT(30), <1>a, <2>3, <2>4
  <2> QED
    BY ZenonT(30), <2>1, <2>2, <2>3, <2>5
<1>8. ServerWaits'
  BY ZenonT(60), <1>1, <1>a, <1>b DEF IInv, ServerWaits, creat_local
<1>9. LoopProgress'
  BY Zenon, <1>b DEF IInv, LoopProgress, creat_local
<1>10. ClientWaits'
  <2>1. \A d \in Client : Host[d] \in Machine /\ d \in Process
    BY Zenon, HostAssumption
  <2>2. \A d \in Client : d # c => reply'[d] = reply[d]
    BY Zenon, <1>a
  <2>3. m = Host[c]
    BY Zenon, <1>1 DEF IInv, ClientWaits
  <2>4. UNCHANGED <<pc, cur, waits>>
    BY Zenon DEF creat_local, clientVars
  <2>5. ClientWaits
    BY Zenon DEF IInv
  <2>6. ASSUME NEW d \in Client, pc[d] = "creat"
        PROVE  reply'[d] # None =>
                 serverKey(pageid(cur[d].name, cur[d].size)) \in segs'[Host[d]]
    <3>1. CASE d = c
      BY Zenon, <3>1, <1>1, <1>3, <2>3
    <3>2. CASE d # c
      BY Zenon, <3>2, <2>1, <2>2, <2>5, <2>6, <1>3 DEF ClientWaits
    <3> QED
      BY Zenon, <3>1, <3>2
  <2> QED
    BY Zenon, <1>1, <2>2, <2>4, <2>5, <2>6 DEF ClientWaits
<1>11. Excused'
  BY Zenon, <1>b DEF IInv, Excused, creat_local, clientVars
<1>12. NotLost'
  <2>1. UNCHANGED <<alive, calls, waits>> /\ NotLost /\ 1 # None
    <3>1. UNCHANGED <<alive, calls, waits>> /\ NotLost
      BY ZenonT(30) DEF IInv, creat_local
    <3>2. 1 # None
      BY ONLY DsmServerAssumption, SMTT(30)
    <3> QED
      BY Zenon, <3>1, <3>2
  <2>2. ASSUME NEW p \in Process, p # c, waits[p] # None,
               job[waits[p]] # None, job[waits[p]].from = p
        PROVE  job'[waits[p]] = job[waits[p]]
    <3>1. waits[p] \in Machine
      BY Zenon, <2>2 DEF IInv, Types
    <3>2. waits[p] # m
      BY Zenon, <2>2
    <3> QED
      BY Zenon, <3>1, <3>2, <1>b
  <2> SUFFICES ASSUME NEW p \in Process, alive[p], waits[p] # None
               PROVE  \/ \E k \in calls : k.from = p
                      \/ job'[waits[p]] # None /\ job'[waits[p]].from = p
                      \/ reply'[p] # None
                      \/ ~alive[waits[p]]
    BY ZenonT(30), <2>1 DEF NotLost
  <2>3. CASE p = c
    <3>1. reply'[p] = 1
      BY ZenonT(30), <1>a, <2>3
    <3> QED
      BY ZenonT(30), <2>1, <3>1
  <2>4. CASE p # c
    <3>1. \/ \E k \in calls : k.from = p
          \/ job[waits[p]] # None /\ job[waits[p]].from = p
          \/ reply[p] # None
          \/ ~alive[waits[p]]
      BY ZenonT(30), <2>1 DEF NotLost
    <3>2. reply'[p] = reply[p]
      BY ZenonT(30), <1>a, <2>4
    <3> QED
      BY ZenonT(30), <2>2, <2>4, <3>1, <3>2
  <2> QED
    BY Zenon, <2>3, <2>4
<1> QED
  BY Zenon, <1>4, <1>5, <1>6, <1>7, <1>8, <1>9, <1>10, <1>11, <1>12 DEF IInv

LEMMA NoShmStep ==
  ASSUME IInv, NEW m \in Machine, creat_no_shm(m), UNCHANGED clientVars
  PROVE  IInv'
<1>1. dir' = dir
  BY Zenon DEF IInv, Empty, creat_no_shm, insert_dir
<1>2. /\ alive' = [alive EXCEPT ![m] = FALSE]
      /\ excuse' = excuse \cup {"shm"}
      /\ UNCHANGED <<dsm, segs, hit, calls, waits, reply, job, idx, noes, pc, cur>>
  BY Zenon DEF creat_no_shm, Kill, rpcVars, jobVars, clientVars
<1>3. m \in Process /\ excuse \subseteq {"slow", "crash", "shm", "overlap", "segv"}
  BY Zenon DEF IInv, Types, Process
<1> QED
  BY Zenon, <1>1, <1>2, <1>3, ProcessDies

LEMMA CrashStep ==
  ASSUME IInv, NEW m \in Machine, Crash(m), UNCHANGED clientVars
  PROVE  IInv'
<1>1. /\ alive' = [alive EXCEPT ![m] = FALSE]
      /\ excuse' = excuse \cup {"crash"}
      /\ UNCHANGED <<dir, dsm, segs, hit, calls, waits, reply, job, idx, noes,
                     pc, cur>>
  BY Zenon DEF Crash, Kill, memVars, rpcVars, jobVars, clientVars
<1>2. m \in Process /\ excuse \subseteq {"slow", "crash", "shm", "overlap", "segv"}
  BY Zenon DEF IInv, Types, Process
<1> QED
  BY Zenon, <1>1, <1>2, ProcessDies

\* A server whose call fails although nothing has happened waits for one
\* that waits itself: two page_creat overlap, which is an excuse.
LEMMA FailsStep ==
  ASSUME IInv, NEW p \in Process, CallFails(p), UNCHANGED clientVars
  PROVE  IInv'
<1> USE DEF Process
<1>1. /\ alive' = [alive EXCEPT ![p] = FALSE]
      /\ excuse' = IF Blocked(waits[p]) THEN excuse ELSE excuse \cup {"slow"}
      /\ UNCHANGED <<dir, dsm, segs, hit, calls, waits, reply, job, idx, noes,
                     pc, cur>>
      /\ waits[p] # None
  BY Zenon DEF CallFails, Kill, memVars, rpcVars, jobVars, clientVars
<1>2. /\ excuse \subseteq excuse'
      /\ excuse' \subseteq {"slow", "crash", "shm", "overlap", "segv"}
  BY Zenon, <1>1 DEF IInv, Types
<1>3. ASSUME excuse' = {}, p \in Machine
      PROVE  FALSE
  <2>1. Blocked(waits[p]) /\ excuse = {}
    BY Zenon, <1>3, <1>1
  <2>2. waits[p] \in Machine /\ alive[waits[p]]
    BY Zenon, <1>1, <2>1, <1>3 DEF IInv, Types, Excused
  <2>3. waits[waits[p]] # None /\ waits[waits[waits[p]]] # None
    BY Zenon, <2>1, <2>2 DEF Blocked
  <2>4. waits[waits[p]] \in Machine
    BY Zenon, <2>2, <2>3 DEF IInv, Types
  <2>5. /\ waits[waits[p]] # waits[p]
        /\ job[waits[p]] # None
        /\ job[waits[waits[p]]] # None
    BY Zenon, <2>2, <2>3, <2>4 DEF IInv, ServerWaits
  <2> QED
    BY Zenon, <2>1, <2>2, <2>4, <2>5 DEF IInv, Excused
<1> QED
  BY Zenon, <1>1, <1>2, <1>3, ProcessDies

----------------------------------------------------------------------------
(* The clients.                                                             *)

LEMMA InitStep ==
  ASSUME IInv, NEW c \in Client, psu_dsm_init(c)
  PROVE  IInv'
<1> USE DEF Process
<1>1. /\ UNCHANGED <<alive, segs, hit, dir, excuse, cur, calls, waits, reply,
                     job, idx, noes>>
      /\ pc' = [pc EXCEPT ![c] = "ready"]
      /\ dsm' = [dsm EXCEPT ![c] = <<>>]
      /\ pc[c] = "new"
  BY Zenon DEF psu_dsm_init, At, Goto, rpcVars, jobVars
<1>2. /\ pc'[c] = "ready"
      /\ \A d \in Client : d # c => pc'[d] = pc[d]
      /\ waits[c] = None
  BY Zenon, <1>1 DEF IInv, Types, ClientWaits
<1>3. \A k \in calls : k.from # c /\ k.to # None
  BY SMTT(30), <1>2, DsmServerAssumption DEF IInv, Types, InTransit, Call
<1>4. Types'
  BY Zenon, <1>1 DEF IInv, Types
<1>5. Empty'
  BY Zenon, <1>1 DEF IInv, Empty
<1>6. InTransit'
  BY ZenonT(60), <1>1, <1>2, <1>3 DEF IInv, InTransit
<1>7. Working'
  <2>1. \A m \in Machine : m # None
    BY Zenon, DsmServerAssumption
  <2> QED
    BY <1>1, <1>2, <2>1 DEF IInv, Working
<1>8. ServerWaits' /\ LoopProgress' /\ NotLost'
  BY Zenon, <1>1 DEF IInv, ServerWaits, LoopProgress, NotLost
<1>9. ClientWaits'
  BY Zenon, <1>1, <1>2 DEF IInv, ClientWaits
<1>10. Excused'
  BY Zenon, <1>1, <1>2 DEF IInv, Excused
<1> QED
  BY Zenon, <1>4, <1>5, <1>6, <1>7, <1>8, <1>9, <1>10 DEF IInv

\* A client that sends a call to m and moves on to wait for it.
LEMMA ClientSends ==
  ASSUME IInv, NEW c \in Client, NEW m \in Machine, NEW page \in Pageid,
         NEW stage \in {"creat", "locate", "request"}, NEW r \in Request \cup {None},
         ~ \E k \in calls : k.from = c,
         ~ \E q \in Machine : job[q] # None /\ job[q].from = c,
         calls' = calls \cup {[from |-> c, to |-> m, proc |-> stage, page |-> page]},
         waits' = [waits EXCEPT ![c] = m],
         reply' = [reply EXCEPT ![c] = None],
         pc' = [pc EXCEPT ![c] = stage],
         cur' = [cur EXCEPT ![c] = r],
         stage = "creat" => /\ m = Host[c] /\ r \in Request
                            /\ page = pageid(r.name, r.size),
         stage # "creat" => "segv" \in excuse',
         excuse' \in {excuse, excuse \cup {"segv"}},
         UNCHANGED <<alive, dir, dsm, segs, hit, job, idx, noes>>
  PROVE  IInv'
<1> USE DEF Process
<1> DEFINE k == [from |-> c, to |-> m, proc |-> stage, page |-> page]
<1>1. /\ \A d \in Client : d # c =>
           /\ pc'[d] = pc[d] /\ cur'[d] = cur[d]
      /\ \A p \in Process : p # c => reply'[p] = reply[p] /\ waits'[p] = waits[p]
      /\ pc'[c] = stage /\ cur'[c] = r /\ reply'[c] = None /\ waits'[c] = m
  BY Zenon DEF IInv, Types
<1>2. c \notin Machine /\ \A q \in Machine : q # c
  BY Zenon, DsmServerAssumption
<1>3. k \in Call /\ k.from = c /\ k.to = m /\ k.proc = stage /\ k.page = page
  BY Zenon DEF Call
<1>4. Types'
  <2>1. calls' \subseteq Call
    BY Zenon, <1>3 DEF IInv, Types
  <2> QED
    BY Zenon, <2>1 DEF IInv, Types
<1>5. Empty'
  BY Zenon DEF IInv, Empty
<1>6. InTransit'
  <2>1. \A l \in calls : l.from \in Process /\ l.from # c
    BY Zenon DEF IInv, Types, Call
  <2>2. \A l \in calls' : l \in calls \/ l = k
    OBVIOUS
  <2>3. ASSUME NEW l \in calls
        PROVE  /\ waits'[l.from] = l.to
               /\ reply'[l.from] = None
               /\ l.from \in Machine => l.proc = "find"
               /\ l.from \in Client => l.proc = pc'[l.from]
               /\ l.proc = "creat" =>
                    l.page = pageid(cur'[l.from].name, cur'[l.from].size)
    <3>1. /\ waits[l.from] = l.to
          /\ reply[l.from] = None
          /\ l.from \in Machine => l.proc = "find"
          /\ l.from \in Client => l.proc = pc[l.from]
          /\ l.proc = "creat" =>
               l.page = pageid(cur[l.from].name, cur[l.from].size)
      BY Zenon DEF IInv, InTransit
    <3>2. l.proc = "creat" => l.from \in Client
      BY Zenon, <2>1, <3>1
    <3> QED
      BY Zenon, <1>1, <2>1, <3>1, <3>2
  <2>4. /\ waits'[k.from] = k.to
        /\ reply'[k.from] = None
        /\ k.from \in Machine => k.proc = "find"
        /\ k.from \in Client => k.proc = pc'[k.from]
        /\ k.proc = "creat" =>
             k.page = pageid(cur'[k.from].name, cur'[k.from].size)
    BY Zenon, <1>1, <1>2, <1>3
  <2>5. \A l1, l2 \in calls' : l1.from = l2.from => l1 = l2
    BY Zenon, <2>1, <2>2, <1>3 DEF IInv, InTransit
  <2> HIDE DEF k
  <2> QED
    BY ZenonT(60), <2>2, <2>3, <2>4, <2>5 DEF InTransit
<1>7. Working'
  <2>1. \A q \in Machine : job[q] # None => job[q].from \in Client /\ job[q].from # c
    BY Zenon DEF IInv, Working
  <2>2. \A l \in calls' : l \in calls \/ l.from = c
    BY Zenon, <1>3
  <2> QED
    BY SMTT(30), <1>1, <2>1, <2>2 DEF IInv, Working
<1>8. ServerWaits'
  BY SMTT(30), <1>1, <1>2 DEF IInv, ServerWaits
<1>9. LoopProgress'
  BY Zenon DEF IInv, LoopProgress
<1>10. ClientWaits'
  <2>1. m # None
    BY Zenon, DsmServerAssumption
  <2> QED
    BY <1>1, <2>1 DEF IInv, ClientWaits
<1>11. Excused'
  <2>1. /\ excuse \subseteq excuse'
        /\ Excused
    BY Zenon DEF IInv
  <2> QED
    BY Zenon, <1>1, <2>1 DEF Excused
<1>12. NotLost'
  <2>1. k \in calls' /\ k.from = c /\ \A l \in calls : l \in calls'
    BY Zenon, <1>3
  <2> HIDE DEF k
  <2> QED
    BY ZenonT(60), <1>1, <2>1 DEF IInv, NotLost
<1> QED
  BY Zenon, <1>4, <1>5, <1>6, <1>7, <1>8, <1>9, <1>10, <1>11, <1>12 DEF IInv

\* A client that dies.
LEMMA ClientDies ==
  ASSUME IInv, NEW c \in Client,
         alive' = [alive EXCEPT ![c] = FALSE],
         excuse' \in {excuse, excuse \cup {"segv"}},
         UNCHANGED <<dir, dsm, segs, hit, calls, waits, reply, job, idx, noes,
                     pc, cur>>
  PROVE  IInv'
<1>1. /\ c \in Process
      /\ excuse \subseteq excuse'
      /\ excuse' \subseteq {"slow", "crash", "shm", "overlap", "segv"}
  BY Zenon DEF IInv, Types, Process
<1> QED
  BY Zenon, <1>1, ProcessDies

\* A client between two calls has none in transit and none being served.
LEMMA NoCall ==
  ASSUME IInv, NEW c \in Client, waits[c] = None \/ reply[c] # None
  PROVE  /\ ~ \E k \in calls : k.from = c
         /\ ~ \E q \in Machine : job[q] # None /\ job[q].from = c
<1>1. \A k \in calls : k.to # None
  BY DsmServerAssumption DEF IInv, Types, Call, Process
<1>2. \A m \in Machine : m # None
  BY Zenon, DsmServerAssumption DEF Process
<1> QED
  BY <1>1, <1>2 DEF IInv, InTransit, Working

LEMMA MallocStep ==
  ASSUME IInv, NEW c \in Client, NEW r \in Request, psu_dsm_malloc(c, r)
  PROVE  IInv'
<1>1. pc[c] = "ready" /\ waits[c] = None /\ reply[c] = None
  BY Zenon DEF IInv, ClientWaits, psu_dsm_malloc, At
<1>2. pageid(r.name, r.size) \in Pageid
  BY Zenon, PageidAssumption
<1>3. Host[c] \in Machine
  BY Zenon, HostAssumption
<1>4. reply = [reply EXCEPT ![c] = None]
  BY Zenon, <1>1 DEF IInv, Types, Process
<1>5. UNCHANGED <<dir, dsm, segs, hit, job, idx, noes, excuse>>
  BY Zenon DEF psu_dsm_malloc, memVars, jobVars
<1>6. CASE alive[Host[c]]
  <2>1. /\ calls' = calls \cup {[from |-> c, to |-> Host[c], proc |-> "creat",
                                 page |-> pageid(r.name, r.size)]}
        /\ waits' = [waits EXCEPT ![c] = Host[c]]
        /\ reply' = reply
        /\ pc' = [pc EXCEPT ![c] = "creat"]
        /\ cur' = [cur EXCEPT ![c] = r]
        /\ alive' = alive
    BY Zenon, <1>6 DEF psu_dsm_malloc, Send, Goto
  <2>2. ~ \E k \in calls : k.from = c
    BY Zenon, <1>1, NoCall
  <2>3. ~ \E q \in Machine : job[q] # None /\ job[q].from = c
    BY Zenon, <1>1, NoCall
  <2>4. reply' = [reply EXCEPT ![c] = None]
    BY Zenon, <1>4, <2>1
  <2> QED
    BY Zenon, <1>2, <1>3, <1>5, <2>1, <2>2, <2>3, <2>4, ClientSends
<1>7. CASE ~alive[Host[c]]
  <2>1. /\ alive' = [alive EXCEPT ![c] = FALSE]
        /\ UNCHANGED <<calls, waits, reply, pc, cur>>
    BY Zenon, <1>7 DEF psu_dsm_malloc, Kill, rpcVars
  <2> QED
    BY Zenon, <1>5, <2>1, ClientDies
<1> QED
  BY Zenon, <1>6, <1>7

LEMMA SegvStep ==
  ASSUME IInv, NEW c \in Client, segv_handler(c)
  PROVE  IInv'
<1>1. pc[c] = "ready" /\ waits[c] = None /\ reply[c] = None
  BY Zenon DEF IInv, ClientWaits, segv_handler, At
<1>3. Host[c] \in Machine
  BY Zenon, HostAssumption
<1>4. reply = [reply EXCEPT ![c] = None] /\ cur = [cur EXCEPT ![c] = cur[c]]
      /\ cur[c] \in Request \cup {None}
  BY Zenon, <1>1 DEF IInv, Types, Process
<1>5. /\ UNCHANGED <<dir, dsm, segs, hit, job, idx, noes, cur>>
      /\ excuse' = excuse \cup {"segv"}
  BY Zenon DEF segv_handler, memVars, jobVars
<1>6. CASE alive[Host[c]]
  <2>1. PICK entry \in Pageid : Send(c, Host[c], "locate", entry)
    BY Zenon, <1>6 DEF segv_handler
  <2>2. /\ calls' = calls \cup {[from |-> c, to |-> Host[c], proc |-> "locate",
                                 page |-> entry]}
        /\ waits' = [waits EXCEPT ![c] = Host[c]]
        /\ reply' = reply
    BY Zenon, <2>1 DEF Send
  <2>3. pc' = [pc EXCEPT ![c] = "locate"] /\ alive' = alive
    BY Zenon, <1>6 DEF segv_handler, Goto
  <2>4. ~ \E k \in calls : k.from = c
    BY Zenon, <1>1, NoCall
  <2>5. ~ \E q \in Machine : job[q] # None /\ job[q].from = c
    BY Zenon, <1>1, NoCall
  <2>6. reply' = [reply EXCEPT ![c] = None] /\ cur' = [cur EXCEPT ![c] = cur[c]]
        /\ "segv" \in excuse'
    BY Zenon, <1>4, <1>5, <2>2
  <2> QED
    BY Zenon, <1>3, <1>4, <1>5, <2>2, <2>3, <2>4, <2>5, <2>6, ClientSends
<1>7. CASE ~alive[Host[c]]
  <2>1. /\ alive' = [alive EXCEPT ![c] = FALSE]
        /\ UNCHANGED <<calls, waits, reply, pc>>
    BY Zenon, <1>7 DEF segv_handler, Kill, rpcVars
  <2> QED
    BY Zenon, <1>5, <2>1, ClientDies
<1> QED
  BY Zenon, <1>6, <1>7

LEMMA SegvRequestStep ==
  ASSUME IInv, NEW c \in Client, segv_request(c)
  PROVE  IInv'
<1>1. pc[c] = "locate" /\ reply[c] # None
  BY Zenon DEF segv_request, At
<1>2. reply[c] \in Machine /\ "segv" \in excuse
  BY ZenonT(60), <1>1 DEF IInv, ClientWaits, Excused
<1>4. cur = [cur EXCEPT ![c] = cur[c]] /\ cur[c] \in Request \cup {None}
  BY Zenon DEF IInv, Types
<1>5. UNCHANGED <<dir, dsm, segs, hit, job, idx, noes, cur, excuse>>
  BY Zenon DEF segv_request, memVars, jobVars
<1>6. CASE /\ \E entry \in Pageid :
                calls' = calls \cup {[from |-> c, to |-> reply[c],
                                      proc |-> "request", page |-> entry]}
           /\ waits' = [waits EXCEPT ![c] = reply[c]]
           /\ reply' = [reply EXCEPT ![c] = None]
           /\ Goto(c, "request")
           /\ UNCHANGED alive
  <2>1. PICK entry \in Pageid :
                calls' = calls \cup {[from |-> c, to |-> reply[c],
                                      proc |-> "request", page |-> entry]}
    BY Zenon, <1>6
  <2>3. pc' = [pc EXCEPT ![c] = "request"]
    BY Zenon, <1>6 DEF Goto
  <2>4. ~ \E k \in calls : k.from = c
    BY Zenon, <1>1, NoCall
  <2>5. ~ \E q \in Machine : job[q] # None /\ job[q].from = c
    BY Zenon, <1>1, NoCall
  <2>6. cur' = [cur EXCEPT ![c] = cur[c]] /\ "segv" \in excuse'
    BY Zenon, <1>2, <1>4, <1>5
  <2> QED
    BY Zenon, <1>2, <1>4, <1>5, <1>6, <2>1, <2>3, <2>4, <2>5, <2>6, ClientSends
<1>7. CASE Kill(c) /\ UNCHANGED <<rpcVars, pc>>
  BY Zenon, <1>5, <1>7, ClientDies DEF Kill, rpcVars
<1> QED
  BY Zenon, <1>6, <1>7 DEF segv_request

LEMMA AttachStep ==
  ASSUME IInv, NEW c \in Client, malloc_attach(c)
  PROVE  IInv'
<1> USE DEF Process
<1>1. pc[c] = "creat" /\ reply[c] # None
  BY Zenon DEF malloc_attach, At
<1>2. UNCHANGED <<dir, segs, hit, job, idx, noes, excuse, calls>>
  BY Zenon DEF malloc_attach, jobVars
<1>3. CASE ~(reply[c] = 1 /\ clientKey(cur[c].name) \in segs[Host[c]])
  <2>1. /\ alive' = [alive EXCEPT ![c] = FALSE]
        /\ UNCHANGED <<dsm, waits, reply, pc, cur>>
    BY Zenon, <1>3 DEF malloc_attach, Kill
  <2> QED
    BY Zenon, <1>2, <2>1, ClientDies
<1>4. CASE reply[c] = 1 /\ clientKey(cur[c].name) \in segs[Host[c]]
  <2>1. /\ waits' = [waits EXCEPT ![c] = None]
        /\ reply' = [reply EXCEPT ![c] = None]
        /\ pc' = [pc EXCEPT ![c] = "ready"]
        /\ cur' = [cur EXCEPT ![c] = None]
        /\ alive' = alive
        /\ dsm' = [dsm EXCEPT ![c] = insert_dsm(pageid(cur[c].name, cur[c].size), @)]
    BY Zenon, <1>4 DEF malloc_attach, Received, Goto
  <2>2. /\ \A d \in Client : d # c => pc'[d] = pc[d] /\ cur'[d] = cur[d]
        /\ \A p \in Process : p # c => reply'[p] = reply[p] /\ waits'[p] = waits[p]
        /\ pc'[c] = "ready" /\ cur'[c] = None /\ reply'[c] = None /\ waits'[c] = None
    BY ZenonT(60), <2>1 DEF IInv, Types
  <2>3. \A k \in calls : k.from \in Process /\ k.from # c
    BY Zenon, <1>1, NoCall DEF IInv, Types, Call
  <2>4. \A q \in Machine : job[q] # None => job[q].from \in Client /\ job[q].from # c
    BY ZenonT(60), <1>1, NoCall DEF IInv, Working
  <2>5. Types'
    BY Zenon, <1>2, <2>1 DEF IInv, Types
  <2>6. Empty'
    BY Zenon, <1>2, <2>1 DEF IInv, Empty, insert_dsm
  <2>7. InTransit'
    <3>1. \A k \in calls : k.proc = "creat" => k.from \in Client
      BY Zenon, <2>3 DEF IInv, InTransit
    <3>2. InTransit /\ calls' = calls
      BY Zenon, <1>2 DEF IInv
    <3>3. ASSUME NEW k \in calls
          PROVE  /\ waits'[k.from] = k.to
                 /\ reply'[k.from] = None
                 /\ k.from \in Machine => k.proc = "find"
      BY ZenonT(30), <2>2, <2>3, <3>2 DEF InTransit
    <3>4. ASSUME NEW k \in calls
          PROVE  /\ k.from \in Client => k.proc = pc'[k.from]
                 /\ k.proc = "creat" =>
                      k.page = pageid(cur'[k.from].name, cur'[k.from].size)
      BY ZenonT(30), <2>2, <2>3, <3>1, <3>2 DEF InTransit
    <3> QED
      BY ZenonT(30), <3>2, <3>3, <3>4 DEF InTransit
  <2>8. Working'
    BY SMTT(30), <1>2, <2>2, <2>4 DEF IInv, Working
  <2>9. ServerWaits'
    BY <1>2, <2>2, DsmServerAssumption DEF IInv, ServerWaits
  <2>10. LoopProgress'
    BY Zenon, <1>2 DEF IInv, LoopProgress
  <2>11. ClientWaits'
    BY ZenonT(60), <1>2, <2>2 DEF IInv, ClientWaits
  <2>12. Excused'
    BY Zenon, <1>2, <2>1, <2>2 DEF IInv, Excused
  <2>13. NotLost'
    BY ZenonT(60), <1>2, <2>1, <2>2 DEF IInv, NotLost
  <2> QED
    BY ZenonT(60), <2>5, <2>6, <2>7, <2>8, <2>9, <2>10, <2>11, <2>12, <2>13
       DEF IInv
<1> QED
  BY Zenon, <1>3, <1>4
============================================================================
