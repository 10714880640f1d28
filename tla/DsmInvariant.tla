---------------------------- MODULE DsmInvariant ----------------------------
(***************************************************************************)
(* The inductive invariant from which the properties of Dsm are proved.    *)
(***************************************************************************)
EXTENDS Dsm

\* The part of the type invariant that the proofs need.
Types ==
  /\ alive \in [Process -> BOOLEAN]
  /\ segs = [m \in Machine |-> segs[m]]
  /\ calls \subseteq Call
  /\ waits \in [Process -> Machine \cup {None}]
  /\ reply \in [Process -> Machine \cup {0, 1, None}]
  /\ job \in [Machine -> Call \cup {None}]
  /\ idx \in [Machine -> 1 .. Len(server) + 1]
  /\ noes \in [Machine -> SUBSET Machine]
  /\ excuse \subseteq {"slow", "crash", "shm", "overlap", "segv"}
  /\ pc \in [Client -> {"new", "ready", "creat", "locate", "request"}]
  /\ cur \in [Client -> Request \cup {None}]

\* Every list stays empty, and no branch for a known page is entered.
Empty ==
  /\ dir = [m \in Machine |-> <<>>]
  /\ dsm = [p \in Process |-> <<>>]
  /\ hit = [m \in Machine |-> FALSE]

\* A call in transit is the only one of its caller, who waits for it: a
\* server in page_creat for page_find, a client for what its pc says.
InTransit ==
  /\ \A k \in calls :
       /\ waits[k.from] = k.to
       /\ reply[k.from] = None
       /\ k.from \in Machine => k.proc = "find"
       /\ k.from \in Client => k.proc = pc[k.from]
       /\ k.proc = "creat" =>
            k.page = pageid(cur[k.from].name, cur[k.from].size)
  /\ \A k, l \in calls : k.from = l.from => k = l

\* The call a server works on has left the wire and is not answered yet.
Working ==
  \A m \in Machine : job[m] # None =>
    LET c == job[m].from
    IN  /\ c \in Client
        /\ pc[c] = "creat"
        /\ waits[c] = m
        /\ reply[c] = None
        /\ job[m].page = pageid(cur[c].name, cur[c].size)
        /\ \A k \in calls : k.from # c

\* A server waits only inside page_creat, for the entry its loop is at, and
\* is never told that a page exists.
ServerWaits ==
  \A m \in Machine :
    /\ reply[m] \in {None, 0}
    /\ waits[m] = None => reply[m] = None
    /\ waits[m] # None => /\ job[m] # None
                          /\ idx[m] <= Len(server)
                          /\ waits[m] = server[idx[m]]
                          /\ waits[m] # m

\* The entries the loop has passed are the server itself or have answered.
LoopProgress ==
  \A m \in Machine : job[m] # None =>
    /\ m \notin noes[m]
    /\ \A i \in 1 .. idx[m] - 1 : server[i] = m \/ server[i] \in noes[m]

\* What a client has to expect from the stage it is in.
ClientWaits ==
  \A c \in Client :
    /\ pc[c] \in {"new", "ready"} <=> waits[c] = None
    /\ waits[c] = None => reply[c] = None
    /\ pc[c] = "creat" =>
         /\ cur[c] \in Request
         /\ waits[c] = Host[c]
         /\ reply[c] # None =>
              serverKey(pageid(cur[c].name, cur[c].size)) \in segs[Host[c]]
    /\ pc[c] = "locate" => reply[c] \in Machine \cup {None}
    /\ pc[c] = "request" => reply[c] = None

\* What must have happened before a server can be in danger.
Excused ==
  /\ excuse = {} => \A m \in Machine : alive[m]
  /\ \A m, q \in Machine :
       job[m] # None /\ job[q] # None /\ m # q => "overlap" \in excuse
  /\ \A c \in Client : pc[c] \in {"locate", "request"} => "segv" \in excuse

\* The first half of CallAccounted.
NotLost ==
  \A p \in Process :
    alive[p] /\ waits[p] # None =>
      \/ \E k \in calls : k.from = p
      \/ job[waits[p]] # None /\ job[waits[p]].from = p
      \/ reply[p] # None
      \/ ~alive[waits[p]]

IInv ==
  /\ Types
  /\ Empty
  /\ InTransit
  /\ Working
  /\ ServerWaits
  /\ LoopProgress
  /\ ClientWaits
  /\ Excused
  /\ NotLost
============================================================================
