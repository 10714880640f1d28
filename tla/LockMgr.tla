------------------------------ MODULE LockMgr ------------------------------
(***************************************************************************)
(* The distributed lock manager (psu_dist_lock_mgr*.c): one server per     *)
(* node, client threads that call it over RPC, and one lock number.        *)
(*                                                                         *)
(* A server runs every RPC in a thread of its own (utility.c, dispatcher), *)
(* so acquire_lock_1_svc, release_lock_1_svc and request_1_svc interleave  *)
(* on the fields of one LockVar.  Only acquirers of the same node are      *)
(* ordered, by lockvar->lock; requesting_cs, myseqno, highestseqno and     *)
(* deffered are shared without a mutex.  Each load or store of a shared    *)
(* field is therefore a step of its own, and a data race is a choice among *)
(* the outcomes of the racing accesses.                                    *)
(*                                                                         *)
(* find_lockvar runs as a whole under lockvar_list_lock and creates a      *)
(* LockVar with the values of Init on first use, from acquire and request  *)
(* alike, so the LockVar of the one lock number exists from the start.     *)
(***************************************************************************)
EXTENDS Integers, Sequences

CONSTANTS
  Node,      \* machines, each running one lock server
  Thread,    \* client threads, all asking for the same lock number
  Home,      \* Home[t]: the node whose server thread t calls (127.0.0.1)
  Mac,       \* Mac[n]: the hardware address of n, which breaks ties
  NodeStr,   \* NodeStr[n]: the node list given to psu_init_lock_mgr on n
  Faults,    \* which of "timeout", "early" a behaviour may contain
  MaxCalls,  \* MaxCalls[t]: calls of psu_acquire_lock by thread t
  MaxInits,  \* MaxInits[n]: calls of psu_init_lock_mgr on node n
  None       \* no thread, no waiting handler

ASSUME LockMgrAssumption ==
  /\ Home \in [Thread -> Node]
  /\ Mac \in [Node -> Nat]
  /\ \A n, m \in Node : Mac[n] = Mac[m] => n = m
  /\ NodeStr \in [Node -> Seq(Node)]
  /\ \A n, m \in Node : \E i \in DOMAIN NodeStr[n] : NodeStr[n][i] = m
  /\ Faults \subseteq {"timeout", "early"}
  /\ MaxCalls \in [Thread -> Nat]
  /\ MaxInits \in [Node -> Nat]
  /\ None \notin Thread
  /\ None \notin Node

VARIABLES
  \* the node table of each server
  nodes,         \* nodes[n]: the peers n asks, in order
  token,         \* token[n]: the token init_lock_mgr looks at; 0: not running
  inits,         \* inits[n]: completed calls of psu_init_lock_mgr
  \* the LockVar of each server
  lock,          \* lock[n]: the thread that owns lockvar->lock, or None
  requesting_cs,
  myseqno,
  highestseqno,
  deffered,      \* deffered[n]: callers whose handler mutex n has recorded
  \* the threads that serve acquire_lock and release_lock
  calls,         \* calls[t]: calls of psu_acquire_lock so far
  pc,            \* pc[t]: where the call made by thread t is
  loaded,        \* loaded[n]: highestseqno as the acquirer on n loaded it
  next,          \* next[n]: the loop index i of the acquirer on n
  cursor,        \* cursor[n]: the loop index i of the releaser on n
  \* the threads that serve request
  call,          \* call[n]: how far the handler of n's request has come
  reg,           \* reg[n]: the value that handler is about to store
  late,          \* late[m]: seqnos of abandoned requests m has yet to see
  lateStore,     \* lateStore[m]: values their handlers are about to store
  \* history
  granted,       \* granted[n]: peers whose reply n's acquisition received
  skipped,       \* skipped[n]: peers whose call failed and was ignored
  raced          \* raced[n]: data races that took effect on n's LockVar

nodeVars  == <<nodes, token, inits>>
fieldVars == <<requesting_cs, myseqno, highestseqno>>
deferVars == <<deffered, cursor>>
lateVars  == <<late, lateStore>>
callVars  == <<next, call, reg, lateVars>>
histVars  == <<granted, skipped, raced>>
vars == <<nodeVars, lock, fieldVars, deferVars, calls, pc, loaded, callVars, histVars>>

----------------------------------------------------------------------------
(* The stages of a client thread's call, and of the handler of a request.   *)
(* An action that ends the use of a register or an index resets it.         *)

Stages == {"idle", "mutex", "flag", "load", "store", "loop", "wait", "cs",
           "wake", "free"}

HandlerStages == {"none", "sent", "reload", "loaded", "raised", "tie",
                  "append", "lock", "blocked", "replied"}

\* t's call owns lockvar->lock of its node.
Owning(t) == pc[t] \notin {"idle", "mutex"}

\* t's acquisition has its sequence number and is not yet being released.
Requesting(t) == pc[t] \in {"loop", "wait", "cs"}

InCS(t) == pc[t] = "cs"

\* The node that the request loop of n has reached.
Peer(n) == nodes[n][next[n]]

\* The handler of n's request runs on m and is in one of the stages S.
HandlerOn(n, m, S) == n \in Node /\ call[n] \in S /\ Peer(n) = m

\* The order of Ricart and Agrawala: sequence number first, then address.
Before(s, n, r, m) == s < r \/ (s = r /\ Mac[n] < Mac[m])

----------------------------------------------------------------------------
(* The decisions of the code that the actions are built from.  A variant    *)
(* whose name has a suffix is a wrong version of the definition after it.   *)

\* pthread_mutex_lock(&(lockvar->lock)) returns.
MutexFree_Ignored(n) == TRUE
MutexFree(n) == lock[n] = None

\* lockvar->highestseqno + 1
NextSeqno_Decremented(n) == loaded[n] - 1
NextSeqno_NotIncremented(n) == loaded[n]
NextSeqno(n) == loaded[n] + 1

\* pack->seqno > lockvar->highestseqno, the comparison inside MAX.
Exceeds_Reversed(n, m) == myseqno[n] < highestseqno[m]
Exceeds(n, m) == myseqno[n] > highestseqno[m]

\* m is requesting, and the request of n carries the larger number.
Later_FlagIgnored(n, m) == myseqno[n] > myseqno[m]
Later_Never(n, m) == FALSE
Later(n, m) == requesting_cs[m] /\ myseqno[n] > myseqno[m]

\* The numbers are equal and n has the larger address.
TieLost_Reversed(n, m) == myseqno[n] = myseqno[m] /\ Mac[n] < Mac[m]
TieLost_Never(n, m) == FALSE
TieLost(n, m) == myseqno[n] = myseqno[m] /\ Mac[n] > Mac[m]

\* i < nodes->len fails: every node of the table has been asked.
AllAsked_OffByOne(n) == next[n] >= Len(nodes[n])
AllAsked(n) == next[n] > Len(nodes[n])

\* i < lockvar->deffered->len fails: every recorded handler was woken.
AllWoken_OffByOne(n) == cursor[n] >= Len(deffered[n])
AllWoken(n) == cursor[n] > Len(deffered[n])

----------------------------------------------------------------------------
Init ==
  /\ nodes = [n \in Node |-> <<>>]
  /\ token = [n \in Node |-> 0]
  /\ inits = [n \in Node |-> 0]
  /\ lock = [n \in Node |-> None]
  /\ requesting_cs = [n \in Node |-> FALSE]
  /\ myseqno = [n \in Node |-> 0]
  /\ highestseqno = [n \in Node |-> 0]
  /\ deffered = [n \in Node |-> <<>>]
  /\ calls = [t \in Thread |-> 0]
  /\ pc = [t \in Thread |-> "idle"]
  /\ loaded = [n \in Node |-> 0]
  /\ next = [n \in Node |-> 1]
  /\ cursor = [n \in Node |-> 1]
  /\ call = [n \in Node |-> "none"]
  /\ reg = [n \in Node |-> 0]
  /\ late = [n \in Node |-> {}]
  /\ lateStore = [n \in Node |-> {}]
  /\ granted = [n \in Node |-> {}]
  /\ skipped = [n \in Node |-> {}]
  /\ raced = [n \in Node |-> {}]

----------------------------------------------------------------------------
(* init_lock_mgr: one call at a time on a node.  It appends to the table    *)
(* and never empties it, so a second call makes every peer be asked twice.  *)

psu_init_lock_mgr(n) ==
  /\ token[n] = 0
  /\ inits[n] < MaxInits[n]
  /\ token' = [token EXCEPT ![n] = 1]
  /\ UNCHANGED <<nodes, inits, lock, fieldVars, deferVars, pc, loaded,
                 callVars, histVars, calls>>

InitToken(n) ==
  /\ token[n] \in 1 .. Len(NodeStr[n])
  /\ LET pch == NodeStr[n][token[n]]
     IN  nodes' = [nodes EXCEPT ![n] = IF pch = n THEN @ ELSE Append(@, pch)]
  /\ token' = [token EXCEPT ![n] = @ + 1]
  /\ UNCHANGED <<inits, lock, fieldVars, deferVars, pc, loaded, callVars,
                 histVars, calls>>

InitDone(n) ==
  /\ token[n] > Len(NodeStr[n])
  /\ token' = [token EXCEPT ![n] = 0]
  /\ inits' = [inits EXCEPT ![n] = @ + 1]
  /\ UNCHANGED <<nodes, lock, fieldVars, deferVars, pc, loaded, callVars,
                 histVars, calls>>

----------------------------------------------------------------------------
(* psu_acquire_lock and the thread that serves acquire_lock.                *)

\* A thread calls only after psu_init_lock_mgr (has_initialized).
psu_acquire_lock(t) ==
  /\ pc[t] = "idle"
  /\ inits[Home[t]] > 0
  /\ calls[t] < MaxCalls[t]
  /\ calls' = [calls EXCEPT ![t] = @ + 1]
  /\ pc' = [pc EXCEPT ![t] = "mutex"]
  /\ UNCHANGED <<nodeVars, lock, fieldVars, deferVars, loaded, callVars,
                 histVars>>

\* lockvar->lock is taken, then requesting_cs is set.
TakeMutex(t) ==
  /\ pc[t] = "mutex"
  /\ MutexFree(Home[t])
  /\ lock' = [lock EXCEPT ![Home[t]] = t]
  /\ requesting_cs' = [requesting_cs EXCEPT ![Home[t]] = TRUE]
  /\ pc' = [pc EXCEPT ![t] = "load"]
  /\ UNCHANGED <<nodeVars, myseqno, highestseqno, deferVars, loaded, callVars,
                 histVars, calls>>

LoadHighest(t) ==
  /\ pc[t] = "load"
  /\ loaded' = [loaded EXCEPT ![Home[t]] = highestseqno[Home[t]]]
  /\ pc' = [pc EXCEPT ![t] = "store"]
  /\ UNCHANGED <<nodeVars, lock, fieldVars, deferVars, callVars, histVars,
                 calls>>

\* The same with the store to requesting_cs still in the store buffer when
\* highestseqno is loaded: nothing orders the two accesses.  (A handler whose
\* store to highestseqno is delayed past its load of requesting_cs has the
\* same outcome.)
TakeMutexEarlyLoad(t) ==
  /\ "early" \in Faults
  /\ pc[t] = "mutex"
  /\ MutexFree(Home[t])
  /\ ~requesting_cs[Home[t]]
  /\ lock' = [lock EXCEPT ![Home[t]] = t]
  /\ loaded' = [loaded EXCEPT ![Home[t]] = highestseqno[Home[t]]]
  /\ raced' = [raced EXCEPT ![Home[t]] = @ \cup {"early"}]
  /\ pc' = [pc EXCEPT ![t] = "flag"]
  /\ UNCHANGED <<nodeVars, fieldVars, deferVars, callVars, granted, skipped,
                 calls>>

FlagVisible(t) ==
  /\ pc[t] = "flag"
  /\ requesting_cs' = [requesting_cs EXCEPT ![Home[t]] = TRUE]
  /\ pc' = [pc EXCEPT ![t] = "store"]
  /\ UNCHANGED <<nodeVars, lock, myseqno, highestseqno, deferVars, loaded,
                 callVars, histVars, calls>>

StoreSeqno(t) ==
  /\ pc[t] = "store"
  /\ myseqno' = [myseqno EXCEPT ![Home[t]] = NextSeqno(Home[t])]
  /\ loaded' = [loaded EXCEPT ![Home[t]] = 0]
  /\ next' = [next EXCEPT ![Home[t]] = 1]
  /\ granted' = [granted EXCEPT ![Home[t]] = {}]
  /\ skipped' = [skipped EXCEPT ![Home[t]] = {}]
  /\ pc' = [pc EXCEPT ![t] = "loop"]
  /\ UNCHANGED <<nodeVars, lock, requesting_cs, highestseqno, deferVars, call,
                 reg, lateVars, raced, calls>>

\* request_1 goes to the next node of the table and blocks the caller.
SendRequest(t) ==
  /\ pc[t] = "loop"
  /\ ~AllAsked(Home[t])
  /\ call' = [call EXCEPT ![Home[t]] = "sent"]
  /\ pc' = [pc EXCEPT ![t] = "wait"]
  /\ UNCHANGED <<nodeVars, lock, fieldVars, deferVars, loaded, next, reg,
                 lateVars, histVars, calls>>

ReplyReceived(t) ==
  /\ pc[t] = "wait"
  /\ call[Home[t]] = "replied"
  /\ granted' = [granted EXCEPT ![Home[t]] = @ \cup {Peer(Home[t])}]
  /\ call' = [call EXCEPT ![Home[t]] = "none"]
  /\ next' = [next EXCEPT ![Home[t]] = @ + 1]
  /\ pc' = [pc EXCEPT ![t] = "loop"]
  /\ UNCHANGED <<nodeVars, lock, fieldVars, deferVars, loaded, reg, lateVars,
                 skipped, raced, calls>>

\* request_1 returns RPC_TIMEDOUT (one hour, create_client) and its status
\* is not looked at.  The handler, if there is one, stays behind: it still
\* raises highestseqno, and when woken it answers nobody.
RequestTimesOut(t) ==
  LET n == Home[t]
      m == Peer(n)
  IN  /\ "timeout" \in Faults
      /\ pc[t] = "wait"
      /\ skipped' = [skipped EXCEPT ![n] = @ \cup {m}]
      /\ late' = [late EXCEPT ![m] =
                    IF call[n] \in {"sent", "reload"} THEN @ \cup {myseqno[n]}
                                                      ELSE @]
      /\ lateStore' = [lateStore EXCEPT ![m] =
                         IF call[n] = "loaded" THEN @ \cup {reg[n]} ELSE @]
      /\ reg' = [reg EXCEPT ![n] = 0]
      /\ deffered' = [deffered EXCEPT ![m] =
                        [i \in DOMAIN @ |-> IF @[i] = n THEN None ELSE @[i]]]
      /\ call' = [call EXCEPT ![n] = "none"]
      /\ next' = [next EXCEPT ![n] = @ + 1]
      /\ pc' = [pc EXCEPT ![t] = "loop"]
      /\ UNCHANGED <<nodeVars, lock, fieldVars, cursor, loaded, granted,
                     raced, calls>>

\* The loop is over: acquire_lock answers and psu_acquire_lock returns.
EnterCS(t) ==
  /\ pc[t] = "loop"
  /\ AllAsked(Home[t])
  /\ pc' = [pc EXCEPT ![t] = "cs"]
  /\ UNCHANGED <<nodeVars, lock, fieldVars, deferVars, loaded, callVars,
                 histVars, calls>>

----------------------------------------------------------------------------
(* request_1_svc: the handler of n's request, on the server of Peer(n).     *)

\* MAX is a macro: highestseqno is loaded for the comparison and, when the
\* comparison fails, once more for the value.
HandlerLoad(n) ==
  LET m == Peer(n)
  IN  /\ call[n] = "sent"
      /\ reg' = [reg EXCEPT ![n] = IF Exceeds(n, m) THEN myseqno[n] ELSE 0]
      /\ call' = [call EXCEPT ![n] = IF Exceeds(n, m) THEN "loaded"
                                                      ELSE "reload"]
      /\ UNCHANGED <<nodeVars, lock, fieldVars, deferVars, pc, loaded, next,
                     lateVars, histVars, calls>>

HandlerReload_ElseMissing(n) ==
  /\ call[n] = "reload"
  /\ call' = [call EXCEPT ![n] = "loaded"]
  /\ UNCHANGED <<nodeVars, lock, fieldVars, deferVars, pc, loaded, next, reg,
                 lateVars, histVars, calls>>
HandlerReload(n) ==
  /\ call[n] = "reload"
  /\ reg' = [reg EXCEPT ![n] = highestseqno[Peer(n)]]
  /\ call' = [call EXCEPT ![n] = "loaded"]
  /\ UNCHANGED <<nodeVars, lock, fieldVars, deferVars, pc, loaded, next,
                 lateVars, histVars, calls>>

\* The store undoes that of another handler when it lowers highestseqno.
HandlerStore(n) ==
  LET m == Peer(n)
  IN  /\ call[n] = "loaded"
      /\ highestseqno' = [highestseqno EXCEPT ![m] = reg[n]]
      /\ raced' = [raced EXCEPT ![m] = IF reg[n] < highestseqno[m]
                                       THEN @ \cup {"lost"} ELSE @]
      /\ reg' = [reg EXCEPT ![n] = 0]
      /\ call' = [call EXCEPT ![n] = "raised"]
      /\ UNCHANGED <<nodeVars, lock, requesting_cs, myseqno, deferVars, pc,
                     loaded, next, lateVars, granted, skipped, calls>>

\* The loads of requesting_cs and myseqno are one step: requesting_cs never
\* goes back to false, so it still has the value loaded when myseqno is.
HandlerCheck(n) ==
  LET m == Peer(n)
  IN  /\ call[n] = "raised"
      /\ call' = [call EXCEPT ![n] = IF Later(n, m) THEN "append"
                                     ELSE IF requesting_cs[m] THEN "tie"
                                     ELSE "replied"]
      /\ UNCHANGED <<nodeVars, lock, fieldVars, deferVars, pc, loaded, next,
                     reg, lateVars, histVars, calls>>

\* myseqno is loaded a second time for the comparison of equal numbers.
HandlerTie(n) ==
  /\ call[n] = "tie"
  /\ call' = [call EXCEPT ![n] = IF TieLost(n, Peer(n)) THEN "append"
                                                        ELSE "replied"]
  /\ UNCHANGED <<nodeVars, lock, fieldVars, deferVars, pc, loaded, next, reg,
                 lateVars, histVars, calls>>

HandlerAppend(n) ==
  /\ call[n] = "append"
  /\ deffered' = [deffered EXCEPT ![Peer(n)] = Append(@, n)]
  /\ call' = [call EXCEPT ![n] = "lock"]
  /\ UNCHANGED <<nodeVars, lock, fieldVars, cursor, pc, loaded, next, reg,
                 lateVars, histVars, calls>>

\* Two handlers of one server append at once and one entry is overwritten.
HandlerAppendLost(n) ==
  /\ call[n] = "append"
  /\ \E k \in Node \ {n} : HandlerOn(k, Peer(n), {"append"})
  /\ call' = [call EXCEPT ![n] = "lock"]
  /\ UNCHANGED <<nodeVars, lock, fieldVars, deferVars, pc, loaded, next, reg,
                 lateVars, histVars, calls>>

\* The first pthread_mutex_lock succeeds and the second one blocks.
HandlerLock(n) ==
  /\ call[n] = "lock"
  /\ call' = [call EXCEPT ![n] = "blocked"]
  /\ UNCHANGED <<nodeVars, lock, fieldVars, deferVars, pc, loaded, next, reg,
                 lateVars, histVars, calls>>

request_1_svc(n) ==
  \/ HandlerLoad(n)
  \/ HandlerReload(n)
  \/ HandlerStore(n)
  \/ HandlerCheck(n)
  \/ HandlerTie(n)
  \/ HandlerAppend(n)
  \/ HandlerAppendLost(n)
  \/ HandlerLock(n)

\* A request whose caller gave up is served after all.  What its handler
\* does after the store reaches nobody.
LateLoad(m) ==
  \E s \in late[m] :
    /\ late' = [late EXCEPT ![m] = @ \ {s}]
    /\ lateStore' = [lateStore EXCEPT ![m] = @ \cup
                       {IF s > highestseqno[m] THEN s ELSE highestseqno[m]}]
    /\ UNCHANGED <<nodeVars, lock, fieldVars, deferVars, pc, loaded, next,
                   call, reg, histVars, calls>>

LateStore(m) ==
  \E s \in lateStore[m] :
    /\ highestseqno' = [highestseqno EXCEPT ![m] = s]
    /\ raced' = [raced EXCEPT ![m] = IF s < highestseqno[m]
                                     THEN @ \cup {"lost"} ELSE @]
    /\ lateStore' = [lateStore EXCEPT ![m] = @ \ {s}]
    /\ UNCHANGED <<nodeVars, lock, requesting_cs, myseqno, deferVars, pc,
                   loaded, next, call, reg, late, granted, skipped, calls>>

----------------------------------------------------------------------------
(* psu_release_lock and the thread that serves release_lock.                *)

psu_release_lock(t) ==
  /\ pc[t] = "cs"
  /\ pc' = [pc EXCEPT ![t] = "wake"]
  /\ UNCHANGED <<nodeVars, lock, fieldVars, deferVars, loaded, callVars,
                 histVars, calls>>

\* Unlock and destroy the next recorded mutex.  A handler blocked on it
\* replies.  One that has not locked it yet finds the mutex either destroyed,
\* and replies, or merely unlocked, and will block on it.
WakeDeferred(t) ==
  LET m == Home[t]
      d == deffered[m][cursor[m]]
  IN  /\ pc[t] = "wake"
      /\ ~AllWoken(m)
      /\ \/ /\ HandlerOn(d, m, {"lock", "blocked"})
            /\ call' = [call EXCEPT ![d] = "replied"]
         \/ /\ ~HandlerOn(d, m, {"blocked"})
            /\ UNCHANGED call
      /\ cursor' = [cursor EXCEPT ![m] = @ + 1]
      /\ UNCHANGED <<nodeVars, lock, fieldVars, deffered, pc, loaded, next,
                     reg, lateVars, histVars, calls>>

WakeDone(t) ==
  /\ pc[t] = "wake"
  /\ AllWoken(Home[t])
  /\ pc' = [pc EXCEPT ![t] = "free"]
  /\ UNCHANGED <<nodeVars, lock, fieldVars, deferVars, loaded, callVars,
                 histVars, calls>>

\* The array is freed and replaced, then lockvar->lock is unlocked.
\* requesting_cs keeps its value.
FreeDeferred(t) ==
  /\ pc[t] = "free"
  /\ deffered' = [deffered EXCEPT ![Home[t]] = <<>>]
  /\ cursor' = [cursor EXCEPT ![Home[t]] = 1]
  /\ lock' = [lock EXCEPT ![Home[t]] = None]
  /\ pc' = [pc EXCEPT ![t] = "idle"]
  /\ UNCHANGED <<nodeVars, fieldVars, loaded, callVars, histVars, calls>>

----------------------------------------------------------------------------
\* Steps of the threads that serve acquire_lock and release_lock.
ServerStep(t) ==
  \/ TakeMutex(t)
  \/ LoadHighest(t)
  \/ FlagVisible(t)
  \/ StoreSeqno(t)
  \/ SendRequest(t)
  \/ ReplyReceived(t)
  \/ EnterCS(t)
  \/ WakeDeferred(t)
  \/ WakeDone(t)
  \/ FreeDeferred(t)

InitStep(n) == psu_init_lock_mgr(n) \/ InitToken(n) \/ InitDone(n)

Next ==
  \/ \E n \in Node : InitStep(n)
  \/ \E t \in Thread : psu_acquire_lock(t) \/ psu_release_lock(t)
  \/ \E t \in Thread : ServerStep(t)
  \/ \E t \in Thread : TakeMutexEarlyLoad(t) \/ RequestTimesOut(t)
  \/ \E n \in Node : request_1_svc(n) \/ LateLoad(n) \/ LateStore(n)

Spec == Init /\ [][Next]_vars

\* Server threads are scheduled and TCP delivers; a client that holds the
\* lock ends its task and releases (psu_dist_lock_mgr_test.c).  Nobody is
\* obliged to ask for the lock, and nothing makes a timeout happen.
Fairness ==
  /\ \A t \in Thread : WF_vars(ServerStep(t)) /\ WF_vars(psu_release_lock(t))
  /\ \A n \in Node : WF_vars(request_1_svc(n)) /\ WF_vars(InitStep(n))

FairSpec == Spec /\ Fairness

----------------------------------------------------------------------------
(* Properties.                                                             *)

\* A position in a sequence: the C loop index plus one.
Index == Nat \ {0}

\* An entry of deffered: the caller whose handler waits, if it still does.
Waiter == Node \cup {None}

TableType ==
  /\ nodes \in [Node -> Seq(Node)]
  /\ token \in [Node -> Nat]
  /\ inits \in [Node -> Nat]

LockVarType ==
  /\ lock \in [Node -> Thread \cup {None}]
  /\ requesting_cs \in [Node -> BOOLEAN]
  /\ myseqno \in [Node -> Nat]
  /\ highestseqno \in [Node -> Nat]
  /\ deffered \in [Node -> Seq(Waiter)]

ServerType ==
  /\ calls \in [Thread -> Nat]
  /\ pc \in [Thread -> Stages]
  /\ loaded \in [Node -> Nat]
  /\ next \in [Node -> Index]
  /\ cursor \in [Node -> Index]

HandlerType ==
  /\ call \in [Node -> HandlerStages]
  /\ reg \in [Node -> Nat]
  /\ late \in [Node -> SUBSET Nat]
  /\ lateStore \in [Node -> SUBSET Nat]

HistoryType ==
  /\ granted \in [Node -> SUBSET Node]
  /\ skipped \in [Node -> SUBSET Node]
  /\ raced \in [Node -> SUBSET {"lost", "early"}]

\* The types of the node table, of the fields of LockVar, and of the indices
\* and registers of the threads that work on them; every node asked or
\* skipped is a node of the system.
TypeOK ==
  /\ TableType
  /\ LockVarType
  /\ ServerType
  /\ HandlerType
  /\ HistoryType

\* What may excuse two nodes from excluding each other: one ignored a failed
\* call to the other, or a data race took effect on the LockVar of one.
Excused(n, m) ==
  \/ m \in skipped[n]
  \/ n \in skipped[m]
  \/ raced[n] # {}
  \/ raced[m] # {}

\* psu_acquire_lock has returned to two threads only if they are on two nodes
\* and one of these nodes ignored the failure of its request_1 to the other,
\* or one of their LockVars suffered a lost update of highestseqno or the
\* early load of line 126.  In particular, with every peer's reply received
\* and no race there is one holder, whatever else happens on other nodes.
MutualExclusion ==
  \A t, u \in Thread :
    InCS(t) /\ InCS(u) /\ t # u =>
      Home[t] # Home[u] /\ Excused(Home[t], Home[u])

\* The lock is served in the order of (myseqno, mac): a holder that has the
\* reply of node m precedes whatever request m has pending, also one that m
\* made after replying, unless a race took effect on the LockVar of m.
ServedInOrder ==
  \A t, u \in Thread :
    LET n == Home[t]
        m == Home[u]
    IN  InCS(t) /\ Requesting(u) /\ m \in granted[n] /\ raced[m] = {} =>
          Before(myseqno[n], n, myseqno[m], m)

\* The request loop of acquire_lock_1_svc reaches every other node before it
\* returns, although init_lock_mgr may be appending to the table meanwhile.
EveryPeerAsked ==
  \A t \in Thread :
    InCS(t) => Node \ {Home[t]} \subseteq granted[Home[t]] \cup skipped[Home[t]]

\* A node that replied to a pending request remembers a number at least as
\* large in highestseqno, so that its next request gets a larger one.
ReplyIsRemembered ==
  \A t \in Thread : \A m \in granted[Home[t]] :
    Requesting(t) /\ raced[m] = {} => myseqno[Home[t]] <= highestseqno[m]

\* The numbers of a node's own acquisitions never go back, although line 126
\* computes each from highestseqno, which handlers of other nodes write: unless
\* a race took effect on its LockVar.
SeqnoNeverFalls ==
  [][\A n \in Node : raced'[n] = {} => myseqno[n] <= myseqno'[n]]_vars

\* t is inside psu_acquire_lock.
Acquiring(t) == pc[t] \in {"mutex", "flag", "load", "store", "loop", "wait"}

\* When a thread of node n is acquiring, one of n's threads gets the lock,
\* unless another node has set requesting_cs: without contention the request
\* loop ends.
UncontendedAcquire ==
  \A n \in Node :
    (\E t \in Thread : Home[t] = n /\ Acquiring(t))
      ~> \/ \E t \in Thread : Home[t] = n /\ InCS(t)
         \/ \E m \in Node \ {n} : requesting_cs[m]

\* The handler of n's request is blocked and recorded on m.
Deferred(n, m) ==
  /\ HandlerOn(n, m, {"blocked"})
  /\ \E i \in DOMAIN deffered[m] : deffered[m][i] = n

\* A request blocked and recorded on m while a thread of m holds the lock is
\* answered by the loop of release_lock_1_svc (or its caller gave up).
DeferredAnswered ==
  \A n, m \in Node :
    Deferred(n, m) /\ (\E t \in Thread : Home[t] = m /\ InCS(t))
      ~> call[n] # "blocked"

----------------------------------------------------------------------------
(* What the repository says of the lock manager and the code does not do.  *)

\* psu_dist_lock_mgr.h, line 6: a call of psu_acquire_lock "Returns when it
\* has acquired the lock": some thread of the node gets it.
AcquireReturns ==
  \A n \in Node :
    (\E t \in Thread : Home[t] = n /\ Acquiring(t))
      ~> (\E t \in Thread : Home[t] = n /\ InCS(t))

\* The same comment: the lock has been acquired, so nobody else holds it.
OneHolder == \A t, u \in Thread : InCS(t) /\ InCS(u) => t = u

\* README.md, line 6: the server implements Ricart & Agrawala, where a reply
\* is deferred (line 178) and not dropped.  A handler that sleeps on its mutex
\* is recorded in deffered, where release_lock_1_svc looks for it.
NobodyStranded ==
  \A n, m \in Node :
    HandlerOn(n, m, {"blocked"}) =>
      \E i \in DOMAIN deffered[m] : deffered[m][i] = n
============================================================================
