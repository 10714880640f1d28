----------------------------- MODULE NodeTable ------------------------------
(***************************************************************************)
(* init_lock_mgr_1_svc called by several clients of one lock server, each  *)
(* call in a thread of its own.  The calls take the node list apart with   *)
(* strtok, which keeps its position in a variable of the process, and      *)
(* append to one array.                                                    *)
(*                                                                         *)
(* strtok is the C library's.  It loads its position unless it is given a  *)
(* string, looks for the end of the token, overwrites the comma there with *)
(* a NUL and stores the position behind it.  A NUL that is already there   *)
(* ends the string for whoever comes later.                                *)
(*                                                                         *)
(* A definition whose name has a suffix is a wrong version of the one      *)
(* after it.                                                               *)
(***************************************************************************)
EXTENDS Integers, Sequences, Functions

CONSTANTS
  Call,   \* calls of init_lock_mgr on this server
  Node,   \* addresses
  List,   \* the addresses in node_str, the same in every call
  Local,  \* the addresses of this machine
  None    \* strtok has not been called

ASSUME NodeTableAssumption ==
  /\ List \in Seq(Node)
  /\ Local \subseteq Node
  /\ None \notin [of : Call, pos : Nat]

VARIABLES
  nodes,   \* the table of peers
  olds,    \* the position of strtok: a call's copy of the string, a token in it
  cut,     \* cut[c]: tokens of c's copy that end in a NUL written by strtok
  pc,      \* pc[c]: progress of the call
  at,      \* at[c]: the position that strtok works at for call c
  last,    \* last[c]: strtok has found the end of the string behind the token
  lost     \* history: a token ended early or an entry was overwritten

vars == <<nodes, olds, cut, pc, at, last, lost>>

Position == [of : Call, pos : Nat]

Init ==
  /\ nodes = <<>>
  /\ olds = None
  /\ cut = [c \in Call |-> {}]
  /\ pc = [c \in Call |-> "call"]
  /\ at = [c \in Call |-> [of |-> c, pos |-> 1]]
  /\ last = [c \in Call |-> FALSE]
  /\ lost = FALSE

----------------------------------------------------------------------------
(* strtok(node_str_copy, ",") works at the start of the copy,               *)
(* strtok(NULL, ",") where the last call of strtok has stopped.             *)

strtok_copy(c) ==
  /\ pc[c] = "call"
  /\ pc' = [pc EXCEPT ![c] = "scan"]
  /\ UNCHANGED <<nodes, olds, cut, at, last, lost>>

strtok_null(c) ==
  /\ pc[c] = "next"
  /\ at' = [at EXCEPT ![c] = olds]
  /\ pc' = [pc EXCEPT ![c] = "scan"]
  /\ UNCHANGED <<nodes, olds, cut, last, lost>>

\* No token is left: strtok returns NULL and the loop ends.
strtok_end(c) ==
  /\ pc[c] = "scan" /\ at[c].pos > Len(List)
  /\ olds' = at[c]
  /\ pc' = [pc EXCEPT ![c] = "done"]
  /\ UNCHANGED <<nodes, cut, at, last, lost>>

\* The end of the token is the end of the string, or a comma, or a NUL that
\* another thread has written after this one loaded the position.
strtok_scan(c) ==
  /\ pc[c] = "scan" /\ at[c].pos <= Len(List)
  /\ LET early == at[c].pos \in cut[at[c].of] /\ at[c].pos < Len(List)
     IN /\ last' = [last EXCEPT ![c] = early \/ at[c].pos = Len(List)]
        /\ lost' = (lost \/ early)
  /\ pc' = [pc EXCEPT ![c] = "store"]
  /\ UNCHANGED <<nodes, olds, cut, at>>

\* Where strtok stops: behind the token, or at the end of what is left.
Behind_SkipsOne(c) ==
  [of |-> at[c].of, pos |-> IF last[c] THEN Len(List) + 1 ELSE at[c].pos + 2]
Behind(c) ==
  [of |-> at[c].of, pos |-> IF last[c] THEN Len(List) + 1 ELSE at[c].pos + 1]

strtok_store_Stays(c) ==
  /\ pc[c] = "store"
  /\ cut' = [cut EXCEPT ![at[c].of] = @ \cup {at[c].pos}]
  /\ olds' = at[c]
  /\ pc' = [pc EXCEPT ![c] = "token"]
  /\ UNCHANGED <<nodes, at, last, lost>>
strtok_store(c) ==
  /\ pc[c] = "store"
  /\ cut' = [cut EXCEPT ![at[c].of] = @ \cup {at[c].pos}]
  /\ olds' = Behind(c)
  /\ pc' = [pc EXCEPT ![c] = "token"]
  /\ UNCHANGED <<nodes, at, last, lost>>

----------------------------------------------------------------------------
(* The body of the loop.                                                    *)

pch(c) == List[at[c].pos]

has_found(c) ==
  /\ pc[c] = "token" /\ pch(c) \in Local
  /\ pc' = [pc EXCEPT ![c] = "next"]
  /\ UNCHANGED <<nodes, olds, cut, at, last, lost>>

append(c) ==
  /\ pc[c] = "token" /\ pch(c) \notin Local
  /\ nodes' = Append(nodes, pch(c))
  /\ pc' = [pc EXCEPT ![c] = "next"]
  /\ UNCHANGED <<olds, cut, at, last, lost>>

\* Two threads append at once, and the other one's entry stays.
append_overwritten(c) ==
  /\ pc[c] = "token" /\ pch(c) \notin Local
  /\ \E d \in Call \ {c} : pc[d] = "token" /\ pch(d) \notin Local
  /\ lost' = TRUE
  /\ pc' = [pc EXCEPT ![c] = "next"]
  /\ UNCHANGED <<nodes, olds, cut, at, last>>

----------------------------------------------------------------------------
init_lock_mgr(c) ==
  \/ strtok_copy(c) \/ strtok_null(c) \/ strtok_end(c) \/ strtok_scan(c)
  \/ strtok_store(c)
  \/ has_found(c) \/ append(c) \/ append_overwritten(c)

Next == \E c \in Call : init_lock_mgr(c)

Spec == Init /\ [][Next]_vars

\* A thread of the server that has begun a call is scheduled.
FairSpec ==
  Spec /\ \A c \in Call : WF_vars(pc[c] # "call" /\ init_lock_mgr(c))

----------------------------------------------------------------------------
TypeOK ==
  /\ nodes \in Seq(Node)
  /\ olds \in Position \cup {None}
  /\ cut \in [Call -> SUBSET Nat]
  /\ pc \in [Call -> {"call", "scan", "store", "token", "next", "done"}]
  /\ at \in [Call -> Position]
  /\ last \in [Call -> BOOLEAN]
  /\ lost \in BOOLEAN

\* When no call is in its loop any more, every peer of the list is in the
\* table, although a call goes on in another call's copy of the list and its
\* own tokens are then left to nobody; unless strtok or the append was caught
\* in the middle.
AllListed ==
  (\A c \in Call : pc[c] \in {"call", "done"}) /\ (\E c \in Call : pc[c] = "done") =>
    lost \/ Range(List) \ Local \subseteq Range(nodes)

\* A call that has begun returns, although others move its position in the
\* list, also backwards.
InitReturns == \A c \in Call : pc[c] = "scan" ~> pc[c] = "done"

\* The inductive invariant behind AllListed: a position is reached only when
\* every token before it is in the table or in the hands of a thread that is
\* about to append it.
Held == {pch(c) : c \in {d \in Call : pc[d] = "token"}}

Before(p) ==
  \A i \in DOMAIN List : i < p => List[i] \in Range(nodes) \cup Local \cup Held

NInv ==
  /\ TypeOK
  /\ \A c \in Call :
       /\ pc[c] \in {"token", "next"} => olds # None
       /\ pc[c] \in {"store", "token"} => at[c].pos \in DOMAIN List
       /\ pc[c] \in {"call", "scan"} => at[c].pos > 0
  /\ olds # None => olds.pos > 0
  /\ ~lost =>
       /\ olds # None => Before(olds.pos)
       /\ \A c \in Call :
            /\ pc[c] \in {"call", "scan", "store", "token"} => Before(at[c].pos)
            /\ pc[c] = "store" /\ last[c] => at[c].pos = Len(List)
            /\ pc[c] = "done" => Before(Len(List) + 1)
=============================================================================
