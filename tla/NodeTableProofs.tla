-------------------------- MODULE NodeTableProofs ---------------------------
(***************************************************************************)
(* Proof of AllListed for any number of calls and any node list.           *)
(***************************************************************************)
EXTENDS NodeTable, TLAPS

LEMMA AppendRange ==
  ASSUME NEW s \in Seq(Node), NEW n \in Node
  PROVE  Range(Append(s, n)) = Range(s) \cup {n}
<1>1. /\ Append(s, n) \in Seq(Node) /\ DOMAIN s = 1 .. Len(s) /\ Len(s) \in Nat
      /\ DOMAIN Append(s, n) = 1 .. Len(s) + 1
      /\ \A i \in 1 .. Len(s) : Append(s, n)[i] = s[i]
      /\ Append(s, n)[Len(s) + 1] = n
  OBVIOUS
<1>2. 1 .. Len(s) + 1 = (1 .. Len(s)) \cup {Len(s) + 1}
  BY <1>1
<1>3. Range(Append(s, n)) \subseteq Range(s) \cup {n}
  BY ZenonT(60), <1>1, <1>2 DEF Range
<1>4. Range(s) \cup {n} \subseteq Range(Append(s, n))
  BY ZenonT(60), <1>1, <1>2 DEF Range
<1> QED
  BY Zenon, <1>3, <1>4

LEMMA ListFacts ==
  /\ Len(List) \in Nat /\ DOMAIN List = 1 .. Len(List)
  /\ \A i \in DOMAIN List : List[i] \in Node
BY NodeTableAssumption

\* Before(p) in the next state, for a p that is already evaluated there.
After(p) ==
  \A i \in DOMAIN List : i < p => List[i] \in Range(nodes') \cup Local \cup Held'

\* What is known stays known while no token gets lost.
LEMMA BeforeMonotone ==
  ASSUME NEW p,
         Range(nodes) \cup Local \cup Held
           \subseteq Range(nodes') \cup Local \cup Held',
         Before(p)
  PROVE  After(p)
BY DEF Before, After

LEMMA TableInit == Init => NInv
<1> SUFFICES ASSUME Init PROVE NInv
  OBVIOUS
<1>1. TypeOK
  <2>1. at \in [Call -> Position]
    BY DEF Init, Position
  <2>2. last \in [Call -> BOOLEAN] /\ lost \in BOOLEAN
    BY Zenon DEF Init
  <2>3. cut \in [Call -> SUBSET Nat] /\ nodes \in Seq(Node) /\ olds = None
    BY DEF Init
  <2> QED
    BY <2>1, <2>2, <2>3 DEF Init, TypeOK
<1>2. \A c \in Call : pc[c] = "call" /\ at[c].pos = 1
  BY DEF Init
<1>3. Before(1)
  BY ListFacts DEF Before
<1> QED
  BY <1>1, <1>2, <1>3 DEF NInv, Init

\* A step of strtok that gives no token away.
LEMMA StrtokStep ==
  ASSUME NInv, NEW c \in Call,
         strtok_copy(c) \/ strtok_null(c) \/ strtok_end(c) \/ strtok_scan(c)
  PROVE  NInv'
<1>1. TypeOK /\ TypeOK'
  <2> USE DEF strtok_copy, strtok_null, strtok_end, strtok_scan
  <2>1. TypeOK
    BY DEF NInv
  <2>2. pc' \in [Call -> {"call", "scan", "store", "token", "next", "done"}]
    BY <2>1 DEF TypeOK
  <2>3. at' \in [Call -> Position] /\ olds' \in Position \cup {None}
    BY <2>1 DEF NInv, TypeOK
  <2>4. last' \in [Call -> BOOLEAN] /\ lost' \in BOOLEAN
    <3>1. CASE strtok_scan(c)
      <4> DEFINE e == at[c].pos \in cut[at[c].of] /\ at[c].pos < Len(List)
      <4>1. /\ last' = [last EXCEPT ![c] = e \/ at[c].pos = Len(List)]
            /\ lost' = (lost \/ e)
        BY <3>1, Zenon
      <4>2. e \in BOOLEAN /\ (e \/ at[c].pos = Len(List)) \in BOOLEAN
        OBVIOUS
      <4> HIDE DEF e
      <4> QED
        BY <2>1, <4>1, <4>2, Zenon DEF TypeOK
    <3>2. CASE UNCHANGED <<last, lost>>
      BY <2>1, <3>2 DEF TypeOK
    <3> QED
      BY <3>1, <3>2
  <2>5. UNCHANGED <<nodes, cut>>
    OBVIOUS
  <2> QED
    BY <2>1, <2>2, <2>3, <2>4, <2>5 DEF TypeOK
<1>2. Held' = Held
  <2>1. \A d \in Call : pc'[d] = "token" <=> pc[d] = "token"
    BY <1>1 DEF TypeOK, strtok_copy, strtok_null, strtok_end, strtok_scan
  <2>2. \A d \in Call : pc[d] = "token" => pch(d)' = pch(d)
    BY SMTT(30), <1>1
       DEF TypeOK, pch, strtok_copy, strtok_null, strtok_end, strtok_scan
  <2> QED
    BY <2>1, <2>2 DEF Held
<1>3. \A p : Before(p) => After(p)
  <2>1. nodes' = nodes
    BY DEF strtok_copy, strtok_null, strtok_end, strtok_scan
  <2> QED
    BY <1>2, <2>1, BeforeMonotone
<1>4. \A d \in Call : d # c => /\ pc'[d] = pc[d] /\ at'[d] = at[d]
                               /\ last'[d] = last[d]
  BY <1>1 DEF TypeOK, strtok_copy, strtok_null, strtok_end, strtok_scan
<1>5. /\ lost => lost'
      /\ pc[c] \in {"call", "next", "scan"}
      /\ pc'[c] \in {"scan", "store", "done"}
      /\ olds' = olds \/ (pc[c] = "scan" /\ olds' = at[c] /\ pc'[c] = "done")
  BY <1>1 DEF TypeOK, strtok_copy, strtok_null, strtok_end, strtok_scan
<1>6. /\ pc'[c] = "scan" => \/ pc[c] = "call" /\ at'[c] = at[c]
                            \/ pc[c] = "next" /\ at'[c] = olds
      /\ pc'[c] = "store" => /\ pc[c] = "scan" /\ at'[c] = at[c]
                             /\ at[c].pos <= Len(List)
                             /\ ~lost' /\ last'[c] => at[c].pos = Len(List)
      /\ pc'[c] = "done" => pc[c] = "scan" /\ at[c].pos > Len(List)
  BY <1>1 DEF TypeOK, strtok_copy, strtok_null, strtok_end, strtok_scan
<1>a. \A d \in Call : at[d].pos \in Nat
  BY <1>1 DEF TypeOK, Position
<1>7. ASSUME NEW d \in Call
      PROVE  /\ pc'[d] \in {"token", "next"} => olds' # None
             /\ pc'[d] \in {"store", "token"} => at'[d].pos \in DOMAIN List
             /\ pc'[d] \in {"call", "scan"} => at'[d].pos > 0
  <2>1. at[c] # None
    BY <1>1, NodeTableAssumption DEF TypeOK, Position
  <2>2. CASE d # c
    BY <1>4, <1>5, <2>1, <2>2 DEF NInv
  <2>3. CASE d = c
    BY <1>5, <1>6, <1>a, <2>3, ListFacts DEF NInv
  <2> QED
    BY <2>2, <2>3
<1>8. olds' # None => olds'.pos > 0
  BY <1>5 DEF NInv
<1>9. ASSUME ~lost'
      PROVE  /\ olds' # None => After(olds'.pos)
             /\ \A d \in Call :
                  /\ pc'[d] \in {"call", "scan", "store", "token"} =>
                       After(at'[d].pos)
                  /\ pc'[d] = "store" /\ last'[d] => at'[d].pos = Len(List)
                  /\ pc'[d] = "done" => After(Len(List) + 1)
  <2>1. ~lost
    BY <1>5, <1>9
  <2>2. olds' # None => Before(olds'.pos)
    BY <1>5, <2>1 DEF NInv
  <2>3. ASSUME NEW d \in Call
        PROVE  /\ pc'[d] \in {"call", "scan", "store", "token"} =>
                    Before(at'[d].pos)
               /\ pc'[d] = "store" /\ last'[d] => at'[d].pos = Len(List)
               /\ pc'[d] = "done" => Before(Len(List) + 1)
    <3>1. CASE d # c
      BY <1>4, <2>1, <3>1 DEF NInv
    <3>2. CASE d = c
      <4>1. pc'[c] = "scan" => Before(at'[c].pos)
        BY <1>6, <2>1 DEF NInv
      <4>2. pc'[c] = "store" => /\ Before(at'[c].pos)
                                /\ last'[c] => at'[c].pos = Len(List)
        BY <1>6, <1>9, <2>1 DEF NInv
      <4>3. pc'[c] = "done" => Before(Len(List) + 1)
        <5>1. pc'[c] = "done" => Before(at[c].pos) /\ at[c].pos > Len(List)
          BY SMTT(30), <1>6, <2>1 DEF NInv
        <5> QED
          BY <5>1, <1>a, ListFacts DEF Before
      <4> QED
        BY <1>5, <3>2, <4>1, <4>2, <4>3
    <3> QED
      BY <3>1, <3>2
  <2> QED
    BY <1>3, <2>2, <2>3
<1> QED
  BY <1>1, <1>7, <1>8, <1>9 DEF NInv, Before, After

\* strtok returns the token at its position and stores the next position.
LEMMA StoreStep ==
  ASSUME NInv, NEW c \in Call, strtok_store(c)
  PROVE  NInv'
<1>1. /\ pc[c] = "store" /\ pc' = [pc EXCEPT ![c] = "token"]
      /\ olds' = Behind(c)
      /\ UNCHANGED <<nodes, at, last, lost>>
  BY DEF strtok_store
<1>2. /\ TypeOK /\ at[c] \in Position /\ at[c].pos \in Nat
      /\ at[c].pos \in 1 .. Len(List)
  BY <1>1, ListFacts DEF NInv, TypeOK, Position
<1>3. olds' \in Position /\ olds'.pos \in Nat /\ olds'.pos > 0 /\ olds' # None
  <2>1. Behind(c).pos \in Nat /\ Behind(c).of \in Call /\ Behind(c).pos > 0
    BY <1>2, ListFacts DEF Behind, Position
  <2>2. Behind(c) \in Position
    BY <2>1 DEF Behind, Position
  <2> QED
    BY <1>1, <2>1, <2>2, NodeTableAssumption DEF Position
<1>4. TypeOK'
  <2>1. cut' \in [Call -> SUBSET Nat]
    BY <1>2 DEF strtok_store, TypeOK, Position
  <2>2. pc' \in [Call -> {"call", "scan", "store", "token", "next", "done"}]
    BY <1>1, <1>2 DEF TypeOK
  <2> QED
    BY <1>1, <1>2, <1>3, <2>1, <2>2 DEF TypeOK
<1>5. pc'[c] = "token" /\ \A d \in Call : d # c => pc'[d] = pc[d]
  BY <1>1, <1>2 DEF TypeOK
<1>6. Held \subseteq Held' /\ List[at[c].pos] \in Held'
  <2>1. \A d \in Call : pch(d)' = pch(d)
    BY <1>1 DEF pch
  <2>2. \A d \in Call : pc[d] = "token" => pc'[d] = "token"
    BY <1>5
  <2>3. pch(c)' = List[at[c].pos]
    BY <1>1 DEF pch
  <2> QED
    BY <1>5, <2>1, <2>2, <2>3 DEF Held
<1>7. \A p : Before(p) => After(p)
  BY <1>1, <1>6, BeforeMonotone
<1>8. ASSUME ~lost
      PROVE  After(olds'.pos)
  <2>1. Before(at[c].pos) /\ (last[c] => at[c].pos = Len(List))
    BY <1>1, <1>8 DEF NInv
  <2>2. olds'.pos = at[c].pos + 1
    BY <1>1, <1>2, <2>1 DEF Behind
  <2>3. After(at[c].pos)
    BY <1>7, <2>1
  <2>4. ASSUME NEW i \in DOMAIN List, i < at[c].pos + 1
        PROVE  List[i] \in Range(nodes') \cup Local \cup Held'
    <3>1. CASE i = at[c].pos
      BY <1>6, <3>1
    <3>2. CASE i < at[c].pos
      BY <1>1, <2>3, <3>2 DEF After
    <3> QED
      BY <1>2, <2>4, <3>1, <3>2, ListFacts
  <2> QED
    BY <2>2, <2>4 DEF After
<1>9. \A d \in Call :
        /\ pc'[d] \in {"token", "next"} => olds' # None
        /\ pc'[d] \in {"store", "token"} => at'[d].pos \in DOMAIN List
        /\ pc'[d] \in {"call", "scan"} => at'[d].pos > 0
  BY <1>1, <1>2, <1>3, <1>5, ListFacts DEF NInv
<1>10. ASSUME ~lost, NEW d \in Call
       PROVE  /\ pc'[d] \in {"call", "scan", "store", "token"} =>
                   After(at'[d].pos)
              /\ pc'[d] = "store" /\ last'[d] => at'[d].pos = Len(List)
              /\ pc'[d] = "done" => After(Len(List) + 1)
  <2>1. /\ pc'[d] \in {"call", "scan", "store", "token"} => Before(at[d].pos)
        /\ pc'[d] = "store" /\ last[d] => at[d].pos = Len(List)
        /\ pc'[d] = "done" => Before(Len(List) + 1)
    BY SMTT(30), <1>1, <1>5, <1>10 DEF NInv
  <2> QED
    BY <1>1, <1>7, <2>1
<1> QED
  BY <1>1, <1>3, <1>4, <1>8, <1>9, <1>10 DEF NInv, Before, After

\* The loop disposes of its token.
LEMMA TokenStep ==
  ASSUME NInv, NEW c \in Call,
         has_found(c) \/ append(c) \/ append_overwritten(c)
  PROVE  NInv'
<1>1. /\ pc[c] = "token" /\ pc' = [pc EXCEPT ![c] = "next"]
      /\ UNCHANGED <<olds, cut, at, last>>
      /\ lost => lost'
  BY DEF has_found, append, append_overwritten
<1>2. TypeOK /\ pch(c) \in Node
  BY <1>1, ListFacts DEF NInv, pch
<1>3. TypeOK'
  <2>1. pc' \in [Call -> {"call", "scan", "store", "token", "next", "done"}]
    BY <1>1, <1>2 DEF TypeOK
  <2>2. nodes' \in Seq(Node) /\ lost' \in BOOLEAN
    <3>1. nodes' \in Seq(Node)
      BY SMTT(30), <1>2 DEF TypeOK, has_found, append, append_overwritten
    <3>2. lost' = lost \/ lost' = TRUE
      BY DEF has_found, append, append_overwritten
    <3>3. lost' \in BOOLEAN
      BY <1>2, <3>2, Zenon DEF TypeOK
    <3> QED
      BY <3>1, <3>3
  <2> QED
    BY <1>1, <1>2, <2>1, <2>2 DEF TypeOK
<1>4. pc'[c] = "next" /\ \A d \in Call : d # c => pc'[d] = pc[d]
  BY <1>1, <1>2 DEF TypeOK
<1>5. ASSUME ~lost'
      PROVE  Range(nodes) \cup Local \cup Held
               \subseteq Range(nodes') \cup Local \cup Held'
  <2>1. Held \subseteq Held' \cup {pch(c)}
    <3>1. \A d \in Call : pch(d)' = pch(d)
      BY <1>1 DEF pch
    <3> QED
      BY <1>4, <3>1 DEF Held
  <2>2. CASE has_found(c)
    BY <2>1, <2>2 DEF has_found
  <2>3. CASE append(c)
    <3>1. Range(nodes') = Range(nodes) \cup {pch(c)}
      BY <1>2, <2>3, AppendRange DEF append, TypeOK
    <3> QED
      BY <2>1, <3>1
  <2>4. CASE append_overwritten(c)
    BY <1>5, <2>4 DEF append_overwritten
  <2> QED
    BY <2>2, <2>3, <2>4
<1>6. \A d \in Call :
        /\ pc'[d] \in {"token", "next"} => olds' # None
        /\ pc'[d] \in {"store", "token"} => at'[d].pos \in DOMAIN List
        /\ pc'[d] \in {"call", "scan"} => at'[d].pos > 0
  BY <1>1, <1>4 DEF NInv
<1>7. olds' # None => olds'.pos > 0
  BY <1>1 DEF NInv
<1>8. ASSUME ~lost'
      PROVE  /\ olds' # None => After(olds'.pos)
             /\ \A d \in Call :
                  /\ pc'[d] \in {"call", "scan", "store", "token"} =>
                       After(at'[d].pos)
                  /\ pc'[d] = "store" /\ last'[d] => at'[d].pos = Len(List)
                  /\ pc'[d] = "done" => After(Len(List) + 1)
  <2>1. ~lost
    BY <1>1, <1>8
  <2>2. \A p : Before(p) => After(p)
    BY <1>5, <1>8, BeforeMonotone
  <2>3. olds' # None => Before(olds'.pos)
    BY <1>1, <2>1 DEF NInv
  <2>4. ASSUME NEW d \in Call
        PROVE  /\ pc'[d] \in {"call", "scan", "store", "token"} =>
                    Before(at'[d].pos)
               /\ pc'[d] = "store" /\ last'[d] => at'[d].pos = Len(List)
               /\ pc'[d] = "done" => Before(Len(List) + 1)
    BY <1>1, <1>4, <2>1 DEF NInv
  <2> QED
    BY <2>2, <2>3, <2>4
<1> QED
  BY <1>3, <1>6, <1>7, <1>8 DEF NInv, Before, After

\* A position in the list is reached only when the tokens before it have been
\* taken by somebody, in whichever copy of the list.
THEOREM TableInductive == Spec => []NInv
<1>1. ASSUME NInv, [Next]_vars
      PROVE  NInv'
  <2>1. ASSUME NEW c \in Call, init_lock_mgr(c)
        PROVE  NInv'
    BY SMTT(30), <1>1, <2>1, StrtokStep, StoreStep, TokenStep DEF init_lock_mgr
  <2>2. CASE UNCHANGED vars
    BY <1>1, <2>2 DEF vars, NInv, TypeOK, Before, Held, pch
  <2> QED
    BY <1>1, <2>1, <2>2 DEF Next
<1> QED
  BY <1>1, TableInit, PTL DEF Spec

\* Calls of init_lock_mgr that mix up their lists fill the table between them,
\* unless strtok or the append of one was caught in the middle.
THEOREM EveryPeerListed == Spec => []AllListed
<1>1. NInv => AllListed
  <2> SUFFICES ASSUME NInv, \A c \in Call : pc[c] \in {"call", "done"},
                      NEW c \in Call, pc[c] = "done", ~lost
               PROVE  Range(List) \ Local \subseteq Range(nodes)
    BY DEF AllListed
  <2>1. Before(Len(List) + 1) /\ Held = {}
    BY DEF NInv, Held
  <2>2. \A i \in DOMAIN List : List[i] \in Range(nodes) \cup Local
    BY <2>1, ListFacts DEF Before
  <2> QED
    BY <2>2 DEF Range
<1> QED
  BY <1>1, TableInductive, PTL
============================================================================
