---------------------------- MODULE ThreadProofs ----------------------------
(***************************************************************************)
(* Proofs of OneCopy, MovesOnRequest and ThreadKept, of the types and of   *)
(* the refinement of ThreadService, for any number of nodes, migrations    *)
(* and copies and any faults.                                              *)
(***************************************************************************)
EXTENDS ThreadRefinement, TLAPS

\* What TInv says of copy number i with record c, of n copies.
Fine(c, i, n, ex) ==
  LET runs == c.pc \in {"setcontext", "user", "migrate"}
      holds == runs \/ c.call = "sent"
  IN  /\ runs \/ c.pc = "done" => c.call = "none"
      /\ c.pc = "call" => c.call # "none"
      /\ c.call = "sent" => c.to \in Node
      /\ c.pc = "setcontext" => c.moved
      /\ c.pc = "migrate" => "stack" \in ex
      /\ i < n => ~holds
      /\ i = n /\ ex = {} => holds \/ c.pc = "done"

\* TInv, copy by copy.
LEMMA Pointwise ==
  TInv <=> /\ copy \in Seq(Copy)
           /\ main = "start" <=> copy = <<>>
           /\ \A i \in 1 .. Len(copy) : Fine(copy[i], i, Len(copy), excuse)
<1>1. copy \in Seq(Copy) => DOMAIN copy = 1 .. Len(copy)
  OBVIOUS
<1> QED
  BY <1>1 DEF TInv, Fine, Running, Holds

LEMMA PointwiseAfter ==
  ASSUME copy' \in Seq(Copy), copy' # <<>>, main' # "start",
         \A i \in 1 .. Len(copy') : Fine(copy'[i], i, Len(copy'), excuse')
  PROVE  TInv'
<1>1. DOMAIN copy' = 1 .. Len(copy')
  OBVIOUS
<1> QED
  BY <1>1 DEF TInv, Fine, Running, Holds

\* A step that changes one copy and leaves the others alone.
LEMMA Update ==
  ASSUME TInv, NEW i \in DOMAIN copy, NEW c \in Copy,
         copy' = [copy EXCEPT ![i] = c],
         Fine(c, i, Len(copy), excuse'),
         excuse \subseteq excuse',
         main' # "start"
  PROVE  TInv'
<1>1. /\ copy \in Seq(Copy) /\ copy # <<>>
      /\ \A j \in 1 .. Len(copy) : Fine(copy[j], j, Len(copy), excuse)
  BY Pointwise DEF TInv
<1>2. /\ copy' \in Seq(Copy) /\ copy' # <<>> /\ Len(copy') = Len(copy)
      /\ \A j \in 1 .. Len(copy) : copy'[j] = IF j = i THEN c ELSE copy[j]
  BY <1>1
<1>3. \A j \in 1 .. Len(copy) : Fine(copy[j], j, Len(copy), excuse')
  BY <1>1 DEF Fine
<1>4. \A j \in 1 .. Len(copy) : Fine(copy'[j], j, Len(copy), excuse')
  BY <1>2, <1>3
<1> QED
  BY <1>2, <1>4, PointwiseAfter

LEMMA MigrateStep ==
  ASSUME TInv, NEW i \in DOMAIN copy, NEW n \in Node, psu_thread_migrate(i, n)
  PROVE  TInv'
<1>1. /\ copy[i] \in Copy /\ copy # <<>> /\ main # "start"
      /\ Fine(copy[i], i, Len(copy), excuse)
  BY Pointwise DEF TInv
<1>2. copy[i].pc \in {"user", "migrate"}
  BY DEF psu_thread_migrate
<1>a. CASE server[n]
  <2> DEFINE c == [copy[i] EXCEPT !.pc = "call", !.to = n, !.call = "sent",
                     !.left = IF copy[i].pc = "user" THEN @ - 1 ELSE @]
  <2>1. copy' = [copy EXCEPT ![i] = c] /\ excuse' = excuse /\ main' = main
    BY <1>a DEF psu_thread_migrate
  <2>2. c \in Copy
    <3>1. (IF copy[i].pc = "user" THEN copy[i].left - 1 ELSE copy[i].left) \in Int
      BY <1>1 DEF Copy
    <3> QED
      BY <1>1, <3>1 DEF Copy
  <2>3. c.pc = "call" /\ c.call = "sent" /\ c.to = n
    BY <1>1 DEF Copy
  <2>4. Fine(c, i, Len(copy), excuse)
    BY <1>1, <1>2, <2>3 DEF Fine
  <2> HIDE DEF c
  <2> QED
    BY <1>1, <2>1, <2>2, <2>4, Update
<1>b. CASE ~server[n]
  <2> DEFINE c == [copy[i] EXCEPT !.pc = "killed"]
  <2>1. /\ copy' = [copy EXCEPT ![i] = c] /\ excuse' = excuse \cup {"refused"}
        /\ main' # "start"
    BY <1>b, <1>1 DEF psu_thread_migrate, Excuse
  <2>2. c \in Copy
    BY <1>1 DEF Copy
  <2>3. c.pc = "killed" /\ c.call = copy[i].call
    BY <1>1 DEF Copy
  <2>4. Fine(c, i, Len(copy), excuse')
    BY <1>1, <1>2, <2>1, <2>3 DEF Fine
  <2> HIDE DEF c
  <2> QED
    BY <1>1, <2>1, <2>2, <2>4, Update
<1> QED
  BY <1>a, <1>b

LEMMA ReturnStep ==
  ASSUME TInv, NEW i \in DOMAIN copy, migrate_return(i)
  PROVE  TInv'
<1> DEFINE c == [copy[i] EXCEPT !.pc = "gone"]
<1>1. /\ copy[i] \in Copy /\ copy # <<>> /\ main # "start"
      /\ Fine(copy[i], i, Len(copy), excuse)
  BY Pointwise DEF TInv
<1>2. /\ copy' = [copy EXCEPT ![i] = c] /\ main' = main
      /\ excuse \subseteq excuse'
      /\ copy[i].pc = "call"
      /\ excuse' = {} => copy[i].call = "answered" /\ excuse = {}
  BY DEF migrate_return, CallOver, Excuse
<1>3. c \in Copy /\ c.pc = "gone" /\ c.call = copy[i].call /\ c.to = copy[i].to
  BY <1>1 DEF Copy
<1>4. Fine(c, i, Len(copy), excuse')
  BY <1>1, <1>2, <1>3 DEF Fine
<1> HIDE DEF c
<1> QED
  BY <1>1, <1>2, <1>3, <1>4, Update

LEMMA EndStep ==
  ASSUME TInv, NEW i \in DOMAIN copy, thread_end(i)
  PROVE  TInv'
<1> DEFINE c == [copy[i] EXCEPT !.pc = "done"]
<1>1. /\ copy[i] \in Copy /\ copy # <<>> /\ main # "start"
      /\ Fine(copy[i], i, Len(copy), excuse)
  BY Pointwise DEF TInv
<1>2. /\ copy' = [copy EXCEPT ![i] = c] /\ main' = main /\ excuse' = excuse
      /\ copy[i].pc = "user"
  BY DEF thread_end
<1>3. c \in Copy /\ c.pc = "done" /\ c.call = copy[i].call
  BY <1>1 DEF Copy
<1>4. Fine(c, i, Len(copy), excuse')
  BY <1>1, <1>2, <1>3 DEF Fine
<1> HIDE DEF c
<1> QED
  BY <1>1, <1>2, <1>3, <1>4, Update

\* The fork passes the thread from the call of copy i, which must be the
\* last, to a new last copy.
LEMMA ForkStep ==
  ASSUME TInv, NEW i \in DOMAIN copy, migrate_1_svc(i)
  PROVE  TInv'
<1> DEFINE c == [copy[i] EXCEPT !.call = "served"]
<1> DEFINE d == [on |-> copy[i].to, pc |-> "setcontext", left |-> Context(i).left,
                 native |-> FALSE, moved |-> Context(i).moved,
                 sound |-> Context(i).sound, ret |-> None, to |-> None,
                 call |-> "none"]
<1>1. /\ copy[i] \in Copy /\ copy # <<>> /\ main # "start"
      /\ copy \in Seq(Copy)
      /\ \A j \in 1 .. Len(copy) : Fine(copy[j], j, Len(copy), excuse)
  BY Pointwise DEF TInv
<1>2. /\ copy' = Append([copy EXCEPT ![i] = c], d)
      /\ copy[i].call = "sent" /\ main' = main /\ excuse' = excuse
  BY DEF migrate_1_svc, Serving, Served
<1>3. c \in Copy /\ c.pc = copy[i].pc /\ c.call = "served"
  BY SMTT(30), <1>1 DEF Copy
<1>4. copy[i].to \in Node /\ copy[i].pc \notin {"setcontext", "user", "migrate", "done"}
  BY <1>1, <1>2 DEF Fine
<1>5. d \in Copy /\ d.pc = "setcontext" /\ d.call = "none" /\ d.moved
  BY <1>1, <1>4 DEF Copy, Context
<1> HIDE DEF c, d
<1>6. /\ copy' \in Seq(Copy) /\ copy' # <<>> /\ Len(copy') = Len(copy) + 1
      /\ \A j \in 1 .. Len(copy) : copy'[j] = IF j = i THEN c ELSE copy[j]
      /\ copy'[Len(copy) + 1] = d
  BY <1>1, <1>2, <1>3, <1>5
<1>7. i = Len(copy) /\ Len(copy) \in Nat
  BY <1>1, <1>2 DEF Fine
<1>8. Fine(d, Len(copy) + 1, Len(copy) + 1, excuse)
  BY <1>5, <1>7 DEF Fine
<1>9. Fine(c, i, Len(copy) + 1, excuse)
  BY <1>3, <1>4, <1>7 DEF Fine
<1>10. \A j \in 1 .. Len(copy) : j # i => Fine(copy[j], j, Len(copy) + 1, excuse)
  BY <1>1, <1>7 DEF Fine
<1>11. \A j \in 1 .. Len(copy') : Fine(copy'[j], j, Len(copy'), excuse')
  BY <1>2, <1>6, <1>7, <1>8, <1>9, <1>10
<1> QED
  BY <1>1, <1>2, <1>6, <1>11, PointwiseAfter

\* A step that only moves the call of copy i from "sent" with an excuse, or
\* from "served", to a later stage.
LEMMA CallStep ==
  ASSUME TInv, NEW i \in DOMAIN copy, NEW stage \in {"served", "answered"},
         copy' = [copy EXCEPT ![i].call = stage],
         excuse \subseteq excuse',
         copy[i].call = "served" \/ (copy[i].call = "sent" /\ excuse' # {}),
         main' = main
  PROVE  TInv'
<1> DEFINE c == [copy[i] EXCEPT !.call = stage]
<1>1. /\ copy[i] \in Copy /\ copy # <<>> /\ main # "start"
      /\ Fine(copy[i], i, Len(copy), excuse)
  BY SMTT(30), Pointwise DEF TInv
<1>2. copy' = [copy EXCEPT ![i] = c]
  OBVIOUS
<1>3. c \in Copy /\ c.pc = copy[i].pc /\ c.call = stage
  BY <1>1 DEF Copy
<1>4. excuse' = {} => excuse = {}
  OBVIOUS
<1>5. Fine(c, i, Len(copy), excuse')
  BY <1>1, <1>3, <1>4 DEF Fine
<1> HIDE DEF c
<1> QED
  BY <1>1, <1>2, <1>3, <1>5, Update

LEMMA ResumeStep ==
  ASSUME TInv, NEW i \in DOMAIN copy, copy[i].pc = "setcontext",
         \/ copy' = [copy EXCEPT ![i].pc = "killed"] /\ "stack" \in excuse'
         \/ \E moved \in BOOLEAN :
              Resume(i, moved) /\ (moved \/ "stack" \in excuse'),
         excuse \subseteq excuse',
         main' = main
  PROVE  TInv'
<1>1. /\ copy[i] \in Copy /\ copy # <<>> /\ main # "start"
      /\ Fine(copy[i], i, Len(copy), excuse)
      /\ excuse' = {} => excuse = {}
  BY Pointwise DEF TInv
<1>a. CASE copy' = [copy EXCEPT ![i].pc = "killed"] /\ "stack" \in excuse'
  <2> DEFINE c == [copy[i] EXCEPT !.pc = "killed"]
  <2>1. copy' = [copy EXCEPT ![i] = c]
    BY <1>a
  <2>2. c \in Copy /\ c.pc = "killed" /\ c.call = copy[i].call
    BY <1>1 DEF Copy
  <2>3. Fine(c, i, Len(copy), excuse')
    BY <1>1, <1>a, <2>2 DEF Fine
  <2> HIDE DEF c
  <2> QED
    BY <1>1, <2>1, <2>2, <2>3, Update
<1>b. ASSUME Resume(i, TRUE)
      PROVE  TInv'
  <2> DEFINE c == [copy[i] EXCEPT !.pc = "user", !.ret = 1]
  <2>1. copy' = [copy EXCEPT ![i] = c]
    BY <1>b DEF Resume
  <2>2. c \in Copy /\ c.pc = "user" /\ c.call = copy[i].call
    BY <1>1 DEF Copy
  <2>3. Fine(c, i, Len(copy), excuse')
    BY <1>1, <2>2 DEF Fine
  <2> HIDE DEF c
  <2> QED
    BY <1>1, <2>1, <2>2, <2>3, Update
<1>c. ASSUME Resume(i, FALSE), "stack" \in excuse'
      PROVE  TInv'
  <2> DEFINE c == [copy[i] EXCEPT !.pc = "migrate"]
  <2>1. copy' = [copy EXCEPT ![i] = c]
    BY <1>c DEF Resume
  <2>2. c \in Copy /\ c.pc = "migrate" /\ c.call = copy[i].call
    BY <1>1 DEF Copy
  <2>3. Fine(c, i, Len(copy), excuse')
    BY <1>1, <1>c, <2>2 DEF Fine
  <2> HIDE DEF c
  <2> QED
    BY <1>1, <2>1, <2>2, <2>3, Update
<1> QED
  BY <1>a, <1>b, <1>c

----------------------------------------------------------------------------
LEMMA ThreadStep ==
  ASSUME TInv, [Next]_vars
  PROVE  TInv'
<1>1. CASE psu_thread_create
  <2> DEFINE First(k) == [on |-> home, pc |-> "user", left |-> k,
                          native |-> TRUE, moved |-> FALSE, sound |-> TRUE,
                          ret |-> None, to |-> None, call |-> "none"]
  <2>0. PICK k \in 0 .. MaxMigrate : copy' = <<First(k)>>
    BY <1>1 DEF psu_thread_create
  <2> DEFINE c == First(k)
  <2>1. copy' = <<c>> /\ main' = "join"
    BY <1>1, <2>0 DEF psu_thread_create
  <2>2. c \in Copy /\ c.pc = "user" /\ c.call = "none"
    BY ThreadAssumption DEF Copy
  <2> HIDE DEF c
  <2>3. /\ copy' \in Seq(Copy) /\ copy' # <<>> /\ Len(copy') = 1
        /\ copy'[1] = c
    BY <2>1, <2>2
  <2>4. Fine(c, 1, 1, excuse')
    BY <2>2 DEF Fine
  <2>5. \A j \in 1 .. Len(copy') : Fine(copy'[j], j, Len(copy'), excuse')
    <3>1. \A j \in 1 .. 1 : j = 1
      OBVIOUS
    <3> QED
      BY Zenon, <2>3, <2>4, <3>1
  <2> QED
    BY <2>1, <2>3, <2>5, PointwiseAfter
<1>2. CASE thread_join \/ (\E n \in Node : Crash(n)) \/ UNCHANGED vars
  <2>1. /\ UNCHANGED <<copy, excuse>>
        /\ main' = "start" <=> main = "start"
    BY <1>2 DEF thread_join, Crash, vars
  <2> QED
    BY <2>1 DEF TInv, Running, Holds
<1>3. ASSUME NEW i \in DOMAIN copy, CopyStep(i)
      PROVE  TInv'
  <2>1. CASE \E n \in Node : psu_thread_migrate(i, n)
    BY <2>1, MigrateStep
  <2>2. CASE migrate_return(i)
    BY <2>2, ReturnStep
  <2>3. CASE thread_end(i)
    BY <2>3, EndStep
  <2>4. CASE migrate_1_svc(i)
    BY <2>4, ForkStep
  <2>5. CASE sendreply(i)
    <3>1. /\ copy' = [copy EXCEPT ![i].call = "answered"]
          /\ main' = main /\ excuse \subseteq excuse'
          /\ copy[i].call = "served" \/ (copy[i].call = "sent" /\ excuse' # {})
      BY <2>5 DEF sendreply, Serving
    <3> QED
      BY <3>1, CallStep
  <2>6. CASE setcontext(i)
    <3>1. copy[i].pc = "setcontext" /\ UNCHANGED <<main, excuse>>
          /\ Resume(i, copy[i].moved)
      BY <2>6 DEF setcontext
    <3>2. copy[i].moved = TRUE
      BY <3>1 DEF TInv, Copy
    <3>3. Resume(i, TRUE)
      BY <3>1, <3>2
    <3>4. \E moved \in BOOLEAN :
             Resume(i, moved) /\ (moved \/ "stack" \in excuse')
      BY <3>3
    <3> QED
      BY <3>1, <3>4, ResumeStep
  <2>7. CASE setcontext_elsewhere(i)
    <3>1. /\ copy[i].pc = "setcontext"
          /\ \/ copy' = [copy EXCEPT ![i].pc = "killed"]
             \/ \E moved \in BOOLEAN : Resume(i, moved)
          /\ "stack" \in excuse' /\ excuse \subseteq excuse' /\ main' = main
      BY <2>7 DEF setcontext_elsewhere, Excuse
    <3> QED
      BY <3>1, ResumeStep
  <2> QED
    BY <1>3, <2>1, <2>2, <2>3, <2>4, <2>5, <2>6, <2>7 DEF CopyStep
<1>4. ASSUME NEW i \in DOMAIN copy, migrate_no_fork(i)
      PROVE  TInv'
  BY <1>4, CallStep DEF migrate_no_fork, Serving, Served, Excuse
<1>5. ASSUME NEW i \in DOMAIN copy, parse_thread_data(i)
      PROVE  TInv'
  BY <1>5, CallStep DEF parse_thread_data, Serving, Excuse
<1> QED
  BY <1>1, <1>2, <1>3, <1>4, <1>5 DEF Next

\* Only the last copy can hold the thread, in every behaviour.
THEOREM ThreadInductive == Spec => []TInv
<1>1. Init => TInv
  BY DEF Init, TInv
<1> QED
  BY <1>1, ThreadStep, PTL DEF Spec

\* The thread never runs twice, whatever calls of MIGRATE fail, time out or
\* are served after their caller has given up.
THEOREM NeverTwice == Spec => []OneCopy
<1>1. TInv => OneCopy
  <2> SUFFICES ASSUME TInv, NEW i \in DOMAIN copy, NEW j \in DOMAIN copy,
                      Holds(i), Holds(j)
               PROVE  i = j
    BY DEF OneCopy
  <2>1. i \in 1 .. Len(copy) /\ j \in 1 .. Len(copy) /\ Len(copy) \in Nat
    BY DEF TInv
  <2>2. ~(i < Len(copy)) /\ ~(j < Len(copy))
    BY DEF TInv
  <2> QED
    BY <2>1, <2>2
<1> QED
  BY <1>1, ThreadInductive, PTL

\* has_migrated keeps a copy from migrating on its own.
THEOREM OnRequestOnly == Spec => []MovesOnRequest
<1>1. TInv => MovesOnRequest
  BY DEF TInv, MovesOnRequest
<1> QED
  BY <1>1, ThreadInductive, PTL

\* Without a fault and with the stack at its old address the thread is never
\* lost.
THEOREM NeverLost == Spec => []ThreadKept
<1>1. TInv => ThreadKept
  <2> SUFFICES ASSUME TInv, excuse = {}, main # "start"
               PROVE  \E i \in DOMAIN copy : Holds(i) \/ copy[i].pc = "done"
    BY DEF ThreadKept
  <2>1. copy \in Seq(Copy) /\ copy # <<>>
    BY DEF TInv
  <2>2. Len(copy) \in DOMAIN copy
    BY <2>1
  <2> QED
    BY <2>2 DEF TInv
<1> QED
  BY <1>1, ThreadInductive, PTL


----------------------------------------------------------------------------
\* main, server and excuse keep their types in every step.
LEMMA TypeStep ==
  ASSUME TypeOK, [Next]_vars
  PROVE  /\ main' \in {"start", "join", "returned", "killed"}
         /\ server' \in [Node -> BOOLEAN]
         /\ excuse' \subseteq {"refused", "down", "timeout", "fork", "decode", "stack"}
<1> USE DEF TypeOK
<1>1. CASE psu_thread_create \/ thread_join \/ UNCHANGED vars
  BY <1>1 DEF psu_thread_create, thread_join, vars
<1>2. ASSUME NEW n \in Node, Crash(n)
      PROVE  server' \in [Node -> BOOLEAN] /\ UNCHANGED <<main, excuse>>
  BY <1>2 DEF Crash
<1>3. ASSUME NEW i \in DOMAIN copy, CopyStep(i)
      PROVE  /\ main' \in {main, "killed"} /\ server' = server
             /\ excuse' \subseteq excuse \cup {"refused", "down", "timeout", "stack"}
  <2>1. ASSUME NEW n \in Node, psu_thread_migrate(i, n)
        PROVE  /\ main' \in {main, "killed"} /\ server' = server
               /\ excuse' \subseteq excuse \cup {"refused"}
    BY <2>1 DEF psu_thread_migrate, Excuse
  <2>2. CASE migrate_return(i)
    BY <2>2 DEF migrate_return, CallOver, Excuse
  <2>3. CASE \/ thread_end(i) \/ migrate_1_svc(i) \/ sendreply(i)
             \/ setcontext(i) \/ setcontext_elsewhere(i)
    BY <2>3 DEF thread_end, migrate_1_svc, sendreply, setcontext,
                setcontext_elsewhere, Excuse
  <2> QED
    BY <1>3, <2>1, <2>2, <2>3 DEF CopyStep
<1>4. ASSUME NEW i \in DOMAIN copy, migrate_no_fork(i)
      PROVE  UNCHANGED <<main, server>> /\ excuse' = excuse \cup {"fork"}
  BY <1>4 DEF migrate_no_fork, Excuse
<1>5. ASSUME NEW i \in DOMAIN copy, parse_thread_data(i)
      PROVE  /\ main' = main /\ server' \in [Node -> BOOLEAN]
             /\ excuse' = excuse \cup {"decode"}
  BY <1>5 DEF parse_thread_data, Excuse
<1> QED
  BY <1>1, <1>2, <1>3, <1>4, <1>5 DEF Next

\* Every copy, call and server is in one of the states of its control flow,
\* and only the six named events ever excuse the loss of a thread.
THEOREM TypeCorrect == Spec => []TypeOK
<1>1. Init => TypeOK
  BY DEF Init, TypeOK
<1>2. TypeOK /\ TInv' /\ [Next]_vars => TypeOK'
  BY TypeStep DEF TypeOK, TInv
<1> QED
  BY <1>1, <1>2, ThreadInductive, PTL DEF Spec


----------------------------------------------------------------------------
(* The refinement of ThreadService.                                         *)

\* What a copy is to the service.
LEMMA Lives ==
  ASSUME NEW c \in Copy
  PROVE  /\ c.call = "sent" \/ c.pc = "setcontext" => LifeOf(c) = "moves"
         /\ c.call # "sent" =>
              /\ c.pc = "user" => LifeOf(c) = "runs"
              /\ c.pc = "migrate" => LifeOf(c) = "astray"
              /\ c.pc = "done" => LifeOf(c) = "ended"
              /\ c.pc \in {"call", "gone", "killed"} => LifeOf(c) = "lost"
         /\ c.call = "none" => AtOf(c) = c.on
         /\ c.call # "none" => AtOf(c) = c.to
  BY DEF LifeOf, AtOf

\* The service sees a step of copy i only if i is the last.
LEMMA SeenLast ==
  ASSUME TInv, NEW i \in DOMAIN copy, NEW c \in Copy,
         copy' = [copy EXCEPT ![i] = c]
  PROVE  /\ i = Len(copy) => /\ life = LifeOf(copy[i]) /\ life' = LifeOf(c)
                             /\ at = AtOf(copy[i]) /\ at' = AtOf(c)
         /\ i # Len(copy) => UNCHANGED <<life, at>>
<1>1. copy \in Seq(Copy) /\ copy # <<>>
  BY DEF TInv
<1>2. /\ copy' # <<>> /\ Len(copy') = Len(copy) /\ Len(copy) \in DOMAIN copy
      /\ copy'[Len(copy)] = IF i = Len(copy) THEN c ELSE copy[Len(copy)]
  BY <1>1
<1> QED
  BY <1>1, <1>2, Zenon DEF life, at, Last

\* The steps of the service, fault apart.
ServiceMove ==
  \/ TS!Create
  \/ \E n \in Node : TS!Migrate(n)
  \/ TS!Arrive
  \/ TS!End
  \/ TS!Lose
  \/ UNCHANGED <<life, at>>

\* Only the last copy holds the thread, and a copy that is called for does
\* not run.
LEMMA Holder ==
  ASSUME TInv, NEW i \in DOMAIN copy
  PROVE  /\ copy[i] \in Copy
         /\ Holds(i) => i = Len(copy)
         /\ Running(i) \/ copy[i].pc = "done" => copy[i].call = "none"
         /\ copy[i].call # "none" => copy[i].pc \in {"call", "gone", "killed"}
         /\ copy[i].pc = "call" => copy[i].call # "none"
<1>1. copy[i] \in Copy /\ i \in 1 .. Len(copy) /\ Len(copy) \in Nat
  BY DEF TInv
<1>2. i < Len(copy) => ~Holds(i)
  BY Zenon DEF TInv
<1>3. /\ Running(i) \/ copy[i].pc = "done" => copy[i].call = "none"
      /\ copy[i].pc = "call" => copy[i].call # "none"
  BY Zenon DEF TInv
<1>4. copy[i].pc \in {"user", "migrate", "call", "setcontext", "gone", "done", "killed"}
  BY <1>1 DEF Copy
<1>5. ~(i < Len(copy)) => i = Len(copy)
  BY <1>1
<1> QED
  BY <1>1, <1>2, <1>3, <1>4, <1>5, Zenon DEF Running

LEMMA MigrateServes ==
  ASSUME TInv, NEW i \in DOMAIN copy, NEW n \in Node, psu_thread_migrate(i, n)
  PROVE  ServiceMove
<1>1. copy[i].pc \in {"user", "migrate"}
  BY DEF psu_thread_migrate
<1>2. /\ copy[i] \in Copy /\ i = Len(copy) /\ copy[i].call = "none"
  BY <1>1, Holder, Zenon DEF Running, Holds
<1>3. LifeOf(copy[i]) \in {"runs", "astray"} /\ AtOf(copy[i]) = copy[i].on
  BY <1>1, <1>2, Lives
<1>a. CASE server[n]
  <2> DEFINE c == [copy[i] EXCEPT !.pc = "call", !.to = n, !.call = "sent",
                     !.left = IF copy[i].pc = "user" THEN @ - 1 ELSE @]
  <2>1. copy' = [copy EXCEPT ![i] = c]
    BY <1>a DEF psu_thread_migrate
  <2>2. (IF copy[i].pc = "user" THEN copy[i].left - 1 ELSE copy[i].left) \in Int
    BY <1>2 DEF Copy
  <2>3. c \in Copy /\ c.call = "sent" /\ c.to = n
    BY <1>2, <2>2 DEF Copy
  <2> HIDE DEF c
  <2>4. LifeOf(c) = "moves" /\ AtOf(c) = n
    BY <2>3, Lives
  <2>5. life = LifeOf(copy[i]) /\ life' = LifeOf(c) /\ at' = AtOf(c)
    BY <1>2, <2>1, <2>3, SeenLast, Zenon
  <2>6. TS!Migrate(n)
    BY <1>3, <2>4, <2>5, Zenon DEF TS!Migrate
  <2> QED
    BY <2>6, Zenon DEF ServiceMove
<1>b. CASE ~server[n]
  <2> DEFINE c == [copy[i] EXCEPT !.pc = "killed"]
  <2>1. copy' = [copy EXCEPT ![i] = c] /\ excuse' = excuse \cup {"refused"}
    BY <1>b DEF psu_thread_migrate, Excuse
  <2>2. c \in Copy /\ c.pc = "killed" /\ c.call = "none" /\ c.on = copy[i].on
    BY <1>2 DEF Copy
  <2> HIDE DEF c
  <2>3. LifeOf(c) = "lost" /\ AtOf(c) = copy[i].on
    BY <2>2, Lives
  <2>4. /\ life = LifeOf(copy[i]) /\ life' = LifeOf(c)
        /\ at = AtOf(copy[i]) /\ at' = AtOf(c)
    BY <1>2, <2>1, <2>2, SeenLast, Zenon
  <2>5. fault'
    BY <2>1 DEF fault
  <2>6. TS!Lose
    BY <1>3, <2>3, <2>4, <2>5, Zenon DEF TS!Lose
  <2> QED
    BY <2>6, Zenon DEF ServiceMove
<1> QED
  BY <1>a, <1>b


\* The end of the wait in migrate_1 changes nothing: the fork has come or is
\* still to come.
LEMMA ReturnServes ==
  ASSUME TInv, NEW i \in DOMAIN copy, migrate_return(i)
  PROVE  UNCHANGED <<life, at>>
<1> DEFINE c == [copy[i] EXCEPT !.pc = "gone"]
<1>1. copy' = [copy EXCEPT ![i] = c] /\ copy[i].pc = "call"
  BY DEF migrate_return, CallOver
<1>2. copy[i] \in Copy
  BY Holder, Zenon
<1>3. /\ c \in Copy /\ c.pc = "gone" /\ c.call = copy[i].call
      /\ c.on = copy[i].on /\ c.to = copy[i].to
  BY <1>2 DEF Copy
<1> HIDE DEF c
<1>4. LifeOf(c) = LifeOf(copy[i])
  <2>1. CASE copy[i].call = "sent"
    BY <1>2, <1>3, <2>1, Lives, Zenon
  <2>2. CASE copy[i].call # "sent"
    BY <1>1, <1>2, <1>3, <2>2, Lives, Zenon
  <2> QED
    BY <2>1, <2>2
<1>5. AtOf(c) = AtOf(copy[i])
  BY <1>3, Zenon DEF AtOf
<1> QED
  BY <1>1, <1>3, <1>4, <1>5, SeenLast, Zenon

LEMMA EndServes ==
  ASSUME TInv, NEW i \in DOMAIN copy, thread_end(i)
  PROVE  ServiceMove
<1> DEFINE c == [copy[i] EXCEPT !.pc = "done"]
<1>1. copy' = [copy EXCEPT ![i] = c] /\ copy[i].pc = "user"
  BY DEF thread_end
<1>2. copy[i] \in Copy /\ i = Len(copy) /\ copy[i].call = "none"
  BY <1>1, Holder, Zenon DEF Running, Holds
<1>3. c \in Copy /\ c.pc = "done" /\ c.call = "none" /\ c.on = copy[i].on
  BY <1>2 DEF Copy
<1> HIDE DEF c
<1>4. /\ LifeOf(copy[i]) = "runs" /\ LifeOf(c) = "ended"
      /\ AtOf(copy[i]) = AtOf(c)
  BY <1>1, <1>2, <1>3, Lives
<1>5. TS!End
  BY <1>1, <1>2, <1>3, <1>4, SeenLast, Zenon DEF TS!End
<1> QED
  BY <1>5, Zenon DEF ServiceMove

\* The fork turns a thread that is on its way into a new last copy, on the
\* node it is bound for.
LEMMA ForkServes ==
  ASSUME TInv, NEW i \in DOMAIN copy, migrate_1_svc(i)
  PROVE  UNCHANGED <<life, at>>
<1> DEFINE c == [copy[i] EXCEPT !.call = "served"]
<1> DEFINE d == [on |-> copy[i].to, pc |-> "setcontext", left |-> Context(i).left,
                 native |-> FALSE, moved |-> Context(i).moved,
                 sound |-> Context(i).sound, ret |-> None, to |-> None,
                 call |-> "none"]
<1>1. copy' = Append([copy EXCEPT ![i] = c], d) /\ copy[i].call = "sent"
  BY DEF migrate_1_svc, Serving, Served
<1>2. copy[i] \in Copy /\ i = Len(copy)
  BY <1>1, Holder, Zenon DEF Holds
<1>3. copy \in Seq(Copy) /\ copy # <<>> /\ copy[i].to \in Node
  BY <1>1 DEF TInv
<1>4. c \in Copy
  BY <1>2 DEF Copy
<1>5. d \in Copy /\ d.pc = "setcontext" /\ d.call = "none" /\ d.on = copy[i].to
  BY <1>2, <1>3 DEF Copy, Context
<1> HIDE DEF c, d
<1>6. copy' # <<>> /\ copy'[Len(copy')] = d
  BY <1>1, <1>3, <1>4, <1>5
<1>7. /\ LifeOf(copy[i]) = "moves" /\ LifeOf(d) = "moves"
      /\ AtOf(copy[i]) = copy[i].to /\ AtOf(d) = copy[i].to
  BY <1>1, <1>2, <1>5, Lives
<1> QED
  BY <1>2, <1>3, <1>6, <1>7, Zenon DEF life, at, Last

\* The call of copy i goes on without a fork: nothing to see when it was
\* served before, the loss of the thread when it was not.
LEMMA CallServes ==
  ASSUME TInv, NEW i \in DOMAIN copy, NEW stage \in {"served", "answered"},
         copy' = [copy EXCEPT ![i].call = stage],
         copy[i].call = "served" \/ (copy[i].call = "sent" /\ excuse' # {})
  PROVE  ServiceMove
<1> DEFINE c == [copy[i] EXCEPT !.call = stage]
<1>1. copy' = [copy EXCEPT ![i] = c]
  OBVIOUS
<1>2. copy[i] \in Copy /\ copy[i].pc \in {"call", "gone", "killed"}
  BY Holder
<1>3. /\ c \in Copy /\ c.pc = copy[i].pc /\ c.call = stage
      /\ c.to = copy[i].to
  BY <1>2 DEF Copy
<1> HIDE DEF c
<1>4. LifeOf(c) = "lost" /\ AtOf(c) = AtOf(copy[i])
  BY <1>2, <1>3, Lives
<1>5. /\ i = Len(copy) => /\ life = LifeOf(copy[i]) /\ life' = LifeOf(c)
                          /\ at = AtOf(copy[i]) /\ at' = AtOf(c)
      /\ i # Len(copy) => UNCHANGED <<life, at>>
  BY ONLY TInv, i \in DOMAIN copy, <1>1, <1>3, SeenLast, Zenon
<1>6. CASE copy[i].call = "served"
  <2>1. LifeOf(copy[i]) = "lost"
    BY <1>2, <1>6, Lives
  <2>2. UNCHANGED <<life, at>>
    BY <1>4, <1>5, <2>1, Zenon
  <2> QED
    BY <2>2, Zenon DEF ServiceMove
<1>7. CASE copy[i].call = "sent" /\ excuse' # {}
  <2>1. i = Len(copy)
    BY <1>7, Holder, Zenon DEF Holds
  <2>2. LifeOf(copy[i]) = "moves"
    BY <1>2, <1>7, Lives
  <2>3. fault'
    BY <1>7, Zenon DEF fault
  <2>4. life = "moves" /\ life' = "lost" /\ at' = at
    BY <1>4, <1>5, <2>1, <2>2, Zenon
  <2>5. TS!Lose
    BY ONLY <2>3, <2>4 DEF TS!Lose
  <2> QED
    BY <2>5, Zenon DEF ServiceMove
<1> QED
  BY <1>6, <1>7

LEMMA ResumeServes ==
  ASSUME TInv, NEW i \in DOMAIN copy, copy[i].pc = "setcontext",
         \/ copy' = [copy EXCEPT ![i].pc = "killed"] /\ "stack" \in excuse'
         \/ \E moved \in BOOLEAN :
              Resume(i, moved) /\ (moved \/ "stack" \in excuse')
  PROVE  ServiceMove
<1>1. copy[i] \in Copy /\ i = Len(copy) /\ copy[i].call = "none"
  BY Holder, Zenon DEF Running, Holds
<1>2. LifeOf(copy[i]) = "moves" /\ AtOf(copy[i]) = copy[i].on
  BY <1>1, Lives
<1>3. "stack" \in excuse' => fault'
  BY DEF fault
<1>a. CASE copy' = [copy EXCEPT ![i].pc = "killed"] /\ "stack" \in excuse'
  <2> DEFINE c == [copy[i] EXCEPT !.pc = "killed"]
  <2>1. copy' = [copy EXCEPT ![i] = c]
    BY <1>a
  <2>2. c \in Copy /\ c.pc = "killed" /\ c.call = "none" /\ c.on = copy[i].on
    BY <1>1 DEF Copy
  <2> HIDE DEF c
  <2>3. LifeOf(c) = "lost" /\ AtOf(c) = copy[i].on
    BY <2>2, Lives
  <2>4. /\ life = LifeOf(copy[i]) /\ life' = LifeOf(c)
        /\ at = AtOf(copy[i]) /\ at' = AtOf(c)
    BY ONLY TInv, i \in DOMAIN copy, <1>1, <2>1, <2>2, SeenLast, Zenon
  <2>5. life = "moves" /\ life' = "lost" /\ at' = at
    BY <1>2, <2>3, <2>4, Zenon
  <2>6. TS!Lose
    BY <1>3, <1>a, <2>5 DEF TS!Lose
  <2> QED
    BY <2>6, Zenon DEF ServiceMove
<1>b. ASSUME Resume(i, TRUE)
      PROVE  ServiceMove
  <2> DEFINE c == [copy[i] EXCEPT !.pc = "user", !.ret = 1]
  <2>1. copy' = [copy EXCEPT ![i] = c]
    BY <1>b DEF Resume
  <2>2. c \in Copy /\ c.pc = "user" /\ c.call = "none" /\ c.on = copy[i].on
    BY <1>1 DEF Copy
  <2> HIDE DEF c
  <2>3. LifeOf(c) = "runs" /\ AtOf(c) = copy[i].on
    BY <2>2, Lives
  <2>4. /\ life = LifeOf(copy[i]) /\ life' = LifeOf(c)
        /\ at = AtOf(copy[i]) /\ at' = AtOf(c)
    BY ONLY TInv, i \in DOMAIN copy, <1>1, <2>1, <2>2, SeenLast, Zenon
  <2>5. life = "moves" /\ life' = "runs" /\ at' = at
    BY <1>2, <2>3, <2>4, Zenon
  <2>6. TS!Arrive
    BY <2>5 DEF TS!Arrive
  <2> QED
    BY <2>6, Zenon DEF ServiceMove
<1>c. ASSUME Resume(i, FALSE), "stack" \in excuse'
      PROVE  ServiceMove
  <2> DEFINE c == [copy[i] EXCEPT !.pc = "migrate"]
  <2>1. copy' = [copy EXCEPT ![i] = c]
    BY <1>c DEF Resume
  <2>2. c \in Copy /\ c.pc = "migrate" /\ c.call = "none" /\ c.on = copy[i].on
    BY <1>1 DEF Copy
  <2> HIDE DEF c
  <2>3. LifeOf(c) = "astray" /\ AtOf(c) = copy[i].on
    BY <2>2, Lives
  <2>4. /\ life = LifeOf(copy[i]) /\ life' = LifeOf(c)
        /\ at = AtOf(copy[i]) /\ at' = AtOf(c)
    BY ONLY TInv, i \in DOMAIN copy, <1>1, <2>1, <2>2, SeenLast, Zenon
  <2>5. life = "moves" /\ life' = "astray" /\ at' = at
    BY <1>2, <2>3, <2>4, Zenon
  <2>6. TS!Arrive
    BY <1>3, <1>c, <2>5 DEF TS!Arrive
  <2> QED
    BY <2>6, Zenon DEF ServiceMove
<1> QED
  BY <1>a, <1>b, <1>c

LEMMA ServiceStep ==
  ASSUME TInv, [Next]_vars
  PROVE  ServiceMove
<1>1. CASE psu_thread_create
  <2> DEFINE First(k) == [on |-> home, pc |-> "user", left |-> k,
                          native |-> TRUE, moved |-> FALSE, sound |-> TRUE,
                          ret |-> None, to |-> None, call |-> "none"]
  <2>0. PICK k \in 0 .. MaxMigrate : copy' = <<First(k)>>
    BY <1>1 DEF psu_thread_create
  <2> DEFINE c == First(k)
  <2>1. copy = <<>> /\ copy' = <<c>>
    BY <1>1, <2>0 DEF psu_thread_create, TInv
  <2>2. c \in Copy /\ c.pc = "user" /\ c.call = "none" /\ c.on = home
    BY ThreadAssumption DEF Copy
  <2> HIDE DEF c
  <2>3. LifeOf(c) = "runs" /\ AtOf(c) = home
    BY <2>2, Lives
  <2>4. copy' # <<>> /\ copy'[Len(copy')] = c
    BY <2>1
  <2>5. TS!Create
    BY <2>1, <2>3, <2>4, Zenon DEF TS!Create, life, at, Last
  <2> QED
    BY <2>5, Zenon DEF ServiceMove
<1>2. CASE thread_join \/ (\E n \in Node : Crash(n)) \/ UNCHANGED vars
  <2>1. copy' = copy
    BY <1>2 DEF thread_join, Crash, vars
  <2> QED
    BY <2>1, Zenon DEF ServiceMove, life, at, Last
<1>3. ASSUME NEW i \in DOMAIN copy, CopyStep(i)
      PROVE  ServiceMove
  <2>1. CASE \E n \in Node : psu_thread_migrate(i, n)
    BY <2>1, MigrateServes
  <2>2. CASE migrate_return(i)
    BY <2>2, ReturnServes, Zenon DEF ServiceMove
  <2>3. CASE thread_end(i)
    BY <2>3, EndServes
  <2>4. CASE migrate_1_svc(i)
    BY <2>4, ForkServes, Zenon DEF ServiceMove
  <2>5. CASE sendreply(i)
    <3>1. copy' = [copy EXCEPT ![i].call = "answered"] /\ copy[i].call = "served"
      BY <2>5 DEF sendreply, Serving
    <3> QED
      BY <3>1, CallServes
  <2>6. CASE setcontext(i)
    <3>1. copy[i].pc = "setcontext" /\ Resume(i, copy[i].moved)
      BY <2>6 DEF setcontext
    <3>2. copy[i].moved = TRUE
      BY <3>1 DEF TInv, Copy
    <3>3. \E moved \in BOOLEAN :
             Resume(i, moved) /\ (moved \/ "stack" \in excuse')
      BY <3>1, <3>2
    <3> QED
      BY <3>1, <3>3, ResumeServes
  <2>7. CASE setcontext_elsewhere(i)
    <3>1. /\ copy[i].pc = "setcontext" /\ "stack" \in excuse'
          /\ \/ copy' = [copy EXCEPT ![i].pc = "killed"]
             \/ \E moved \in BOOLEAN : Resume(i, moved)
      BY <2>7 DEF setcontext_elsewhere, Excuse
    <3> QED
      BY <3>1, ResumeServes
  <2> QED
    BY <1>3, <2>1, <2>2, <2>3, <2>4, <2>5, <2>6, <2>7 DEF CopyStep
<1>4. ASSUME NEW i \in DOMAIN copy, migrate_no_fork(i)
      PROVE  ServiceMove
  BY <1>4, CallServes DEF migrate_no_fork, Serving, Served, Excuse
<1>5. ASSUME NEW i \in DOMAIN copy, parse_thread_data(i)
      PROVE  ServiceMove
  BY <1>5, CallServes DEF parse_thread_data, Serving, Excuse
<1> QED
  BY <1>1, <1>2, <1>3, <1>4, <1>5 DEF Next

\* Nothing takes an excuse back.
LEMMA Blames ==
  ASSUME [Next]_vars
  PROVE  excuse \subseteq excuse'
<1>1. ASSUME NEW i \in DOMAIN copy, CopyStep(i)
      PROVE  excuse \subseteq excuse'
  BY <1>1 DEF CopyStep, psu_thread_migrate, migrate_return, CallOver,
       thread_end, migrate_1_svc, sendreply, setcontext, setcontext_elsewhere,
       Excuse
<1>2. ASSUME NEW i \in DOMAIN copy, migrate_no_fork(i) \/ parse_thread_data(i)
      PROVE  excuse \subseteq excuse'
  BY <1>2 DEF migrate_no_fork, parse_thread_data, Excuse
<1>3. CASE \/ psu_thread_create \/ thread_join
           \/ (\E n \in Node : Crash(n)) \/ UNCHANGED vars
  BY <1>3 DEF psu_thread_create, thread_join, Crash, vars
<1> QED
  BY <1>1, <1>2, <1>3 DEF Next

\* The migrator implements the service: one thread, which arrives where it
\* was sent and never comes back once it has ended or been lost, with any
\* number of nodes, migrations and copies and every fault.
THEOREM Implements == Spec => ImplementsThreadService
<1>1. Init => TS!TSInit
  BY DEF Init, TS!TSInit, life, at, fault
<1>2. TInv /\ [Next]_vars => [TS!TSNext]_(TS!tsVars)
  <2> SUFFICES ASSUME TInv, [Next]_vars
               PROVE  TS!TSNext
    BY Zenon
  <2>1. fault' \in BOOLEAN /\ (fault => fault')
    BY Blames, Zenon DEF fault
  <2> QED
    BY <2>1, ServiceStep, Zenon DEF ServiceMove, TS!TSNext
<1> QED
  BY <1>1, <1>2, ThreadInductive, PTL DEF Spec, ImplementsThreadService, TS!TSSpec
============================================================================
