----------------------------- MODULE DsmProofs -----------------------------
(***************************************************************************)
(* The theorems about the DSM, and the lemmas about its names and keys.    *)
(***************************************************************************)
EXTENDS DsmStepProofs, SequenceTheorems, WellFoundedInduction

\* Initially every list is empty and nobody waits.
LEMMA InitInv == Init => IInv
<1> SUFFICES ASSUME Init PROVE IInv
  OBVIOUS
<1> USE DEF Process, Init, ServerInit
<1>1. Types
  BY SMTT(30), DsmServerAssumption DEF Types
<1>2. Empty /\ InTransit /\ Working
  BY Zenon DEF Empty, InTransit, Working
<1>3. ServerWaits /\ LoopProgress
  BY Zenon DEF ServerWaits, LoopProgress
<1>4. ClientWaits
  BY Zenon DEF ClientWaits
<1>5. Excused /\ NotLost
  BY Zenon DEF Excused, NotLost
<1> QED
  BY Zenon, <1>1, <1>2, <1>3, <1>4, <1>5 DEF IInv

LEMMA StutterInv ==
  ASSUME IInv, UNCHANGED vars
  PROVE  IInv'
<1>1. UNCHANGED <<alive, dir, dsm, segs, calls, waits, reply, job, idx, noes,
                  hit, excuse, pc, cur>>
  BY Zenon DEF vars, serverVars, clientVars, memVars, rpcVars, jobVars
<1>2. Types' /\ Empty' /\ InTransit'
  BY Zenon, <1>1 DEF IInv, Types, Empty, InTransit
<1>3. Working' /\ ServerWaits' /\ LoopProgress'
  BY ZenonT(60), <1>1 DEF IInv, Working, ServerWaits, LoopProgress
<1>4. ClientWaits' /\ Excused' /\ NotLost'
  BY Zenon, <1>1 DEF IInv, ClientWaits, Excused, NotLost
<1> QED
  BY Zenon, <1>2, <1>3, <1>4 DEF IInv

\* The invariant that relates each waiting process to the call it waits for
\* holds for any number of servers, clients, requests and any faults.
THEOREM DsmInductive == Spec => []IInv
<1>1. ASSUME IInv, [Next]_vars
      PROVE  IInv'
  <2>1. ASSUME NEW m \in Machine, Serve(m), UNCHANGED clientVars
        PROVE  IInv'
    <3>1. ASSUME NEW k \in calls,
                 page_find(m, k) \/ page_locate(m, k) \/ page_creat(m, k)
                   \/ page_request(m, k)
          PROVE  IInv'
      BY Zenon, <1>1, <2>1, <3>1, FindStep, LocateStep, CreatStep, RequestStep
    <3>2. ASSUME creat_skip(m) \/ creat_ask(m) \/ creat_answer(m)
                   \/ creat_local(m)
          PROVE  IInv'
      BY Zenon, <1>1, <2>1, <3>2, SkipStep, AskStep, AnswerStep, LocalStep
    <3> QED
      BY Zenon, <2>1, <3>1, <3>2 DEF Serve
  <2>2. ASSUME NEW m \in Machine, creat_no_shm(m) \/ Crash(m),
               UNCHANGED clientVars
        PROVE  IInv'
    BY Zenon, <1>1, <2>2, NoShmStep, CrashStep
  <2>3. ASSUME NEW p \in Process, CallFails(p), UNCHANGED clientVars
        PROVE  IInv'
    BY Zenon, <1>1, <2>3, FailsStep
  <2>4. ASSUME NEW c \in Client, ClientStep(c)
        PROVE  IInv'
    BY Zenon, <1>1, <2>4, InitStep, AttachStep, SegvRequestStep DEF ClientStep
  <2>5. ASSUME NEW c \in Client, NEW r \in Request, psu_dsm_malloc(c, r)
        PROVE  IInv'
    BY Zenon, <1>1, <2>5, MallocStep
  <2>6. ASSUME NEW c \in Client, segv_handler(c)
        PROVE  IInv'
    BY Zenon, <1>1, <2>6, SegvStep
  <2>7. CASE UNCHANGED vars
    BY Zenon, <1>1, <2>7, StutterInv
  <2> QED
    BY Zenon, <1>1, <2>1, <2>2, <2>3, <2>4, <2>5, <2>6, <2>7 DEF Next
<1> QED
  BY <1>1, InitInv, PTL DEF Spec

----------------------------------------------------------------------------
\* No page is ever found in a directory, so the branches of page_creat,
\* page_locate and page_request for a known page never run.
THEOREM NeverHit == Spec => []NoHit
<1>1. IInv => NoHit
  BY Zenon DEF IInv, Empty, NoHit
<1> QED
  BY <1>1, DsmInductive, PTL

\* When the loop of page_creat is over, the server has a no from every other
\* server of the table.
THEOREM AllAsked == Spec => []EveryServerAsked
<1>1. IInv => EveryServerAsked
  <2> SUFFICES ASSUME IInv, NEW m \in Machine, job[m] # None, LoopOver(m)
               PROVE  noes[m] = Machine \ {m}
    BY Zenon DEF EveryServerAsked
  <2>1. idx[m] > Len(server) /\ idx[m] \in Nat /\ Len(server) \in Nat
    BY DsmServerAssumption DEF LoopOver, IInv, Types
  <2>2. noes[m] \subseteq Machine /\ m \notin noes[m]
    BY Zenon DEF IInv, Types, LoopProgress
  <2>3. ASSUME NEW q \in Machine, q # m
        PROVE  q \in noes[m]
    <3>1. PICK i \in DOMAIN server : server[i] = q
      BY Zenon, DsmServerAssumption
    <3>2. i \in 1 .. idx[m] - 1
      BY SMTT(30), <2>1, DsmServerAssumption
    <3> QED
      BY Zenon, <2>3, <3>1, <3>2 DEF IInv, LoopProgress
  <2> QED
    BY Zenon, <2>2, <2>3
<1> QED
  BY <1>1, DsmInductive, PTL

\* A call is in transit, being served or answered, and only one of these,
\* as long as the server it was sent to lives.
THEOREM CallsAccounted == Spec => []CallAccounted
<1>1. IInv => CallAccounted
  <2> SUFFICES ASSUME IInv, NEW p \in Process, alive[p], waits[p] # None
               PROVE  LET m == waits[p]
                          sent == \E k \in calls : k.from = p
                          served == job[m] # None /\ job[m].from = p
                          answered == reply[p] # None
                      IN  /\ sent \/ served \/ answered \/ ~alive[m]
                          /\ ~(sent /\ served) /\ ~(sent /\ answered)
                          /\ ~(served /\ answered)
    BY Zenon DEF CallAccounted
  <2>1. waits[p] \in Machine
    BY Zenon DEF IInv, Types
  <2>2. (\E k \in calls : k.from = p) => reply[p] = None
    BY Zenon DEF IInv, InTransit
  <2>3. job[waits[p]] # None /\ job[waits[p]].from = p =>
          reply[p] = None /\ ~ \E k \in calls : k.from = p
    BY <2>1 DEF IInv, Working
  <2> QED
    BY Zenon, <2>2, <2>3 DEF IInv, NotLost
<1> QED
  BY <1>1, DsmInductive, PTL

\* Without overlapping page_creat calls, faults in clients, slow answers,
\* crashes and lack of memory, no server dies.
THEOREM NoUnexcusedDeath == Spec => []ServersSurvive
<1>1. IInv => ServersSurvive
  BY Zenon DEF IInv, Excused, ServersSurvive
<1> QED
  BY <1>1, DsmInductive, PTL

----------------------------------------------------------------------------
\* The C string in a padded name is the name, when there is room for a zero.
LEMMA CstrOfName ==
  ASSUME NEW name \in Seq(1 .. 255), NEW tail \in Seq(0 .. 255),
         Len(name) < NAME_LEN
  PROVE  cstr(strncpy(name) \o tail) = name
<1> DEFINE area == strncpy(name) \o tail
<1> DEFINE z == Len(name) + 1
<1>1. /\ Len(name) \in Nat /\ NAME_LEN \in Nat 
      /\ DOMAIN name = 1 .. Len(name)
      /\ \A i \in 1 .. Len(name) : name[i] \in 1 .. 255
  BY ZenonT(60), DsmUtilAssumption, LenProperties, ElementOfSeq
<1>0. z \in 1 .. NAME_LEN
  BY <1>1
<1>2. /\ strncpy(name) \in [1 .. NAME_LEN -> 0 .. 255]
      /\ \A i \in 1 .. NAME_LEN :
           strncpy(name)[i] = IF i <= Len(name) THEN name[i] ELSE 0
  BY <1>1 DEF strncpy
<1>2a. strncpy(name) \in Seq(0 .. 255) /\ Len(strncpy(name)) = NAME_LEN
  BY <1>1, <1>2, LenProperties, IsASeq
<1> HIDE DEF area
<1>3. /\ area \in Seq(0 .. 255)
      /\ Len(area) = NAME_LEN + Len(tail)
      /\ \A i \in 1 .. NAME_LEN : area[i] = strncpy(name)[i]
  <2>1. /\ area \in Seq(0 .. 255)
        /\ Len(area) = Len(strncpy(name)) + Len(tail)
        /\ \A i \in 1 .. Len(strncpy(name)) + Len(tail) :
             area[i] = IF i <= Len(strncpy(name)) THEN strncpy(name)[i]
                       ELSE tail[i - Len(strncpy(name))]
    BY ZenonT(60), <1>2a, ConcatProperties DEF area
  <2>2. Len(tail) \in Nat
    BY ZenonT(60), LenProperties
  <2> QED
    BY <1>1, <1>2a, <2>1, <2>2
<1>4. z \in DOMAIN area /\ area[z] = 0
  BY <1>0, <1>1, <1>2, <1>3
<1>5. \A i \in 1 .. Len(name) : area[i] = name[i] /\ area[i] # 0
  <2> TAKE i \in 1 .. Len(name)
  <2>1. i \in 1 .. NAME_LEN /\ i <= Len(name)
    BY <1>1
  <2>2. name[i] \in 1 .. 255
    BY Zenon, <1>1
  <2>3. name[i] # 0
    <3> DEFINE x == name[i]
    <3>1. x \in 1 .. 255
      BY Zenon, <2>2
    <3> HIDE DEF x
    <3>2. x # 0
      BY <3>1
    <3> QED
      BY Zenon, <3>2 DEF x
  <2> QED
    BY Zenon, <1>2, <1>3, <2>1, <2>3
<1>6. z \in Zeros(area) /\ \A j \in Zeros(area) : j \in Int /\ z <= j
  BY <1>1, <1>3, <1>4, <1>5 DEF Zeros
<1>7. (CHOOSE i \in Zeros(area) : \A j \in Zeros(area) : i <= j) = z
  <2> DEFINE first == CHOOSE i \in Zeros(area) : \A j \in Zeros(area) : i <= j
  <2>1. first \in Zeros(area) /\ \A j \in Zeros(area) : first <= j
    BY Zenon, <1>6
  <2> HIDE DEF first
  <2>2. first = z
    BY <1>1, <1>6, <2>1
  <2> QED
    BY Zenon, <2>2 DEF first
<1>8. cstr(area) = SubSeq(area, 1, Len(name))
  <2>1. Zeros(area) # {} /\ z - 1 = Len(name)
    BY <1>1, <1>6
  <2> HIDE DEF z
  <2> QED
    BY Zenon, <1>7, <2>1 DEF cstr
<1>9. SubSeq(area, 1, Len(name)) = name
  <2>1. /\ SubSeq(area, 1, Len(name)) \in Seq(0 .. 255)
        /\ Len(SubSeq(area, 1, Len(name))) = Len(name)
        /\ \A i \in 1 .. Len(name) : SubSeq(area, 1, Len(name))[i] = name[i]
    BY SMTT(30), <1>1, <1>0, <1>3, <1>5
  <2>2. name \in Seq(0 .. 255)
    BY SMTT(30)
  <2> HIDE DEF z
  <2> QED
    BY ZenonT(60), <2>1, <2>2, SeqEqual
<1> QED
  BY Zenon, <1>8, <1>9 DEF area

\* The size of a page is four bytes.
LEMMA SizeBytes ==
  ASSUME NEW n \in Size
  PROVE  bytes(n) \in Seq(0 .. 255)
<1>1. n \in Nat /\ n < 16777216
  BY SMT DEF Size
<1>2. n % 256 \in 0 .. 255
  BY <1>1, SMT
<1>3. (n \div 256) % 256 \in 0 .. 255
  BY <1>1, SMT
<1>4. (n \div 65536) % 256 \in 0 .. 255
  BY <1>1, SMT
<1>5. n \div 16777216 \in 0 .. 255
  BY <1>1, SMT
<1>6. \A S : \A b1, b2, b3, b4 \in S : <<b1, b2, b3, b4>> \in Seq(S)
  OBVIOUS
<1> QED
  BY <1>2, <1>3, <1>4, <1>5, <1>6, SMT DEF bytes

\* For a name with room for its zero, client and server compute one key.
LEMMA ShortKey ==
  ASSUME NEW r \in Request, Len(r.name) < NAME_LEN
  PROVE  serverKey(pageid(r.name, r.size)) = clientKey(r.name)
<1>1. r.name \in Name /\ r.size \in Size
  BY RequestAssumption
<1>2. r.name \in Seq(1 .. 255)
  BY <1>1 DEF Name
<1>3. bytes(r.size) \in Seq(0 .. 255)
  BY <1>1, SizeBytes
<1>4. cstr(strncpy(r.name) \o bytes(r.size)) = r.name
  BY <1>2, <1>3, CstrOfName
<1> QED
  BY <1>4, SMT DEF serverKey, clientKey, pageid

\* psu_dsm_malloc finds the segment of its server for every short name.
THEOREM SegmentsFound == Spec => []SegmentFound
<1>1. IInv => SegmentFound
  <2> SUFFICES ASSUME IInv, NEW c \in Client, pc[c] = "creat", reply[c] = 1,
                      Len(cur[c].name) < NAME_LEN
               PROVE  clientKey(cur[c].name) \in segs[Host[c]]
    BY DEF SegmentFound, At
  <2>1. 1 # None
    BY SMTT(30), DsmServerAssumption
  <2>2. /\ cur[c] \in Request
        /\ serverKey(pageid(cur[c].name, cur[c].size)) \in segs[Host[c]]
    BY <2>1 DEF IInv, ClientWaits
  <2> QED
    BY <2>2, ShortKey
<1> QED
  BY <1>1, DsmInductive, PTL

----------------------------------------------------------------------------
(* The keys of the segments.  hash is a recursive function; what it returns *)
(* is found by induction, from the well-foundedness of the numbers.         *)

\* Every nonempty set of numbers has a least one.
LEMMA Least ==
  ASSUME NEW T, T \subseteq Nat, T # {}
  PROVE  \E m \in T : \A k \in T : m <= k
<1> DEFINE R == OpToRel(<, Nat)
<1>1. IsWellFoundedOn(R, Nat)
  BY NatLessThanWellFounded, Zenon
<1>2. \A k, m \in Nat : k < m => <<k, m>> \in R
  BY SMT DEF OpToRel
<1> HIDE DEF R
<1>3. PICK m \in T : \A k \in T : ~(<<k, m>> \in R)
  BY <1>1, WFMin, Zenon
<1>4. \A k \in T : ~(k < m)
  BY <1>2, <1>3, Zenon
<1> QED
  BY <1>3, <1>4, SMT

\* Induction over a set of numbers: what holds of 0 and is handed on from
\* m - 1 to m holds up to n.
LEMMA Induction ==
  ASSUME NEW n \in Nat, NEW S, 0 \in S,
         \A m \in 1 .. n : m - 1 \in S => m \in S
  PROVE  0 .. n \subseteq S
<1> DEFINE T == (0 .. n) \ S
<1> SUFFICES ASSUME T # {} PROVE FALSE
  BY Zenon
<1>1. T \subseteq Nat
  BY SMT
<1> HIDE DEF T
<1>2. PICK m \in T : \A k \in T : m <= k
  BY <1>1, Least, Zenon
<1> USE DEF T
<1>3. m \in 1 .. n /\ m - 1 \in 0 .. n /\ m - 1 \notin T
  BY <1>2, SMT
<1> QED
  BY <1>2, <1>3, Zenon

\* The keys, the bytes and the key of the empty string.
Key == 0 .. KeyRange - 1
Byte == 0 .. 255
Seed == 5381

\* A step of the loop of hash, and the values it goes through in the first k
\* bytes of a string.
HashStep(v, c) == (v * 33 + c) % KeyRange
Chains(str, k) ==
  {f \in [0 .. k -> Key] :
     /\ f[0] = Seed
     /\ \A i \in 1 .. k : f[i] = HashStep(f[i - 1], str[i])}

\* The function inside hash.
HashFcn(str) ==
  CHOOSE h : h = [i \in 0 .. Len(str) |->
        IF i = 0 THEN 5381 ELSE (h[i - 1] * 33 + str[i]) % KeyRange]

\* A step of hash leads from a key to a key.
LEMMA KeyStep ==
  ASSUME NEW v \in Key, NEW c \in Byte
  PROVE  HashStep(v, c) \in Key
<1>1. v \in Int /\ c \in Int /\ KeyRange \in Int /\ KeyRange > 0
  BY KeyRangeAssumption, SMT DEF Key, Byte
<1> DEFINE x == v * 33 + c
<1>2. x \in Int
  BY <1>1, SMT
<1> HIDE DEF x
<1>3. x % KeyRange \in 0 .. KeyRange - 1
  BY <1>1, <1>2, SMT
<1> QED
  BY <1>3, Zenon DEF HashStep, Key, x

\* The recursion of hash has a solution for every string.
LEMMA ChainExists ==
  ASSUME NEW str \in Seq(Byte)
  PROVE  \A k \in 0 .. Len(str) : Chains(str, k) # {}
<1> DEFINE n == Len(str)
<1>1. n \in Nat /\ \A i \in 1 .. n : str[i] \in Byte
  BY LenProperties, ElementOfSeq, Zenon
<1>2. Seed \in Key
  BY KeyRangeAssumption, SMT DEF Key, Seed
<1> DEFINE S == {k \in 0 .. n : Chains(str, k) # {}}
<1>3. 0 \in S
  <2>1. [i \in 0 .. 0 |-> Seed] \in Chains(str, 0)
    BY <1>2, SMT DEF Chains
  <2> QED
    BY <1>1, <2>1, SMT
<1>4. ASSUME NEW m \in 1 .. n, m - 1 \in S
      PROVE  m \in S
  <2>1. PICK f : f \in Chains(str, m - 1)
    BY <1>4, Zenon
  <2> DEFINE e == [i \in 0 .. m |->
                     IF i = m THEN HashStep(f[m - 1], str[m]) ELSE f[i]]
  <2>2. /\ f \in [0 .. (m - 1) -> Key] /\ f[0] = Seed
        /\ \A i \in 1 .. m - 1 : f[i] = HashStep(f[i - 1], str[i])
    BY <2>1, Zenon DEF Chains
  <2>3. m \in Nat /\ m # 0 /\ m - 1 \in 0 .. m - 1 /\ str[m] \in Byte
    BY <1>1, SMT
  <2>4. HashStep(f[m - 1], str[m]) \in Key
    BY <2>2, <2>3, KeyStep, Zenon
  <2>5. e \in [0 .. m -> Key] /\ e[0] = f[0] /\ e[m] = HashStep(f[m - 1], str[m])
        /\ \A i \in 0 .. m - 1 : e[i] = f[i]
    BY <2>2, <2>3, <2>4, SMT
  <2> HIDE DEF e
  <2>6. ASSUME NEW i \in 1 .. m
        PROVE  e[i] = HashStep(e[i - 1], str[i])
    <3>1. i - 1 \in 0 .. m - 1
      BY <2>3, SMT
    <3>2. CASE i = m
      BY <3>1, <3>2, <2>5, Zenon
    <3>3. CASE i # m
      <4>1. i \in 1 .. m - 1 /\ i \in 0 .. m - 1
        BY <2>3, <3>3, SMT
      <4> QED
        BY <3>1, <4>1, <2>2, <2>5, Zenon
    <3> QED
      BY <3>2, <3>3
  <2>7. e \in Chains(str, m)
    BY <2>2, <2>5, <2>6, Zenon DEF Chains
  <2> QED
    BY <1>1, <2>7, SMT
<1> HIDE DEF S, n
<1>5. 0 .. n \subseteq S
  BY <1>1, <1>3, <1>4, Induction, Zenon
<1> QED
  BY <1>5, Zenon DEF S, n

\* hash returns a key_t, for strings of any length.
LEMMA HashRange ==
  ASSUME NEW str \in Seq(Byte)
  PROVE  hash(str) \in Key
<1> DEFINE n == Len(str)
<1>1. n \in Nat /\ \A i \in 1 .. n : str[i] \in Byte
  BY LenProperties, ElementOfSeq, Zenon
<1>2. Seed \in Key
  BY KeyRangeAssumption, SMT DEF Key, Seed
<1>3. PICK f : f \in Chains(str, n)
  <2>1. n \in 0 .. n
    BY <1>1, SMT
  <2> QED
    BY <2>1, ChainExists, Zenon
<1>4. f = [i \in 0 .. Len(str) |->
             IF i = 0 THEN 5381 ELSE (f[i - 1] * 33 + str[i]) % KeyRange]
  BY <1>1, <1>3, SMT DEF Chains, HashStep, Seed
<1> DEFINE h == HashFcn(str)
<1>5. h = [i \in 0 .. Len(str) |->
             IF i = 0 THEN 5381 ELSE (h[i - 1] * 33 + str[i]) % KeyRange]
  BY <1>4, SMT DEF HashFcn
<1>6. hash(str) = h[Len(str)]
  BY SMT DEF hash, HashFcn
<1> HIDE DEF h
<1>7. h[0] = Seed /\ \A i \in 1 .. n : h[i] = HashStep(h[i - 1], str[i])
  BY <1>1, <1>5, SMT DEF HashStep, Seed
<1> DEFINE S == {k \in 0 .. n : h[k] \in Key}
<1>8. 0 \in S
  BY <1>1, <1>2, <1>7, SMT
<1>9. ASSUME NEW m \in 1 .. n, m - 1 \in S
      PROVE  m \in S
  <2>1. m \in 0 .. n
    BY <1>1, SMT
  <2>2. HashStep(h[m - 1], str[m]) \in Key
    BY <1>1, <1>9, KeyStep, Zenon
  <2> QED
    BY <1>7, <2>1, <2>2, Zenon
<1> HIDE DEF S, n
<1>10. 0 .. n \subseteq S
  BY <1>1, <1>8, <1>9, Induction, Zenon
<1>11. n \in 0 .. n
  BY <1>1, SMT
<1> QED
  BY <1>6, <1>10, <1>11, Zenon DEF S, n

\* The string that starts in an area of bytes consists of bytes.
LEMMA CstrBytes ==
  ASSUME NEW area \in Seq(Byte)
  PROVE  cstr(area) \in Seq(Byte)
<1>1. CASE Zeros(area) = {}
  BY <1>1, Zenon DEF cstr
<1>2. CASE Zeros(area) # {}
  <2> DEFINE first == CHOOSE i \in Zeros(area) : \A j \in Zeros(area) : i <= j
  <2>1. Len(area) \in Nat /\ DOMAIN area = 1 .. Len(area)
    BY LenProperties, Zenon
  <2>2. Zeros(area) \subseteq Nat /\ Zeros(area) \subseteq 1 .. Len(area)
    BY <2>1, SMT DEF Zeros
  <2>3. first \in Zeros(area)
    BY <1>2, <2>2, Least, Zenon
  <2>4. cstr(area) = SubSeq(area, 1, first - 1)
    BY <1>2, Zenon DEF cstr
  <2> HIDE DEF first
  <2>5. first \in 1 .. Len(area)
    BY <2>2, <2>3, Zenon
  <2>6. SubSeq(area, 1, first - 1) \in Seq(Byte)
    BY <2>1, <2>5, SMT
  <2> QED
    BY <2>4, <2>6, Zenon
<1> QED
  BY <1>1, <1>2

\* The key a server computes for a page is a key_t.
LEMMA ServerKeyRange ==
  ASSUME NEW page \in Pageid
  PROVE  serverKey(page) \in Key
<1>1. PICK r \in Request : page = pageid(r.name, r.size)
  BY PageidAssumption, Zenon
<1>2. r.name \in Seq(1 .. 255) /\ r.size \in Size
  BY RequestAssumption, SMT DEF Name
<1>3. bytes(r.size) \in Seq(Byte)
  BY <1>2, SizeBytes, Zenon DEF Byte
<1>4. strncpy(r.name) \in Seq(Byte)
  <2>1. /\ Len(r.name) \in Nat /\ NAME_LEN \in Nat
        /\ \A i \in 1 .. Len(r.name) : r.name[i] \in 1 .. 255
    BY ZenonT(60), <1>2, DsmUtilAssumption, LenProperties, ElementOfSeq
  <2>2. strncpy(r.name) \in [1 .. NAME_LEN -> Byte]
    BY <2>1, SMT DEF strncpy, Byte
  <2> QED
    BY <2>1, <2>2, LenProperties, IsASeq
<1>5. strncpy(r.name) \o bytes(r.size) \in Seq(Byte)
  BY <1>3, <1>4, ConcatProperties, Zenon
<1>6. serverKey(page) = hash(cstr(strncpy(r.name) \o bytes(r.size)))
  BY <1>1, SMT DEF serverKey, pageid
<1> QED
  BY <1>5, <1>6, CstrBytes, HashRange, Zenon

----------------------------------------------------------------------------
\* The part of TypeOK that IInv does not contain.
Stored ==
  /\ segs \in [Machine -> SUBSET Key]
  /\ creators \subseteq Machine \X Pageid
  /\ attached \in [Client -> SUBSET Request]
  /\ mallocs \in [Client -> 0 .. MaxMalloc]

LEMMA StoredServer ==
  ASSUME IInv, Stored, NEW m \in Machine, Serve(m), UNCHANGED clientVars
  PROVE  Stored'
<1>1. CASE creat_local(m)
  <2> DEFINE page == job[m].page
  <2>1. /\ segs' = [segs EXCEPT ![m] = @ \cup {serverKey(page)}]
        /\ creators' = creators \cup {<<m, page>>}
        /\ UNCHANGED <<attached, mallocs>>
        /\ job[m] # None
    BY <1>1, Zenon DEF creat_local, Looping, clientVars
  <2>2. page \in Pageid
    <3>1. job[m] \in Call
      BY <2>1, Zenon DEF IInv, Types
    <3> QED
      BY <3>1, SMT DEF Call
  <2>3. serverKey(page) \in Key
    BY <2>2, ServerKeyRange, Zenon
  <2> HIDE DEF page
  <2>4. segs' \in [Machine -> SUBSET Key]
    BY <2>1, <2>3, SMT DEF Stored
  <2>5. creators' \subseteq Machine \X Pageid
    BY <2>1, <2>2, SMT DEF Stored
  <2> QED
    BY <2>1, <2>4, <2>5, Zenon DEF Stored
<1>2. CASE ~creat_local(m)
  <2>1. UNCHANGED <<segs, creators, attached, mallocs>>
    BY <1>2, Zenon DEF Serve, page_find, page_locate, page_request, page_creat,
         creat_skip, creat_ask, creat_answer, memVars, clientVars
  <2> QED
    BY <2>1, Zenon DEF Stored
<1> QED
  BY <1>1, <1>2

LEMMA StoredClient ==
  ASSUME IInv, Stored, NEW c \in Client,
         ClientStep(c) \/ (\E r \in Request : psu_dsm_malloc(c, r)) \/ segv_handler(c)
  PROVE  Stored'
<1>1. UNCHANGED <<segs, creators>>
  BY Zenon DEF ClientStep, psu_dsm_init, malloc_attach, segv_request,
       psu_dsm_malloc, segv_handler, memVars
<1>2. attached' \in [Client -> SUBSET Request]
  <2>1. CASE malloc_attach(c)
    <3>1. cur[c] \in Request
      BY <2>1, Zenon DEF malloc_attach, At, IInv, ClientWaits
    <3>2. attached' = attached \/ attached' = [attached EXCEPT ![c] = @ \cup {cur[c]}]
      BY <2>1, Zenon DEF malloc_attach
    <3> QED
      BY <3>1, <3>2, SMT DEF Stored
  <2>2. CASE ~malloc_attach(c)
    <3>1. attached' = attached
      BY <2>2, Zenon DEF ClientStep, psu_dsm_init, segv_request, psu_dsm_malloc,
           segv_handler
    <3> QED
      BY <3>1, Zenon DEF Stored
  <2> QED
    BY <2>1, <2>2
<1>3. mallocs' \in [Client -> 0 .. MaxMalloc]
  <2>1. \/ mallocs' = mallocs
        \/ /\ mallocs[c] < MaxMalloc
           /\ mallocs' = [mallocs EXCEPT ![c] = @ + 1]
    BY Zenon DEF ClientStep, psu_dsm_init, malloc_attach, segv_request,
         psu_dsm_malloc, segv_handler
  <2> QED
    BY <2>1, BoundAssumption, SMT DEF Stored
<1> QED
  BY <1>1, <1>2, <1>3, Zenon DEF Stored

\* Every variable keeps its type.  In particular each segment has a key_t as
\* its key, whatever the length and the bytes of the name, and every page
\* that a server creates or a client attaches is one that was asked for.
THEOREM TypeCorrect == Spec => []TypeOK
<1>1. Init => Stored
  <2>1. Init => /\ segs = [m \in Machine |-> {}] /\ creators = {}
                /\ attached = [c \in Client |-> {}]
                /\ mallocs = [c \in Client |-> 0]
    BY Zenon DEF Init, ServerInit
  <2> QED
    BY <2>1, BoundAssumption, SMT DEF Stored
<1>2. IInv /\ Stored /\ [Next]_vars => Stored'
  <2> SUFFICES ASSUME IInv, Stored, [Next]_vars PROVE Stored'
    OBVIOUS
  <2>1. ASSUME NEW m \in Machine,
               \/ (creat_no_shm(m) \/ Crash(m)) /\ UNCHANGED clientVars
               \/ UNCHANGED vars
        PROVE  UNCHANGED <<segs, creators, attached, mallocs>>
    BY <2>1, Zenon DEF creat_no_shm, Crash, vars, serverVars, clientVars, memVars
  <2>2. ASSUME NEW p \in Process, CallFails(p), UNCHANGED clientVars
        PROVE  UNCHANGED <<segs, creators, attached, mallocs>>
    BY <2>2, Zenon DEF CallFails, clientVars, memVars
  <2>3. CASE UNCHANGED vars
    BY <2>3, Zenon DEF vars, serverVars, clientVars, memVars, Stored
  <2>4. UNCHANGED <<segs, creators, attached, mallocs>> => Stored'
    BY Zenon DEF Stored
  <2> QED
    BY <2>1, <2>2, <2>3, <2>4, StoredServer, StoredClient, Zenon DEF Next
<1>3. IInv /\ Stored => TypeOK
  <2> SUFFICES ASSUME IInv, Stored PROVE TypeOK
    OBVIOUS
  <2>1. \A S : <<>> \in Seq(S)
    BY SMT
  <2>2. /\ dir \in [Machine -> Seq(Pageid)]
        /\ dsm \in [Process -> Seq(Pageid)]
        /\ hit \in [Machine -> BOOLEAN]
    BY <2>1, SMT DEF IInv, Empty
  <2> QED
    BY <2>2, Zenon DEF IInv, Types, Stored, TypeOK, Key
<1> QED
  BY <1>1, <1>2, <1>3, DsmInductive, PTL DEF Spec
============================================================================
