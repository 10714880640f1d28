------------------------------ MODULE DsmUtil ------------------------------
(***************************************************************************)
(* The lists, names and keys of the distributed shared memory (util.c and  *)
(* the strncpy calls around it).  A name is a sequence of nonzero bytes; a *)
(* pageid_t is the NAME_LEN bytes that strncpy makes of it, followed in    *)
(* memory by the four bytes of the size.                                   *)
(*                                                                         *)
(* A definition whose name has a suffix is a wrong version of the one      *)
(* after it.                                                               *)
(***************************************************************************)
EXTENDS Integers, Sequences

CONSTANTS
  NAME_LEN,  \* length of pageid_t.name (32 in psu_dsm_msg.x)
  KeyRange   \* number of values of a key_t (2^32)

ASSUME DsmUtilAssumption == NAME_LEN \in Nat \ {0}

\* 5381, the value hash starts from, is a key.
ASSUME KeyRangeAssumption == KeyRange \in Nat /\ KeyRange > 5381

\* The names and the sizes that occur.  The sizes stop below 2^24, so that
\* the last byte of a size is always a zero.
Name == Seq(1 .. 255)
Size == {n \in Nat : n < 16777216}

\* The indexes of the zero bytes of a memory area, and the bytes before the
\* first of them (all, when there is none): the C string that starts there.
Zeros(area) == {i \in DOMAIN area : area[i] = 0}
cstr(area) ==
  IF Zeros(area) = {} THEN area
  ELSE SubSeq(area, 1, (CHOOSE i \in Zeros(area) :
                          \A j \in Zeros(area) : i <= j) - 1)

\* strncpy pads with zeros and leaves a name of NAME_LEN bytes or more
\* without a terminating zero.
strncpy(name) ==
  [i \in 1 .. NAME_LEN |-> IF i <= Len(name) THEN name[i] ELSE 0]

bytes(size) ==
  <<size % 256, (size \div 256) % 256, (size \div 65536) % 256,
    size \div 16777216>>

\* The request a client builds from the arguments of psu_dsm_malloc.
pageid(name, size) == [name |-> strncpy(name), size |-> size]

\* hash * 33 + c over the bytes of a string, as the int that shmget takes.
hash_Untruncated(str) ==
  LET h[i \in 0 .. Len(str)] ==
        IF i = 0 THEN 5381 ELSE h[i - 1] * 33 + str[i]
  IN  h[Len(str)]
hash(str) ==
  LET h[i \in 0 .. Len(str)] ==
        IF i = 0 THEN 5381 ELSE (h[i - 1] * 33 + str[i]) % KeyRange
  IN  h[Len(str)]

\* The key of psu_dsm_malloc is that of the whole name.
clientKey(name) == hash(name)

\* hash(pageid.name): nothing ends the string at the end of the array.
serverKey_SkipsFirst(page) == hash(Tail(cstr(page.name \o bytes(page.size))))
serverKey(page) == hash(cstr(page.name \o bytes(page.size)))

\* search_dir and search_dsm find a page by the strncmp of its name.
search_dir_Inverted(page, list) ==
  \A i \in DOMAIN list : cstr(list[i].name) # cstr(page.name)
search_dir(page, list) ==
  \E i \in DOMAIN list : cstr(list[i].name) = cstr(page.name)

\* The head of the list is passed by value, so the first entry is lost:
\* an insertion has an effect only on a list that is not empty.
insert_dir(page, list) == IF list = <<>> THEN list ELSE Append(list, page)
insert_dsm(page, list) == IF list = <<>> THEN list ELSE Append(list, page)
============================================================================
