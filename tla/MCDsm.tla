------------------------------- MODULE MCDsm -------------------------------
(***************************************************************************)
(* Small instances of Dsm.  NAME_LEN is 3; names are ASCII bytes.          *)
(***************************************************************************)
EXTENDS DsmInvariant, TLC

CONSTANTS m1, m2, c1, c2

TwoServers == <<m1, m2>>

Apart == c1 :> m1 @@ c2 :> m2

Req(name, size) == [name |-> name, size |-> size]

ab == <<97, 98>>
abc == <<97, 98, 99>>

Mixed == {Req(ab, 100), Req(abc, 8192)}

PageidsOf(requests) == {pageid(r.name, r.size) : r \in requests}
MixedPages == PageidsOf(Mixed)
============================================================================
