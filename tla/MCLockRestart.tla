--------------------------- MODULE MCLockRestart ----------------------------
(***************************************************************************)
(* Instances of LockRestart for TLC.                                       *)
(***************************************************************************)
EXTENDS LockRestartInvariant, TLC

CONSTANTS a, b, c

\* Two clients on the first machine and one on the second.  The third is a
\* peer of both.
Shared == a :> 1 @@ b :> 1 @@ c :> 2

\* One client of each of the two calls init, acquire and release, the other one
\* init and acquire.
Again == a :> 3 @@ b :> 2 @@ c :> 3

InOrder == 1 :> <<2, 3>> @@ 2 :> <<1, 3>> @@ 3 :> <<1, 2>>
============================================================================
