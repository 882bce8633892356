---------------------------------- MODULE MCRepeats ----------------------------------
(***************************************************************************)
(* Calls r1 and r2 of one body and r3 of another under one key.  The names *)
(* r1 and r2 serve the other scenes too, for two ingests of one mailbox    *)
(* and for two cron runs or requests.                                      *)
(***************************************************************************)
EXTENDS Repeats, TLC

CONSTANTS r1, r2, r3

TwoBodies == r1 :> "b" @@ r2 :> "b" @@ r3 :> "c"

RepeatsSymmetry == Permutations({r1, r2})
=============================================================================
