---------------------------------- MODULE MCRaces ----------------------------------
(***************************************************************************)
(* A run j1 of the watched cron "job" and runs h1 and h2 of the health     *)
(* check; two price lists.                                                 *)
(***************************************************************************)
EXTENDS Races, TLC

CONSTANTS job, health, j1, h1, h2

RacingChecks == j1 :> job @@ h1 :> health @@ h2 :> health

\* A list price, and the same with the add-ons, their discounts and a free period.
SomePlans ==
    {[base |-> 100, salesIdEnabled |-> FALSE, salesId |-> 30, partnerPct |-> 0, cclPct |-> 0,
      cmk |-> 0, freeUntil |-> 0],
     [base |-> 90, salesIdEnabled |-> TRUE, salesId |-> 33, partnerPct |-> 50, cclPct |-> 25,
      cmk |-> 500, freeUntil |-> 2]}

RacesSymmetry == Permutations({h1, h2}) \cup Permutations(Closers)
=============================================================================
