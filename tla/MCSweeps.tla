--------------------------------- MODULE MCSweeps ---------------------------------
(***************************************************************************)
(* Two verifications p1 and q1 on day 1 and one a day after that; a run j1 *)
(* of the watched cron "job" and one run h1 of the health check.           *)
(***************************************************************************)
EXTENDS Sweeps, TLC

CONSTANTS p1, q1, p2, p3, p4, job, health, j1, h1

TwiceThenDaily == p1 :> 1 @@ q1 :> 1 @@ p2 :> 2 @@ p3 :> 3 @@ p4 :> 4
OneCheck == j1 :> job @@ h1 :> health
=============================================================================
