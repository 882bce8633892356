---------------------------------- MODULE Races ----------------------------------
(***************************************************************************)
(* Scheduled work that races with another run of itself: runs of crons on  *)
(* their heartbeats, and closes of a billing month.  They share no row: a  *)
(* behaviour moves one of them, the scene, and leaves the other as it      *)
(* began.                                                                  *)
(***************************************************************************)
EXTENDS CronHealth

CONSTANTS Members, Closers, Plans, MonthLength,
          Horizon              \* bound: time of the billing

VARIABLES scene,
          day, member, drafts, plan, period, snapshots, close, logins

B == INSTANCE Billing WITH MaxTime <- Horizon, now <- day, run <- close

OfB == <<day, member, drafts, plan, period, snapshots, close, logins>>

RacesInit == /\ scene \in {"crons", "billing"} /\ Init /\ B!Init
             /\ lockOn \/ scene = "crons"

RacesNext == /\ UNCHANGED scene
             /\ \/ scene = "crons" /\ Next /\ UNCHANGED OfB
                \/ scene = "billing" /\ B!Next /\ UNCHANGED vars

RacesSpec == RacesInit /\ [][RacesNext]_<<scene, vars, OfB>>
-----------------------------------------------------------------------------
\* Billing.tla states these, of its scene.
ClosedIsFair == scene = "billing" => B!ClosedIsFair
ActiveIsBilled == scene = "billing" => B!ActiveIsBilled
=============================================================================
