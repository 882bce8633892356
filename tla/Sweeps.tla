---------------------------------- MODULE Sweeps ----------------------------------
(***************************************************************************)
(* The jobs that a scheduler starts and that something must come of: the   *)
(* daily verification of the audit chains, the health check over the       *)
(* crons' heartbeats and the deletion of terminated tenants.  They share   *)
(* no row: a behaviour moves one of them, the scene, and leaves the others *)
(* as they began, so that one run checks the sum of the three state spaces *)
(* and not their product.                                                  *)
(***************************************************************************)
EXTENDS AuditVerify

CONSTANTS Crons, HealthCheck, Runs, CronOf, Interval, Failing, QuietAfter,
          LastTick,            \* bound: time of the health check
          Requests, Window, Writable, MaxWrites,
          Horizon              \* bound: time of the termination

VARIABLES scene,
          lockOn, now, beat, lock, run, cronAlerts,
          tenant, rows, package, req, sweep, written, writes

H == INSTANCE CronHealth WITH MaxTime <- LastTick, alerts <- cronAlerts

T == INSTANCE Termination WITH MaxTime <- Horizon

OfV == <<day, failsAt, row, pass, alerts>>
OfH == <<lockOn, beat, lock, run, cronAlerts>>
OfT == <<tenant, rows, package, req, sweep, written, writes>>
all == <<scene, now, faults, OfV, OfH, OfT>>

SweepsInit == /\ scene \in {"verify", "health", "termination"}
              /\ Init /\ H!Init /\ T!Init
              /\ lockOn \/ scene = "health"

Verifying == scene = "verify" /\ UNCHANGED <<scene, now, OfH, OfT>>
Checking == scene = "health" /\ UNCHANGED <<scene, OfV, OfT>>
Terminating == scene = "termination" /\ UNCHANGED <<scene, OfV, OfH>>

SweepsNext == \/ Verifying /\ Next
              \/ Checking /\ H!Next
              \/ Terminating /\ T!Next

\* The fairness of each specification.
SweepsSpec ==
    /\ SweepsInit /\ [][SweepsNext]_all
    /\ WF_all(Verifying /\ NextDay)
    /\ \A p \in Passes : WF_all(Verifying /\ PassStep(p))
    /\ WF_all(Checking /\ H!Tick)
    /\ \A r \in Runs : CronOf[r] = HealthCheck => WF_all(Checking /\ H!RunStep(r))
    /\ WF_all(Terminating /\ T!SweepStep) /\ WF_all(Terminating /\ T!Tick)
-----------------------------------------------------------------------------
\* CronHealth.tla and Termination.tla state these.
StallIsAlerted == H!StallIsAlerted
SweepIsThorough == scene = "termination" => T!SweepIsThorough
DueTenantGoes == T!DueTenantGoes
=============================================================================
