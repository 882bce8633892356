---------------------------------- MODULE Events ----------------------------------
(***************************************************************************)
(* The way of an event: into the audit chain and to the subscriptions, and *)
(* from a delivery's row to its receiver.  In the code the worker reads    *)
(* the rows that the fan-out makes; here each has a table of its own, and  *)
(* a behaviour moves one of them, the scene, and leaves the other as it    *)
(* began.                                                                  *)
(***************************************************************************)
EXTENDS AuditChain

CONSTANTS Workers, Hooks, Deliveries, HookOf, MaxAttempts, Threshold, Undecryptable,
          CronLock, SlowWorkers, MaxFaults, MaxFailures

VARIABLES scene,
          row, sub, worker, editing, received, unsure, faults

W == INSTANCE WebhookDelivery WITH Subs <- Hooks, SubOf <- HookOf

OfW == <<row, sub, worker, editing, received, unsure, faults>>
all == <<scene, vars, OfW>>

Appending == scene = "append" /\ UNCHANGED <<scene, OfW>>
Delivering == scene = "deliver" /\ UNCHANGED <<scene, vars>>

EventsInit == /\ scene \in {"append", "deliver"} /\ Init /\ W!Init
              /\ scene = "deliver" => \A s \in Subs : subscription[s] = "enabled"
EventsNext == (Appending /\ Next) \/ (Delivering /\ W!Next)

\* The fairness of each specification.
EventsSpec ==
    /\ EventsInit /\ [][EventsNext]_all
    /\ \A op \in Ops : WF_all(Appending /\ OpStep(op))
    /\ \A w \in Workers : WF_all(Delivering /\ W!WorkerStep(w))
    /\ \A d \in Deliveries : /\ WF_all(Delivering /\ W!BackoffElapses(d))
                             /\ WF_all(Delivering /\ W!GoesStale(d))
-----------------------------------------------------------------------------
\* WebhookDelivery.tla states these, of its scene.
RowLockInv == scene = "deliver" => W!RowLockInv
DuplicateHasCause == scene = "deliver" => W!DuplicateHasCause
LedgerSpec == W!LedgerSpec
EveryDeliverySettles == W!EveryDeliverySettles
=============================================================================
