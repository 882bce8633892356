---------------------------- MODULE WebhookDelivery ----------------------------
(***************************************************************************)
(* The outbound webhook worker, src/lib/webhooks/deliver.ts, with what     *)
(* happens around it: rows enqueued by dispatch.ts, replay and test-fire,  *)
(* subscriptions edited and deleted by administrators, receivers that      *)
(* fail or whose answer is lost, workers that die or throw, and the sweep  *)
(* that prunes settled rows.                                               *)
(*                                                                         *)
(* A worker is one run of runWebhookDeliveryBatch.  Every await is a step  *)
(* of its own, so a worker acts on the subscription it loaded when it      *)
(* locked the row.  Times are abstracted to what the code compares them    *)
(* with: "due" is scheduledFor <= now, "stale" is updatedAt < now - 5 min. *)
(***************************************************************************)
EXTENDS Naturals, FiniteSets

CONSTANTS Workers, Subs, Deliveries,
          SubOf,              \* delivery -> subscription
          MaxAttempts,        \* WebhookDelivery.maxAttempts
          Threshold,          \* WebhookSubscription.autoDisableThreshold
          Undecryptable,      \* subscriptions whose secret decryptJson throws on
          CronLock,           \* batches exclude one another (withCronLock)
          SlowWorkers,        \* an attempt may outlast IN_FLIGHT_STALE_MS (5 min);
                              \* one POST is cut off after 15 s
          MaxFaults,          \* bound: workers dying or throwing, altogether
          MaxFailures         \* bound: value of consecutiveFailures

VARIABLES row,                \* table WebhookDelivery
          sub,                \* table WebhookSubscription
          worker,             \* program counter and locals of each worker
          editing,            \* what an administrator's PATCH has read of `enabled`
          received,           \* how often the receiver accepted each delivery
          unsure,             \* accepted, but no worker lived to record it
          faults

vars == <<row, sub, worker, editing, received, unsure, faults>>

Terminal == {"DELIVERED", "DEAD_LETTERED"}
Statuses == Terminal \cup {"none", "PENDING", "IN_FLIGHT", "gone"}
Pcs == {"idle", "select", "next", "load", "post", "retry", "delivered", "dead",
        "audit", "check", "disable"}
Idle == [pc |-> "idle", todo |-> {}, cur |-> "none", attempt |-> 0,
         enabled |-> FALSE, ok |-> FALSE]
NoRow == [status |-> "none", attempt |-> 0, due |-> FALSE, stale |-> FALSE]
GoneRow == [NoRow EXCEPT !.status = "gone"]

Deleted(s) == sub[s].deleted
Holds(w, d) == worker[w].cur = d
Step(w, pc) == worker' = [worker EXCEPT ![w].pc = pc]
-----------------------------------------------------------------------------
Init == /\ row = [d \in Deliveries |-> NoRow]
        /\ sub = [s \in Subs |-> [enabled |-> TRUE, failures |-> 0, deleted |-> FALSE]]
        /\ worker = [w \in Workers |-> Idle]
        /\ editing = [s \in Subs |-> "none"]
        /\ received = [d \in Deliveries |-> 0]
        /\ unsure = [d \in Deliveries |-> 0]
        /\ faults = 0

\* enqueueWebhooks reads enabled before it inserts, replayDelivery and
\* fireTestEvent do not look at it: a row may be created whatever it is now.  A
\* replay is a new row with the payload of an old one.
Enqueue(d) ==
    /\ row[d].status = "none" /\ ~ Deleted(SubOf[d])
    /\ row' = [row EXCEPT ![d] = [NoRow EXCEPT !.status = "PENDING", !.due = TRUE]]
    /\ UNCHANGED <<sub, worker, editing, received, unsure, faults>>

\* Mutation of StartBatch: reclaim ignores updatedAt.
StartBatchReclaimAll(w) ==
    /\ worker[w].pc = "idle"
    /\ CronLock => \A v \in Workers : worker[v].pc = "idle"
    /\ row' = [d \in Deliveries |-> IF row[d].status = "IN_FLIGHT"
                                    THEN [row[d] EXCEPT !.status = "PENDING", !.stale = FALSE]
                                    ELSE row[d]]
    /\ Step(w, "select")
    /\ UNCHANGED <<sub, editing, received, unsure, faults>>

\* Mutation of StartBatch: no reclaim.
StartBatchNoReclaim(w) ==
    /\ worker[w].pc = "idle"
    /\ CronLock => \A v \in Workers : worker[v].pc = "idle"
    /\ Step(w, "select")
    /\ UNCHANGED <<row, sub, editing, received, unsure, faults>>

\* The scheduler's call gets the advisory lock, or runs without one, and the batch
\* begins with reclaimStaleInFlight.
StartBatch(w) ==
    /\ worker[w].pc = "idle"
    /\ CronLock => \A v \in Workers : worker[v].pc = "idle"
    /\ row' = [d \in Deliveries |-> IF row[d].status = "IN_FLIGHT" /\ row[d].stale
                                    THEN [row[d] EXCEPT !.status = "PENDING", !.stale = FALSE]
                                    ELSE row[d]]
    /\ Step(w, "select")
    /\ UNCHANGED <<sub, editing, received, unsure, faults>>

\* The candidates: every due PENDING row (a batch takes 50, oldest first).
Select(w) ==
    /\ worker[w].pc = "select"
    /\ worker' = [worker EXCEPT ![w].pc = "next",
                     ![w].todo = {d \in Deliveries : row[d].status = "PENDING" /\ row[d].due}]
    /\ UNCHANGED <<row, sub, editing, received, unsure, faults>>

\* Mutation of LockDelivery: the update is not conditional on the status.
LockAnyStatus(w) ==
    /\ worker[w].pc = "next"
    /\ \E d \in worker[w].todo :
          /\ row[d].status # "gone"
          /\ row' = [row EXCEPT ![d].status = "IN_FLIGHT", ![d].stale = FALSE]
          /\ worker' = [worker EXCEPT ![w].pc = "load", ![w].cur = d, ![w].todo = @ \ {d}]
    /\ UNCHANGED <<sub, editing, received, unsure, faults>>

\* lockDelivery: PENDING -> IN_FLIGHT in one conditional update, or skip the row.
LockDelivery(w) ==
    /\ worker[w].pc = "next"
    /\ \E d \in worker[w].todo :
          IF row[d].status = "PENDING" /\ row[d].due
          THEN /\ row' = [row EXCEPT ![d].status = "IN_FLIGHT", ![d].stale = FALSE]
               /\ worker' = [worker EXCEPT ![w].pc = "load", ![w].cur = d, ![w].todo = @ \ {d}]
          ELSE /\ worker' = [worker EXCEPT ![w].todo = @ \ {d}]
               /\ UNCHANGED row
    /\ UNCHANGED <<sub, editing, received, unsure, faults>>

EndBatch(w) == /\ worker[w].pc = "next" /\ worker[w].todo = {}
               /\ worker' = [worker EXCEPT ![w] = Idle]
               /\ UNCHANGED <<row, sub, editing, received, unsure, faults>>

\* loadFullDelivery, and attemptDelivery's first tests on what it returned.
Load(w) ==
    /\ worker[w].pc = "load"
    /\ LET d == worker[w].cur
       IN  worker' = [worker EXCEPT
               ![w].pc = IF row[d].status = "gone" THEN "next"
                         ELSE IF sub[SubOf[d]].enabled THEN "post" ELSE "dead",
               ![w].cur = IF row[d].status = "gone" THEN "none" ELSE d,
               ![w].attempt = row[d].attempt + 1,
               ![w].enabled = sub[SubOf[d]].enabled]
    /\ UNCHANGED <<row, sub, editing, received, unsure, faults>>

LastAttempt(w) == worker[w].attempt >= MaxAttempts

\* The POST: accepted and answered 2xx; accepted, but the answer is lost or late;
\* refused, unreachable or blocked by the egress check.  A URL that no longer
\* parses settles the row at once.
Post(w) ==
    /\ worker[w].pc = "post"
    /\ LET d == worker[w].cur
           last == LastAttempt(w)
       IN  /\ SubOf[d] \notin Undecryptable
           /\ \/ /\ worker' = [worker EXCEPT ![w].pc = "delivered", ![w].ok = TRUE]
                 /\ received' = [received EXCEPT ![d] = @ + 1]
                 /\ UNCHANGED unsure
              \/ /\ worker' = [worker EXCEPT ![w].pc = IF last THEN "dead" ELSE "retry"]
                 /\ received' = [received EXCEPT ![d] = @ + 1]
                 /\ unsure' = [unsure EXCEPT ![d] = @ + 1]
              \/ /\ worker' = [worker EXCEPT ![w].pc = IF last THEN "dead" ELSE "retry"]
                 /\ UNCHANGED <<received, unsure>>
              \/ /\ worker' = [worker EXCEPT ![w].pc = "dead"]
                 /\ UNCHANGED <<received, unsure>>
    /\ UNCHANGED <<row, sub, editing, faults>>

\* Back to PENDING with a backoff.
Retry(w) ==
    /\ worker[w].pc = "retry"
    /\ LET d == worker[w].cur
       IN  /\ row[d].status # "gone"
           /\ row' = [row EXCEPT ![d] = [status |-> "PENDING", attempt |-> worker[w].attempt,
                                         due |-> FALSE, stale |-> FALSE]]
    /\ worker' = [worker EXCEPT ![w].pc = "next", ![w].cur = "none"]
    /\ UNCHANGED <<sub, editing, received, unsure, faults>>

SettleRow(w, status) ==
    row' = [row EXCEPT ![worker[w].cur] = [status |-> status, attempt |-> worker[w].attempt,
                                           due |-> FALSE, stale |-> FALSE]]

FinaliseDelivered(w) ==
    /\ worker[w].pc = "delivered"
    /\ row[worker[w].cur].status # "gone"
    /\ SettleRow(w, "DELIVERED")
    /\ sub' = [sub EXCEPT ![SubOf[worker[w].cur]].failures = 0]
    /\ Step(w, "audit")
    /\ UNCHANGED <<editing, received, unsure, faults>>

FinaliseDeadLetter(w) ==
    /\ worker[w].pc = "dead"
    /\ LET d == worker[w].cur
           s == SubOf[d]
       IN  /\ row[d].status # "gone"
           /\ SettleRow(w, "DEAD_LETTERED")
           /\ sub' = [sub EXCEPT ![s].failures = IF @ < MaxFailures THEN @ + 1 ELSE @]
    /\ Step(w, "audit")
    /\ UNCHANGED <<editing, received, unsure, faults>>

\* The outcome is in the audit chain; dead letters of an enabled subscription go on
\* to maybeAutoDisable.
AuditOutcome(w) ==
    /\ worker[w].pc = "audit"
    /\ worker' = IF worker[w].enabled /\ ~ worker[w].ok
                 THEN [worker EXCEPT ![w].pc = "check"]
                 ELSE [worker EXCEPT ![w].pc = "next", ![w].cur = "none", ![w].ok = FALSE]
    /\ UNCHANGED <<row, sub, editing, received, unsure, faults>>

Tripped(s) == sub[s].enabled /\ ~ Deleted(s) /\ sub[s].failures >= Threshold

\* maybeAutoDisable reads the subscription again ...
CheckAutoDisable(w) ==
    /\ worker[w].pc = "check"
    /\ worker' = IF Tripped(SubOf[worker[w].cur])
                 THEN [worker EXCEPT ![w].pc = "disable"]
                 ELSE [worker EXCEPT ![w].pc = "next", ![w].cur = "none"]
    /\ UNCHANGED <<row, sub, editing, received, unsure, faults>>

\* ... and disables it, then audits and notifies.
AutoDisable(w) ==
    /\ worker[w].pc = "disable"
    /\ ~ Deleted(SubOf[worker[w].cur])
    /\ sub' = [sub EXCEPT ![SubOf[worker[w].cur]].enabled = FALSE]
    /\ worker' = [worker EXCEPT ![w].pc = "next", ![w].cur = "none"]
    /\ UNCHANGED <<row, editing, received, unsure, faults>>

\* An update of a row that a deletion has removed throws, and the batch ends.
Throws(w) == \/ /\ worker[w].pc \in {"retry", "delivered", "dead"}
                /\ row[worker[w].cur].status = "gone"
             \/ worker[w].pc = "disable" /\ Deleted(SubOf[worker[w].cur])
             \/ worker[w].pc = "post" /\ SubOf[worker[w].cur] \in Undecryptable

Abandon(w) ==
    /\ worker' = [worker EXCEPT ![w] = Idle]
    /\ unsure' = IF worker[w].pc = "delivered"
                 THEN [unsure EXCEPT ![worker[w].cur] = @ + 1] ELSE unsure
    /\ UNCHANGED <<row, sub, editing, received>>

ThrowMissing(w) == Throws(w) /\ Abandon(w) /\ UNCHANGED faults

\* The process dies, or a database call throws (an audit write that loses its
\* race), anywhere in a batch.
Fault(w) == /\ worker[w].pc # "idle" /\ faults < MaxFaults
            /\ faults' = faults + 1
            /\ Abandon(w)

\* Time.  A row stays IN_FLIGHT past the timeout when its worker is gone, or slow.
BackoffElapses(d) ==
    /\ row[d].status = "PENDING" /\ ~ row[d].due
    /\ row' = [row EXCEPT ![d].due = TRUE]
    /\ UNCHANGED <<sub, worker, editing, received, unsure, faults>>

GoesStale(d) ==
    /\ row[d].status = "IN_FLIGHT" /\ ~ row[d].stale
    /\ SlowWorkers \/ \A w \in Workers : ~ Holds(w, d)
    /\ row' = [row EXCEPT ![d].stale = TRUE]
    /\ UNCHANGED <<sub, worker, editing, received, unsure, faults>>

\* updateSubscription({ enabled }): read the row, then write the patch computed
\* from what was read.
ReadForUpdate(s) ==
    /\ ~ Deleted(s) /\ editing[s] = "none"
    /\ editing' = [editing EXCEPT ![s] = IF sub[s].enabled THEN "enabled" ELSE "disabled"]
    /\ UNCHANGED <<row, sub, worker, received, unsure, faults>>

UpdateSubscription(s) ==
    /\ editing[s] # "none" /\ ~ Deleted(s)
    /\ \E e \in BOOLEAN :
          sub' = [sub EXCEPT ![s].enabled = e,
                             ![s].failures = IF e /\ editing[s] = "disabled" THEN 0 ELSE @]
    /\ editing' = [editing EXCEPT ![s] = "none"]
    /\ UNCHANGED <<row, worker, received, unsure, faults>>

DeleteSubscription(s) ==
    /\ ~ Deleted(s)
    /\ sub' = [sub EXCEPT ![s].deleted = TRUE]
    /\ row' = [d \in Deliveries |-> IF SubOf[d] = s /\ row[d].status # "none"
                                    THEN GoneRow ELSE row[d]]
    /\ editing' = [editing EXCEPT ![s] = "none"]
    /\ UNCHANGED <<worker, received, unsure, faults>>

\* reapOldDeliveries: settled rows past their retention.
Reap(d) == /\ row[d].status \in Terminal
           /\ \A w \in Workers : ~ Holds(w, d)
           /\ row' = [row EXCEPT ![d] = GoneRow]
           /\ UNCHANGED <<sub, worker, editing, received, unsure, faults>>

WorkerStep(w) == \/ StartBatch(w) \/ Select(w) \/ LockDelivery(w) \/ EndBatch(w)
                 \/ Load(w) \/ Post(w) \/ Retry(w)
                 \/ FinaliseDelivered(w) \/ FinaliseDeadLetter(w) \/ AuditOutcome(w)
                 \/ CheckAutoDisable(w) \/ AutoDisable(w) \/ ThrowMissing(w)

Next == \/ \E w \in Workers : WorkerStep(w) \/ Fault(w)
        \/ \E d \in Deliveries : Enqueue(d) \/ BackoffElapses(d) \/ GoesStale(d) \/ Reap(d)
        \/ \E s \in Subs : ReadForUpdate(s) \/ UpdateSubscription(s) \/ DeleteSubscription(s)

Spec == Init /\ [][Next]_vars

\* The scheduler keeps calling, a live worker runs on, and time passes.  Nothing is
\* assumed of receivers, administrators, enqueuers or the retention sweep.
FairSpec == /\ Spec
            /\ \A w \in Workers : WF_vars(WorkerStep(w))
            /\ \A d \in Deliveries : WF_vars(BackoffElapses(d)) /\ WF_vars(GoesStale(d))
-----------------------------------------------------------------------------
TypeOK ==
    /\ row \in [Deliveries -> [status : Statuses, attempt : 0..MaxAttempts,
                               due : BOOLEAN, stale : BOOLEAN]]
    /\ sub \in [Subs -> [enabled : BOOLEAN, failures : 0..MaxFailures, deleted : BOOLEAN]]
    /\ worker \in [Workers -> [pc : Pcs, todo : SUBSET Deliveries,
                                cur : Deliveries \cup {"none"}, attempt : 0..MaxAttempts,
                                enabled : BOOLEAN, ok : BOOLEAN]]
    /\ editing \in [Subs -> {"none", "enabled", "disabled"}]
    /\ received \in [Deliveries -> Nat] /\ unsure \in [Deliveries -> Nat]
    /\ faults \in 0..MaxFaults

\* Two workers never work on one row, whether or not batches overlap, as long as an
\* attempt ends within the five minutes after which its row is taken for abandoned.
OneWorkerPerRow == \A d \in Deliveries : Cardinality({w \in Workers : Holds(w, d)}) <= 1

\* A row in flight has a worker, or had one that died: no row is left in flight by a
\* batch that ran to its end, and no settled or waiting row is in a worker's hands
\* before that worker has settled it.
InFlightIsHeld ==
    /\ \A d \in Deliveries : row[d].status = "IN_FLIGHT" /\ faults = 0 /\ Undecryptable = {}
                              /\ (\A s \in Subs : ~ Deleted(s))
                              => \E w \in Workers : Holds(w, d)
    /\ \A w \in Workers : worker[w].pc \in {"load", "post", "retry", "delivered", "dead"}
                           => row[worker[w].cur].status \in {"IN_FLIGHT", "gone"}

\* The lock on a row: what it is, who holds it, and that one does.
RowLockInv == TypeOK /\ OneWorkerPerRow /\ InFlightIsHeld

\* The receiver accepts a delivery a second time only because an earlier acceptance
\* was never recorded: its answer was lost, or its worker died before the update.
DuplicateHasCause == \A d \in Deliveries : received[d] <= 1 + unsure[d]

\* One delivery, seen from outside: opened, accepted, settled once, removed.
outcome == [d \in Deliveries |-> CASE row[d].status \in {"PENDING", "IN_FLIGHT"} -> "open"
                                  [] row[d].status = "DELIVERED" -> "delivered"
                                  [] row[d].status = "DEAD_LETTERED" -> "dead"
                                  [] OTHER -> row[d].status]
Ledger == INSTANCE DeliveryLedger WITH accepted <- received
LedgerSpec == Ledger!Spec

\* A delivery that was enqueued is settled, or removed, whatever its receiver does
\* and wherever workers die: after maxAttempts the row is DEAD_LETTERED
\* (deliver.ts).
EveryDeliverySettles ==
    \A d \in Deliveries : row[d].status = "PENDING" ~> row[d].status \in Terminal \cup {"gone"}
=============================================================================
