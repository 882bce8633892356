------------------------------- MODULE CronHealth -------------------------------
(***************************************************************************)
(* Scheduled jobs and the job that watches them, src/lib/cron-health: the  *)
(* heartbeat around every run (record.ts), the advisory lock that keeps    *)
(* two runs of one cron apart (lock.ts), the evaluation of the heartbeats  *)
(* (evaluate.ts) and the alerts of the health check (alert.ts).            *)
(*                                                                         *)
(* The health check is itself a cron: its work is a pass that reads every  *)
(* heartbeat at once and then, cron by cron, claims the right to alert     *)
(* and alerts.  Time counts from 1; 0 stands for a null timestamp.         *)
(***************************************************************************)
EXTENDS Naturals, FiniteSets

CONSTANTS Crons,              \* REGISTERED_CRONS
          HealthCheck,        \* the one named "health-check"
          Runs,               \* invocations; each may be made again and again
          CronOf,             \* run -> cron
          Interval,           \* expectedIntervalMinutes
          Failing,            \* FAILING_FAILURE_THRESHOLD
          MaxTime,            \* bound: time
          QuietAfter,         \* bound: no watched cron succeeds later than this
          MaxFaults           \* bound: crashes, lost writes and lost alerts

ASSUME BoundsAssumption == /\ HealthCheck \in Crons
                           /\ CronOf \in [Runs -> Crons]
                           /\ Interval \in Nat \ {0} /\ Failing \in Nat \ {0}
                           /\ MaxTime \in Nat \ {0} /\ QuietAfter \in Nat /\ MaxFaults \in Nat

VARIABLES lockOn,             \* CRON_CONCURRENCY_LOCK is not "off", for good
          now,
          beat,               \* table CronHeartbeat
          lock,               \* runs inside withCronLock, per cron: while it is on, the
                              \* session that holds the advisory lock
          run,                \* program counter and locals of each invocation
          alerts,             \* how many alerts went out, per cron and time of the pass
          faults

vars == <<lockOn, now, beat, lock, run, alerts, faults>>

Pcs == {"idle", "starting", "work", "pass", "emit", "ok", "failed"}
Times == 1..MaxTime
NoRow == [exists |-> FALSE, lastSuccess |-> 0, failures |-> 0, notified |-> 0]
Idle == [pc |-> "idle", at |-> 0, todo |-> {}, read |-> {}, cur |-> HealthCheck]

Init == /\ lockOn \in BOOLEAN
        /\ now = 1
        /\ beat = [c \in Crons |-> NoRow]
        /\ lock = [c \in Crons |-> {}]
        /\ run = [r \in Runs |-> Idle]
        /\ alerts = [c \in Crons |-> [t \in Times |-> 0]]
        /\ faults = 0

Goto(r, pc) == run' = [run EXCEPT ![r].pc = pc]

\* A fault must leave the time for one more alert, so that a bounded run can show
\* that the health check recovers from it.
MayFault == faults < MaxFaults /\ now + Interval <= MaxTime
Faulty == /\ MayFault
          /\ faults' = faults + 1
          /\ UNCHANGED beat
-----------------------------------------------------------------------------
\* markRunStarted: the upsert, or its swallowed failure.
MarkStarted(r) ==
    /\ run[r].pc = "idle"
    /\ \/ beat' = [beat EXCEPT ![CronOf[r]].exists = TRUE] /\ UNCHANGED faults
       \/ Faulty
    /\ Goto(r, "starting")
    /\ UNCHANGED <<lockOn, now, lock, alerts>>

\* Mutation of MayLock: the result of pg_try_advisory_lock is not looked at.
MayLockAlways(c) == TRUE

\* pg_try_advisory_lock, or no lock at all.
MayLock(c) == lockOn => lock[c] = {}

\* withCronLock: run fn under the lock, skip (an audit row, no heartbeat), or fail to
\* reach the database.
Acquire(r) ==
    /\ run[r].pc = "starting"
    /\ \/ /\ MayLock(CronOf[r])
          /\ lock' = [lock EXCEPT ![CronOf[r]] = @ \cup {r}]
          /\ Goto(r, "work")
          /\ UNCHANGED <<beat, faults>>
       \/ /\ ~ MayLock(CronOf[r])
          /\ run' = [run EXCEPT ![r] = Idle]
          /\ UNCHANGED <<beat, lock, faults>>
       \/ /\ lockOn /\ Faulty
          /\ Goto(r, "failed")
          /\ UNCHANGED lock
    /\ UNCHANGED <<lockOn, now, alerts>>

Release(r) == lock' = [lock EXCEPT ![CronOf[r]] = @ \ {r}]

\* fn of a watched cron returns or throws; the lock is released before the outcome
\* is recorded.
Finish(r) ==
    /\ run[r].pc = "work" /\ CronOf[r] # HealthCheck
    /\ \/ now <= QuietAfter /\ Goto(r, "ok")
       \/ Goto(r, "failed")
    /\ Release(r)
    /\ UNCHANGED <<lockOn, now, beat, alerts, faults>>

\* markRunSucceeded
MarkSucceeded(r) ==
    /\ run[r].pc = "ok"
    /\ LET c == CronOf[r]
       IN  \/ /\ beat[c].exists
              /\ beat' = [beat EXCEPT ![c].lastSuccess = now, ![c].failures = 0]
              /\ UNCHANGED faults
           \/ ~ beat[c].exists /\ UNCHANGED <<beat, faults>>
           \/ Faulty
    /\ run' = [run EXCEPT ![r] = Idle]
    /\ UNCHANGED <<lockOn, now, lock, alerts>>

\* markRunFailed (the counter is kept up to the threshold)
MarkFailed(r) ==
    /\ run[r].pc = "failed"
    /\ LET c == CronOf[r]
       IN  \/ /\ beat[c].exists
              /\ beat' = [beat EXCEPT ![c].failures = IF @ < Failing THEN @ + 1 ELSE @]
              /\ UNCHANGED faults
           \/ ~ beat[c].exists /\ UNCHANGED <<beat, faults>>
           \/ Faulty
    /\ run' = [run EXCEPT ![r] = Idle]
    /\ UNCHANGED <<lockOn, now, lock, alerts>>
-----------------------------------------------------------------------------
Stalled(c) == beat[c].lastSuccess # 0 /\ now - beat[c].lastSuccess > 2 * Interval

\* statusFor
State(c) == CASE beat[c].lastSuccess = 0 -> "never-run"
              [] Stalled(c) -> "stalled"
              [] ~ Stalled(c) /\ beat[c].lastSuccess # 0 /\ beat[c].failures >= Failing -> "failing"
              [] OTHER -> "ok"

\* runHealthCheck reads all heartbeats in one query and keeps those to alert on.
\* What it has read of each is the stalledNotifiedAt it will compare with.
Evaluate(r) ==
    /\ run[r].pc = "work" /\ CronOf[r] = HealthCheck
    /\ LET bad == {c \in Crons \ {HealthCheck} : State(c) \in {"stalled", "failing"}}
       IN  run' = [run EXCEPT ![r].pc = "pass", ![r].at = now, ![r].todo = bad,
                              ![r].read = {<<c, beat[c].notified>> : c \in bad}]
    /\ UNCHANGED <<lockOn, now, beat, lock, alerts, faults>>

\* Mutation of Due: an alert is never repeated.
DueOnce(at, previous) == previous = 0

\* The cooldown: one expected interval since the last notification.
Due(at, previous) == previous = 0 \/ at - previous >= Interval

\* Mutation of Claims: the update is not conditional.
ClaimsBlindly(r, c) == TRUE

\* where: { stalledNotifiedAt: <previous value> }
Claims(r, c) == <<c, beat[c].notified>> \in run[r].read

\* markAlertFiredIfDue: the conditional update of stalledNotifiedAt.
Claim(r) ==
    /\ run[r].pc = "pass"
    /\ \E c \in run[r].todo :
          IF \E read \in run[r].read : read[1] = c /\ Due(run[r].at, read[2]) /\ Claims(r, c)
          THEN /\ beat' = [beat EXCEPT ![c].notified = run[r].at]
               /\ run' = [run EXCEPT ![r].pc = "emit", ![r].cur = c, ![r].todo = @ \ {c}]
          ELSE /\ run' = [run EXCEPT ![r].todo = @ \ {c}]
               /\ UNCHANGED beat
    /\ UNCHANGED <<lockOn, now, lock, alerts, faults>>

\* emitStalledAlert: audit row and notifications.  It swallows its errors, so an
\* alert may also be lost.
Emit(r) ==
    /\ run[r].pc = "emit"
    /\ \/ alerts' = [alerts EXCEPT ![run[r].cur][run[r].at] = @ + 1] /\ UNCHANGED <<faults, beat>>
       \/ Faulty /\ UNCHANGED alerts
    /\ Goto(r, "pass")
    /\ UNCHANGED <<lockOn, now, lock>>

EndPass(r) == /\ run[r].pc = "pass" /\ run[r].todo = {}
              /\ Goto(r, "ok")
              /\ Release(r)
              /\ UNCHANGED <<lockOn, now, beat, alerts, faults>>

\* A query of the pass throws: the rest of the pass is not done.
PassThrows(r) == /\ run[r].pc = "pass" \/ (run[r].pc = "work" /\ CronOf[r] = HealthCheck)
                 /\ MayFault /\ faults' = faults + 1
                 /\ Goto(r, "failed")
                 /\ Release(r)
                 /\ UNCHANGED <<lockOn, now, beat, alerts>>

\* The process dies; its database session ends, and with it the lock.
Crash(r) == /\ run[r].pc # "idle"
            /\ MayFault /\ faults' = faults + 1
            /\ run' = [run EXCEPT ![r] = Idle]
            /\ Release(r)
            /\ UNCHANGED <<lockOn, now, beat, alerts>>

\* A success is recorded before QuietAfter has passed.
Tick == /\ now < MaxTime
        /\ now = QuietAfter => \A r \in Runs : CronOf[r] # HealthCheck => run[r].pc # "ok"
        /\ now' = now + 1
        /\ UNCHANGED <<lockOn, beat, lock, run, alerts, faults>>

RunStep(r) == \/ MarkStarted(r) \/ Acquire(r) \/ MarkSucceeded(r) \/ MarkFailed(r)
              \/ Finish(r) \/ Evaluate(r) \/ Claim(r) \/ Emit(r) \/ EndPass(r)

Next == Tick \/ \E r \in Runs : RunStep(r) \/ PassThrows(r) \/ Crash(r)

Spec == Init /\ [][Next]_vars

\* The health check goes on being scheduled and time passes; the crons it watches
\* may stop at any point.
FairSpec == /\ Spec
            /\ WF_vars(Tick)
            /\ \A r \in Runs : CronOf[r] = HealthCheck => WF_vars(RunStep(r))
-----------------------------------------------------------------------------
Heartbeat == [exists : BOOLEAN, lastSuccess : 0..MaxTime,
              failures : 0..Failing, notified : 0..MaxTime]
Invocation == [pc : Pcs, at : 0..MaxTime, todo : SUBSET Crons,
               read : SUBSET (Crons \X (0..MaxTime)), cur : Crons]
TypeOK ==
    /\ lockOn \in BOOLEAN
    /\ now \in Times /\ faults \in 0..MaxFaults
    /\ beat \in [Crons -> Heartbeat]
    /\ lock \in [Crons -> SUBSET Runs]
    /\ run \in [Runs -> Invocation]
    /\ alerts \in [Crons -> [Times -> Nat]]

InWork(r) == run[r].pc \in {"work", "pass", "emit"}

\* The advisory lock keeps two runs of one cron from working at the same time,
\* wherever runs fail, throw or die (lock.ts).
OneRunPerCron == lockOn => \A r, q \in Runs : CronOf[r] = CronOf[q] /\ InWork(r) /\ InWork(q)
                                              => r = q

\* What makes the lock work: a session is in the lock exactly while its run works, and
\* with the lock on it is there alone.
LockInv == /\ TypeOK
           /\ \A r \in Runs, c \in Crons : r \in lock[c] <=> CronOf[r] = c /\ InWork(r)
           /\ lockOn => \A c \in Crons : \A r, q \in lock[c] : r = q

\* What makes the alerts spaced: the claim times that are out (alerts sent, or about to
\* be sent) are single, at least an interval apart and not after stalledNotifiedAt; and
\* a pass has read one stalledNotifiedAt of each cron.
Emitting(r, c, t) == run[r].pc = "emit" /\ run[r].cur = c /\ run[r].at = t
Claimed(c, t) == alerts[c][t] > 0 \/ \E r \in Runs : Emitting(r, c, t)
AlertInv ==
    /\ \A r \in Runs : \A a, b \in run[r].read : a[1] = b[1] => a = b
    /\ \A c \in Crons : \A t, u \in Times :
       /\ alerts[c][t] <= 1
       /\ Claimed(c, t) => t <= beat[c].notified
       /\ Claimed(c, t) /\ Claimed(c, u) /\ t < u => u - t >= Interval
       /\ \A r, q \in Runs : Emitting(r, c, t) /\ Emitting(q, c, t) => r = q /\ alerts[c][t] = 0

\* Two racing health checks never both alert, and alerts for one cron are at least
\* its expected interval apart (alert.ts: "Safe to call concurrently").
AlertsSpaced == \A c \in Crons : \A t, u \in Times :
                   /\ alerts[c][t] <= 1
                   /\ alerts[c][t] > 0 /\ alerts[c][u] > 0 /\ t < u => u - t >= Interval

\* A cron that stops succeeding for good is alerted on after it has stalled, even
\* when a pass dies between its claim and its alert.
StallIsAlerted ==
    \A c \in Crons \ {HealthCheck} :
        <>[]Stalled(c) => <>(/\ Stalled(c)
                             /\ \E t \in Times : /\ alerts[c][t] > 0
                                                 /\ t > beat[c].lastSuccess + 2 * Interval)
=============================================================================
