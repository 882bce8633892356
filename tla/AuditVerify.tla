------------------------------ MODULE AuditVerify ------------------------------
(***************************************************************************)
(* The daily verification of every tenant's audit chain and its tamper     *)
(* alerts, src/lib/audit-verify/run.ts.  The walk itself is                *)
(* AuditChain!verifyAuditChain; here a chain is only the first sequence    *)
(* number at which that walk fails, 0 if it does not.                      *)
(*                                                                         *)
(* A pass is one invocation of the cron, made on a given day.  It visits   *)
(* the tenants one after the other, and every query is a step of its own.  *)
(***************************************************************************)
EXTENDS Naturals, FiniteSets

CONSTANTS Tenants,            \* tenants in status ACTIVE, SANDBOX or TERMINATING
          Passes, DayOf,      \* invocations, and the day each is made on
          ReAlert,            \* TAMPER_RE_ALERT_AFTER_MS, in days
          LockOn,             \* passes exclude one another (withCronLock)
          MaxSeq,             \* bound: length of a chain
          TamperUntil,        \* bound: last day on which a chain is tampered with
          MaxDay,             \* bound: days
          MaxFaults           \* bound: crashes and failing queries

ASSUME BoundsAssumption == /\ DayOf \in [Passes -> 1..MaxDay] /\ LockOn \in BOOLEAN
                           /\ ReAlert \in Nat /\ MaxSeq \in Nat /\ TamperUntil \in Nat
                           /\ MaxDay \in Nat \ {0} /\ MaxFaults \in Nat

VARIABLES day,
          failsAt,            \* where the walk over each tenant's chain fails
          row,                \* table AuditChainVerification: one row per pass and tenant
          pass,               \* program counter and locals of each pass
          alerts,             \* tamper alerts sent: [tenant, seq, day, by]
          faults

vars == <<day, failsAt, row, pass, alerts, faults>>

Pcs == {"waiting", "next", "verify", "decide", "claim", "emit", "over"}
NoRow == [status |-> "none", failedAtSeq |-> 0, notifiedAt |-> 0]
Active(p) == pass[p].pc \notin {"waiting", "over"}

Init == /\ day = 1
        /\ failsAt = [t \in Tenants |-> 0]
        /\ row = [p \in Passes |-> [t \in Tenants |-> NoRow]]
        /\ pass = [p \in Passes |-> [pc |-> "waiting", todo |-> Tenants, cur |-> CHOOSE t \in Tenants : TRUE]]
        /\ alerts = {}
        /\ faults = 0

Goto(p, pc) == pass' = [pass EXCEPT ![p].pc = pc]
-----------------------------------------------------------------------------
\* The scheduler's call of the day; with the lock on, it is skipped if another runs.
Start(p) == /\ pass[p].pc = "waiting" /\ day = DayOf[p]
            /\ Goto(p, IF LockOn /\ \E q \in Passes : Active(q) THEN "over" ELSE "next")
            /\ UNCHANGED <<day, failsAt, row, alerts, faults>>

\* verifyOneTenant writes its RUNNING row ...
CreateRow(p) ==
    /\ pass[p].pc = "next"
    /\ \E t \in pass[p].todo :
          /\ row' = [row EXCEPT ![p][t].status = "RUNNING"]
          /\ pass' = [pass EXCEPT ![p].pc = "verify", ![p].todo = @ \ {t}, ![p].cur = t]
    /\ UNCHANGED <<day, failsAt, alerts, faults>>

\* ... walks the chain and records the outcome ...
Verify(p) ==
    /\ pass[p].pc = "verify"
    /\ LET t == pass[p].cur
       IN  IF failsAt[t] = 0
           THEN row' = [row EXCEPT ![p][t].status = "OK"] /\ Goto(p, "next")
           ELSE /\ row' = [row EXCEPT ![p][t].status = "TAMPERED", ![p][t].failedAtSeq = failsAt[t]]
                /\ Goto(p, "decide")
    /\ UNCHANGED <<day, failsAt, alerts, faults>>

\* Mutations of RecentlyAlerted: a tamper alerts once and never again; only this pass's
\* own row is looked at.
EverAlerted(p, t, seq) ==
    \E q \in Passes \ {p} : /\ row[q][t].status = "TAMPERED" /\ row[q][t].failedAtSeq = seq
                            /\ row[q][t].notifiedAt # 0
AlertedThisPass(p, t, seq) == row[p][t].notifiedAt # 0

\* The dedupe query: another row of this tenant with this failedAtSeq, notified since
\* the cutoff.
RecentlyAlerted(p, t, seq) ==
    \E q \in Passes \ {p} : /\ row[q][t].status = "TAMPERED" /\ row[q][t].failedAtSeq = seq
                            /\ row[q][t].notifiedAt # 0 /\ row[q][t].notifiedAt + ReAlert >= day

\* ... and fireTamperAlertIfDue asks whether the tamper was alerted on,
Decide(p) ==
    /\ pass[p].pc = "decide"
    /\ LET t == pass[p].cur
       IN  Goto(p, IF RecentlyAlerted(p, t, row[p][t].failedAtSeq) THEN "next" ELSE "claim")
    /\ UNCHANGED <<day, failsAt, row, alerts, faults>>

\* stamps this pass's own row where notifiedAt is null,
Claim(p) ==
    /\ pass[p].pc = "claim"
    /\ IF row[p][pass[p].cur].notifiedAt = 0
       THEN row' = [row EXCEPT ![p][pass[p].cur].notifiedAt = day] /\ Goto(p, "emit")
       ELSE Goto(p, "next") /\ UNCHANGED row
    /\ UNCHANGED <<day, failsAt, alerts, faults>>

\* and writes the audit events and notifications.  An error in these is swallowed.
Emit(p) ==
    /\ pass[p].pc = "emit"
    /\ LET t == pass[p].cur
       IN  \/ /\ alerts' = alerts \cup {[tenant |-> t, seq |-> row[p][t].failedAtSeq,
                                         day |-> row[p][t].notifiedAt, by |-> p]}
              /\ UNCHANGED faults
           \/ faults < MaxFaults /\ faults' = faults + 1 /\ UNCHANGED alerts
    /\ Goto(p, "next")
    /\ UNCHANGED <<day, failsAt, row>>

Finish(p) == /\ pass[p].pc = "next" /\ pass[p].todo = {}
             /\ Goto(p, "over")
             /\ UNCHANGED <<day, failsAt, row, alerts, faults>>

\* A query of verifyOneTenant throws: ERRORED, and on to the next tenant.
Errored(p) == /\ pass[p].pc \in {"verify", "decide", "claim"}
              /\ faults < MaxFaults /\ faults' = faults + 1
              /\ row' = [row EXCEPT ![p][pass[p].cur].status = "ERRORED"]
              /\ Goto(p, "next")
              /\ UNCHANGED <<day, failsAt, alerts>>

Crash(p) == /\ Active(p)
            /\ faults < MaxFaults /\ faults' = faults + 1
            /\ Goto(p, "over")
            /\ UNCHANGED <<day, failsAt, row, alerts>>

\* Somebody with access to the database changes a row of the chain.
Tamper(t) == /\ day <= TamperUntil
             /\ \E s \in 1..MaxSeq : /\ failsAt[t] = 0 \/ s < failsAt[t]
                                     /\ failsAt' = [failsAt EXCEPT ![t] = s]
             /\ UNCHANGED <<day, row, pass, alerts, faults>>

NextDay == /\ day < MaxDay /\ \A p \in Passes : DayOf[p] = day => pass[p].pc = "over"
           /\ day' = day + 1
           /\ UNCHANGED <<failsAt, row, pass, alerts, faults>>

PassStep(p) == \/ Start(p) \/ CreateRow(p) \/ Verify(p) \/ Decide(p)
               \/ Claim(p) \/ Emit(p) \/ Finish(p)

Next == \/ \E p \in Passes : PassStep(p) \/ Errored(p) \/ Crash(p)
        \/ \E t \in Tenants : Tamper(t)
        \/ NextDay

Spec == Init /\ [][Next]_vars

\* The scheduler makes its daily call and a live pass runs on.
FairSpec == Spec /\ WF_vars(NextDay) /\ \A p \in Passes : WF_vars(PassStep(p))
-----------------------------------------------------------------------------
TypeOK ==
    /\ day \in 1..MaxDay /\ failsAt \in [Tenants -> 0..MaxSeq] /\ faults \in 0..MaxFaults
    /\ row \in [Passes -> [Tenants ->
                 [status : {"none", "RUNNING", "OK", "TAMPERED", "ERRORED"},
                  failedAtSeq : 0..MaxSeq, notifiedAt : 0..MaxDay]]]
    /\ pass \in [Passes -> [pc : Pcs, todo : SUBSET Tenants, cur : Tenants]]
    /\ alerts \subseteq [tenant : Tenants, seq : 1..MaxSeq, day : 1..MaxDay, by : Passes]

\* One tamper (a tenant and a failing sequence number) alerts once in the re-alert
\* window: "two passes that both detect the same tamper write two rows but only one
\* alerts" (run.ts).
OneAlertPerTamper ==
    \A a, b \in alerts : /\ a.tenant = b.tenant /\ a.seq = b.seq /\ a # b
                         => a.day > b.day + ReAlert \/ b.day > a.day + ReAlert

\* A tamper that nobody repairs is alerted on, even if the first alert is lost after
\* its row was stamped or a pass dies.
TamperIsAlerted ==
    \A t \in Tenants : \A s \in 1..MaxSeq :
       <>[](failsAt[t] = s) => <>(\E a \in alerts : a.tenant = t /\ a.seq = s)
=============================================================================
