--------------------------------- MODULE Billing ---------------------------------
(***************************************************************************)
(* Billing periods of a tenant, src/lib/billing/index.ts: members' months  *)
(* of activity, the close of a month by the cron or by an administrator,   *)
(* which reads the plan, then the members, and writes the period with its *)
(* snapshots in one transaction; and the reopening.  A timestamp is a      *)
(* number, a month a run of MonthLength of them.  A run that dies is one   *)
(* that takes no further step.                                             *)
(***************************************************************************)
EXTENDS Naturals, FiniteSets

CONSTANTS Members,
          Closers,             \* runs of the close: the cron's and administrators'
          Plans,               \* values of the tenant's pricing columns
          MonthLength,
          MaxTime              \* bound: time

VARIABLES now,
          member,              \* status, lastLoginAt, accessRevokedAt, channel authorisation
          drafts,              \* the months in which each member had a draft produced
          plan,                \* the tenant's pricing columns
          period,              \* the BillingPeriod rows
          snapshots,           \* the BillingUserSnapshot rows
          run,
          logins               \* the months in which each member really logged in

vars == <<now, member, drafts, plan, period, snapshots, run, logins>>

Never == 0
None == "none"
MonthOf(t) == (t - 1) \div MonthLength + 1
Months == 1..MonthOf(MaxTime)
StartOf(m) == (m - 1) * MonthLength + 1
EndOf(m) == m * MonthLength + 1          \* exclusive

NewMember == [status |-> "ACTIVE", lastLogin |-> Never, revokedAt |-> Never,
              channelFrom |-> Never, channelTo |-> Never]
NoPlan == [base |-> 0, salesIdEnabled |-> FALSE, salesId |-> 0, partnerPct |-> 0, cclPct |-> 0,
           cmk |-> 0, freeUntil |-> 0]
NoTotals == [billable |-> 0, salesIdUsers |-> 0, total |-> 0]
NoPeriod == [status |-> None, plan |-> NoPlan, totals |-> NoTotals]
Idle == [pc |-> "idle", month |-> 1, plan |-> NoPlan, rows |-> {}]

Init == /\ now = 1
        /\ member = [u \in Members |-> NewMember]
        /\ drafts = [u \in Members |-> {}]
        /\ plan \in Plans
        /\ period = [m \in Months |-> NoPeriod]
        /\ snapshots = {}
        /\ run = [c \in Closers |-> Idle]
        /\ logins = [u \in Members |-> {}]
-----------------------------------------------------------------------------
\* getTenantContext stamps lastLoginAt on the way of each request.
stampLastLogin(u) ==
    /\ member[u].status = "ACTIVE" /\ member[u].lastLogin # now
    /\ member' = [member EXCEPT ![u].lastLogin = now]
    /\ logins' = [logins EXCEPT ![u] = @ \cup {MonthOf(now)}]
    /\ UNCHANGED <<now, drafts, plan, period, snapshots, run>>

Produce(u) ==
    /\ member[u].status = "ACTIVE" /\ MonthOf(now) \notin drafts[u]
    /\ drafts' = [drafts EXCEPT ![u] = @ \cup {MonthOf(now)}]
    /\ UNCHANGED <<now, member, plan, period, snapshots, run, logins>>

Authorise(u) ==
    /\ member[u].status = "ACTIVE" /\ member[u].channelFrom = Never
    /\ member' = [member EXCEPT ![u].channelFrom = now]
    /\ UNCHANGED <<now, drafts, plan, period, snapshots, run, logins>>

\* The lifecycle revokes access and, in the same operation, the authorisations.
Revoke(u) ==
    /\ member[u].status = "ACTIVE" /\ member[u].revokedAt = Never
    /\ member' = [member EXCEPT ![u].revokedAt = now,
                                ![u].channelTo = IF member[u].channelFrom = Never
                                                 THEN Never ELSE now]
    /\ UNCHANGED <<now, drafts, plan, period, snapshots, run, logins>>

Depart(u) ==
    /\ member[u].revokedAt # Never /\ member[u].status = "ACTIVE"
    /\ member' = [member EXCEPT ![u].status = "ANONYMISED"]
    /\ UNCHANGED <<now, drafts, plan, period, snapshots, run, logins>>

updateTenantPlan(p) ==
    /\ p # plan
    /\ plan' = p
    /\ UNCHANGED <<now, member, drafts, period, snapshots, run, logins>>
-----------------------------------------------------------------------------
\* A channel that was authorised at any point of the month.
HasChannel(u, m) ==
    /\ member[u].channelFrom # Never /\ member[u].channelFrom < EndOf(m)
    /\ member[u].channelTo = Never \/ member[u].channelTo > StartOf(m)

LoggedIn(u, m) == member[u].lastLogin >= StartOf(m) /\ member[u].lastLogin < EndOf(m)

IsActive(u, m) == HasChannel(u, m) /\ (LoggedIn(u, m) \/ m \in drafts[u])

IsBillable(u, m) ==
    /\ IsActive(u, m)
    /\ member[u].status = "ACTIVE"
    /\ member[u].revokedAt = Never \/ member[u].revokedAt > EndOf(m)

evaluateActivity(m, p) ==
    {[month |-> m, user |-> u, billable |-> IsBillable(u, m),
      salesId |-> IsBillable(u, m) /\ p.salesIdEnabled] : u \in Members}

Billable(rows) == {r \in rows : r.billable}
SalesIdUsers(rows) == {r \in rows : r.salesId}

\* Math.round of a price less a percentage.
Less(minor, pct) == (minor * (100 - pct) + 50) \div 100

\* The two discounts stack, each rounded to the minor unit.
effectiveSalesIdMinor(p) ==
    IF p.salesIdEnabled THEN Less(Less(p.salesId, p.partnerPct), p.cclPct) ELSE 0

\* A sandbox is free of charge for the months that end while its free period lasts.
Waived(p, m) == p.freeUntil >= EndOf(m)

computeTotals(p, rows, m) ==
    [billable |-> Cardinality(Billable(rows)),
     salesIdUsers |-> Cardinality(SalesIdUsers(rows)),
     total |-> IF Waived(p, m) THEN 0
               ELSE Cardinality(Billable(rows)) * p.base
                    + Cardinality(SalesIdUsers(rows)) * effectiveSalesIdMinor(p) + p.cmk]
-----------------------------------------------------------------------------
\* The cron takes the month before the current one; an administrator may force any that
\* has begun.  A month that is closed is left alone.
closeBillingPeriod(c, m) ==
    /\ run[c].pc = "idle"
    /\ period[m].status # "CLOSED"
    /\ run' = [run EXCEPT ![c] = [Idle EXCEPT !.pc = "plan", !.month = m]]
    /\ UNCHANGED <<now, member, drafts, plan, period, snapshots, logins>>

closeAllDueBillingPeriods(c) ==
    \E m \in Months : m + 1 = MonthOf(now) /\ closeBillingPeriod(c, m)

ForceClose(c) == \E m \in Months : m <= MonthOf(now) /\ closeBillingPeriod(c, m)

planFromTenant(c) ==
    /\ run[c].pc = "plan"
    /\ run' = [run EXCEPT ![c].pc = "evaluate", ![c].plan = plan]
    /\ UNCHANGED <<now, member, drafts, plan, period, snapshots, logins>>

Evaluate(c) ==
    /\ run[c].pc = "evaluate"
    /\ run' = [run EXCEPT ![c].pc = "write",
                                    ![c].rows = evaluateActivity(run[c].month, run[c].plan)]
    /\ UNCHANGED <<now, member, drafts, plan, period, snapshots, logins>>

\* Mutation of OtherMonths: the snapshots of a former close are not replaced.
AllSnapshots(m) == snapshots

\* What the deletion of the period's snapshots leaves.
OtherMonths(m) == {s \in snapshots : s.month # m}

\* One transaction: the upsert, which makes a racing one wait, and the snapshots.
WritePeriod(c) ==
    /\ run[c].pc = "write"
    /\ LET m == run[c].month
           rows == run[c].rows
       IN /\ period' = [period EXCEPT ![m] =
                [status |-> "CLOSED", plan |-> run[c].plan,
                 totals |-> computeTotals(run[c].plan, rows, m)]]
          /\ snapshots' = OtherMonths(m) \cup rows
    /\ run' = [run EXCEPT ![c] = Idle]
    /\ UNCHANGED <<now, member, drafts, plan, logins>>

reopenBillingPeriod(m) ==
    /\ period[m].status = "CLOSED"
    /\ period' = [period EXCEPT ![m].status = "DRAFT"]
    /\ UNCHANGED <<now, member, drafts, plan, snapshots, run, logins>>

Tick == /\ now < MaxTime
        /\ now' = now + 1
        /\ UNCHANGED <<member, drafts, plan, period, snapshots, run, logins>>

Next == \/ \E u \in Members : \/ stampLastLogin(u) \/ Produce(u) \/ Authorise(u)
                              \/ Revoke(u) \/ Depart(u)
        \/ \E p \in Plans : updateTenantPlan(p)
        \/ \E c \in Closers : \/ closeAllDueBillingPeriods(c) \/ ForceClose(c)
                              \/ planFromTenant(c) \/ Evaluate(c) \/ WritePeriod(c)
        \/ \E m \in Months : reopenBillingPeriod(m)
        \/ Tick

Spec == Init /\ [][Next]_vars
-----------------------------------------------------------------------------
TypeOK ==
    /\ now \in 1..MaxTime /\ plan \in Plans
    /\ \A m \in Months : period[m].status \in {None, "DRAFT", "CLOSED"}
    /\ \A s \in snapshots : s.month \in Months /\ s.user \in Members
    /\ \A c \in Closers : run[c].pc \in {"idle", "plan", "evaluate", "write"}

Closed(m) == period[m].status = "CLOSED"
SnapshotsOf(m) == {s \in snapshots : s.month = m}

\* What was closed can be accounted for: its totals are those of its own plan and of its
\* snapshots, one per member, whatever closes and reopenings the month has seen.
ClosedIsAccountable ==
    \A m \in Months : Closed(m) =>
        /\ period[m].totals = computeTotals(period[m].plan, SnapshotsOf(m), m)
        /\ Cardinality(SnapshotsOf(m)) = Cardinality(Members)
        /\ SalesIdUsers(SnapshotsOf(m)) \subseteq Billable(SnapshotsOf(m))

\* Nobody is billed for a month in which he was not there: a billable snapshot stands for a
\* member with a channel who really logged in, or had a draft, in that month.
BilledWasThere ==
    \A s \in Billable(snapshots) :
        /\ s.month \in logins[s.user] \cup drafts[s.user]
        /\ member[s.user].channelFrom # Never

ClosedIsFair == ClosedIsAccountable /\ BilledWasThere

\* The definition the module's header quotes: a member who had a channel and logged in in a
\* month is active in it, as far as the close of the month can tell.
StillThere(u) == member[u].status = "ACTIVE" /\ member[u].revokedAt = Never
ActiveIsBilled ==
    \A c \in Closers, u \in Members :
        LET m == run[c].month
        IN /\ run[c].pc = "evaluate" /\ StillThere(u) /\ HasChannel(u, m)
           /\ m \in logins[u] /\ MonthOf(now) > m
           => IsBillable(u, m)
=============================================================================
