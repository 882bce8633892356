------------------------------ MODULE Notifications ------------------------------
(***************************************************************************)
(* Who is told what: src/lib/notifications/{dispatch,immediate,digest}.ts  *)
(* and the callers of dispatchNotification, for one firm with one          *)
(* escalation (a sentiment signal or an adherence row) and one draft.      *)
(* A call works through its recipients one by one: it looks for the row of *)
(* (recipient, kind, key), sends the mail, stores the row and appends to   *)
(* the audit chain, in statements of their own.  What a call wants done    *)
(* before or after, and what it does when a recipient fails, is its own.   *)
(* Kinds of different matters share no row, so that a behaviour follows    *)
(* one matter: the escalation with its nudge, the draft, the monitors'     *)
(* alerts or the digests.                                                  *)
(***************************************************************************)
EXTENDS Naturals, FiniteSets

CONSTANTS Assignee,            \* the assignee of the escalation, who owns the draft
          Admins,              \* the administrators, who oversee the firm
          Newcomers,           \* administrators who have not joined yet
          Calls,               \* requests and cron runs
          MaxWeek,             \* bound: weeks
          MaxMoves,            \* bound: people who join or leave
          MaxFaults            \* bound: appends that lose their race, calls that die

VARIABLES matter,              \* the kinds of notification this behaviour follows
          lockOn,              \* does the advisory lock keep runs of one cron apart?
          week,
          member,              \* each person's membership
          signal,              \* the escalation, with the count of its STALE_WARNED events
          draft,               \* the draft, with the count of its DRAFT_STALE_WARNED events
          alerted,             \* weeks with a BELOW_THRESHOLD event
          rows,                \* NotificationDispatch, each with its inbox row
          mailed,              \* mails that were tried
          again,               \* mails that were tried more than once
          call,
          failed,              \* notices whose dispatch threw before it stored the row
          lost, dead           \* appends and dispatches that failed, calls that died

vars == <<matter, lockOn, week, member, signal, draft, alerted, rows, mailed, again, call, failed, lost, dead>>
world == <<matter, lockOn, week, member>>

None == "none"
People == {Assignee} \cup Admins
Weeks == 1..MaxWeek
Matters == {{"escalation", "escalation_stale"}, {"draft_stale"}, {"below_threshold"}, {"weekly_digest"}}
Kinds == UNION Matters

\* Weekly kinds have the week as their key, the others the row they are about.
KeyOf(k) == IF k \in {"below_threshold", "weekly_digest"} THEN week ELSE 0

Idle == [pc |-> "idle", kind |-> None, key |-> 0, queue |-> {}, who |-> None]

Init == /\ matter \in Matters
        /\ lockOn \in BOOLEAN
        /\ week = 1
        /\ member = [p \in People |-> IF p \in Newcomers THEN "absent" ELSE "ACTIVE"]
        /\ signal = [escalated |-> FALSE, stale |-> FALSE, acked |-> FALSE, warned |-> 0]
        /\ draft = [overdue |-> FALSE, sent |-> FALSE, warned |-> 0]
        /\ alerted = {}
        /\ rows = {} /\ mailed = {} /\ again = {} /\ failed = {}
        /\ call = [c \in Calls |-> Idle]
        /\ lost = 0 /\ dead = 0

Active(P) == {p \in P : member[p] = "ACTIVE"}
RowOf(c, p) == [who |-> p, kind |-> call[c].kind, key |-> call[c].key]

\* Kinds other than the escalation's own are sent by crons.
MayStart(c, k) ==
    /\ k \in matter /\ call[c].pc = "idle"
    /\ lockOn /\ k # "escalation" => \A d \in Calls : call[d].kind # k

Go(c, pc) == call' = [call EXCEPT ![c].pc = pc]
Start(c, k, pc, Q) == call' = [call EXCEPT ![c] = [Idle EXCEPT !.pc = pc, !.kind = k,
                                                               !.key = KeyOf(k), !.queue = Q]]
Finish(c) == call' = [call EXCEPT ![c] = Idle]
-----------------------------------------------------------------------------
\* escalateAdherenceIfPoor, and classifyAndRecordInbound for a signal that escalates: the
\* call that created the row, and no other, escalates it.
Escalate(c) ==
    /\ MayStart(c, "escalation") /\ ~ signal.escalated
    /\ signal' = [signal EXCEPT !.escalated = TRUE]
    /\ Start(c, "escalation", "recorded", {})
    /\ UNCHANGED <<world, draft, alerted, rows, mailed, again, failed, lost, dead>>

\* The assignee or sender, and everybody who oversees the firm.
Audience == Active({Assignee}) \cup Active(Admins)

TellAudience(c) == call' = [call EXCEPT ![c].pc = "fanout", ![c].queue = Audience]

\* The event of the escalation; without it nobody is told.
AuditEscalation(c) ==
    /\ call[c].pc = "recorded"
    /\ TellAudience(c)
    /\ UNCHANGED <<world, signal, draft, alerted, rows, mailed, again, failed, lost, dead>>

\* The hourly sweep over escalations that were left alone.
StaleSweep(c) ==
    /\ MayStart(c, "escalation_stale")
    /\ signal.escalated /\ signal.stale /\ ~ signal.acked
    /\ Start(c, "escalation_stale", "dedupe", {})
    /\ UNCHANGED <<world, signal, draft, alerted, rows, mailed, again, failed, lost, dead>>

\* "one nudge per signal, ever": the audit chain tells whether there was one.
Dedupe(c) ==
    /\ call[c].pc = "dedupe"
    /\ IF signal.warned > 0 THEN Finish(c) ELSE Go(c, "warn")
    /\ UNCHANGED <<world, signal, draft, alerted, rows, mailed, again, failed, lost, dead>>

Warn(c) ==
    /\ call[c].pc = "warn"
    /\ signal' = [signal EXCEPT !.warned = @ + 1]
    /\ TellAudience(c)
    /\ UNCHANGED <<world, draft, alerted, rows, mailed, again, failed, lost, dead>>

\* The daily sweep over drafts whose response window has passed.
DraftStaleSweep(c) ==
    /\ MayStart(c, "draft_stale")
    /\ draft.overdue /\ ~ draft.sent /\ member[Assignee] = "ACTIVE"
    /\ Start(c, "draft_stale", "fanout", {Assignee})
    /\ UNCHANGED <<world, signal, draft, alerted, rows, mailed, again, failed, lost, dead>>

\* A daily monitor (of the response window or of one of the two rates of acknowledgement)
\* has read a rate below its threshold, and the administrators.  The query has no order:
\* whoever comes first is asked about in the next statement.
Monitor(c) ==
    /\ MayStart(c, "below_threshold")
    /\ Active(Admins) # {}
    /\ \E first \in Active(Admins) :
          call' = [call EXCEPT ![c] = [pc |-> "probe", kind |-> "below_threshold",
                                       key |-> KeyOf("below_threshold"),
                                       queue |-> Active(Admins), who |-> first]]
    /\ UNCHANGED <<world, signal, draft, alerted, rows, mailed, again, failed, lost, dead>>

\* Nothing more is done when the first administrator has had the week's alert.
ProbeFirst(c) ==
    /\ call[c].pc = "probe"
    /\ IF RowOf(c, call[c].who) \in rows THEN Finish(c) ELSE Go(c, "alert")
    /\ UNCHANGED <<world, signal, draft, alerted, rows, mailed, again, failed, lost, dead>>

Alert(c) ==
    /\ call[c].pc = "alert"
    /\ alerted' = alerted \cup {call[c].key}
    /\ Go(c, "fanout")
    /\ UNCHANGED <<world, signal, draft, rows, mailed, again, failed, lost, dead>>

\* The members with something outstanding are told once a week: here the owner.
runWeeklyDigest(c) ==
    /\ MayStart(c, "weekly_digest")
    /\ Start(c, "weekly_digest", "fanout", Active({Assignee}))
    /\ UNCHANGED <<world, signal, draft, alerted, rows, mailed, again, failed, lost, dead>>
-----------------------------------------------------------------------------
\* Mutation of HasRow: the lookup is left to the unique index.
HasNoRow(row) == FALSE

HasRow(row) == row \in rows

\* dispatchNotification for one recipient: who has the row already is passed over.
NextRecipient(c) ==
    /\ call[c].pc = "fanout"
    /\ \E p \in call[c].queue :
          call' = [call EXCEPT ![c].queue = @ \ {p}, ![c].who = p,
                               ![c].pc = IF HasRow(RowOf(c, p)) THEN "fanout" ELSE "send"]
    /\ UNCHANGED <<world, signal, draft, alerted, rows, mailed, again, failed, lost, dead>>

EndFanout(c) ==
    /\ call[c].pc = "fanout" /\ call[c].queue = {}
    /\ Finish(c)
    /\ UNCHANGED <<world, signal, draft, alerted, rows, mailed, again, failed, lost, dead>>

\* The mail is tried; whether it arrives, or is muted, makes no difference to what follows.
Send(c) ==
    /\ call[c].pc = "send"
    /\ LET row == RowOf(c, call[c].who)
       IN /\ mailed' = mailed \cup {row}
          /\ again' = again \cup (mailed \cap {row})
    /\ Go(c, "store")
    /\ UNCHANGED <<world, signal, draft, alerted, rows, failed, lost, dead>>

\* Mutation of GoesOn: a monitor gives up like the others.
GoesOnNever(k) == FALSE

\* A monitor catches what one recipient throws; elsewhere it ends the fan-out.
GoesOn(k) == k = "below_threshold"

Throw(c) == IF GoesOn(call[c].kind) THEN Go(c, "fanout") ELSE Finish(c)

\* The row and the inbox row in one transaction; the unique index refuses a second.
Store(c) ==
    /\ call[c].pc = "store"
    /\ LET row == RowOf(c, call[c].who)
       IN \/ row \in rows /\ Throw(c) /\ UNCHANGED rows
          \/ row \notin rows /\ rows' = rows \cup {row} /\ Go(c, "audit")
    /\ UNCHANGED <<world, signal, draft, alerted, mailed, again, failed, lost, dead>>

\* dispatchNotification throws before its row is stored: the lookup fails before the mail is
\* tried, or the transaction that would store the row fails after it.
DispatchFails(c) ==
    /\ lost + dead < MaxFaults
    /\ lost' = lost + 1
    /\ \/ \E p \in call[c].queue :
             /\ call[c].pc = "fanout"
             /\ failed' = failed \cup {RowOf(c, p)}
             /\ IF GoesOn(call[c].kind) THEN call' = [call EXCEPT ![c].queue = @ \ {p}]
                                        ELSE Finish(c)
       \/ /\ call[c].pc = "store"
          /\ failed' = failed \cup {RowOf(c, call[c].who)}
          /\ Throw(c)
    /\ UNCHANGED <<world, signal, draft, alerted, rows, mailed, again, dead>>

AuditDispatch(c) ==
    /\ call[c].pc = "audit"
    /\ Go(c, IF call[c].kind = "draft_stale" THEN "draft" ELSE "fanout")
    /\ UNCHANGED <<world, signal, draft, alerted, rows, mailed, again, failed, lost, dead>>

\* The sweep over drafts appends its event after the notification.
WarnDraft(c) ==
    /\ call[c].pc = "draft"
    /\ draft' = [draft EXCEPT !.warned = @ + 1]
    /\ Go(c, "fanout")
    /\ UNCHANGED <<world, signal, alerted, rows, mailed, again, failed, lost, dead>>

\* An append loses its race and throws.
AppendFails(c) ==
    /\ call[c].pc \in {"recorded", "warn", "alert", "audit", "draft"}
    /\ lost + dead < MaxFaults
    /\ lost' = lost + 1
    /\ IF call[c].pc = "audit" THEN Throw(c) ELSE Finish(c)
    /\ UNCHANGED <<world, signal, draft, alerted, rows, mailed, again, failed, dead>>

Dies(c) ==
    /\ call[c].pc # "idle" /\ lost + dead < MaxFaults
    /\ dead' = dead + 1
    /\ Finish(c)
    /\ UNCHANGED <<world, signal, draft, alerted, rows, mailed, again, failed, lost>>
-----------------------------------------------------------------------------
\* The acknowledge routes.
Acknowledge ==
    /\ signal.escalated /\ ~ signal.acked
    /\ signal' = [signal EXCEPT !.acked = TRUE]
    /\ UNCHANGED <<world, draft, alerted, rows, mailed, again, call, failed, lost, dead>>

\* Time: the escalation turns stale, the draft overdue; the week ends.
HoursPass ==
    /\ \/ /\ signal.escalated /\ ~ signal.stale
          /\ signal' = [signal EXCEPT !.stale = TRUE] /\ UNCHANGED draft
       \/ /\ "draft_stale" \in matter /\ ~ draft.overdue
          /\ draft' = [draft EXCEPT !.overdue = TRUE] /\ UNCHANGED signal
       \/ /\ draft.overdue /\ ~ draft.sent
          /\ draft' = [draft EXCEPT !.sent = TRUE] /\ UNCHANGED signal
    /\ UNCHANGED <<world, alerted, rows, mailed, again, call, failed, lost, dead>>

WeekEnds ==
    /\ week < MaxWeek /\ matter \cap {"below_threshold", "weekly_digest"} # {}
    /\ week' = week + 1
    /\ UNCHANGED <<matter, lockOn, member, signal, draft, alerted, rows, mailed, again, call, failed, lost, dead>>

Moved == {p \in People : (member[p] = "ACTIVE") = (p \in Newcomers) \/ member[p] = "left"}

StaffMoves(p) ==
    /\ Cardinality(Moved \cup {p}) <= MaxMoves
    /\ \/ member[p] = "absent" /\ member' = [member EXCEPT ![p] = "ACTIVE"]
       \/ member[p] = "ACTIVE" /\ member' = [member EXCEPT ![p] = "left"]
    /\ UNCHANGED <<matter, lockOn, week, signal, draft, alerted, rows, mailed, again, call, failed, lost, dead>>

Next == \/ \E c \in Calls :
              \/ Escalate(c) \/ AuditEscalation(c) \/ StaleSweep(c) \/ Dedupe(c) \/ Warn(c)
              \/ DraftStaleSweep(c) \/ Monitor(c) \/ ProbeFirst(c)
              \/ Alert(c) \/ runWeeklyDigest(c)
              \/ NextRecipient(c) \/ EndFanout(c) \/ Send(c) \/ Store(c) \/ AuditDispatch(c)
              \/ WarnDraft(c) \/ DispatchFails(c) \/ AppendFails(c) \/ Dies(c)
        \/ Acknowledge \/ HoursPass \/ WeekEnds
        \/ \E p \in People : StaffMoves(p)

Spec == Init /\ [][Next]_vars
-----------------------------------------------------------------------------
TypeOK ==
    /\ week \in Weeks /\ alerted \subseteq Weeks
    /\ rows \cup mailed \cup again \cup failed \subseteq
          [who : People, kind : Kinds, key : 0..MaxWeek]
    /\ \A c \in Calls : call[c].queue \subseteq People

Busy(k) == \E c \in Calls : call[c].kind = k
Told(p, k, key) == [who |-> p, kind |-> k, key |-> key] \in rows
\* Who has been there from the start.
Stayed(P) == Active(P) \ Newcomers

\* "Idempotent": however often the crons come round, nobody is mailed the same thing twice,
\* unless two runs of one cron overlap, a call dies between the mail and its row, or the
\* storing of that very row failed.
MailedOnce == lockOn /\ dead = 0 => again \subseteq failed

\* "Audit FIRST": nobody hears of a trip that the chain does not show, whatever fails; and a
\* draft's warning, which is appended last, is on the chain only if the owner was told.
ChainKnows ==
    /\ \A r \in rows : /\ r.kind = "escalation_stale" => signal.warned > 0
                       /\ r.kind = "below_threshold" => r.key \in alerted
    /\ draft.warned <= 1
    /\ draft.warned = 1 => Told(Assignee, "draft_stale", 0)

\* Nobody is told twice, and nothing is told behind the chain's back.
TellInv == TypeOK /\ MailedOnce /\ ChainKnows

\* The nudge is a second chance: one failure, wherever it strikes, in the escalation or in
\* the nudge, never keeps both from one of the audience.
SecondChance ==
    lockOn /\ lost + dead <= 1 /\ signal.warned > 0
    /\ ~ Busy("escalation") /\ ~ Busy("escalation_stale")
    => \A p \in Stayed({Assignee} \cup Admins) :
          Told(p, "escalation", 0) \/ Told(p, "escalation_stale", 0)

\* "Audit FIRST so the chain reflects the trip even if every recipient dispatch fails", and
\* one recipient's failure is not another's: unless a run of the monitor dies, every
\* administrator who was there all along was told of a week that has its alert on the chain,
\* or his own dispatch threw.
AlertReachesAdmins ==
    dead = 0 /\ ~ Busy("below_threshold")
    => \A w \in alerted, p \in Stayed(Admins) :
          \/ Told(p, "below_threshold", w)
          \/ [who |-> p, kind |-> "below_threshold", key |-> w] \in failed

\* Bad news arrives: what the chain shows as told has reached those it was meant for.
BadNewsArrives == SecondChance /\ AlertReachesAdmins
=============================================================================
