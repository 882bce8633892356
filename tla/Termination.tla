------------------------------- MODULE Termination -------------------------------
(***************************************************************************)
(* Termination of a tenant, src/lib/termination/index.ts: notice, reversal *)
(* and export, which check a row and then write it by id, and the sweep    *)
(* that deletes a due tenant's rows table after table, each deletion a     *)
(* statement of its own.  Members go on writing throughout: nothing on the *)
(* way of a request looks at the tenant's status.  A table is reduced to   *)
(* whether it holds rows of the tenant.                                    *)
(***************************************************************************)
EXTENDS Naturals, Sequences, SequencesExt

CONSTANTS Requests,            \* the administrators' requests
          Window,              \* days between notice and deletion, 90 by default
          Writable,            \* bound: the tables members write to meanwhile
          MaxTime,             \* bound: time
          MaxWrites,           \* bound: rows written in the course of a sweep
          MaxFaults            \* bound: deaths of the sweep

VARIABLES now, tenant, rows, package, req, sweep,
          written,             \* the tables written to since the last sweep began
          writes, faults

vars == <<now, tenant, rows, package, req, sweep, written, writes, faults>>
-----------------------------------------------------------------------------
\* Mutation of DeletionOrder: the firm's guides before the members' that refer to them.
GuidesFirst ==
    <<"communicationAdherence", "adherenceScore", "sentimentSignal", "opportunityComment",
      "opportunityCandidate", "action", "draft", "ingestedMessage", "channelAuth", "channel",
      "meetingRecord", "meetingParticipant", "meeting", "fcgVote", "fcgChatTurn",
      "fcgProposal", "fcgRule", "firmCultureGuide", "complianceRuling", "ucgChatTurn",
      "ucgRule", "userCultureGuide", "noGoSubject", "billingUserSnapshot", "billingPeriod",
      "signOffQuestion", "dsarRequest">>

DeletionOrder ==
    <<"communicationAdherence", "adherenceScore", "sentimentSignal", "opportunityComment",
      "opportunityCandidate", "action", "draft", "ingestedMessage", "channelAuth", "channel",
      "meetingRecord", "meetingParticipant", "meeting", "complianceRuling", "ucgChatTurn",
      "ucgRule", "userCultureGuide", "fcgVote", "fcgChatTurn", "fcgProposal", "fcgRule",
      "firmCultureGuide", "noGoSubject", "billingUserSnapshot", "billingPeriod",
      "signOffQuestion", "dsarRequest">>

\* What the client is entitled to take along, and what of it the law makes stay.
Exported ==
    {"firmCultureGuide", "fcgRule", "userCultureGuide", "ucgRule", "complianceRuling", "draft",
     "communicationAdherence", "action", "meeting", "meetingParticipant", "meetingRecord",
     "auditEvent", "dpiaAttestation", "dsarRequest", "billingPeriod", "billingUserSnapshot",
     "signOffQuestion", "channel", "ingestedMessage", "opportunityCandidate",
     "opportunityComment", "sentimentSignal", "adherenceScore", "membership", "termsRecord"}

Retained == {"auditEvent", "dpiaAttestation", "termsRecord", "membership"}

Tables == Exported \cup ToSet(DeletionOrder)

\* Foreign keys, <<child, parent>>: the required ones whose parent takes its children along,
\* and the one that forbids to delete a parent that has children.
Cascades ==
    {<<"fcgRule", "firmCultureGuide">>, <<"fcgChatTurn", "fcgProposal">>,
     <<"fcgVote", "fcgProposal">>, <<"ucgRule", "userCultureGuide">>,
     <<"ucgChatTurn", "userCultureGuide">>, <<"complianceRuling", "userCultureGuide">>,
     <<"channelAuth", "channel">>, <<"communicationAdherence", "draft">>,
     <<"meetingParticipant", "meeting">>, <<"meetingRecord", "meeting">>,
     <<"opportunityComment", "opportunityCandidate">>, <<"billingUserSnapshot", "billingPeriod">>}

Restricts == {<<"userCultureGuide", "firmCultureGuide">>}

ParentsOf(t) == {p \in Tables : <<t, p>> \in Cascades \cup Restricts}
ChildrenOf(t) == {c \in Tables : <<c, t>> \in Cascades}
Blockers(t) == {c \in rows : <<c, t>> \in Restricts}
-----------------------------------------------------------------------------
Never == 0
Idle == [op |-> "none", pc |-> "idle", read |-> "none"]
NoSweep == [pc |-> "idle", step |-> 1]

Live == [status |-> "ACTIVE", effectiveAt |-> Never, completed |-> FALSE]

Init == /\ now = 1
        /\ tenant = Live
        /\ rows = Tables
        /\ package = "none"
        /\ req = [r \in Requests |-> Idle]
        /\ sweep = NoSweep
        /\ written = {}
        /\ writes = 0
        /\ faults = 0

Noticed == tenant.effectiveAt # Never

\* What each of the handlers checks on the row it reads.
MayRun(op) == /\ ~ tenant.completed
              /\ op = "notice" => ~ Noticed
              /\ op = "reverse" => Noticed

Begin(r, op) ==
    /\ req[r].pc = "idle" /\ MayRun(op)
    /\ req' = [req EXCEPT ![r] = [Idle EXCEPT !.op = op, !.pc = IF op = "export" THEN "read"
                                                                             ELSE "write"]]
    /\ UNCHANGED <<now, tenant, rows, package, sweep, written, writes, faults>>

Finish(r) == req' = [req EXCEPT ![r] = Idle]

noticeTermination(r) ==
    /\ req[r].op = "notice" /\ now + Window <= MaxTime
    /\ tenant' = [tenant EXCEPT !.status = "TERMINATING", !.effectiveAt = now + Window]
    /\ Finish(r)
    /\ UNCHANGED <<now, rows, package, sweep, written, writes, faults>>

reverseTermination(r) ==
    /\ req[r].op = "reverse"
    /\ tenant' = [tenant EXCEPT !.status = "ACTIVE", !.effectiveAt = Never]
    /\ Finish(r)
    /\ UNCHANGED <<now, rows, package, sweep, written, writes, faults>>

Captured == IF Exported \subseteq rows THEN "whole" ELSE "partial"

\* The queries of a package run together; the row is written when all have answered.
ReadPackage(r) ==
    /\ req[r].op = "export" /\ req[r].pc = "read"
    /\ req' = [req EXCEPT ![r].pc = "write", ![r].read = Captured]
    /\ UNCHANGED <<now, tenant, rows, package, sweep, written, writes, faults>>

generateExportPackage(r) ==
    /\ req[r].op = "export" /\ req[r].pc = "write"
    /\ package' = req[r].read
    /\ Finish(r)
    /\ UNCHANGED <<now, tenant, rows, sweep, written, writes, faults>>

\* A member's request adds rows; the rows they refer to must exist.
Write(t) ==
    /\ writes < MaxWrites /\ sweep.pc # "idle"
    /\ t \notin rows /\ ParentsOf(t) \subseteq rows
    /\ rows' = rows \cup {t}
    /\ written' = written \cup {t}
    /\ writes' = writes + 1
    /\ UNCHANGED <<now, tenant, package, req, sweep, faults>>
-----------------------------------------------------------------------------
Due == tenant.status = "TERMINATING" /\ tenant.effectiveAt <= now /\ ~ tenant.completed

runHardDeletionSweep ==
    /\ sweep.pc = "idle" /\ Due
    /\ sweep' = [pc |-> "check", step |-> 1]
    /\ written' = {}
    /\ UNCHANGED <<now, tenant, rows, package, req, writes, faults>>

\* hardDeleteTenant reads the row once more; a window that has not elapsed throws.
hardDeleteTenant ==
    /\ sweep.pc = "check"
    /\ sweep' = IF tenant.completed \/ ~ Noticed \/ tenant.effectiveAt > now
                THEN NoSweep ELSE [sweep EXCEPT !.pc = "delete"]
    /\ UNCHANGED <<now, tenant, rows, package, req, written, writes, faults>>

MoreTables == sweep.step < Len(DeletionOrder)

\* One deleteMany; a foreign key may refuse it, which ends the sweep.
DeleteTable ==
    /\ sweep.pc = "delete"
    /\ LET t == DeletionOrder[sweep.step]
       IN IF Blockers(t) # {}
          THEN sweep' = NoSweep /\ UNCHANGED rows
          ELSE /\ rows' = rows \ ({t} \cup ChildrenOf(t))
               /\ sweep' = IF MoreTables
                           THEN [sweep EXCEPT !.step = @ + 1]
                           ELSE [sweep EXCEPT !.pc = "complete"]
    /\ UNCHANGED <<now, tenant, package, req, written, writes, faults>>

\* Mutation of Complete: the completion is not stamped.
CompleteUnstamped ==
    /\ sweep.pc = "complete"
    /\ tenant' = [tenant EXCEPT !.status = "TERMINATED"]
    /\ sweep' = NoSweep
    /\ UNCHANGED <<now, rows, package, req, written, writes, faults>>

\* By id: whatever became of the notice meanwhile.
Complete ==
    /\ sweep.pc = "complete"
    /\ tenant' = [tenant EXCEPT !.status = "TERMINATED", !.completed = TRUE]
    /\ sweep' = NoSweep
    /\ UNCHANGED <<now, rows, package, req, written, writes, faults>>

SweepDies ==
    /\ sweep.pc # "idle" /\ faults < MaxFaults
    /\ sweep' = NoSweep
    /\ faults' = faults + 1
    /\ UNCHANGED <<now, tenant, rows, package, req, written, writes>>

Tick == /\ now < MaxTime
        /\ now' = now + 1
        /\ UNCHANGED <<tenant, rows, package, req, sweep, written, writes, faults>>

SweepStep == runHardDeletionSweep \/ hardDeleteTenant \/ DeleteTable \/ Complete

RequestStep(r) == \/ \E op \in {"notice", "reverse", "export"} : Begin(r, op)
                  \/ noticeTermination(r) \/ reverseTermination(r)
                  \/ ReadPackage(r) \/ generateExportPackage(r)

Next == \/ \E r \in Requests : RequestStep(r)
        \/ \E t \in Writable : Write(t)
        \/ SweepStep \/ SweepDies \/ Tick

Fairness == WF_vars(SweepStep) /\ WF_vars(Tick)
Spec == Init /\ [][Next]_vars /\ Fairness
-----------------------------------------------------------------------------
TypeOK ==
    /\ now \in 1..MaxTime
    /\ tenant \in [status : {"ACTIVE", "TERMINATING", "TERMINATED"},
                   effectiveAt : 0..MaxTime, completed : BOOLEAN]
    /\ rows \subseteq Tables /\ written \subseteq Tables
    /\ package \in {"none", "whole", "partial"}
    /\ sweep \in [pc : {"idle", "check", "delete", "complete"}, step : 1..Len(DeletionOrder)]

\* "Order matters - children first, then parents": a foreign key stops the sweep only on
\* account of rows that were written behind its back, never on account of the order.
BlockedOnlyByWrites ==
    sweep.pc = "delete" => Blockers(DeletionOrder[sweep.step]) \subseteq written

\* Of what a client could have exported and the law does not retain, a completed deletion
\* leaves nothing but what was written after it began.
NothingExportableStays ==
    tenant.completed => rows \cap (Exported \ Retained) \subseteq written

\* The sweep's deletions and the foreign keys together.
SweepIsThorough == BlockedOnlyByWrites /\ NothingExportableStays

\* A due tenant ends deleted, unless the notice is withdrawn: a sweep that died or was
\* blocked is taken up again.
DueTenantGoes == Due ~> (tenant.completed \/ ~ Noticed)
=============================================================================
