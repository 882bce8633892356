---------------------------- MODULE MemberLifecycle ----------------------------
(***************************************************************************)
(* One member of a firm and what hangs on the membership: the culture      *)
(* guides (UCGs) with their channels, and the member's API key.            *)
(*                                                                         *)
(* src/lib/lifecycle has the two departures - the member revokes access,   *)
(* an admin marks a leaver - their reversals and the sweep that makes them *)
(* final; src/lib/dsar/erasure.ts erases the member at once.  Guides are   *)
(* judged and committed in app/api, flagged by lib/ucg/propagation.ts when *)
(* the firm's guide changes, and API keys die in store.ts's sweep.         *)
(*                                                                         *)
(* An operation reads the rows, checks, and only then writes; processes    *)
(* interleave between the two unless calm.  Times start at 1, 0 is null.   *)
(***************************************************************************)
EXTENDS Naturals, FiniteSets

CONSTANTS Guides,             \* the member's guides
          Procs,              \* requests being served
          Grace,              \* GRACE_DAYS_REVOKE and GRACE_DAYS_LEAVER
          MaxTime,            \* bound: time
          MaxOps,             \* bound: requests, in a calm behaviour
          MaxRacing,          \* bound: requests, where they overlap
          MaxFaults           \* bound: crashes

ASSUME BoundsAssumption == /\ Grace \in Nat \ {0} /\ MaxTime \in Nat \ {0}
                           /\ MaxOps \in Nat /\ MaxRacing \in Nat /\ MaxFaults \in Nat

VARIABLES now,
          mem,                \* the Membership row
          since,              \* when the departure that stands was decided, 0: none stands
          guide,              \* status of each UserCultureGuide, "none": no row
          wiped,              \* the guides with anonymisedAt set and no rules left
          signed,             \* the guides with a signatureBlock
          passed,             \* the guides whose judgeStatus allows a commit
          conflicts,          \* the guides with conflictedSinceFcgId set
          apiKey,             \* the member's key: "none", "live" or "revoked"
          erased,             \* the User row is a tombstone
          proc,               \* the request each process serves
          sweep,              \* the lifecycle sweep
          calm,               \* requests and sweeps do not overlap and none fails
          ops, faults

guides == <<guide, wiped, signed, passed, conflicts>>
vars == <<now, mem, since, guides, apiKey, erased, proc, sweep, calm, ops, faults>>

Times == 0..MaxTime
Statuses == {"ACTIVE", "SUSPENDED", "LEAVER_FROZEN", "ANONYMISED"}
GuideStatuses == {"none", "DRAFT", "JUDGED", "COMMITTED", "CONFLICTED", "SUPERSEDED",
                  "FROZEN", "ANONYMISED"}
Kinds == {"revoke", "reauthorise", "leave", "reverse", "draft", "judge", "commit",
          "propagate", "newKey", "erase"}
Wiping == {"wipe", "signature"}
Idle == [kind |-> "none", step |-> "idle", on |-> {}]
SweepIdle == [step |-> "idle", at |-> 0, on |-> {}]

Live == {g \in Guides : guide[g] \in {"COMMITTED", "CONFLICTED"}}
Rows == {g \in Guides : guide[g] # "none"}
SetAll(gs, status) == [g \in Guides |-> IF g \in gs THEN status ELSE guide[g]]

\* A member whose first guide, with a signature, is in force.
Init == /\ now = 1 /\ since = 0
        /\ mem = [status |-> "ACTIVE", revokedAt |-> 0, reauthDeadline |-> 0,
                  anonymiseDue |-> 0, anonymised |-> FALSE]
        /\ \E g \in Guides :
              /\ guide = [h \in Guides |-> IF h = g THEN "COMMITTED" ELSE "none"]
              /\ signed = {g} /\ passed = {g}
        /\ wiped = {} /\ conflicts = {}
        /\ apiKey = "none" /\ erased = FALSE
        /\ proc = [p \in Procs |-> Idle] /\ sweep = SweepIdle
        /\ calm \in BOOLEAN /\ ops = 0 /\ faults = 0

Quiet == (\A p \in Procs : proc[p] = Idle) /\ sweep = SweepIdle

\* getTenantContext: only an ACTIVE member's requests are served.
SignedIn == mem.status = "ACTIVE" /\ ~ erased
-----------------------------------------------------------------------------
\* What an operation requires of the rows it reads.  The guides in `on' are those it
\* is about.
MayRevoke == SignedIn /\ mem.revokedAt = 0
MayReauthorise == mem.status = "ACTIVE" /\ mem.revokedAt # 0
MayLeave == mem.status \notin {"LEAVER_FROZEN", "ANONYMISED"}

\* Mutation of MayReverse: anonymisedAt is not looked at.
MayReverseAnyway == mem.status = "LEAVER_FROZEN"

MayReverse == mem.status = "LEAVER_FROZEN" /\ ~ mem.anonymised

May(kind, on) ==
    CASE kind = "revoke" -> MayRevoke /\ on = {}
      [] kind = "reauthorise" -> MayReauthorise /\ on = {}
      [] kind = "leave" -> MayLeave /\ on = {}
      [] kind = "reverse" -> MayReverse /\ on = {}
      [] kind = "draft" -> SignedIn /\ Cardinality(on) = 1 /\ on \cap Rows = {}
                           /\ \A g \in Guides : guide[g] # "DRAFT"
      [] kind = "judge" -> SignedIn /\ Cardinality(on) = 1 /\ on \subseteq Rows
      [] kind = "commit" -> SignedIn /\ Cardinality(on) = 1 /\ on \subseteq passed
      [] kind = "propagate" -> on = Live /\ on # {}
      [] kind = "newKey" -> SignedIn /\ on = {} /\ apiKey = "none"
      [] kind = "erase" -> ~ erased /\ on = {}

\* A request arrives, reads and checks.
Begin(p) ==
    /\ proc[p] = Idle /\ (calm => Quiet)
    /\ ops < IF calm THEN MaxOps ELSE MaxRacing
    /\ \E kind \in Kinds, on \in SUBSET Guides :
          /\ May(kind, on)
          /\ proc' = [proc EXCEPT ![p] = [kind |-> kind, step |-> "write", on |-> on]]
    /\ ops' = ops + 1
    /\ UNCHANGED <<calm, now, mem, since, guides, apiKey, erased, sweep, faults>>

Writing(p, kind) == proc[p].kind = kind /\ proc[p].step = "write"
End(p) == proc' = [proc EXCEPT ![p] = Idle]
ThenStep(p, step) == proc' = [proc EXCEPT ![p].step = step]

Freeze == guide' = SetAll(Live, "FROZEN")

\* The end of a grace that begins now.
Grant == now + Grace

\* revokeAccess: one transaction.
Revoke(p) ==
    /\ Writing(p, "revoke")
    /\ mem' = [mem EXCEPT !.revokedAt = now, !.reauthDeadline = Grant]
    /\ since' = now
    /\ Freeze
    /\ End(p)
    /\ UNCHANGED <<calm, now, wiped, signed, passed, conflicts, apiKey, erased, sweep, ops, faults>>

\* Every guide that is FROZEN and not anonymised is restored.
Restored == {g \in Guides : guide[g] = "FROZEN" /\ g \notin wiped}

\* reauthoriseAccess: one transaction.
Reauthorise(p) ==
    /\ Writing(p, "reauthorise")
    /\ mem' = [mem EXCEPT !.revokedAt = 0, !.reauthDeadline = 0]
    /\ since' = IF mem.status = "ACTIVE" THEN 0 ELSE since
    /\ guide' = SetAll(Restored, "COMMITTED")
    /\ End(p)
    /\ UNCHANGED <<calm, now, wiped, signed, passed, conflicts, apiKey, erased, sweep, ops, faults>>

\* Mutation of Left: the revocation in flight is kept.
LeftStillRevoked == [mem EXCEPT !.status = "LEAVER_FROZEN", !.anonymiseDue = Grant]

\* The leaver supersedes a revocation.
Left == [mem EXCEPT !.status = "LEAVER_FROZEN", !.anonymiseDue = Grant,
                    !.revokedAt = 0, !.reauthDeadline = 0]

\* markLeaver: one transaction.
Leave(p) ==
    /\ Writing(p, "leave")
    /\ mem' = Left
    /\ since' = now
    /\ Freeze
    /\ End(p)
    /\ UNCHANGED <<calm, now, wiped, signed, passed, conflicts, apiKey, erased, sweep, ops, faults>>

\* reverseLeaver: one transaction.
Reverse(p) ==
    /\ Writing(p, "reverse")
    /\ mem' = [mem EXCEPT !.status = "ACTIVE", !.anonymiseDue = 0]
    /\ since' = 0
    /\ guide' = SetAll(Restored, "COMMITTED")
    /\ End(p)
    /\ UNCHANGED <<calm, now, wiped, signed, passed, conflicts, apiKey, erased, sweep, ops, faults>>
-----------------------------------------------------------------------------
\* ucg-chat makes a new version, which may carry a signature block.
Draft(p) ==
    /\ Writing(p, "draft")
    /\ guide' = SetAll(proc[p].on, "DRAFT")
    /\ signed' \in {signed, signed \cup proc[p].on}
    /\ End(p)
    /\ UNCHANGED <<calm, now, mem, since, wiped, passed, conflicts, apiKey, erased, sweep, ops, faults>>

\* The judge route writes status and judgeStatus whatever the guide's status is by now.
Judge(p) ==
    /\ Writing(p, "judge")
    /\ guide' = SetAll(proc[p].on, "JUDGED")
    /\ passed' \in {passed \ proc[p].on, passed \cup proc[p].on}
    /\ End(p)
    /\ UNCHANGED <<calm, now, mem, since, wiped, signed, conflicts, apiKey, erased, sweep, ops, faults>>

\* The commit route: supersede what is in force, then put the guide in force.
Supersede(p) ==
    /\ Writing(p, "commit")
    /\ guide' = SetAll(Live \ proc[p].on, "SUPERSEDED")
    /\ ThenStep(p, "force")
    /\ UNCHANGED <<calm, now, mem, since, wiped, signed, passed, conflicts, apiKey, erased, sweep,
                   ops, faults>>
PutInForce(p) ==
    /\ proc[p].kind = "commit" /\ proc[p].step = "force"
    /\ guide' = SetAll(proc[p].on, "COMMITTED")
    /\ conflicts' = conflicts \ proc[p].on
    /\ End(p)
    /\ UNCHANGED <<calm, now, mem, since, wiped, signed, passed, apiKey, erased, sweep, ops, faults>>

\* flagConflictsAfterFcgCommit: flag every guide that was in force, then judge each,
\* which clears the flag, leaves it, or fails.
Flag(p) ==
    /\ Writing(p, "propagate")
    /\ guide' = SetAll(proc[p].on, "CONFLICTED")
    /\ conflicts' = conflicts \cup proc[p].on
    /\ ThenStep(p, "rejudge")
    /\ UNCHANGED <<calm, now, mem, since, wiped, signed, passed, apiKey, erased, sweep, ops, faults>>
Rejudge(p) ==
    /\ proc[p].kind = "propagate" /\ proc[p].step = "rejudge"
    /\ \E g \in proc[p].on :
          /\ \/ /\ guide' = SetAll({g}, "COMMITTED")
                /\ conflicts' = conflicts \ {g} /\ passed' = passed \cup {g}
             \/ passed' \in {passed, passed \ {g}} /\ UNCHANGED <<guide, conflicts>>
          /\ \/ proc[p].on = {g} /\ End(p)
             \/ proc[p].on # {g} /\ proc' = [proc EXCEPT ![p].on = @ \ {g}]
    /\ UNCHANGED <<calm, now, mem, since, wiped, signed, apiKey, erased, sweep, ops, faults>>

\* createApiKey, checked before and inserted now.
NewKey(p) ==
    /\ Writing(p, "newKey")
    /\ apiKey' = "live"
    /\ End(p)
    /\ UNCHANGED <<calm, now, mem, since, guides, erased, sweep, ops, faults>>
-----------------------------------------------------------------------------
\* Mutation of ToWipe: only the guides a departure froze.
FrozenOnly == {g \in Rows \ wiped : guide[g] = "FROZEN"}

\* anonymiseUcgsFor reads the guides not yet anonymised ...
ToWipe == Rows \ wiped

\* ... deletes their rules and marks them in one transaction ...
Wipe == /\ guide' = SetAll(ToWipe, "ANONYMISED")
        /\ wiped' = wiped \cup ToWipe
        /\ UNCHANGED <<signed, passed, conflicts>>

\* ... and then drops the signature block of those it read.
DropSignature(gs) == signed' = signed \ gs /\ UNCHANGED <<guide, wiped, passed, conflicts>>

\* eraseUser: the membership, the guides, then the credentials and the User row.
EraseMember(p) ==
    /\ Writing(p, "erase")
    /\ mem' = [mem EXCEPT !.status = "ANONYMISED", !.anonymised = TRUE]
    /\ ThenStep(p, "wipe")
    /\ UNCHANGED <<calm, now, since, guides, apiKey, erased, sweep, ops, faults>>
EraseGuides(p) ==
    /\ proc[p].kind = "erase" /\ proc[p].step \in Wiping
    /\ IF proc[p].step = "wipe"
       THEN Wipe /\ proc' = [proc EXCEPT ![p].step = "signature", ![p].on = ToWipe]
       ELSE DropSignature(proc[p].on) /\ ThenStep(p, "tombstone")
    /\ UNCHANGED <<calm, now, mem, since, apiKey, erased, sweep, ops, faults>>
EraseUserRow(p) ==
    /\ proc[p].kind = "erase" /\ proc[p].step = "tombstone"
    /\ erased' = TRUE
    /\ End(p)
    /\ UNCHANGED <<calm, now, mem, since, guides, apiKey, sweep, ops, faults>>
-----------------------------------------------------------------------------
\* Mutation of LeaverDue: the day of the deadline itself, which a late sweep misses.
LeaverDueBefore(t) == mem.status = "LEAVER_FROZEN" /\ mem.anonymiseDue = t - 1

\* The two lists of the sweep, both as of the time it began.
RevokedDue(t) == mem.status = "ACTIVE" /\ mem.revokedAt # 0 /\ mem.reauthDeadline <= t
LeaverDue(t) == mem.status = "LEAVER_FROZEN" /\ mem.anonymiseDue <= t

SweepTo(step) == sweep' = [sweep EXCEPT !.step = step]

SweepBegin == /\ sweep = SweepIdle /\ (calm => Quiet)
              /\ LET s == [SweepIdle EXCEPT !.at = now]
                 IN  sweep' = [s EXCEPT !.step = IF RevokedDue(now) THEN "suspend" ELSE "leavers"]
              /\ UNCHANGED <<calm, now, mem, since, guides, apiKey, erased, proc, ops, faults>>

SweepLeavers == /\ sweep.step = "leavers"
                /\ SweepTo(IF LeaverDue(sweep.at) THEN "anonymise" ELSE "keys")
                /\ UNCHANGED <<calm, now, mem, since, guides, apiKey, erased, proc, ops, faults>>

\* The member found due is suspended or anonymised, whatever happened meanwhile.
SweepMember == /\ sweep.step \in {"suspend", "anonymise"}
               /\ mem' = [mem EXCEPT !.anonymised = TRUE,
                                     !.status = IF sweep.step = "suspend" THEN "SUSPENDED"
                                                                          ELSE "ANONYMISED"]
               /\ SweepTo(IF sweep.step = "suspend" THEN "wipe" ELSE "wipeLeaver")
               /\ UNCHANGED <<calm, now, since, guides, apiKey, erased, proc, ops, faults>>

SweepGuides ==
    /\ \/ /\ sweep.step \in {"wipe", "wipeLeaver"}
          /\ Wipe
          /\ sweep' = [sweep EXCEPT !.on = ToWipe, !.step = IF sweep.step = "wipe"
                                                            THEN "signature" ELSE "signatureLeaver"]
       \/ /\ sweep.step \in {"signature", "signatureLeaver"}
          /\ DropSignature(sweep.on)
          /\ sweep' = [sweep EXCEPT !.on = {}, !.step = IF sweep.step = "signature"
                                                        THEN "leavers" ELSE "keys"]
    /\ UNCHANGED <<calm, now, mem, since, apiKey, erased, proc, ops, faults>>

\* Mutation of KeyDoomed: only the keys of suspended members.
KeyOfSuspended == mem.status = "SUSPENDED"

\* createdBy: { status: { not: "ACTIVE" } }
KeyDoomed == mem.status # "ACTIVE"

\* sweepInactiveOrExpiredApiKeys, which comes after the lifecycle in the same cron.
SweepKeys ==
    /\ sweep.step = "keys"
    /\ IF apiKey = "live" /\ KeyDoomed THEN SweepTo("revokeKey") ELSE sweep' = SweepIdle
    /\ UNCHANGED <<calm, now, mem, since, guides, apiKey, erased, proc, ops, faults>>
SweepRevokesKey ==
    /\ sweep.step = "revokeKey"
    /\ apiKey' = "revoked"
    /\ sweep' = SweepIdle
    /\ UNCHANGED <<calm, now, mem, since, guides, erased, proc, ops, faults>>

\* The process dies or the database fails, and the rest is not done.
Fault == ~ calm /\ faults < MaxFaults /\ faults' = faults + 1
Crash(p) == /\ proc[p] # Idle /\ Fault /\ End(p)
            /\ UNCHANGED <<calm, now, mem, since, guides, apiKey, erased, sweep, ops>>
SweepFails == /\ sweep # SweepIdle /\ Fault /\ sweep' = SweepIdle
              /\ UNCHANGED <<calm, now, mem, since, guides, apiKey, erased, proc, ops>>

Tick == /\ now < MaxTime
        /\ now' = now + 1
        /\ UNCHANGED <<calm, mem, since, guides, apiKey, erased, proc, sweep, ops, faults>>

ProcStep(p) == \/ Revoke(p) \/ Reauthorise(p) \/ Leave(p) \/ Reverse(p)
               \/ Draft(p) \/ Judge(p) \/ Supersede(p) \/ PutInForce(p) \/ Flag(p) \/ Rejudge(p)
               \/ NewKey(p) \/ EraseMember(p) \/ EraseGuides(p) \/ EraseUserRow(p)
SweepStep == SweepBegin \/ SweepLeavers \/ SweepMember \/ SweepGuides \/ SweepKeys
             \/ SweepRevokesKey

Next == Tick \/ SweepStep \/ SweepFails \/ \E p \in Procs : Begin(p) \/ ProcStep(p) \/ Crash(p)

Spec == Init /\ [][Next]_vars

\* Time passes and the sweep's cron goes on being called.
FairSpec == Spec /\ WF_vars(Tick) /\ WF_vars(SweepStep)
-----------------------------------------------------------------------------
TypeOK ==
    /\ now \in 1..MaxTime /\ since \in Times /\ calm \in BOOLEAN
    /\ ops \in Nat /\ faults \in 0..MaxFaults
    /\ mem \in [status : Statuses, revokedAt : Times, reauthDeadline : 0..(MaxTime + Grace),
                anonymiseDue : 0..(MaxTime + Grace), anonymised : BOOLEAN]
    /\ guide \in [Guides -> GuideStatuses]
    /\ wiped \subseteq Guides /\ signed \subseteq Guides /\ passed \subseteq Guides
    /\ conflicts \subseteq Guides
    /\ apiKey \in {"none", "live", "revoked"} /\ erased \in BOOLEAN
    /\ proc \in [Procs -> [kind : Kinds \cup {"none"}, on : SUBSET Guides,
                           step : Wiping \cup {"idle", "write", "force", "rejudge", "tombstone"}]]
    /\ sweep.at \in Times /\ sweep.on \subseteq Guides

\* Run one at a time, the operations never let the sweep suspend or anonymise a member
\* who has not decided, or been marked, to leave a full grace period ago - whatever was
\* revoked, restored and reversed before.
SweptAfterGrace == [][calm /\ SweepMember => since # 0 /\ now - since >= Grace]_vars

\* Run one at a time, a membership that was anonymised has no guide left with its rules
\* or its signature, whichever versions it had and whatever state they were in.
AnonymisedIsWiped == calm /\ Quiet /\ mem.anonymised => Rows \subseteq wiped /\ signed = {}

WipeInv == TypeOK /\ AnonymisedIsWiped

\* reverseLeaver refuses a member who "is already anonymised": there is no way back to
\* ACTIVE for a member whose guides were destroyed.
AnonymisedNeverActive == [][calm /\ mem.anonymised => mem'.status # "ACTIVE"]_vars

\* A leaver whose grace is over does not stay one, although requests race the sweep and
\* a sweep may fail, unless one of them has given a new grace.
GraceOver == mem.status = "LEAVER_FROZEN" /\ mem.anonymiseDue <= now
LeaverGoes == ~ calm /\ GraceOver ~> ~ GraceOver

\* The key of a member who is gone is revoked, even one inserted by a request that was
\* checked before the departure, and although a sweep may fail.
KeysDie == ~ calm /\ mem.status # "ACTIVE" /\ apiKey = "live"
              ~> mem.status = "ACTIVE" \/ apiKey # "live"

\* lifecycle/index.ts: re-authorisation restores "the most recent" guide, so that one
\* guide at most is in force, though operations come one after the other.
OneGuideInForce == calm /\ Quiet => Cardinality(Live) <= 1
=============================================================================
