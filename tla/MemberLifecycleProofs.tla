------------------------- MODULE MemberLifecycleProofs -------------------------
(***************************************************************************)
(* Proofs about MemberLifecycle, for every set of guides and of processes, *)
(* every grace period and every bound on requests and crashes.             *)
(*                                                                         *)
(* The promises hold of calm behaviours, where an operation is checked and *)
(* carried out before the next begins.  What it checked still holds when   *)
(* it writes, and the departure that stands explains the row it reads.     *)
(***************************************************************************)
EXTENDS MemberLifecycle, TLAPS

Wipes == {"wipe", "wipeLeaver"}
Drops == {"signature", "signatureLeaver"}
SweepSteps == {"idle", "suspend", "leavers", "anonymise", "keys", "revokeKey"} \cup Wipes \cup Drops

\* The sweep's rows, whose step TypeOK leaves open.
SweepOK == /\ sweep \in [step : SweepSteps, at : Times, on : SUBSET Guides]
           /\ sweep.step = "idle" => sweep = SweepIdle
           /\ sweep.at <= now

\* What is signed or wiped is a row.
RowsOK == signed \cup wiped \subseteq Rows

\* One thing at a time.
OneAtATime == /\ \A p, q \in Procs : proc[p] # Idle /\ proc[q] # Idle => p = q
              /\ sweep # SweepIdle => \A p \in Procs : proc[p] = Idle

\* The departure that stands explains what the sweep will find due: a deadline is a grace
\* after the decision, and no revocation is left on a leaver's row.  Only those who are
\* not anonymised are active.
DepartureExplains ==
    /\ mem.status = "ACTIVE" => ~ mem.anonymised
    /\ mem.status = "ACTIVE" /\ mem.revokedAt # 0 => since # 0 /\ mem.reauthDeadline = since + Grace
    /\ mem.status = "LEAVER_FROZEN" =>
          mem.revokedAt = 0 /\ since # 0 /\ mem.anonymiseDue = since + Grace
    /\ since <= now

\* What an operation read and checked still holds where it relies on it.
StillHolds ==
    /\ \A p \in Procs :
          /\ proc[p].step = "write" => May(proc[p].kind, proc[p].on)
          /\ proc[p].kind = "commit" => mem.status = "ACTIVE"
          /\ proc[p].kind = "propagate" => proc[p].on \subseteq Rows
    /\ sweep.step = "suspend" => RevokedDue(sweep.at)
    /\ sweep.step = "anonymise" => LeaverDue(sweep.at)

\* A guide that is wiped has no signature, but between the two steps of a wipe; a member
\* who is anonymised has nothing left, but until the wipe is through.
Dropping == sweep.step \in Drops \/ \E p \in Procs : proc[p].kind = "erase" /\ proc[p].step = "signature"
MidWipe == sweep.step \in Wipes \/ \E p \in Procs : proc[p].kind = "erase" /\ proc[p].step = "wipe"
WipeGoes ==
    /\ ~ Dropping => signed \cap wiped = {}
    /\ sweep.step \in Drops => signed \subseteq sweep.on
    /\ \A p \in Procs : proc[p].kind = "erase" /\ proc[p].step = "signature" => signed \subseteq proc[p].on
    /\ mem.anonymised /\ ~ MidWipe => Rows \subseteq wiped /\ (~ Dropping => signed = {})

IInv == /\ TypeOK /\ SweepOK /\ RowsOK
        /\ calm => OneAtATime /\ DepartureExplains /\ StillHolds /\ WipeGoes

Requests == [kind : Kinds \cup {"none"}, on : SUBSET Guides,
             step : Wiping \cup {"idle", "write", "force", "rejudge", "tombstone"}]

Types == TypeOK /\ SweepOK /\ RowsOK
-----------------------------------------------------------------------------
\* Guides that are given a status become rows, if they were not.
LEMMA SetAllRows ==
    ASSUME guide \in [Guides -> GuideStatuses], NEW gs \in SUBSET Guides,
           NEW status \in GuideStatuses \ {"none"}, guide' = SetAll(gs, status)
    PROVE  /\ guide' \in [Guides -> GuideStatuses]
           /\ Rows' = Rows \cup gs
  BY DEF SetAll, Rows

\* The row of a process is replaced.
LEMMA ProcMoves ==
    ASSUME TypeOK, NEW p \in Procs
    PROVE  /\ proc \in [Procs -> Requests] /\ proc[p] \in Requests /\ Idle \in Requests
           /\ End(p) => /\ proc' \in [Procs -> Requests] /\ proc'[p] = Idle
                        /\ \A q \in Procs \ {p} : proc'[q] = proc[q]
           /\ \A x \in Requests : proc' = [proc EXCEPT ![p] = x] =>
                        /\ proc' \in [Procs -> Requests] /\ proc'[p] = x
                        /\ \A q \in Procs \ {p} : proc'[q] = proc[q]
           /\ \A step \in {"force", "rejudge", "wipe", "signature", "tombstone"} :
                ThenStep(p, step) => /\ proc' \in [Procs -> Requests]
                                     /\ proc'[p] = [proc[p] EXCEPT !.step = step]
                                     /\ \A q \in Procs \ {p} : proc'[q] = proc[q]
<1>1. proc \in [Procs -> Requests] /\ Idle \in Requests
  BY DEF TypeOK, Requests, Idle, Wiping
<1>2. ASSUME NEW step \in {"force", "rejudge", "wipe", "signature", "tombstone"}
      PROVE  [proc[p] EXCEPT !.step = step] \in Requests
  BY <1>1 DEF Requests, Wiping
<1>3. \A step : ThenStep(p, step) => proc' = [proc EXCEPT ![p] = [proc[p] EXCEPT !.step = step]]
  BY DEF ThenStep
<1>4. ASSUME NEW x \in Requests, proc' = [proc EXCEPT ![p] = x]
      PROVE  /\ proc' \in [Procs -> Requests] /\ proc'[p] = x
             /\ \A q \in Procs \ {p} : proc'[q] = proc[q]
  BY <1>1, <1>4
<1>5. End(p) => proc' = [proc EXCEPT ![p] = Idle]
  BY DEF End
<1>. QED
  BY <1>1, <1>2, <1>3, <1>4, <1>5

\* What a wipe of the guides does to the rows, whoever does it.
LEMMA WipeTypes ==
    ASSUME TypeOK, Wipe
    PROVE  /\ guide' \in [Guides -> GuideStatuses]
           /\ Rows' = Rows /\ wiped' = Rows \cup wiped /\ signed' = signed
           /\ passed' = passed /\ conflicts' = conflicts
<1>1. ToWipe \in SUBSET Guides /\ "ANONYMISED" \in GuideStatuses \ {"none"}
  BY DEF ToWipe, Rows, GuideStatuses
<1>2. guide' \in [Guides -> GuideStatuses] /\ Rows' = Rows \cup ToWipe
  BY <1>1, SetAllRows DEF Wipe, TypeOK
<1>3. Rows \cup ToWipe = Rows /\ wiped \cup ToWipe = Rows \cup wiped
  BY DEF ToWipe
<1>. QED
  BY <1>2, <1>3 DEF Wipe

\* The part of TypeOK that is about the membership.
LEMMA MemberTypes ==
    ASSUME TypeOK
    PROVE  /\ now \in 1..MaxTime /\ now \in Times /\ Grant \in 0..(MaxTime + Grace) /\ 0 \in Times
           /\ 0 \in 0..(MaxTime + Grace)
           /\ mem.status \in Statuses /\ mem.revokedAt \in Times /\ mem.anonymised \in BOOLEAN
           /\ mem.reauthDeadline \in 0..(MaxTime + Grace) /\ mem.anonymiseDue \in 0..(MaxTime + Grace)
<1>1. now \in 1..MaxTime /\ MaxTime \in Nat /\ Grace \in Nat
  BY BoundsAssumption DEF TypeOK
<1>. QED
  BY <1>1 DEF TypeOK, Times, Grant

\* The operations that write the membership.
LEMMA MemberTypesStep ==
    ASSUME Types, NEW p \in Procs, Revoke(p) \/ Reauthorise(p) \/ Leave(p) \/ Reverse(p)
    PROVE  Types' /\ proc'[p] = Idle /\ Rows' = Rows
<1>. USE DEF Types
<1>1. proc' \in [Procs -> Requests] /\ proc'[p] = Idle
  BY ProcMoves DEF Revoke, Reauthorise, Leave, Reverse
<1>2. guide' \in [Guides -> GuideStatuses] /\ Rows' = Rows
  <2>1. /\ Live \in SUBSET Guides /\ Restored \in SUBSET Guides /\ guide \in [Guides -> GuideStatuses]
        /\ Rows \cup Live = Rows /\ Rows \cup Restored = Rows
    BY DEF Live, Restored, Rows, TypeOK
  <2>2. guide' = SetAll(Live, "FROZEN") \/ guide' = SetAll(Restored, "COMMITTED")
    BY DEF Revoke, Reauthorise, Leave, Reverse, Freeze
  <2>3. "FROZEN" \in GuideStatuses \ {"none"} /\ "COMMITTED" \in GuideStatuses \ {"none"}
    BY DEF GuideStatuses
  <2>4. CASE guide' = SetAll(Live, "FROZEN")
    BY <2>1, <2>3, <2>4, SetAllRows
  <2>5. CASE guide' = SetAll(Restored, "COMMITTED")
    BY <2>1, <2>3, <2>5, SetAllRows
  <2>. QED
    BY <2>2, <2>4, <2>5
<1>3. /\ mem' \in [status : Statuses, revokedAt : Times, reauthDeadline : 0..(MaxTime + Grace),
                   anonymiseDue : 0..(MaxTime + Grace), anonymised : BOOLEAN]
      /\ since' \in Times
  BY MemberTypes DEF Revoke, Reauthorise, Leave, Reverse, TypeOK, Left, Statuses
<1>4. UNCHANGED <<now, calm, wiped, signed, passed, conflicts, apiKey, erased, sweep, ops, faults>>
  BY DEF Revoke, Reauthorise, Leave, Reverse
<1>5. TypeOK'
  BY <1>1, <1>2, <1>3, <1>4 DEF TypeOK, Requests
<1>. QED
  BY <1>1, <1>2, <1>4, <1>5 DEF SweepOK, RowsOK

\* The operations that write guides, or the key.
LEMMA GuideTypesStep ==
    ASSUME Types, NEW p \in Procs,
           Draft(p) \/ Judge(p) \/ Supersede(p) \/ PutInForce(p) \/ Flag(p) \/ Rejudge(p) \/ NewKey(p)
    PROVE  Types' /\ Rows \subseteq Rows' /\ Rows' \subseteq Rows \cup proc[p].on
<1>. USE DEF Types
<1>0. proc[p] \in Requests /\ proc[p].on \subseteq Guides /\ guide \in [Guides -> GuideStatuses]
      /\ {"DRAFT", "JUDGED", "SUPERSEDED", "COMMITTED", "CONFLICTED"} \subseteq GuideStatuses \ {"none"}
  BY ProcMoves DEF Requests, TypeOK, GuideStatuses
<1>1. proc' \in [Procs -> Requests]
  <2>1. CASE Rejudge(p)
    <3>1. PICK g \in proc[p].on : End(p) \/ proc' = [proc EXCEPT ![p].on = @ \ {g}]
      BY <2>1 DEF Rejudge
    <3>2. CASE End(p)
      BY <3>2, ProcMoves
    <3>3. CASE proc' = [proc EXCEPT ![p].on = @ \ {g}]
      BY <1>0, <3>3, ProcMoves DEF Requests
    <3>. QED
      BY <3>1, <3>2, <3>3
  <2>. QED
    BY <2>1, ProcMoves DEF Draft, Judge, Supersede, PutInForce, Flag, NewKey
<1>2. /\ guide' \in [Guides -> GuideStatuses] /\ Rows \subseteq Rows' /\ Rows' \subseteq Rows \cup proc[p].on
      /\ Draft(p) => Rows' = Rows \cup proc[p].on
  <2>1. CASE UNCHANGED guide
    <3>1. ~ Draft(p) \/ Rows \cup proc[p].on = Rows
      BY <1>0, <2>1, SetAllRows DEF Draft, Rows
    <3>. QED
      BY <1>0, <2>1, <3>1 DEF Rows
  <2>2. CASE \E gs \in SUBSET (Rows \cup proc[p].on) :
                \E s \in {"DRAFT", "JUDGED", "SUPERSEDED", "COMMITTED", "CONFLICTED"} :
                   guide' = SetAll(gs, s) /\ (Draft(p) => gs = proc[p].on)
    <3>1. Rows \cup proc[p].on \subseteq Guides
      BY <1>0 DEF Rows
    <3>. QED
      BY <1>0, <2>2, <3>1, SetAllRows
  <2>3. Live \ proc[p].on \subseteq Rows
    BY DEF Live, Rows
  <2>. QED
    BY <2>1, <2>2, <2>3 DEF Draft, Judge, Supersede, PutInForce, Flag, Rejudge, NewKey, guides
<1>3. /\ UNCHANGED <<now, calm, mem, since, wiped, erased, sweep, ops, faults>>
      /\ signed' = signed \/ (Draft(p) /\ signed' = signed \cup proc[p].on)
      /\ apiKey' \in {apiKey, "live"}
  <2>1. CASE NewKey(p)
    BY <2>1 DEF NewKey, guides
  <2>2. CASE Draft(p)
    BY <2>2 DEF Draft
  <2>3. CASE Rejudge(p)
    BY <2>3 DEF Rejudge
  <2>. QED
    BY <2>1, <2>2, <2>3 DEF Judge, Supersede, PutInForce, Flag
<1>5. passed' \subseteq passed \cup proc[p].on
  <2>1. ASSUME Rejudge(p)
        PROVE  \E g \in proc[p].on : passed' \in {passed \cup {g}, passed, passed \ {g}}
    BY <2>1 DEF Rejudge
  <2>2. CASE passed' \in {passed, passed \ proc[p].on, passed \cup proc[p].on}
    BY <2>2
  <2>3. Rejudge(p) \/ passed' \in {passed, passed \ proc[p].on, passed \cup proc[p].on}
    BY DEF Draft, Judge, Supersede, PutInForce, Flag, NewKey, guides
  <2>. QED
    BY <2>1, <2>2, <2>3
<1>6. conflicts' \subseteq conflicts \cup proc[p].on
  <2>1. ASSUME Rejudge(p)
        PROVE  \E g \in proc[p].on : conflicts' \in {conflicts, conflicts \ {g}}
    BY <2>1 DEF Rejudge
  <2>2. CASE conflicts' \in {conflicts, conflicts \ proc[p].on, conflicts \cup proc[p].on}
    BY <2>2
  <2>3. Rejudge(p) \/ conflicts' \in {conflicts, conflicts \ proc[p].on, conflicts \cup proc[p].on}
    BY DEF Draft, Judge, Supersede, PutInForce, Flag, NewKey, guides
  <2>. QED
    BY <2>1, <2>2, <2>3
<1>4. TypeOK'
  BY <1>0, <1>1, <1>2, <1>3, <1>5, <1>6 DEF TypeOK, Requests
<1>. QED
  BY <1>2, <1>3, <1>4 DEF SweepOK, RowsOK

\* An erasure wipes every row there is, and adds none.
LEMMA EraseTypesStep ==
    ASSUME Types, NEW p \in Procs, EraseMember(p) \/ EraseGuides(p) \/ EraseUserRow(p)
    PROVE  Types' /\ Rows' = Rows
<1>. USE DEF Types
<1>1. CASE EraseMember(p)
  <2>1. /\ mem' = [mem EXCEPT !.status = "ANONYMISED", !.anonymised = TRUE] /\ ThenStep(p, "wipe")
        /\ UNCHANGED <<calm, now, since, guide, wiped, signed, passed, conflicts, apiKey, erased,
                       sweep, ops, faults>>
    BY <1>1 DEF EraseMember, guides
  <2>2. proc' \in [Procs -> Requests]
    BY <2>1, ProcMoves
  <2>. QED
    BY <2>1, <2>2 DEF TypeOK, Requests, Statuses, SweepOK, RowsOK, Rows
<1>2. CASE EraseGuides(p) /\ proc[p].step = "wipe"
  <2>1. /\ Wipe /\ proc' = [proc EXCEPT ![p].step = "signature", ![p].on = ToWipe]
        /\ UNCHANGED <<calm, now, mem, since, apiKey, erased, sweep, ops, faults>>
    BY <1>2 DEF EraseGuides
  <2>2. proc' \in [Procs -> Requests]
    BY <2>1, ProcMoves, ZenonT(60) DEF Requests, ToWipe, Rows, Wiping
  <2>3. Rows \subseteq Guides
    BY DEF Rows
  <2>4. TypeOK'
    BY <2>1, <2>2, <2>3, WipeTypes DEF TypeOK, Requests
  <2>. QED
    BY <2>1, <2>4, WipeTypes DEF SweepOK, RowsOK
<1>3. CASE EraseGuides(p) /\ proc[p].step # "wipe"
  <2>1. /\ DropSignature(proc[p].on) /\ ThenStep(p, "tombstone")
        /\ UNCHANGED <<calm, now, mem, since, apiKey, erased, sweep, ops, faults>>
    BY <1>3 DEF EraseGuides
  <2>2. proc' \in [Procs -> Requests]
    BY <2>1, ProcMoves
  <2>. QED
    BY <2>1, <2>2 DEF DropSignature, TypeOK, Requests, SweepOK, RowsOK, Rows
<1>4. CASE EraseUserRow(p)
  <2>1. End(p) /\ UNCHANGED <<calm, now, mem, since, guide, wiped, signed, passed, conflicts, apiKey,
                              sweep, ops, faults>> /\ erased' = TRUE
    BY <1>4 DEF EraseUserRow, guides
  <2>2. proc' \in [Procs -> Requests]
    BY <2>1, ProcMoves
  <2>. QED
    BY <2>1, <2>2 DEF TypeOK, Requests, SweepOK, RowsOK, Rows
<1>. QED
  BY <1>1, <1>2, <1>3, <1>4

\* So does the sweep.
LEMMA SweepTypesStep ==
    ASSUME Types, SweepStep \/ SweepFails
    PROVE  Types' /\ Rows' = Rows
<1>. USE DEF Types
<1>. DEFINE SweepRows == [step : SweepSteps, at : Times, on : SUBSET Guides]
            New(s) == s \in SweepRows /\ (s.step = "idle" => s = SweepIdle) /\ s.at <= now
<1>0. /\ SweepIdle \in SweepRows /\ SweepIdle.step = "idle" /\ SweepIdle.at <= now
      /\ now \in Times /\ now <= now /\ sweep \in SweepRows
  BY MemberTypes DEF SweepIdle, SweepSteps, SweepOK, Times
<1>1. ASSUME NEW step \in SweepSteps \ {"idle"}, SweepTo(step)
      PROVE  New(sweep') /\ sweep'.step = step /\ sweep'.on = sweep.on
  BY <1>0, <1>1 DEF SweepTo, SweepOK
<1>2. ASSUME sweep' = SweepIdle PROVE New(sweep')
  BY <1>0, <1>2
<1>3. CASE SweepGuides
  <2>1. UNCHANGED <<calm, now, mem, since, apiKey, erased, proc, ops, faults>>
    BY <1>3 DEF SweepGuides
  <2>2. CASE sweep.step \in {"wipe", "wipeLeaver"}
    <3>1. Wipe /\ sweep' = [sweep EXCEPT !.on = ToWipe, !.step = IF sweep.step = "wipe"
                                         THEN "signature" ELSE "signatureLeaver"]
      BY <1>3, <2>2 DEF SweepGuides
    <3>2. New(sweep')
      BY <1>0, <3>1 DEF SweepOK, SweepSteps, Drops, ToWipe, Rows
    <3>3. Rows \subseteq Guides
      BY DEF Rows
    <3>4. TypeOK'
      BY <2>1, <3>1, <3>2, <3>3, WipeTypes DEF TypeOK
    <3>. QED
      BY <2>1, <3>1, <3>2, <3>4, WipeTypes DEF SweepOK, RowsOK
  <2>3. CASE sweep.step \notin {"wipe", "wipeLeaver"}
    <3>1. /\ DropSignature(sweep.on)
          /\ sweep' = [sweep EXCEPT !.on = {}, !.step = IF sweep.step = "signature"
                                               THEN "leavers" ELSE "keys"]
      BY <1>3, <2>3 DEF SweepGuides
    <3>2. New(sweep')
      BY <1>0, <3>1 DEF SweepOK, SweepSteps
    <3>. QED
      BY <2>1, <3>1, <3>2 DEF DropSignature, TypeOK, SweepOK, RowsOK, Rows
  <2>. QED
    BY <2>2, <2>3
<1>4. CASE SweepMember
  <2>1. /\ UNCHANGED <<calm, now, since, guide, wiped, signed, passed, conflicts, apiKey, erased, proc,
                       ops, faults>>
        /\ mem' \in [status : Statuses, revokedAt : Times, reauthDeadline : 0..(MaxTime + Grace),
                     anonymiseDue : 0..(MaxTime + Grace), anonymised : BOOLEAN]
    BY <1>4 DEF SweepMember, guides, TypeOK, Statuses
  <2>2. New(sweep')
    BY <1>1, <1>4 DEF SweepMember, SweepSteps, Wipes
  <2>. QED
    BY <2>1, <2>2 DEF TypeOK, SweepOK, RowsOK, Rows
<1>5. CASE SweepBegin \/ SweepLeavers \/ SweepKeys \/ SweepRevokesKey \/ SweepFails
  <2>1. /\ UNCHANGED <<calm, now, mem, since, guide, wiped, signed, passed, conflicts, erased, proc, ops>>
        /\ apiKey' \in {apiKey, "revoked"} /\ faults' \in 0..MaxFaults
    BY <1>5, BoundsAssumption
       DEF SweepBegin, SweepLeavers, SweepKeys, SweepRevokesKey, SweepFails, Fault, guides, TypeOK
  <2>2. ASSUME SweepBegin PROVE New(sweep')
    <3>1. PICK step \in {"suspend", "leavers"} :
             sweep' = [[SweepIdle EXCEPT !.at = now] EXCEPT !.step = step]
      BY <2>2 DEF SweepBegin
    <3>2. sweep' = [step |-> step, at |-> now, on |-> {}]
      BY <3>1 DEF SweepIdle
    <3>3. step \in SweepSteps /\ step # "idle"
      BY DEF SweepSteps
    <3>4. sweep' \in SweepRows
      BY <1>0, <3>2, <3>3
    <3>5. sweep'.step # "idle" /\ sweep'.at <= now
      BY <1>0, <3>2, <3>3
    <3>. QED
      BY <3>4, <3>5
  <2>3. New(sweep')
    <3>1. ASSUME SweepLeavers PROVE SweepTo("anonymise") \/ SweepTo("keys")
      BY <3>1 DEF SweepLeavers
    <3>2. ASSUME SweepKeys PROVE SweepTo("revokeKey") \/ sweep' = SweepIdle
      BY <3>2 DEF SweepKeys
    <3>3. {"anonymise", "keys", "revokeKey"} \subseteq SweepSteps \ {"idle"}
      BY DEF SweepSteps
    <3>4. ASSUME SweepRevokesKey \/ SweepFails PROVE sweep' = SweepIdle
      BY <3>4 DEF SweepRevokesKey, SweepFails
    <3>5. ASSUME NEW step \in {"anonymise", "keys", "revokeKey"}, SweepTo(step) PROVE New(sweep')
      BY <1>1, <3>3, <3>5
    <3>6. SweepBegin \/ sweep' = SweepIdle \/ \E step \in {"anonymise", "keys", "revokeKey"} : SweepTo(step)
      BY <1>5, <3>1, <3>2, <3>4
    <3>. HIDE DEF New
    <3>. QED
      BY <1>2, <2>2, <3>5, <3>6
  <2>. QED
    BY <2>1, <2>3 DEF TypeOK, SweepOK, RowsOK, Rows
<1>. QED
  BY <1>3, <1>4, <1>5 DEF SweepStep

\* Time passes, requests arrive and die.
LEMMA OtherTypesStep ==
    ASSUME Types, Tick \/ \E p \in Procs : Begin(p) \/ Crash(p)
    PROVE  Types' /\ Rows' = Rows
<1>. USE DEF Types
<1>1. CASE Tick
  <2>1. /\ UNCHANGED <<calm, mem, since, guide, wiped, signed, passed, conflicts, apiKey, erased, proc,
                       sweep, ops, faults>>
        /\ now' \in 1..MaxTime /\ now' = now + 1
    BY <1>1, BoundsAssumption DEF Tick, guides, TypeOK
  <2>2. sweep.at <= now'
    BY <2>1, MemberTypes DEF SweepOK, Times
  <2>. QED
    BY <2>1, <2>2 DEF TypeOK, SweepOK, RowsOK, Rows
<1>2. ASSUME NEW p \in Procs, Begin(p) PROVE Types' /\ Rows' = Rows
  <2>1. PICK kind \in Kinds, on \in SUBSET Guides :
           proc' = [proc EXCEPT ![p] = [kind |-> kind, step |-> "write", on |-> on]]
    BY <1>2 DEF Begin
  <2>2. [kind |-> kind, step |-> "write", on |-> on] \in Requests
    BY DEF Requests
  <2>3. proc' \in [Procs -> Requests]
    BY <2>1, <2>2, ProcMoves
  <2>4. /\ UNCHANGED <<calm, now, mem, since, guide, wiped, signed, passed, conflicts, apiKey, erased,
                       sweep, faults>>
        /\ ops' = ops + 1
    BY <1>2 DEF Begin, guides
  <2>. QED
    BY <2>3, <2>4 DEF TypeOK, Requests, SweepOK, RowsOK, Rows
<1>3. ASSUME NEW p \in Procs, Crash(p) PROVE Types' /\ Rows' = Rows
  <2>1. /\ UNCHANGED <<calm, now, mem, since, guide, wiped, signed, passed, conflicts, apiKey, erased,
                       sweep, ops>>
        /\ faults' = faults + 1 /\ faults < MaxFaults /\ End(p)
    BY <1>3 DEF Crash, Fault, guides
  <2>2. proc' \in [Procs -> Requests]
    BY <2>1, ProcMoves
  <2>3. faults' \in 0..MaxFaults
    BY <2>1, BoundsAssumption DEF TypeOK
  <2>. QED
    BY <2>1, <2>2, <2>3 DEF TypeOK, Requests, SweepOK, RowsOK, Rows
<1>. QED
  BY <1>1, <1>2, <1>3

LEMMA TypesStep ==
    ASSUME Types, [Next]_vars
    PROVE  Types'
<1>1. CASE UNCHANGED vars
  BY <1>1 DEF vars, guides, Types, TypeOK, SweepOK, RowsOK, Rows
<1>2. CASE \E p \in Procs : ProcStep(p)
  BY <1>2, MemberTypesStep, GuideTypesStep, EraseTypesStep DEF ProcStep
<1>. QED
  BY <1>1, <1>2, SweepTypesStep, OtherTypesStep DEF Next
-----------------------------------------------------------------------------
Calm == OneAtATime /\ DepartureExplains /\ StillHolds /\ WipeGoes

\* While process p serves its request, nobody else does anything.
LEMMA OthersIdle ==
    ASSUME Types, OneAtATime, NEW p \in Procs, proc[p].step # "idle"
    PROVE  /\ sweep = SweepIdle
           /\ \A q \in Procs \ {p} : proc[q] = Idle
  BY DEF OneAtATime, Idle

\* So what is to show of its step is about the row p has then, and the member's rows.
LEMMA CalmMove ==
    ASSUME NEW p \in Procs, DepartureExplains',
           sweep' = SweepIdle, \A q \in Procs \ {p} : proc'[q] = Idle,
           proc'[p].step = "write" => May(proc[p].kind, proc[p].on)',
           proc'[p].kind = "commit" => mem'.status = "ACTIVE",
           proc'[p].kind = "propagate" => proc'[p].on \subseteq Rows',
           LET drops == proc'[p].kind = "erase" /\ proc'[p].step = "signature"
               wipes == proc'[p].kind = "erase" /\ proc'[p].step = "wipe"
           IN  /\ IF drops THEN signed' \subseteq proc'[p].on ELSE signed' \cap wiped' = {}
               /\ mem'.anonymised /\ ~ wipes => Rows' \subseteq wiped' /\ (~ drops => signed' = {})
    PROVE  Calm'
<1>1. /\ Idle.kind = "none" /\ Idle.step = "idle" /\ SweepIdle.step = "idle"
      /\ SweepIdle.step \notin Drops \cup Wipes
  BY DEF Idle, SweepIdle, Drops, Wipes
<1>2. OneAtATime'
  BY DEF OneAtATime
<1>3. StillHolds'
  BY <1>1 DEF StillHolds
<1>4. /\ Dropping' <=> proc'[p].kind = "erase" /\ proc'[p].step = "signature"
      /\ MidWipe' <=> proc'[p].kind = "erase" /\ proc'[p].step = "wipe"
  BY <1>1 DEF Dropping, MidWipe
<1>5. WipeGoes'
  BY <1>1, <1>4 DEF WipeGoes
<1>. QED
  BY <1>2, <1>3, <1>5 DEF Calm

\* What the invariant says where nothing is being wiped but by p.
LEMMA WipeMeans ==
    ASSUME Types, WipeGoes, NEW p \in Procs, sweep = SweepIdle, \A q \in Procs \ {p} : proc[q] = Idle
    PROVE  LET drops == proc[p].kind = "erase" /\ proc[p].step = "signature"
               wipes == proc[p].kind = "erase" /\ proc[p].step = "wipe"
           IN  /\ IF drops THEN signed \subseteq proc[p].on ELSE signed \cap wiped = {}
               /\ mem.anonymised /\ ~ wipes => Rows \subseteq wiped /\ (~ drops => signed = {})
<1>1. /\ Idle.kind = "none" /\ Idle.step = "idle" /\ SweepIdle.step = "idle"
      /\ SweepIdle.step \notin Drops \cup Wipes
  BY DEF Idle, SweepIdle, Drops, Wipes
<1>2. /\ Dropping <=> proc[p].kind = "erase" /\ proc[p].step = "signature"
      /\ MidWipe <=> proc[p].kind = "erase" /\ proc[p].step = "wipe"
  BY <1>1 DEF Dropping, MidWipe
<1>. QED
  BY <1>1, <1>2 DEF WipeGoes

LEMMA MemberCalm ==
    ASSUME Types, Calm, NEW p \in Procs, Revoke(p) \/ Reauthorise(p) \/ Leave(p) \/ Reverse(p)
    PROVE  Calm'
<1>1. /\ proc[p].step = "write" /\ Rows' = Rows /\ proc'[p] = Idle
      /\ UNCHANGED <<now, wiped, signed, sweep>>
      /\ \A q \in Procs \ {p} : proc'[q] = proc[q]
  BY MemberTypesStep, ProcMoves DEF Types, Revoke, Reauthorise, Leave, Reverse, Writing
<1>2. sweep = SweepIdle /\ \A q \in Procs \ {p} : proc[q] = Idle
  BY <1>1, OthersIdle DEF Calm
<1>3. May(proc[p].kind, proc[p].on)
  BY <1>1 DEF Calm, StillHolds
<1>4. DepartureExplains' /\ mem'.anonymised = mem.anonymised
  <2>1. now \in 1..MaxTime
    BY DEF Types, TypeOK
  <2>2. CASE Revoke(p)
    BY <1>3, <2>1, <2>2 DEF Revoke, Writing, May, MayRevoke, SignedIn, Grant, Calm, DepartureExplains, Types, TypeOK
  <2>3. CASE Reauthorise(p)
    BY <1>3, <2>1, <2>3 DEF Reauthorise, Writing, May, MayReauthorise, Calm, DepartureExplains, Types, TypeOK
  <2>4. CASE Leave(p)
    BY <1>3, <2>1, <2>4 DEF Leave, Left, Writing, May, MayLeave, Grant, Calm, DepartureExplains, Types, TypeOK
  <2>5. CASE Reverse(p)
    BY <1>3, <2>1, <2>5 DEF Reverse, Writing, May, MayReverse, Calm, DepartureExplains, Types, TypeOK
  <2>. QED
    BY <2>2, <2>3, <2>4, <2>5
<1>5. /\ proc[p].kind # "erase" /\ Idle.kind = "none" /\ Idle.step = "idle"
  BY DEF Revoke, Reauthorise, Leave, Reverse, Writing, Idle
<1>6. signed \cap wiped = {} /\ (mem.anonymised => Rows \subseteq wiped /\ signed = {})
  BY <1>2, <1>5, WipeMeans DEF Calm
<1>. QED
  BY <1>1, <1>2, <1>4, <1>5, <1>6, CalmMove

LEMMA GuideCalm ==
    ASSUME Types, Calm, NEW p \in Procs,
           Draft(p) \/ Judge(p) \/ Supersede(p) \/ PutInForce(p) \/ Flag(p) \/ Rejudge(p) \/ NewKey(p)
    PROVE  Calm'
<1>1. /\ proc[p].step # "idle" /\ proc[p].kind # "erase" /\ proc[p] \in Requests
      /\ UNCHANGED <<now, mem, since, wiped, sweep>>
      /\ signed' = signed \/ (Draft(p) /\ signed' = signed \cup proc[p].on)
  <2>1. CASE Draft(p)
    BY <2>1, ProcMoves DEF Types, Draft, Writing
  <2>2. CASE NewKey(p)
    BY <2>2, ProcMoves DEF Types, NewKey, Writing, guides
  <2>. QED
    BY <2>1, <2>2, ProcMoves DEF Types, Judge, Supersede, PutInForce, Flag, Rejudge, Writing
<1>2. sweep = SweepIdle /\ \A q \in Procs \ {p} : proc[q] = Idle
  BY <1>1, OthersIdle DEF Calm
<1>3. /\ proc[p].step = "write" => May(proc[p].kind, proc[p].on)
      /\ proc[p].kind = "commit" => mem.status = "ACTIVE"
      /\ proc[p].kind = "propagate" => proc[p].on \subseteq Rows
  BY DEF Calm, StillHolds
<1>4. /\ signed \cap wiped = {} /\ (mem.anonymised => Rows \subseteq wiped /\ signed = {})
      /\ Rows \subseteq Rows' /\ Rows' \subseteq Rows \cup proc[p].on
  BY <1>1, <1>2, WipeMeans, GuideTypesStep DEF Calm
<1>5. /\ \A q \in Procs \ {p} : proc'[q] = Idle
      /\ \/ proc'[p] = Idle
         \/ proc'[p].kind = "commit" /\ proc'[p].step = "force" /\ proc[p].kind = "commit"
         \/ /\ proc'[p].kind = "propagate" /\ proc'[p].step = "rejudge" /\ proc[p].kind = "propagate"
            /\ proc'[p].on \subseteq proc[p].on
  <2>1. CASE Draft(p) \/ Judge(p) \/ PutInForce(p) \/ NewKey(p)
    BY <1>2, <2>1, ProcMoves DEF Types, Draft, Judge, PutInForce, NewKey
  <2>2. CASE Supersede(p)
    <3>1. proc'[p] = [proc[p] EXCEPT !.step = "force"] /\ \A q \in Procs \ {p} : proc'[q] = Idle
      BY <1>2, <2>2, ProcMoves DEF Types, Supersede
    <3>. QED
      BY <1>1, <2>2, <3>1 DEF Supersede, Writing, Requests
  <2>3. CASE Flag(p)
    <3>1. proc'[p] = [proc[p] EXCEPT !.step = "rejudge"] /\ \A q \in Procs \ {p} : proc'[q] = Idle
      BY <1>2, <2>3, ProcMoves DEF Types, Flag
    <3>. QED
      BY <1>1, <2>3, <3>1 DEF Flag, Writing, Requests
  <2>4. CASE Rejudge(p)
    <3>1. PICK g \in proc[p].on : End(p) \/ proc' = [proc EXCEPT ![p].on = @ \ {g}]
      BY <2>4 DEF Rejudge
    <3>2. CASE End(p)
      BY <1>2, <3>2, ProcMoves DEF Types
    <3>3. CASE proc' = [proc EXCEPT ![p].on = @ \ {g}]
      <4>1. proc \in [Procs -> Requests]
        BY ProcMoves DEF Types
      <4>2. /\ \A q \in Procs \ {p} : proc'[q] = proc[q]
            /\ proc'[p] = [proc[p] EXCEPT !.on = proc[p].on \ {g}]
        BY <3>3, <4>1
      <4>3. proc'[p].kind = proc[p].kind /\ proc'[p].step = proc[p].step
            /\ proc'[p].on = proc[p].on \ {g}
        BY <1>1, <4>2 DEF Requests
      <4>. QED
        BY <1>2, <2>4, <4>2, <4>3 DEF Rejudge
    <3>. QED
      BY <3>1, <3>2, <3>3
  <2>. QED
    BY <2>1, <2>2, <2>3, <2>4
<1>6. /\ DepartureExplains' /\ (mem.anonymised => mem.status # "ACTIVE")
      /\ Idle.kind = "none" /\ Idle.step = "idle"
  BY <1>1 DEF Calm, DepartureExplains, Idle
<1>7. signed' \cap wiped' = {}
  <2>1. CASE Draft(p)
    <3>1. proc[p].on \cap Rows = {}
      BY <1>3, <2>1 DEF Draft, Writing, May
    <3>. QED
      BY <1>1, <1>4, <3>1 DEF Types, RowsOK
  <2>. QED
    BY <1>1, <1>4, <2>1
<1>8. mem'.anonymised => Rows' \subseteq wiped' /\ signed' = {}
  <2>. SUFFICES ASSUME mem.anonymised PROVE Rows' = Rows /\ signed' = signed
    BY <1>1, <1>4
  <2>1. ~ (Draft(p) \/ Judge(p) \/ NewKey(p) \/ Supersede(p) \/ PutInForce(p))
    BY <1>3, <1>6 DEF Draft, Judge, NewKey, Supersede, PutInForce, Writing, May, SignedIn
  <2>2. proc[p].kind = "propagate"
    BY <2>1 DEF Flag, Rejudge, Writing
  <2>. QED
    BY <1>1, <1>3, <1>4, <2>1, <2>2
<1>9. proc'[p].kind = "commit" => mem'.status = "ACTIVE"
  BY <1>1, <1>3, <1>5, <1>6
<1>10. proc'[p].kind = "propagate" => proc'[p].on \subseteq Rows'
  BY <1>3, <1>4, <1>5, <1>6
<1>. QED
  BY <1>1, <1>2, <1>5, <1>6, <1>7, <1>8, <1>9, <1>10, CalmMove

LEMMA EraseCalm ==
    ASSUME Types, Calm, NEW p \in Procs, EraseMember(p) \/ EraseGuides(p) \/ EraseUserRow(p)
    PROVE  Calm'
<1>1. /\ proc[p].step # "idle" /\ proc[p].kind = "erase" /\ proc[p] \in Requests
      /\ UNCHANGED <<now, since, sweep>> /\ Rows' = Rows
  BY EraseTypesStep, ProcMoves DEF Types, EraseMember, EraseGuides, EraseUserRow, Writing, Wiping, guides
<1>2. sweep = SweepIdle /\ \A q \in Procs \ {p} : proc[q] = Idle
  BY <1>1, OthersIdle DEF Calm
<1>3. LET drops == proc[p].step = "signature"
          wipes == proc[p].step = "wipe"
      IN  /\ IF drops THEN signed \subseteq proc[p].on ELSE signed \cap wiped = {}
          /\ mem.anonymised /\ ~ wipes => Rows \subseteq wiped /\ (~ drops => signed = {})
  BY <1>1, <1>2, WipeMeans DEF Calm
<1>4. CASE EraseMember(p)
  <2>1. /\ UNCHANGED <<signed, wiped>> /\ ThenStep(p, "wipe") /\ proc[p].step = "write"
        /\ mem' = [mem EXCEPT !.status = "ANONYMISED", !.anonymised = TRUE]
    BY <1>4 DEF EraseMember, Writing, guides
  <2>2. /\ proc'[p] = [proc[p] EXCEPT !.step = "wipe"]
        /\ \A q \in Procs \ {p} : proc'[q] = Idle
    BY <1>2, <2>1, ProcMoves DEF Types
  <2>3. proc'[p].step = "wipe" /\ proc'[p].kind = "erase"
    BY <1>1, <2>2 DEF Requests
  <2>4. DepartureExplains'
    BY <1>1, <2>1 DEF Calm, DepartureExplains, Types, TypeOK
  <2>. QED
    BY <1>1, <1>2, <1>3, <2>1, <2>2, <2>3, <2>4, CalmMove
<1>5. CASE EraseGuides(p) /\ proc[p].step = "wipe"
  <2>1. /\ Wipe /\ proc' = [proc EXCEPT ![p].step = "signature", ![p].on = ToWipe] /\ UNCHANGED mem
    BY <1>5 DEF EraseGuides
  <2>2. proc \in [Procs -> Requests]
    BY ProcMoves DEF Types
  <2>3. /\ proc'[p].step = "signature" /\ proc'[p].kind = "erase" /\ proc'[p].on = ToWipe
        /\ \A q \in Procs \ {p} : proc'[q] = Idle
    BY <1>1, <1>2, <2>1, <2>2 DEF Requests
  <2>4. wiped' = Rows \cup wiped /\ signed' = signed
    BY <2>1, WipeTypes DEF Types
  <2>5. signed' \subseteq ToWipe
    BY <1>3, <1>5, <2>4 DEF ToWipe, Types, RowsOK
  <2>6. DepartureExplains'
    BY <1>1, <2>1 DEF Calm, DepartureExplains
  <2>. QED
    BY <1>1, <1>2, <2>3, <2>4, <2>5, <2>6, CalmMove
<1>6. CASE EraseGuides(p) /\ proc[p].step # "wipe"
  <2>1. /\ DropSignature(proc[p].on) /\ ThenStep(p, "tombstone") /\ proc[p].step = "signature"
        /\ UNCHANGED mem
    BY <1>6 DEF EraseGuides, Wiping
  <2>2. /\ proc'[p] = [proc[p] EXCEPT !.step = "tombstone"]
        /\ \A q \in Procs \ {p} : proc'[q] = Idle
    BY <1>2, <2>1, ProcMoves DEF Types
  <2>3. proc'[p].step = "tombstone" /\ proc'[p].kind = "erase"
    BY <1>1, <2>2 DEF Requests
  <2>4. signed' = {} /\ wiped' = wiped
    BY <1>3, <2>1 DEF DropSignature
  <2>5. DepartureExplains'
    BY <1>1, <2>1 DEF Calm, DepartureExplains
  <2>. QED
    BY <1>1, <1>2, <1>3, <2>1, <2>2, <2>3, <2>4, <2>5, CalmMove
<1>7. CASE EraseUserRow(p)
  <2>1. End(p) /\ UNCHANGED <<mem, wiped, signed>> /\ proc[p].step = "tombstone"
    BY <1>7 DEF EraseUserRow, guides
  <2>2. /\ proc'[p] = Idle /\ Idle.kind = "none" /\ Idle.step = "idle"
        /\ \A q \in Procs \ {p} : proc'[q] = Idle
    BY <1>2, <2>1, ProcMoves DEF Types, Idle
  <2>3. DepartureExplains'
    BY <1>1, <2>1 DEF Calm, DepartureExplains
  <2>. QED
    BY <1>1, <1>2, <1>3, <2>1, <2>2, <2>3, CalmMove
<1>. QED
  BY <1>4, <1>5, <1>6, <1>7

\* While the sweep works nobody else does anything, and what is to show of its step is
\* about the row it has then, and the member's rows.
LEMMA SweepMove ==
    ASSUME DepartureExplains', \A p \in Procs : proc'[p] = Idle,
           sweep'.step = "suspend" => RevokedDue(sweep.at)',
           sweep'.step = "anonymise" => LeaverDue(sweep.at)',
           IF sweep'.step \in Drops THEN signed' \subseteq sweep'.on ELSE signed' \cap wiped' = {},
           mem'.anonymised /\ sweep'.step \notin Wipes =>
              Rows' \subseteq wiped' /\ (sweep'.step \notin Drops => signed' = {})
    PROVE  Calm'
<1>1. Idle.kind = "none" /\ Idle.step = "idle"
  BY DEF Idle
<1>2. OneAtATime' /\ StillHolds'
  BY <1>1 DEF OneAtATime, StillHolds
<1>3. (Dropping' <=> sweep'.step \in Drops) /\ (MidWipe' <=> sweep'.step \in Wipes)
  BY <1>1 DEF Dropping, MidWipe
<1>4. WipeGoes'
  BY <1>1, <1>3 DEF WipeGoes
<1>. QED
  BY <1>2, <1>4 DEF Calm

LEMMA SweepCalm == ASSUME Types, Calm, calm, SweepStep PROVE Calm'
<1>1. (\A p \in Procs : proc[p] = Idle) /\ UNCHANGED <<proc, now, since>>
  <2>1. UNCHANGED <<proc, now, since>>
    BY DEF SweepStep, SweepBegin, SweepLeavers, SweepMember, SweepGuides, SweepKeys, SweepRevokesKey
  <2>2. CASE SweepBegin
    BY <2>1, <2>2 DEF SweepBegin, Quiet
  <2>3. CASE ~ SweepBegin
    <3>1. sweep.step # "idle" /\ SweepIdle.step = "idle"
      BY <2>3 DEF SweepStep, SweepLeavers, SweepMember, SweepGuides, SweepKeys, SweepRevokesKey, SweepIdle
    <3>. QED
      BY <2>1, <3>1 DEF Calm, OneAtATime
  <2>. QED
    BY <2>2, <2>3
<1>2. /\ Idle.kind = "none" /\ Idle.step = "idle" /\ SweepIdle.step = "idle"
  BY DEF Idle, SweepIdle
<1>3. /\ IF sweep.step \in Drops THEN signed \subseteq sweep.on ELSE signed \cap wiped = {}
      /\ mem.anonymised /\ sweep.step \notin Wipes =>
            Rows \subseteq wiped /\ (sweep.step \notin Drops => signed = {})
  <2>1. (Dropping <=> sweep.step \in Drops) /\ (MidWipe <=> sweep.step \in Wipes)
    BY <1>1, <1>2 DEF Dropping, MidWipe
  <2>. QED
    BY <2>1 DEF Calm, WipeGoes
<1>4. Rows' = Rows /\ DepartureExplains /\ sweep \in [step : SweepSteps, at : Times, on : SUBSET Guides]
  BY SweepTypesStep DEF Calm, Types, SweepOK
<1>5. \A step : SweepTo(step) => sweep'.step = step /\ sweep'.on = sweep.on /\ sweep'.at = sweep.at
  BY <1>4 DEF SweepTo
<1>6. CASE SweepBegin \/ SweepLeavers \/ SweepKeys \/ SweepRevokesKey
  <2>1. UNCHANGED <<mem, guide, wiped, signed>>
    BY <1>6 DEF SweepBegin, SweepLeavers, SweepKeys, SweepRevokesKey, guides
  <2>2. sweep.step \notin Drops \cup Wipes
    BY <1>2, <1>6 DEF SweepBegin, SweepLeavers, SweepKeys, SweepRevokesKey, Drops, Wipes
  <2>3. /\ sweep'.step \notin Drops \cup Wipes
        /\ sweep'.step = "suspend" => RevokedDue(sweep'.at)
        /\ sweep'.step = "anonymise" => LeaverDue(sweep'.at)
    <3>1. CASE SweepBegin
      <4>1. PICK s \in {"suspend", "leavers"} :
               /\ sweep' = [[SweepIdle EXCEPT !.at = now] EXCEPT !.step = s]
               /\ s = "suspend" => RevokedDue(now)
        BY <3>1 DEF SweepBegin
      <4>2. sweep'.step = s /\ sweep'.at = now
        BY <4>1 DEF SweepIdle
      <4>. QED
        BY <4>1, <4>2 DEF Drops, Wipes
    <3>2. CASE SweepLeavers
      <4>1. \/ SweepTo("anonymise") /\ LeaverDue(sweep.at)
            \/ SweepTo("keys")
        BY <3>2 DEF SweepLeavers
      <4>. QED
        BY <1>5, <4>1 DEF Drops, Wipes
    <3>3. CASE SweepKeys \/ SweepRevokesKey
      <4>1. SweepTo("revokeKey") \/ sweep' = SweepIdle
        BY <3>3 DEF SweepKeys, SweepRevokesKey
      <4>. QED
        BY <1>2, <1>5, <4>1 DEF Drops, Wipes
    <3>. QED
      BY <1>6, <3>1, <3>2, <3>3
  <2>4. DepartureExplains' /\ (RevokedDue(sweep'.at) => RevokedDue(sweep.at)')
        /\ (LeaverDue(sweep'.at) => LeaverDue(sweep.at)')
    BY <1>1, <1>4, <2>1 DEF DepartureExplains, RevokedDue, LeaverDue
  <2>. QED
    BY <1>1, <1>3, <1>4, <2>1, <2>2, <2>3, <2>4, SweepMove
<1>7. CASE SweepMember
  <2>1. PICK s \in Wipes : SweepTo(s)
    BY <1>7 DEF SweepMember, Wipes
  <2>2. sweep'.step = s /\ s \in Wipes /\ s \notin Drops \cup {"suspend", "anonymise"}
    BY <1>5, <2>1 DEF Wipes, Drops
  <2>3. DepartureExplains' /\ UNCHANGED <<signed, wiped>>
    BY <1>1, <1>4, <1>7 DEF SweepMember, guides, DepartureExplains, Types, TypeOK
  <2>4. sweep.step \notin Drops
    BY <1>7 DEF SweepMember, Drops
  <2>. QED
    BY <1>1, <1>3, <1>4, <2>2, <2>3, <2>4, SweepMove
<1>8. CASE SweepGuides /\ sweep.step \in Wipes
  <2>1. Wipe /\ UNCHANGED mem /\ \E s \in Drops : sweep' = [sweep EXCEPT !.on = ToWipe, !.step = s]
    BY <1>8 DEF SweepGuides, Wipes, Drops
  <2>2. sweep'.step \in Drops /\ sweep'.on = ToWipe
    BY <1>4, <2>1
  <2>3. wiped' = Rows \cup wiped /\ signed' = signed
    BY <2>1, WipeTypes DEF Types
  <2>4. signed' \subseteq ToWipe
    BY <1>3, <1>8, <2>3 DEF ToWipe, Types, RowsOK, Drops, Wipes
  <2>5. DepartureExplains' /\ sweep'.step \notin Wipes \cup {"suspend", "anonymise"}
    BY <1>1, <1>4, <2>1, <2>2 DEF DepartureExplains, Wipes, Drops
  <2>. QED
    BY <1>1, <1>4, <2>2, <2>3, <2>4, <2>5, SweepMove
<1>9. CASE SweepGuides /\ sweep.step \notin Wipes
  <2>1. /\ DropSignature(sweep.on) /\ UNCHANGED mem /\ sweep.step \in Drops
        /\ \E s \in {"leavers", "keys"} : sweep' = [sweep EXCEPT !.on = {}, !.step = s]
    BY <1>9 DEF SweepGuides, Wipes, Drops
  <2>2. sweep'.step \notin Wipes /\ sweep'.step \notin Drops /\ sweep'.step \notin {"suspend", "anonymise"}
    BY <1>4, <2>1 DEF Wipes, Drops
  <2>3. signed' = {} /\ wiped' = wiped
    BY <1>3, <2>1 DEF DropSignature
  <2>5. mem'.anonymised => Rows' \subseteq wiped'
    BY <1>3, <1>4, <1>9, <2>1, <2>3
  <2>4. DepartureExplains'
    BY <1>1, <1>4, <2>1 DEF DepartureExplains
  <2>. QED
    BY <1>1, <2>2, <2>3, <2>4, <2>5, SweepMove
<1>. QED
  BY <1>6, <1>7, <1>8, <1>9 DEF SweepStep

LEMMA BeginCalm == ASSUME Types, Calm, calm, NEW p \in Procs, Begin(p) PROVE Calm'
<1>1. PICK kind \in Kinds, on \in SUBSET Guides :
         /\ May(kind, on)
         /\ proc' = [proc EXCEPT ![p] = [kind |-> kind, step |-> "write", on |-> on]]
  BY DEF Begin
<1>. DEFINE x == [kind |-> kind, step |-> "write", on |-> on]
<1>2. /\ UNCHANGED <<now, mem, since, guide, wiped, signed, passed, apiKey, erased, sweep>>
      /\ sweep = SweepIdle /\ \A q \in Procs : proc[q] = Idle
  BY DEF Begin, Quiet, guides
<1>3. x \in Requests /\ x.kind = kind /\ x.on = on /\ x.step = "write"
  BY DEF Requests
<1>4. proc'[p] = x /\ \A q \in Procs \ {p} : proc'[q] = Idle
  <2>1. proc \in [Procs -> Requests]
    BY ProcMoves DEF Types
  <2>. QED
    BY <1>1, <1>2, <2>1
<1>5. Rows' = Rows /\ DepartureExplains' /\ (May(kind, on) <=> May(proc[p].kind, proc[p].on)')
  <2>1. proc'[p].kind = kind /\ proc'[p].on = on
    BY <1>3, <1>4
  <2>. QED
    BY <1>2, <2>1 DEF Calm, DepartureExplains, Rows, May, MayRevoke, MayReauthorise, MayLeave, MayReverse,
                     SignedIn, Live
<1>6. /\ signed \cap wiped = {} /\ (mem.anonymised => Rows \subseteq wiped /\ signed = {})
      /\ Idle.kind = "none" /\ Idle.step = "idle"
  BY <1>2, WipeMeans DEF Calm, Idle
<1>7. kind = "commit" => mem.status = "ACTIVE"
  BY <1>1 DEF May, SignedIn
<1>8. kind = "propagate" => on \subseteq Rows
  BY <1>1 DEF May, Live, Rows
<1>. HIDE DEF x
<1>. QED
  BY <1>1, <1>2, <1>3, <1>4, <1>5, <1>6, <1>7, <1>8, CalmMove

\* What is checked is a matter of these rows.
LEMMA MayStays ==
    ASSUME UNCHANGED <<mem, guide, passed, apiKey, erased, proc, sweep>>, StillHolds
    PROVE  StillHolds'
<1>1. Rows' = Rows /\ Live' = Live
  BY DEF Rows, Live
<1>2. ASSUME NEW p \in Procs, May(proc[p].kind, proc[p].on)
      PROVE  May(proc[p].kind, proc[p].on)'
  BY <1>1, <1>2 DEF May, MayRevoke, MayReauthorise, MayLeave, MayReverse, SignedIn
<1>. QED
  BY <1>1, <1>2 DEF StillHolds, RevokedDue, LeaverDue

LEMMA TickCalm == ASSUME Types, Calm, Tick PROVE Calm'
<1>1. /\ UNCHANGED <<mem, since, guide, wiped, signed, passed, conflicts, apiKey, erased, proc, sweep>>
      /\ now' = now + 1 /\ now \in Nat /\ since \in Nat
  BY DEF Tick, guides, Types, TypeOK, Times
<1>2. OneAtATime' /\ DepartureExplains'
  BY <1>1 DEF Calm, OneAtATime, DepartureExplains
<1>3. StillHolds'
  BY <1>1, MayStays DEF Calm
<1>4. WipeGoes'
  BY <1>1 DEF Calm, WipeGoes, Dropping, MidWipe, Rows
<1>. QED
  BY <1>2, <1>3, <1>4 DEF Calm

LEMMA InitInv == ASSUME Init PROVE IInv
<1>. USE DEF Init
<1>1. now \in 1..MaxTime /\ 0 \in Times /\ 0 \in 0..(MaxTime + Grace) /\ 0 \in 0..MaxFaults
  BY BoundsAssumption DEF Times
<1>2. /\ Idle \in Requests /\ Idle.kind = "none" /\ Idle.step = "idle"
      /\ SweepIdle = [step |-> "idle", at |-> 0, on |-> {}] /\ "idle" \in SweepSteps
      /\ SweepIdle.step \notin Drops \cup Wipes
  BY DEF Idle, SweepIdle, Requests, SweepSteps, Drops, Wipes
<1>3. guide \in [Guides -> GuideStatuses] /\ signed \subseteq Rows /\ signed \subseteq Guides /\ passed = signed
  BY DEF GuideStatuses, Rows
<1>4. TypeOK
  BY <1>1, <1>2, <1>3 DEF TypeOK, Requests, Statuses
<1>5. SweepOK /\ RowsOK
  BY <1>1, <1>2, <1>3 DEF SweepOK, RowsOK
<1>6. OneAtATime /\ DepartureExplains
  BY <1>1 DEF OneAtATime, DepartureExplains
<1>7. StillHolds /\ WipeGoes
  BY <1>2 DEF StillHolds, WipeGoes, Dropping, MidWipe
<1>. QED
  BY <1>4, <1>5, <1>6, <1>7 DEF IInv

LEMMA Step == IInv /\ [Next]_vars => IInv'
<1>. SUFFICES ASSUME IInv, [Next]_vars PROVE IInv'
  OBVIOUS
<1>1. Types /\ Types'
  BY TypesStep DEF IInv, Types
<1>2. calm' = calm
  BY DEF Next, vars, Tick, SweepStep, SweepBegin, SweepLeavers, SweepMember, SweepGuides, SweepKeys,
         SweepRevokesKey, SweepFails, Begin, Crash, ProcStep, Revoke, Reauthorise, Leave, Reverse, Draft,
         Judge, Supersede, PutInForce, Flag, Rejudge, NewKey, EraseMember, EraseGuides, EraseUserRow
<1>3. ASSUME calm PROVE Calm'
  <2>1. Calm
    BY <1>3 DEF IInv, Calm
  <2>2. CASE UNCHANGED vars
    BY <2>1, <2>2, MayStays DEF vars, guides, Calm, OneAtATime, DepartureExplains, WipeGoes, Dropping,
                                MidWipe, Rows
  <2>3. ~ SweepFails /\ \A p \in Procs : ~ Crash(p)
    BY <1>3 DEF SweepFails, Crash, Fault
  <2>. QED
    BY <1>1, <1>3, <2>1, <2>2, <2>3, TickCalm, SweepCalm, BeginCalm, MemberCalm, GuideCalm, EraseCalm
       DEF Next, ProcStep
<1>. QED
  BY <1>1, <1>2, <1>3 DEF IInv, Types, Calm
-----------------------------------------------------------------------------
\* A membership that was anonymised has no guide left with its rules or its signature,
\* whatever was drafted, judged, frozen, restored and superseded before.
THEOREM AnonymisedGuidesAreWiped == Spec => []WipeInv
<1>1. IInv => WipeInv
  BY DEF IInv, WipeInv, AnonymisedIsWiped, WipeGoes, Dropping, MidWipe, Quiet, Idle, SweepIdle, Drops, Wipes
<1>. QED
  BY <1>1, InitInv, Step, PTL DEF Spec

\* The sweep takes nobody who has not decided, or been marked, to leave a full grace ago.
THEOREM NobodyIsSweptEarly == Spec => SweptAfterGrace
<1>1. IInv => (calm /\ SweepMember => since # 0 /\ now - since >= Grace)
  <2>. SUFFICES ASSUME IInv, calm, SweepMember PROVE since # 0 /\ now - since >= Grace
    OBVIOUS
  <2>1. RevokedDue(sweep.at) \/ LeaverDue(sweep.at)
    BY DEF SweepMember, IInv, StillHolds
  <2>2. since # 0 /\ since + Grace <= sweep.at
    BY <2>1 DEF RevokedDue, LeaverDue, IInv, DepartureExplains
  <2>3. sweep.at <= now /\ sweep.at \in Nat /\ now \in Nat /\ since \in Nat /\ Grace \in Nat
    BY BoundsAssumption DEF IInv, TypeOK, SweepOK, Times
  <2>. QED
    BY <2>2, <2>3
<1>. QED
  BY <1>1, InitInv, Step, PTL DEF Spec, SweptAfterGrace

\* There is no way back to ACTIVE for a member whose guides were destroyed.
THEOREM AnonymisedStays == Spec => AnonymisedNeverActive
<1>1. IInv /\ [Next]_vars => (calm /\ mem.anonymised => mem'.status # "ACTIVE")
  <2>. SUFFICES ASSUME IInv, [Next]_vars, calm, mem.anonymised PROVE mem'.status # "ACTIVE"
    OBVIOUS
  <2>1. IInv' /\ calm'
    BY Step, ZenonT(60) DEF Next, vars, Tick, SweepStep, SweepBegin, SweepLeavers, SweepMember, SweepGuides, SweepKeys,
         SweepRevokesKey, SweepFails, Begin, Crash, ProcStep, Revoke, Reauthorise, Leave, Reverse, Draft,
         Judge, Supersede, PutInForce, Flag, Rejudge, NewKey, EraseMember, EraseGuides, EraseUserRow
  <2>2. mem'.anonymised
    BY DEF Next, vars, Tick, SweepStep, SweepBegin, SweepLeavers, SweepMember, SweepGuides, SweepKeys,
         SweepRevokesKey, SweepFails, Begin, Crash, ProcStep, Revoke, Reauthorise, Leave, Left, Reverse,
         Draft, Judge, Supersede, PutInForce, Flag, Rejudge, NewKey, EraseMember, EraseGuides, EraseUserRow,
         IInv, TypeOK
  <2>. QED
    BY <2>1, <2>2 DEF IInv, DepartureExplains
<1>. QED
  BY <1>1, InitInv, Step, PTL DEF Spec, AnonymisedNeverActive
=============================================================================
