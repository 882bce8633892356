--------------------------------- MODULE AutoDraft ---------------------------------
(***************************************************************************)
(* Drafting without a person, src/lib/drafts: the sweep over undrafted     *)
(* inbound messages of a tenant, the circuit breaker that pauses it and    *)
(* lifts its own pause, the quarantine of a message that keeps failing,    *)
(* and the administrators who pause, resume, retry and backfill.           *)
(*                                                                         *)
(* Times are ages in ticks, saturated where the code stops distinguishing  *)
(* them: a pause has an age while it is the breaker's own.  No tick falls  *)
(* between the evaluations of a tenant, which use the sweep's one time.    *)
(***************************************************************************)
EXTENDS Naturals, FiniteSets, FiniteSetsExt

CONSTANTS Inbound,             \* ingested messages, numbered by age
          Admins,
          Backfills,           \* presses of the backfill button that may be under way at once
          FAILURE_THRESHOLD, QUARANTINE_THRESHOLD,
          WINDOW, MIN_PAUSE, THRASH_WINDOW,
          MaxPerPass,
          MaxFaults            \* bound: sweeps that die, statements that throw

VARIABLES pause,               \* Tenant.autoDraftPaused*, autoDraftAutoResumeAt
          failed,              \* failed LlmCall rows by age
          inbound,             \* the message rows and how many drafts each has
          down,                \* the model provider is out
          sweep,               \* the cron's pass and the administrators' backfills
          faults,
          excused              \* history: something beside one broken message went wrong

vars == <<pause, failed, inbound, down, sweep, faults, excused>>

None == "none"
SENTINEL_ACTOR == "(circuit-breaker)"
LOCKED_SENTINEL_ACTOR == "(circuit-breaker-locked)"

\* The advisory lock keeps runs of the cron apart; the backfill route takes no lock.
Sources == {"CRON"} \cup Backfills
Kinds == {None, "fine", "broken", "ownerless"}
Ages == 0 .. WINDOW
Least(a, b) == IF a < b THEN a ELSE b

Running == [by |-> None, age |-> 0, resumed |-> THRASH_WINDOW]
NotRun == [pc |-> "idle", locks |-> FALSE, todo |-> {}, made |-> 0, attempts |-> 0]

Init == /\ pause = Running
        /\ failed = [a \in Ages |-> 0]
        /\ inbound = [m \in Inbound |-> [kind |-> None, attempts |-> 0,
                                         quarantined |-> FALSE, drafts |-> 0]]
        /\ down = FALSE
        /\ sweep = [s \in Sources |-> NotRun]
        /\ faults = 0
        /\ excused = FALSE

Goto(s, pc) == sweep' = [sweep EXCEPT ![s].pc = pc]
Ends(s) == sweep' = [sweep EXCEPT ![s] = NotRun]
Paused == pause.by # None
Evaluating(s) == sweep[s].pc \in {"resume", "lift", "breaker", "trip"}
-----------------------------------------------------------------------------
\* "createdAt: { gte: windowStart }": the rows, numbered within their age.
FailedRows == {r \in Ages \X (1 .. FAILURE_THRESHOLD) : r[2] <= failed[r[1]]}
recentFailures == Cardinality(FailedRows)

\* The administrators' backfill does not consult the breaker.
runAutoDraftSweep(s) ==
    /\ sweep[s].pc = "idle"
    /\ Goto(s, IF s = "CRON" THEN "resume" ELSE "list")
    /\ UNCHANGED <<pause, failed, inbound, down, faults, excused>>

\* Mutation of MayResume: any pause of the breaker's.
MayResumeLocked ==
    \/ pause.by = SENTINEL_ACTOR /\ pause.age >= MIN_PAUSE
    \/ pause.by = LOCKED_SENTINEL_ACTOR

\* Only the bare sentinel, and no pause that is too recent.
MayResume == pause.by = SENTINEL_ACTOR /\ pause.age >= MIN_PAUSE

evaluateAutoResume(s) ==
    /\ sweep[s].pc = "resume"
    /\ Goto(s, IF MayResume THEN "lift" ELSE "breaker")
    /\ UNCHANGED <<pause, failed, inbound, down, faults, excused>>

\* The update names the tenant alone, whoever has paused it since.
LiftPause(s) ==
    /\ sweep[s].pc = "lift"
    /\ pause' = IF recentFailures = 0
                THEN [by |-> None, age |-> 0, resumed |-> 0] ELSE pause
    /\ Goto(s, "breaker")
    /\ UNCHANGED <<failed, inbound, down, faults, excused>>

\* The last automatic resume is within the thrash window.
Thrashes == pause.resumed < THRASH_WINDOW

evaluateAutoPauseCircuitBreaker(s) ==
    /\ sweep[s].pc = "breaker"
    /\ IF Paused THEN Ends(s)
       ELSE sweep' = [sweep EXCEPT ![s].pc = "trip", ![s].locks = Thrashes]
    /\ UNCHANGED <<pause, failed, inbound, down, faults, excused>>

\* The pause is written before the audit row and the notices.
Trip(s) ==
    /\ sweep[s].pc = "trip"
    /\ IF recentFailures < FAILURE_THRESHOLD
       THEN Goto(s, "list") /\ UNCHANGED pause
       ELSE /\ pause' = [pause EXCEPT !.age = 0, !.by = IF sweep[s].locks
                                                        THEN LOCKED_SENTINEL_ACTOR
                                                        ELSE SENTINEL_ACTOR]
            /\ Ends(s)
    /\ UNCHANGED <<failed, inbound, down, faults, excused>>

\* An evaluation that throws is reported and passed over.
EvaluationThrows(s) ==
    /\ faults < MaxFaults /\ Evaluating(s)
    /\ Goto(s, IF sweep[s].pc \in {"resume", "lift"} THEN "breaker" ELSE "list")
    /\ faults' = faults + 1
    /\ UNCHANGED <<pause, failed, inbound, down, excused>>
-----------------------------------------------------------------------------
\* Mutation of Undrafted: whatever has been drafted already.
AnyDrafts(m) == TRUE

\* No draft points at the message.
Undrafted(m) == inbound[m].drafts = 0

Candidate(m) == inbound[m].kind # None /\ Undrafted(m) /\ ~ inbound[m].quarantined

\* "orderBy: { createdAt: "asc" }": the oldest is the sweep's next.
InHand(s) == Min(sweep[s].todo)
Rest(s) == sweep[s].todo \ {InHand(s)}

\* The sweep turns to what is left, if it may: nothing of interest follows its last message.
GoOn(s, left, made) ==
    sweep' = [sweep EXCEPT ![s] = IF left = {} \/ made >= MaxPerPass THEN NotRun
                                  ELSE [NotRun EXCEPT !.pc = "next", !.todo = left, !.made = made]]

ListCandidates(s) ==
    /\ sweep[s].pc = "list"
    /\ GoOn(s, {m \in Inbound : Candidate(m)}, 0)
    /\ UNCHANGED <<pause, failed, inbound, down, faults, excused>>

\* Mutation of Drafting: the sweep alone knows about the pause.
DraftingAlways(m) == inbound[m].kind # "ownerless" /\ Undrafted(m) /\ ~ inbound[m].quarantined

\* The skips of produceDraftFromInbound: the pause first, then the message and its owner.
Drafting(m) == ~ Paused /\ inbound[m].kind # "ownerless" /\ Undrafted(m) /\ ~ inbound[m].quarantined

produceDraftFromInbound(s) ==
    /\ sweep[s].pc = "next"
    /\ LET m == InHand(s) IN
       IF Drafting(m)
       THEN /\ sweep' = [sweep EXCEPT ![s].pc = "call", ![s].attempts = inbound[m].attempts]
            /\ excused' = (excused \/ \E t \in Sources \ {s} :
                             sweep[t].pc \in {"call", "record"} /\ InHand(t) = m)
       ELSE /\ GoOn(s, Rest(s), sweep[s].made)
            /\ UNCHANGED excused
    /\ UNCHANGED <<pause, failed, inbound, down, faults>>

CallSucceeds(s) == sweep[s].pc = "call" /\ ~ down /\ inbound[InHand(s)].kind # "broken"

CreateDraft(m) == inbound' = [inbound EXCEPT ![m].drafts = @ + 1]

Drafted(s) ==
    /\ CallSucceeds(s) /\ CreateDraft(InHand(s))
    /\ GoOn(s, Rest(s), sweep[s].made + 1)
    /\ UNCHANGED <<pause, failed, down, faults, excused>>

\* The draft is there, but its audit event fails: the sweep counts an error, and no draft.
AuditThrows(s) ==
    /\ faults < MaxFaults /\ CallSucceeds(s) /\ CreateDraft(InHand(s))
    /\ faults' = faults + 1
    /\ GoOn(s, Rest(s), sweep[s].made)
    /\ UNCHANGED <<pause, failed, down, excused>>

\* A statement of produceDraftFromInbound throws: a lookup before the call, the creation of
\* the draft after it, or the update that would count its failure.  The sweep goes on.
ProduceThrows(s) ==
    /\ faults < MaxFaults
    /\ sweep[s].pc \in {"next", "record"} \/ CallSucceeds(s)
    /\ faults' = faults + 1
    /\ GoOn(s, Rest(s), sweep[s].made)
    /\ excused' = (excused \/ sweep[s].pc = "record")
    /\ UNCHANGED <<pause, failed, inbound, down>>

CallFails(s) ==
    /\ sweep[s].pc = "call"
    /\ down \/ inbound[InHand(s)].kind = "broken"
    /\ failed' = [failed EXCEPT ![0] = Least(FAILURE_THRESHOLD, @ + 1)]
    /\ Goto(s, "record")
    /\ UNCHANGED <<pause, inbound, down, faults, excused>>

\* Mutation of Quarantines: one attempt more.
QuarantinesLate(n) == n > QUARANTINE_THRESHOLD

Quarantines(n) == n >= QUARANTINE_THRESHOLD

\* The count is the one read before the call, plus one.
RecordFailure(s) ==
    /\ sweep[s].pc = "record"
    /\ LET m == InHand(s)
           n == Least(QUARANTINE_THRESHOLD + 1, sweep[s].attempts + 1)
       IN inbound' = [inbound EXCEPT ![m].attempts = n,
                                     ![m].quarantined = @ \/ Quarantines(n)]
    /\ GoOn(s, Rest(s), sweep[s].made)
    /\ UNCHANGED <<pause, failed, down, faults, excused>>

Dies(s) ==
    /\ faults < MaxFaults /\ sweep[s].pc # "idle"
    /\ faults' = faults + 1
    /\ Ends(s)
    /\ excused' = (excused \/ sweep[s].pc = "record")
    /\ UNCHANGED <<pause, failed, inbound, down>>
-----------------------------------------------------------------------------
\* A pause that stands gets another name.
PauseBy(a) ==
    /\ pause' = [pause EXCEPT !.by = a, !.age = 0]
    /\ UNCHANGED <<failed, inbound, down, sweep, faults, excused>>

\* A resume by a person forgets the breaker's.
ResumeBy(a) ==
    /\ Paused
    /\ pause' = Running
    /\ UNCHANGED <<failed, inbound, down, sweep, faults, excused>>

Unquarantine(m) ==
    /\ inbound[m].quarantined
    /\ inbound' = [inbound EXCEPT ![m].quarantined = FALSE, ![m].attempts = 0]
    /\ excused' = TRUE
    /\ UNCHANGED <<pause, failed, down, sweep, faults>>

\* Every call about a broken message fails; of an ownerless one the channel has no active
\* authorisation, or the member may have no drafts.
Arrives(m) ==
    /\ inbound[m].kind = None
    /\ \E k \in Kinds \ {None} : inbound' = [inbound EXCEPT ![m].kind = k]
    /\ UNCHANGED <<pause, failed, down, sweep, faults, excused>>

OutageTurns ==
    /\ down' = ~ down
    /\ excused' = TRUE
    /\ UNCHANGED <<pause, failed, inbound, sweep, faults>>

Tick ==
    /\ ~ \E s \in Sources : Evaluating(s)
    /\ failed' = [a \in Ages |-> IF a = 0 THEN 0 ELSE failed[a - 1]]
    /\ pause' = [pause EXCEPT !.age = IF pause.by = SENTINEL_ACTOR THEN Least(MIN_PAUSE, @ + 1)
                                      ELSE 0,
                              !.resumed = Least(THRASH_WINDOW, @ + 1)]
    /\ UNCHANGED <<inbound, down, sweep, faults, excused>>

SweepStep(s) ==
    \/ runAutoDraftSweep(s) \/ evaluateAutoResume(s) \/ LiftPause(s)
    \/ evaluateAutoPauseCircuitBreaker(s) \/ Trip(s)
    \/ ListCandidates(s) \/ produceDraftFromInbound(s)
    \/ Drafted(s) \/ CallFails(s) \/ RecordFailure(s)

Throws(s) == EvaluationThrows(s) \/ ProduceThrows(s) \/ AuditThrows(s)

Next == \/ \E s \in Sources : SweepStep(s) \/ Throws(s) \/ Dies(s)
        \/ \E a \in Admins : PauseBy(a) \/ ResumeBy(a)
        \/ \E m \in Inbound : Unquarantine(m) \/ Arrives(m)
        \/ OutageTurns \/ Tick

\* The cron comes round and its calls end, and time passes between the passes; nobody has to
\* press a button, and a backfill may take for ever.
Spec == /\ Init /\ [][Next]_vars
        /\ WF_vars(SweepStep("CRON"))
        /\ SF_vars(Tick)
-----------------------------------------------------------------------------
TypeOK ==
    /\ pause \in [by : {None, SENTINEL_ACTOR, LOCKED_SENTINEL_ACTOR} \cup Admins,
                  age : 0 .. MIN_PAUSE, resumed : 0 .. THRASH_WINDOW]
    /\ failed \in [Ages -> 0 .. FAILURE_THRESHOLD]
    /\ inbound \in [Inbound -> [kind : Kinds, attempts : 0 .. QUARANTINE_THRESHOLD + 1,
                                quarantined : BOOLEAN, drafts : Nat]]

\* "idempotency check is the safety net": a message has at most one draft for each sweep that
\* can have found it undrafted before another drafted it, the cron's and every backfill that
\* runs beside it, however often they come round.  Nothing in the schema forbids the second.
DraftedOncePerSweep == \A m \in Inbound : inbound[m].drafts <= Cardinality(Sources)

InboundInv == TypeOK /\ DraftedOncePerSweep

\* "Three is deliberately below item 59's FAILURE_THRESHOLD (5) so a single broken inbound is
\* contained": one such message does not stop the tenant's drafting, unless the provider was
\* out, somebody put the message back, two sweeps tried it at once, or an attempt went uncounted.
BrokenIsContained ==
    pause.by \in {SENTINEL_ACTOR, LOCKED_SENTINEL_ACTOR}
        /\ Cardinality({m \in Inbound : inbound[m].kind = "broken"}) <= 1 => excused

\* A pause that the breaker has locked is ended by an administrator and by no sweep.
LockStands == [][pause.by = LOCKED_SENTINEL_ACTOR /\ pause'.by # LOCKED_SENTINEL_ACTOR
                    => UNCHANGED sweep]_vars

\* A pause of the breaker's own ends without anybody's help, outage or not: while it lasts
\* nothing is tried, so the failures it looks at grow old.
BreakerPauseEnds == pause.by = SENTINEL_ACTOR ~> pause.by # SENTINEL_ACTOR

\* "Only when paused with the `(circuit-breaker)` sentinel (never operator-paused": what an
\* administrator paused, no sweep resumes.
OperatorPauseStands == [][pause.by \in Admins /\ pause'.by = None => UNCHANGED sweep]_vars
=============================================================================
