----------------------------- MODULE ApiIdempotency -----------------------------
(***************************************************************************)
(* Idempotency keys of /api/v1, src/lib/auth/api-keys/idempotency.ts, with *)
(* the one route that uses them, POST /api/v1/webhooks/replay.             *)
(*                                                                         *)
(* Rows of different (apiKeyId, key, methodPath) never meet, so one slot   *)
(* of the unique index is modelled: requests reserve it, execute, complete *)
(* it, or find it taken and look at what is there.  Each database call is  *)
(* a step of its own and other requests run in between, as does the purge  *)
(* of the lifecycle sweep.                                                 *)
(***************************************************************************)
EXTENDS Naturals, FiniteSets

CONSTANTS Requests,           \* calls with this key
          BodyOf,             \* request -> requestHash
          TTL,                \* IDEMPOTENCY_TTL_MS
          MaxTime,            \* bound: time
          MaxFaults           \* bound: errors, oversized responses and crashes

VARIABLES now,
          row,                \* the row of the slot, if any; its id is the request that made it
          req,                \* program counter, locals and answer of each request
          effects,            \* the executions that took effect: who, and when reserved
          faults

vars == <<now, row, req, effects, faults>>

Times == 0..MaxTime
Pcs == {"new", "reserve", "execute", "complete", "drop", "lookup", "purge", "done"}
Answers == {"none", "fresh", "replay", "409", "422", "500"}

NoOne == "no request"

ASSUME IdempotencyAssumption ==
    TTL \in Nat /\ MaxTime \in Nat /\ MaxFaults \in Nat /\ NoOne \notin Requests

Bodies == {BodyOf[r] : r \in Requests}
NoRow == [id |-> NoOne, hash |-> NoOne, done |-> FALSE, expires |-> 0]
New == [pc |-> "new", at |-> 0, read |-> NoOne, answer |-> "none", from |-> NoOne,
        won |-> 0, until |-> 0, dropped |-> "no"]

Init == /\ now = 0
        /\ row = NoRow
        /\ req = [r \in Requests |-> New]
        /\ effects = {}
        /\ faults = 0

Goto(r, pc) == req' = [req EXCEPT ![r].pc = pc]

\* The request ends; the response, if it carries one, is that of the execution of `from'.
Answer(r, answer, from) ==
    req' = [req EXCEPT ![r] = [@ EXCEPT !.pc = "done", !.answer = answer, !.from = from,
                                        !.until = now]]

Fault == faults < MaxFaults /\ faults' = faults + 1
-----------------------------------------------------------------------------
\* The wrapper takes the time once.  A reservation must have the time to expire.
Begin(r) == /\ req[r].pc = "new" /\ now + TTL < MaxTime
            /\ req' = [req EXCEPT ![r] = [@ EXCEPT !.pc = "reserve", !.at = now]]
            /\ UNCHANGED <<now, row, effects, faults>>

\* Mutation of SlotFree: no unique index.
SlotAlwaysFree == TRUE

\* The unique index on (apiKeyId, key, methodPath).
SlotFree == row.id = NoOne

ExpiresAt(r) == req[r].at + TTL

\* Phase 1: the insert, or the unique violation.
Reserve(r) ==
    /\ req[r].pc = "reserve"
    /\ IF SlotFree
       THEN /\ row' = [id |-> r, hash |-> BodyOf[r], done |-> FALSE,
                       expires |-> ExpiresAt(r)]
            /\ req' = [req EXCEPT ![r] = [@ EXCEPT !.pc = "execute", !.won = now]]
       ELSE Goto(r, "lookup") /\ UNCHANGED row
    /\ UNCHANGED <<now, effects, faults>>

TakesEffect(r) == effects' = effects \cup {r}
GiveUp(r, why) == req' = [req EXCEPT ![r] = [@ EXCEPT !.pc = "drop", !.dropped = why]]

\* Phase 2: the handler returns, with a response that may be over the cap, or throws,
\* before or after what it does took effect.
Execute(r) ==
    /\ req[r].pc = "execute"
    /\ \/ TakesEffect(r) /\ Goto(r, "complete") /\ UNCHANGED faults
       \/ Fault /\ TakesEffect(r) /\ GiveUp(r, "oversized")
       \/ Fault /\ (TakesEffect(r) \/ UNCHANGED effects) /\ GiveUp(r, "threw")
    /\ UNCHANGED <<now, row>>

\* Mutation of OwnRow: the row is addressed by the slot's key.
SlotRow(id) == row.id # NoOne

\* where: { id }
OwnRow(id) == row.id = id

\* The best-effort delete of the reservation, which may itself fail: the error is
\* rethrown, the oversized response returned.
Drop(r) ==
    /\ req[r].pc = "drop"
    /\ \/ OwnRow(r) /\ row' = NoRow /\ UNCHANGED faults
       \/ ~ OwnRow(r) /\ UNCHANGED <<row, faults>>
       \/ Fault /\ UNCHANGED row
    /\ IF req[r].dropped = "oversized" THEN Answer(r, "fresh", r) ELSE Answer(r, "500", NoOne)
    /\ UNCHANGED <<now, effects>>

\* Phase 3: the update; it throws if the row is gone or the database fails.
Complete(r) ==
    /\ req[r].pc = "complete"
    /\ \/ /\ OwnRow(r)
          /\ row' = [row EXCEPT !.done = TRUE]
          /\ Answer(r, "fresh", r)
          /\ UNCHANGED faults
       \/ ~ OwnRow(r) /\ Answer(r, "500", NoOne) /\ UNCHANGED <<row, faults>>
       \/ Fault /\ Answer(r, "500", NoOne) /\ UNCHANGED row
    /\ UNCHANGED <<now, effects>>
-----------------------------------------------------------------------------
Expired(x, t) == x.expires < t

\* Mutation of SameBody: the body is not compared.
AnyBody(r, x) == TRUE

SameBody(r, x) == x.hash = BodyOf[r]

\* completedAt, statusCode and responseBody are set, always together.
Finished(x) == x.done

\* replayOrConflict: the lookup and what is decided from it.
Lookup(r) ==
    /\ req[r].pc = "lookup"
    /\ \/ row.id = NoOne /\ Answer(r, "409", NoOne)
       \/ /\ row.id # NoOne /\ Expired(row, req[r].at)
          /\ req' = [req EXCEPT ![r] = [@ EXCEPT !.pc = "purge", !.read = row.id]]
       \/ /\ row.id # NoOne /\ ~ Expired(row, req[r].at)
          /\ \/ ~ SameBody(r, row) /\ Answer(r, "422", NoOne)
             \/ SameBody(r, row) /\ ~ Finished(row) /\ Answer(r, "409", NoOne)
             \/ SameBody(r, row) /\ Finished(row) /\ Answer(r, "replay", row.id)
    /\ UNCHANGED <<now, row, effects, faults>>

\* The delete of the row that was read, and the 409 that follows whatever it did.
PurgeRead(r) ==
    /\ req[r].pc = "purge"
    /\ \/ OwnRow(req[r].read) /\ row' = NoRow /\ UNCHANGED faults
       \/ ~ OwnRow(req[r].read) /\ UNCHANGED <<row, faults>>
       \/ Fault /\ UNCHANGED row
    /\ Answer(r, "409", NoOne)
    /\ UNCHANGED <<now, effects>>

\* The process dies; the caller sees an error.
Crash(r) == /\ req[r].pc \notin {"new", "done"}
            /\ Fault
            /\ Answer(r, "500", NoOne)
            /\ UNCHANGED <<now, row, effects>>

Sweepable(x) == x.id # NoOne /\ Expired(x, now)

\* purgeExpiredIdempotencyKeys
Sweep == /\ Sweepable(row)
         /\ row' = NoRow
         /\ UNCHANGED <<now, req, effects, faults>>

Tick == /\ now < MaxTime
        /\ now' = now + 1
        /\ UNCHANGED <<row, req, effects, faults>>

RequestStep(r) == \/ Begin(r) \/ Reserve(r) \/ Execute(r) \/ Drop(r)
                  \/ Complete(r) \/ Lookup(r) \/ PurgeRead(r)

Next == Tick \/ Sweep \/ \E r \in Requests : RequestStep(r) \/ Crash(r)

Spec == Init /\ [][Next]_vars
-----------------------------------------------------------------------------
Rows == [id : Requests, hash : Bodies, done : BOOLEAN, expires : 0..MaxTime]
Calls == [pc : Pcs, at : Times, read : Requests \cup {NoOne}, answer : Answers,
          from : Requests \cup {NoOne}, won : Times, until : Times,
          dropped : {"no", "threw", "oversized"}]

TypeOK ==
    /\ now \in Times /\ faults \in 0..MaxFaults
    /\ effects \subseteq Requests
    /\ row \in Rows \cup {NoRow}
    /\ req \in [Requests -> Calls]

\* The request gave its reservation up: it threw, or its response was over the cap.
GaveUp(r) == req[r].dropped # "no"

\* Of two executions that both took effect, one won its reservation after the TTL of
\* the other, whatever was purged, read late or crashed in between, unless one gave up
\* its reservation (idempotency.ts: a retry must not double-fire the side effect).
OncePerWindow ==
    \A r, q \in effects : r # q => \/ req[q].won > req[r].at + TTL
                                  \/ req[r].won > req[q].at + TTL
                                  \/ GaveUp(r) \/ GaveUp(q)

\* A response that is replayed is that of an execution of the same body which took
\* effect and which its own caller may have been told of.
ReplayIsGenuine ==
    \A r \in Requests : req[r].answer = "replay" =>
        LET p == req[r].from
        IN  /\ p \in effects /\ BodyOf[p] = BodyOf[r]
            /\ req[p].answer \in {"fresh", "500"}

ReplayInv == TypeOK /\ ReplayIsGenuine

\* The route's promise to a caller that was answered: a retry that begins later and
\* ends within the TTL of the first call gets the first call's response.
RetryGetsOriginal ==
    [][\A r, p \in Requests :
          /\ req[r].pc # "done" /\ req'[r].pc = "done" /\ req'[r].answer # "500"
          /\ req[p].answer = "fresh" /\ ~ GaveUp(p)
          /\ req[p].until < req[r].at /\ BodyOf[p] = BodyOf[r]
          /\ now <= req[p].at + TTL
          => req'[r].answer = "replay" /\ req'[r].from = p]_vars
=============================================================================
