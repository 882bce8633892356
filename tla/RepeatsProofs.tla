------------------------------- MODULE RepeatsProofs -------------------------------
(***************************************************************************)
(* Proofs about the three things that are asked for again: the calls of    *)
(* ApiIdempotency, for every set of requests, every TTL and every bound on *)
(* time and on faults; the mail of Channels, for any number of mailboxes,  *)
(* tabs and ingests; the notices of Notifications, for any staff and any   *)
(* number of runs.                                                         *)
(***************************************************************************)
EXTENDS Repeats, SequenceTheorems, FiniteSetTheorems, WellFoundedInduction, TLAPS

\* A request that has won the slot: it executes, or what it executed took effect.
Won(r) == req[r].pc \in {"execute", "complete", "drop"} \/ r \in effects

\* What the program counter of a request says of its other fields.
Progress ==
    \A r \in Requests :
       /\ req[r].at <= now /\ req[r].won <= now
       /\ req[r].pc # "new" => ExpiresAt(r) <= MaxTime
       /\ req[r].pc \in {"new", "reserve", "lookup", "purge"}
             => r \notin effects /\ row.id # r /\ req[r].answer = "none" /\ ~ GaveUp(r)
       /\ req[r].pc \in {"execute", "complete", "drop"} => req[r].answer = "none"
       /\ req[r].pc = "execute" => req[r].dropped = "no"
       /\ req[r].pc = "complete" => r \in effects
       /\ req[r].pc = "drop" => GaveUp(r)

\* The row tells of the request that made it: its body, its time, its outcome.
RowIsOf ==
    row.id # NoOne => /\ row.id \in Requests
                      /\ row.hash = BodyOf[row.id]
                      /\ row.expires = req[row.id].at + TTL
                      /\ row.done => row.id \in effects /\ req[row.id].answer = "fresh"

\* What a late reader is about to delete was past its time when it was read.
ReadIsPast ==
    \A r \in Requests : req[r].pc = "purge" => /\ req[r].read \in Requests
                                               /\ req[req[r].read].at + TTL < req[r].at
                                               /\ Won(req[r].read) \/ req[req[r].read].pc = "done"

\* The slot is taken from a request only when its time is over, or by itself.
Holds == \A r \in Requests : Won(r) /\ ~ GaveUp(r) /\ row.id # r => req[r].at + TTL < now

\* Requests that have won are a TTL apart.
Apart ==
    \A r, q \in Requests : Won(r) /\ Won(q) /\ r # q => \/ req[q].won > req[r].at + TTL
                                                        \/ req[r].won > req[q].at + TTL
                                                        \/ GaveUp(r) \/ GaveUp(q)

IInv == /\ TypeOK /\ Progress /\ RowIsOf /\ ReadIsPast /\ Holds /\ Apart
        /\ ReplayIsGenuine
-----------------------------------------------------------------------------
LEMMA InitInv == Init => IInv
<1>. SUFFICES ASSUME Init PROVE IInv
  OBVIOUS
<1>. USE IdempotencyAssumption DEF Init, New, NoRow
<1>1. TypeOK
  BY DEF TypeOK, Times, Pcs, Answers, Calls
<1>2. Progress
  BY DEF Progress, ExpiresAt, GaveUp, Times
<1>3. RowIsOf /\ ReadIsPast /\ Holds /\ Apart /\ ReplayIsGenuine
  BY DEF RowIsOf, ReadIsPast, Holds, Apart, ReplayIsGenuine, Won
<1>. QED
  BY <1>1, <1>2, <1>3 DEF IInv

\* What the three updates of a request do to its fields, and that they touch no other.
LEMMA Going ==
    ASSUME TypeOK, NEW r \in Requests, NEW pc \in Pcs, Goto(r, pc)
    PROVE  /\ req' \in [Requests -> Calls]
           /\ req'[r].pc = pc /\ req'[r].answer = req[r].answer /\ req'[r].at = req[r].at
           /\ req'[r].won = req[r].won /\ req'[r].dropped = req[r].dropped
           /\ req'[r].read = req[r].read /\ req'[r].from = req[r].from /\ req'[r].until = req[r].until
           /\ \A q \in Requests \ {r} : req'[q] = req[q]
  BY DEF TypeOK, Calls, Goto

LEMMA Answering ==
    ASSUME TypeOK, NEW r \in Requests, NEW a \in Answers, NEW p \in Requests \cup {NoOne},
           Answer(r, a, p)
    PROVE  /\ req' \in [Requests -> Calls]
           /\ req'[r].pc = "done" /\ req'[r].answer = a /\ req'[r].at = req[r].at
           /\ req'[r].won = req[r].won /\ req'[r].dropped = req[r].dropped
           /\ req'[r].read = req[r].read /\ req'[r].from = p /\ req'[r].until = now
           /\ \A q \in Requests \ {r} : req'[q] = req[q]
  BY ZenonT(60) DEF TypeOK, Calls, Answer, Pcs

LEMMA GivingUp ==
    ASSUME TypeOK, NEW r \in Requests, NEW w \in {"threw", "oversized"}, GiveUp(r, w)
    PROVE  /\ req' \in [Requests -> Calls]
           /\ req'[r].pc = "drop" /\ req'[r].answer = req[r].answer /\ req'[r].at = req[r].at
           /\ req'[r].won = req[r].won /\ req'[r].dropped = w
           /\ req'[r].read = req[r].read /\ req'[r].from = req[r].from /\ req'[r].until = req[r].until
           /\ \A q \in Requests \ {r} : req'[q] = req[q]
  BY DEF TypeOK, Calls, GiveUp, Pcs

LEMMA Beginning ==
    ASSUME TypeOK, NEW r \in Requests,
           req' = [req EXCEPT ![r] = [@ EXCEPT !.pc = "reserve", !.at = now]]
    PROVE  /\ req' \in [Requests -> Calls]
           /\ req'[r].pc = "reserve" /\ req'[r].at = now /\ req'[r].answer = req[r].answer
           /\ req'[r].won = req[r].won /\ req'[r].dropped = req[r].dropped
           /\ req'[r].read = req[r].read /\ req'[r].from = req[r].from
           /\ req'[r].until = req[r].until
           /\ \A q \in Requests \ {r} : req'[q] = req[q]
  BY DEF TypeOK, Calls, Pcs

LEMMA Purging ==
    ASSUME TypeOK, NEW r \in Requests, NEW p \in Requests,
           req' = [req EXCEPT ![r] = [@ EXCEPT !.pc = "purge", !.read = p]]
    PROVE  /\ req' \in [Requests -> Calls]
           /\ req'[r].pc = "purge" /\ req'[r].at = req[r].at /\ req'[r].answer = req[r].answer
           /\ req'[r].won = req[r].won /\ req'[r].dropped = req[r].dropped
           /\ req'[r].read = p /\ req'[r].from = req[r].from /\ req'[r].until = req[r].until
           /\ \A q \in Requests \ {r} : req'[q] = req[q]
  BY DEF TypeOK, Calls, Pcs

LEMMA BeginStep == ASSUME IInv, NEW r \in Requests, Begin(r) PROVE IInv'
<1>. USE IdempotencyAssumption DEF IInv, Begin, ExpiresAt
<1>1. /\ req' \in [Requests -> Calls]
      /\ req'[r].pc = "reserve" /\ req'[r].at = now /\ req'[r].answer = req[r].answer
      /\ req'[r].won = req[r].won /\ req'[r].dropped = req[r].dropped
      /\ req'[r].read = req[r].read /\ req'[r].from = req[r].from
      /\ \A q \in Requests \ {r} : req'[q] = req[q]
  BY Beginning
<1>2. TypeOK'
  BY <1>1 DEF TypeOK, Rows, NoRow, Times
<1>3. Progress'
  BY <1>1 DEF Progress, TypeOK, Calls, Times, GaveUp
<1>4. RowIsOf'
  BY <1>1 DEF RowIsOf, Progress, TypeOK, Calls
<1>5. ReadIsPast'
  BY <1>1 DEF ReadIsPast, Progress, TypeOK, Calls, Won
<1>6. Holds' /\ Apart'
  BY <1>1 DEF Holds, Apart, Progress, TypeOK, Calls, Won, GaveUp
<1>7. ReplayIsGenuine'
  BY <1>1 DEF ReplayIsGenuine, Progress, TypeOK, Calls
<1>. QED
  BY <1>2, <1>3, <1>4, <1>5, <1>6, <1>7

LEMMA Winning ==
    ASSUME TypeOK, NEW r \in Requests,
           req' = [req EXCEPT ![r] = [@ EXCEPT !.pc = "execute", !.won = now]]
    PROVE  /\ req' \in [Requests -> Calls]
           /\ req'[r].pc = "execute" /\ req'[r].at = req[r].at /\ req'[r].answer = req[r].answer
           /\ req'[r].won = now /\ req'[r].dropped = req[r].dropped /\ req'[r].read = req[r].read
           /\ req'[r].from = req[r].from /\ req'[r].until = req[r].until
           /\ \A q \in Requests \ {r} : req'[q] = req[q]
  BY DEF TypeOK, Calls, Pcs

\* The slot is free: the request has won it, and every earlier winner's time is over.
LEMMA ReserveWins == ASSUME IInv, NEW r \in Requests, Reserve(r), row.id = NoOne PROVE IInv'
<1>. USE IdempotencyAssumption DEF IInv
<1>0. /\ req' = [req EXCEPT ![r] = [@ EXCEPT !.pc = "execute", !.won = now]]
      /\ req[r].pc = "reserve" /\ UNCHANGED <<now, effects, faults>>
  BY DEF Reserve, SlotFree
<1>1. /\ req' \in [Requests -> Calls]
      /\ req'[r].pc = "execute" /\ req'[r].at = req[r].at /\ req'[r].answer = req[r].answer
      /\ req'[r].won = now /\ req'[r].dropped = req[r].dropped /\ req'[r].read = req[r].read
      /\ req'[r].from = req[r].from /\ req'[r].until = req[r].until
      /\ \A q \in Requests \ {r} : req'[q] = req[q]
  BY <1>0, Winning
<1>2. row' = [id |-> r, hash |-> BodyOf[r], done |-> FALSE, expires |-> ExpiresAt(r)]
  BY DEF Reserve, SlotFree
<1>3. r \notin effects /\ req[r].dropped = "no" /\ req[r].answer = "none"
  BY <1>0 DEF Progress, GaveUp
<1>4. TypeOK'
  BY <1>0, <1>1, <1>2 DEF TypeOK, Rows, Bodies, Progress, Calls, Times, ExpiresAt
<1>5. Progress'
  <2>1. now \in Nat /\ row'.id = r
    BY <1>2 DEF TypeOK, Times
  <2>. QED
    BY <1>0, <1>1, <1>3, <2>1 DEF Progress, GaveUp, ExpiresAt
<1>6. RowIsOf'
  BY <1>0, <1>1, <1>2 DEF RowIsOf, TypeOK, Calls, ExpiresAt
<1>7. ReadIsPast'
  BY <1>0, <1>1 DEF ReadIsPast, Progress, TypeOK, Calls, Won
<1>8. Holds' /\ Apart'
  <2>1. \A p \in Requests \ {r} : Won(p)' = Won(p) /\ GaveUp(p)' = GaveUp(p)
    BY <1>0, <1>1 DEF Won, GaveUp
  <2>2. \A p \in Requests \ {r} : Won(p) => GaveUp(p) \/ req[p].at + TTL < now
    BY <1>0 DEF Holds
  <2>3. Holds'
    BY <1>0, <1>1, <1>2, <2>1, <2>2 DEF Holds
  <2>4. Apart'
    BY <1>1, <2>1, <2>2 DEF Apart
  <2>. QED
    BY <2>3, <2>4
<1>9. ReplayIsGenuine'
  BY <1>0, <1>1 DEF ReplayIsGenuine, Progress, TypeOK, Calls
<1>. QED
  BY <1>4, <1>5, <1>6, <1>7, <1>8, <1>9

LEMMA ReserveLoses == ASSUME IInv, NEW r \in Requests, Reserve(r), row.id # NoOne PROVE IInv'
<1>. USE Going DEF IInv, Reserve, SlotFree
<1>1. TypeOK'
  BY DEF TypeOK, Pcs, Rows, NoRow, Times
<1>2. Progress'
  BY DEF Progress, TypeOK, Calls, Pcs, GaveUp, ExpiresAt
<1>3. RowIsOf' /\ Holds'
  BY DEF RowIsOf, Holds, Progress, TypeOK, Pcs, Won, GaveUp
<1>4. ReadIsPast'
  BY DEF ReadIsPast, Progress, TypeOK, Pcs, Won
<1>5. Apart' /\ ReplayIsGenuine'
  BY DEF Apart, ReplayIsGenuine, Progress, TypeOK, Pcs, Won, GaveUp
<1>. QED
  BY <1>1, <1>2, <1>3, <1>4, <1>5

LEMMA ExecuteStep == ASSUME IInv, NEW r \in Requests, Execute(r) PROVE IInv'
<1>. USE IdempotencyAssumption DEF IInv
<1>1. TypeOK'
  BY Going, GivingUp DEF Execute, TakesEffect, Fault, TypeOK, Pcs
<1>2. Progress'
  BY Going, GivingUp, <1>1
     DEF Execute, TakesEffect, Fault, Pcs, Progress, GaveUp, ExpiresAt, NoRow, TypeOK, Calls
<1>3. RowIsOf'
  BY Going, GivingUp, <1>1
     DEF Execute, TakesEffect, Fault, Pcs, RowIsOf, Progress, NoRow, TypeOK, Calls
<1>4. ReadIsPast'
  BY Going, GivingUp, <1>1
     DEF Execute, TakesEffect, Fault, Pcs, ReadIsPast, Won, Progress, TypeOK
<1>5. Holds'
  BY Going, GivingUp, <1>1
     DEF Execute, TakesEffect, Fault, Pcs, Holds, Won, GaveUp
<1>6. Apart'
  BY Going, GivingUp, <1>1
     DEF Execute, TakesEffect, Fault, Pcs, Apart, Won, GaveUp, Progress, TypeOK
<1>7. ReplayIsGenuine'
  BY Going, GivingUp, <1>1
     DEF Execute, TakesEffect, Fault, Pcs, ReplayIsGenuine, Progress, TypeOK, Calls
<1>. QED
  BY <1>1, <1>2, <1>3, <1>4, <1>5, <1>6, <1>7

LEMMA DropStep == ASSUME IInv, NEW r \in Requests, Drop(r) PROVE IInv'
<1>. USE IdempotencyAssumption DEF IInv
<1>1. TypeOK'
  BY Answering DEF Drop, OwnRow, Fault, TypeOK, Answers, NoRow
<1>2. Progress'
  BY Answering, <1>1
     DEF Drop, OwnRow, Fault, Answers, Progress, GaveUp, ExpiresAt, NoRow, TypeOK, Calls
<1>3. RowIsOf'
  BY Answering, <1>1
     DEF Drop, OwnRow, Fault, Answers, RowIsOf, Progress, NoRow, TypeOK, Calls
<1>4. ReadIsPast'
  BY Answering, <1>1
     DEF Drop, OwnRow, Fault, Answers, ReadIsPast, Won, Progress, TypeOK
<1>5. Holds'
  BY Answering, <1>1
     DEF Drop, OwnRow, Fault, Answers, Holds, Won, GaveUp, NoRow, Progress
<1>6. Apart'
  BY Answering, <1>1
     DEF Drop, OwnRow, Fault, Answers, Apart, Won, GaveUp, Progress, TypeOK
<1>7. ReplayIsGenuine'
  BY Answering, <1>1
     DEF Drop, OwnRow, Fault, Answers, ReplayIsGenuine, Progress, TypeOK, Calls
<1>. QED
  BY <1>1, <1>2, <1>3, <1>4, <1>5, <1>6, <1>7

LEMMA CompleteStep == ASSUME IInv, NEW r \in Requests, Complete(r) PROVE IInv'
<1>. USE IdempotencyAssumption DEF IInv
<1>1. TypeOK'
  <2>1. row' \in Rows \cup {NoRow}
    <3>1. CASE UNCHANGED row
      BY <3>1 DEF TypeOK
    <3>2. CASE OwnRow(r) /\ row' = [row EXCEPT !.done = TRUE]
      <4>1. row \in Rows
        BY <3>2 DEF OwnRow, TypeOK, NoRow
      <4>. QED
        BY <3>2, <4>1, Zenon DEF Rows
    <3>. QED
      BY <3>1, <3>2 DEF Complete
  <2>2. req' \in [Requests -> Calls]
    BY Answering DEF Complete, Answers
  <2>. QED
    BY <2>1, <2>2 DEF Complete, Fault, TypeOK
<1>2. Progress'
  BY Answering, <1>1
     DEF Complete, OwnRow, Fault, Answers, Progress, GaveUp, ExpiresAt, NoRow, TypeOK, Rows
<1>3. RowIsOf'
  BY Answering, <1>1
     DEF Complete, OwnRow, Fault, Answers, RowIsOf, Progress, NoRow, TypeOK, Rows
<1>4. ReadIsPast'
  BY Answering, <1>1
     DEF Complete, OwnRow, Fault, Answers, ReadIsPast, Won, Progress, TypeOK
<1>5. Holds'
  BY Answering, <1>1
     DEF Complete, OwnRow, Fault, Answers, Holds, Won, GaveUp, TypeOK, Rows, NoRow
<1>6. Apart'
  BY Answering, <1>1
     DEF Complete, OwnRow, Fault, Answers, Apart, Won, GaveUp, Progress, TypeOK
<1>7. ReplayIsGenuine'
  BY Answering, <1>1
     DEF Complete, OwnRow, Fault, Answers, ReplayIsGenuine, Progress, TypeOK, Calls
<1>. QED
  BY <1>1, <1>2, <1>3, <1>4, <1>5, <1>6, <1>7

\* A request that is refused leaves everything but itself as it is.
LEMMA Refused ==
    ASSUME IInv, NEW r \in Requests, req[r].pc \in {"lookup", "purge"},
           NEW a \in {"409", "422"}, Answer(r, a, NoOne), UNCHANGED <<now, row, effects, faults>>
    PROVE  IInv'
<1>. USE Answering DEF IInv, Answers
<1>1. TypeOK'
  BY DEF TypeOK, Rows, NoRow, Times
<1>2. Progress'
  BY DEF Progress, TypeOK, Calls, GaveUp, ExpiresAt
<1>3. RowIsOf' /\ Holds'
  BY DEF RowIsOf, Holds, Progress, TypeOK, Won, GaveUp
<1>4. ReadIsPast'
  BY DEF ReadIsPast, Progress, TypeOK, Won
<1>5. Apart' /\ ReplayIsGenuine'
  BY DEF Apart, ReplayIsGenuine, Progress, TypeOK, Won, GaveUp
<1>. QED
  BY <1>1, <1>2, <1>3, <1>4, <1>5

\* The row that is found is past its time: so its request has long won it.
LEMMA LookupFindsPast ==
    ASSUME IInv, NEW r \in Requests, Lookup(r), row.id # NoOne, Expired(row, req[r].at)
    PROVE  IInv'
<1>. USE IdempotencyAssumption DEF IInv
<1>0. /\ req' = [req EXCEPT ![r] = [@ EXCEPT !.pc = "purge", !.read = row.id]]
      /\ req[r].pc = "lookup" /\ UNCHANGED <<now, row, effects, faults>>
  BY DEF Lookup
<1>1. row.id \in Requests
  BY DEF RowIsOf
<1>2. /\ req' \in [Requests -> Calls]
      /\ req'[r].pc = "purge" /\ req'[r].at = req[r].at /\ req'[r].answer = req[r].answer
      /\ req'[r].won = req[r].won /\ req'[r].dropped = req[r].dropped /\ req'[r].read = row.id
      /\ req'[r].from = req[r].from /\ req'[r].until = req[r].until
      /\ \A q \in Requests \ {r} : req'[q] = req[q]
  BY <1>0, <1>1, Purging
<1>3. TypeOK'
  BY <1>0, <1>2 DEF TypeOK, Rows, NoRow, Times
<1>4. Progress'
  BY <1>0, <1>2 DEF Progress, TypeOK, GaveUp, ExpiresAt
<1>5. RowIsOf' /\ Holds'
  BY <1>0, <1>2 DEF RowIsOf, Holds, Progress, TypeOK, Won, GaveUp
<1>6. ReadIsPast'
  <2>1. row.id # r /\ req[row.id].at + TTL < req[r].at
    BY <1>0 DEF RowIsOf, Progress, Expired
  <2>2. Won(row.id) \/ req[row.id].pc = "done"
    BY <1>1 DEF Progress, Won, TypeOK, Calls, Pcs
  <2>3. \A q \in Requests : (Won(q) \/ req[q].pc = "done") => q # r
    BY <1>0 DEF Won, Progress
  <2>. QED
    BY <1>0, <1>1, <1>2, <2>1, <2>2, <2>3 DEF ReadIsPast, Won
<1>7. Apart' /\ ReplayIsGenuine'
  BY <1>0, <1>2 DEF Apart, ReplayIsGenuine, Progress, TypeOK, Won, GaveUp
<1>. QED
  BY <1>3, <1>4, <1>5, <1>6, <1>7

\* The row that is found is finished: so its request took effect and answered its caller.
LEMMA LookupReplays ==
    ASSUME IInv, NEW r \in Requests, req[r].pc = "lookup", row.id # NoOne, Finished(row),
           SameBody(r, row), Answer(r, "replay", row.id), UNCHANGED <<now, row, effects, faults>>
    PROVE  IInv'
<1>. USE IdempotencyAssumption DEF IInv, Answers
<1>1. row.id \in Requests
  BY DEF RowIsOf
<1>2. /\ req' \in [Requests -> Calls]
      /\ req'[r].pc = "done" /\ req'[r].answer = "replay" /\ req'[r].at = req[r].at
      /\ req'[r].won = req[r].won /\ req'[r].dropped = req[r].dropped
      /\ req'[r].read = req[r].read /\ req'[r].from = row.id /\ req'[r].until = now
      /\ \A q \in Requests \ {r} : req'[q] = req[q]
  BY <1>1, Answering
<1>3. TypeOK'
  BY <1>2 DEF TypeOK, Rows, NoRow, Times
<1>4. Progress'
  BY <1>2 DEF Progress, TypeOK, Calls, GaveUp, ExpiresAt
<1>5. RowIsOf' /\ Holds'
  BY <1>2 DEF RowIsOf, Holds, Progress, TypeOK, Won, GaveUp
<1>6. ReadIsPast' /\ Apart'
  BY <1>2 DEF ReadIsPast, Apart, Progress, TypeOK, Won, GaveUp
<1>7. ReplayIsGenuine'
  <2>1. row.id \in effects /\ BodyOf[row.id] = BodyOf[r] /\ req[row.id].answer = "fresh"
    BY DEF RowIsOf, Finished, SameBody
  <2>2. row.id # r
    BY DEF Progress
  <2>. QED
    BY <1>1, <1>2, <2>1, <2>2 DEF ReplayIsGenuine, Progress, TypeOK, Calls
<1>. QED
  BY <1>3, <1>4, <1>5, <1>6, <1>7

LEMMA LookupStep == ASSUME IInv, NEW r \in Requests, Lookup(r) PROVE IInv'
<1>1. CASE row.id # NoOne /\ Expired(row, req[r].at)
  BY <1>1, LookupFindsPast
<1>2. CASE /\ row.id # NoOne /\ ~ Expired(row, req[r].at)
           /\ SameBody(r, row) /\ Finished(row)
  BY <1>2, LookupReplays DEF Lookup
<1>3. CASE /\ ~ (row.id # NoOne /\ Expired(row, req[r].at))
           /\ ~ (row.id # NoOne /\ SameBody(r, row) /\ Finished(row))
  <2>1. \E a \in {"409", "422"} : Answer(r, a, NoOne)
    BY <1>3 DEF Lookup
  <2>2. req[r].pc = "lookup" /\ UNCHANGED <<now, row, effects, faults>>
    BY DEF Lookup
  <2>. QED
    BY <2>1, <2>2, Refused
<1>. QED
  BY <1>1, <1>2, <1>3

LEMMA PurgeReadStep == ASSUME IInv, NEW r \in Requests, PurgeRead(r) PROVE IInv'
<1>. USE IdempotencyAssumption DEF IInv
<1>1. TypeOK'
  BY Answering DEF PurgeRead, OwnRow, Fault, TypeOK, Answers, NoRow
<1>2. Progress'
  BY Answering, <1>1
     DEF PurgeRead, OwnRow, Fault, Answers, Progress, GaveUp, ExpiresAt, NoRow, TypeOK, Calls
<1>3. RowIsOf'
  BY Answering, <1>1
     DEF PurgeRead, OwnRow, Fault, Answers, RowIsOf, Progress, NoRow, TypeOK, Calls
<1>4. ReadIsPast'
  BY Answering, <1>1
     DEF PurgeRead, OwnRow, Fault, Answers, ReadIsPast, Won, Progress, TypeOK
<1>5. Holds'
  BY Answering, <1>1
     DEF PurgeRead, OwnRow, Fault, Answers, Holds, Won, GaveUp, Progress, ReadIsPast, TypeOK,
         Calls, Times
<1>6. Apart'
  BY Answering, <1>1
     DEF PurgeRead, OwnRow, Fault, Answers, Apart, Won, GaveUp, Progress, TypeOK
<1>7. ReplayIsGenuine'
  BY Answering, <1>1
     DEF PurgeRead, OwnRow, Fault, Answers, ReplayIsGenuine, Progress, TypeOK, Calls
<1>. QED
  BY <1>1, <1>2, <1>3, <1>4, <1>5, <1>6, <1>7

LEMMA CrashStep == ASSUME IInv, NEW r \in Requests, Crash(r) PROVE IInv'
<1>. USE IdempotencyAssumption DEF IInv, Crash, Fault
<1>1. /\ req' \in [Requests -> Calls]
      /\ req'[r].pc = "done" /\ req'[r].answer = "500" /\ req'[r].at = req[r].at
      /\ req'[r].won = req[r].won /\ req'[r].dropped = req[r].dropped
      /\ req'[r].read = req[r].read
      /\ \A q \in Requests \ {r} : req'[q] = req[q]
  BY Answering DEF Answers
<1>2. \A p \in Requests : (Won(p)' => Won(p)) /\ GaveUp(p)' = GaveUp(p)
  BY <1>1 DEF Won, GaveUp
<1>3. TypeOK'
  BY <1>1 DEF TypeOK, Rows, NoRow, Times
<1>4. Progress'
  BY <1>1 DEF Progress, GaveUp, ExpiresAt
<1>5. RowIsOf'
  BY <1>1 DEF RowIsOf, Progress, TypeOK, Calls, Pcs
<1>6. ReadIsPast'
  BY <1>1 DEF ReadIsPast, Won
<1>7. Holds'
  BY <1>1, <1>2 DEF Holds
<1>8. Apart'
  <2>1. \A p \in Requests : req'[p].at = req[p].at /\ req'[p].won = req[p].won
    BY <1>1
  <2>. QED
    BY <1>2, <2>1 DEF Apart
<1>9. ReplayIsGenuine'
  <2>1. \A p \in Requests : req'[p].answer = "replay" => p # r /\ req[p].answer = "replay"
    BY <1>1
  <2>2. \A p \in Requests : req[p].answer \in {"fresh", "500"} =>
                                req'[p].answer \in {"fresh", "500"}
    BY <1>1
  <2>. QED
    BY <1>1, <2>1, <2>2 DEF ReplayIsGenuine, TypeOK
<1>. QED
  BY <1>3, <1>4, <1>5, <1>6, <1>7, <1>8, <1>9

LEMMA Step == IInv /\ [Next]_vars => IInv'
<1>. SUFFICES ASSUME IInv, [Next]_vars PROVE IInv'
  OBVIOUS
<1>1. CASE UNCHANGED vars
  BY <1>1 DEF vars, IInv, TypeOK, Progress, RowIsOf, ReadIsPast, Holds, Apart, ReplayIsGenuine,
              Won, GaveUp, ExpiresAt
<1>2. CASE Tick
  <2>1. TypeOK'
    BY <1>2, IdempotencyAssumption DEF Tick, IInv, TypeOK, Times
  <2>2. Progress' /\ Holds'
    BY <1>2, IdempotencyAssumption DEF Tick, IInv, Progress, Holds, Won, GaveUp, ExpiresAt, TypeOK, Times, Calls
  <2>3. RowIsOf' /\ ReadIsPast' /\ Apart' /\ ReplayIsGenuine'
    BY <1>2 DEF Tick, IInv, RowIsOf, ReadIsPast, Apart, ReplayIsGenuine, Won, GaveUp
  <2>. QED
    BY <2>1, <2>2, <2>3 DEF IInv
<1>3. CASE Sweep
  <2>1. TypeOK' /\ RowIsOf'
    BY <1>3 DEF Sweep, IInv, TypeOK, RowIsOf, NoRow
  <2>2. Progress'
    BY <1>3, IdempotencyAssumption DEF Sweep, IInv, Progress, NoRow, GaveUp, ExpiresAt
  <2>3. Holds'
    BY <1>3 DEF Sweep, Sweepable, Expired, IInv, RowIsOf, Holds, Won, GaveUp
  <2>4. ReadIsPast' /\ Apart' /\ ReplayIsGenuine'
    BY <1>3 DEF Sweep, IInv, ReadIsPast, Apart, ReplayIsGenuine, Won, GaveUp
  <2>. QED
    BY <2>1, <2>2, <2>3, <2>4 DEF IInv
<1>4. ASSUME NEW r \in Requests, RequestStep(r) \/ Crash(r) PROVE IInv'
  <2>1. CASE Reserve(r)
    BY <2>1, ReserveWins, ReserveLoses
  <2>. QED
    BY <1>4, <2>1, BeginStep, ExecuteStep, DropStep, CompleteStep, LookupStep, PurgeReadStep,
       CrashStep DEF RequestStep
<1>. QED
  BY <1>1, <1>2, <1>3, <1>4 DEF Next

\* In every behaviour the slot is typed, and what is in it tells of who put it there.
THEOREM Inductive == Spec => []IInv
  BY InitInv, Step, PTL DEF Spec

\* Of two executions that both took effect, the later won its reservation after the TTL
\* of the earlier, or one of them had given its reservation up.
THEOREM NoDoubleEffect == Spec => []OncePerWindow
<1>1. IInv => OncePerWindow
  BY DEF IInv, TypeOK, Apart, Won, OncePerWindow
<1>. QED
  BY <1>1, Inductive, PTL

\* What a replay carries is the response of an execution of the same body that took effect.
THEOREM ReplaysAreGenuine == Spec => []ReplayInv
<1>1. IInv => ReplayInv
  BY DEF IInv, ReplayInv
<1>. QED
  BY <1>1, Inductive, PTL
-----------------------------------------------------------------------------
\* The caller was given the response of its own execution, whose row was completed.
Served(p) == req[p].answer = "fresh" /\ ~ GaveUp(p)

\* Whoever began after a caller was served finds its row, or is past its time.
Overtakes ==
    \A p \in Requests : Served(p) =>
       /\ p \in effects
       /\ row.id = p => row.done
       /\ \A r \in Requests : /\ req[r].pc \in {"execute", "complete", "drop", "purge"}
                             /\ req[p].until < req[r].at
                             => req[p].at + TTL < now

\* Only the completion of its own row makes a request served, and then nobody began later.
LEMMA ServedNow ==
    ASSUME IInv, NEW p \in Requests, [Next]_vars, Complete(p), Served(p)'
    PROVE  /\ p \in effects'
           /\ row'.id = p => row'.done
           /\ \A r \in Requests : ~ req'[p].until < req'[r].at
<1>. USE DEF IInv
<1>0. IInv'
  BY Step
<1>1. req[p].pc = "complete" /\ p \in effects /\ effects' = effects /\ now' = now
  BY DEF Complete, Progress
<1>2. OwnRow(p) /\ row' = [row EXCEPT !.done = TRUE] /\ Answer(p, "fresh", p)
  BY <1>1, IdempotencyAssumption, Answering DEF Complete, Served, Answers
<1>3. row'.done
  BY <1>2, IdempotencyAssumption DEF OwnRow, TypeOK, Rows, NoRow
<1>4. req'[p].until = now
  BY <1>2, Answering DEF Answers
<1>5. \A r \in Requests : req'[r].at <= now
  BY <1>0, <1>1 DEF Progress
<1>6. \A r \in Requests : req'[r].at \in Nat /\ now \in Nat
  BY <1>0, IdempotencyAssumption DEF TypeOK, Calls, Times
<1>. QED
  BY <1>1, <1>3, <1>4, <1>5, <1>6

\* A request's step touches no other request.
LEMMA Touches ==
    ASSUME IInv, NEW p \in Requests, NEW r \in Requests, RequestStep(r) \/ Crash(r), r # p
    PROVE  req'[p] = req[p]
<1>1. TypeOK /\ (row.id # NoOne => row.id \in Requests)
  BY DEF IInv, RowIsOf
<1>2. CASE Begin(r)
  BY <1>1, <1>2 DEF Begin, TypeOK
<1>3. CASE Reserve(r)
  BY <1>1, <1>3 DEF Reserve, Goto, TypeOK
<1>4. CASE Execute(r)
  BY <1>1, <1>4 DEF Execute, Goto, GiveUp, TypeOK
<1>5. CASE Drop(r) \/ Complete(r) \/ PurgeRead(r) \/ Crash(r)
  BY <1>1, <1>5 DEF Drop, Complete, PurgeRead, Crash, Answer, TypeOK
<1>6. CASE Lookup(r)
  BY <1>1, <1>6 DEF Lookup, Answer, TypeOK
<1>. QED
  BY <1>2, <1>3, <1>4, <1>5, <1>6 DEF RequestStep

\* A step of another request, or of time or the sweep, leaves a served request as it is.
LEMMA ServedBefore ==
    ASSUME IInv, NEW p \in Requests, [Next]_vars, ~ Complete(p), Served(p)'
    PROVE  Served(p) /\ req'[p] = req[p]
<1>. USE DEF IInv
<1>1. CASE req' = req
  BY <1>1 DEF Served, GaveUp
<1>2. ASSUME NEW r \in Requests, RequestStep(r) \/ Crash(r), r # p PROVE req'[p] = req[p]
  BY <1>2, Touches
<1>3. CASE RequestStep(p) \/ Crash(p)
  <2>1. ~ Begin(p) /\ ~ Reserve(p) /\ ~ Execute(p)
    <3>1. CASE Begin(p)
      BY <3>1, Beginning DEF Begin, Served, Progress
    <3>2. CASE Reserve(p)
      BY <3>2, Winning, Going DEF Reserve, Served, Progress, Pcs
    <3>3. CASE Execute(p)
      BY <3>3, Going, GivingUp DEF Execute, Served, Progress, Pcs
    <3>. QED
      BY <3>1, <3>2, <3>3
  <2>2. ~ Drop(p)
    BY IdempotencyAssumption, Answering DEF Drop, Served, GaveUp, Progress, Answers
  <2>3. ~ Lookup(p)
    <3>1. CASE Lookup(p) /\ row.id # NoOne /\ Expired(row, req[p].at)
      BY <3>1, Purging DEF Lookup, Served, Progress, RowIsOf
    <3>2. CASE Lookup(p) /\ ~ (row.id # NoOne /\ Expired(row, req[p].at))
      BY <3>2, IdempotencyAssumption, Answering DEF Lookup, Served, RowIsOf, Answers
    <3>. QED
      BY <3>1, <3>2
  <2>4. ~ PurgeRead(p) /\ ~ Crash(p)
    BY IdempotencyAssumption, Answering DEF PurgeRead, Crash, Served, Answers
  <2>. QED
    BY <1>3, <2>1, <2>2, <2>3, <2>4 DEF RequestStep
<1>. QED
  BY <1>1, <1>2, <1>3 DEF Next, Tick, Sweep, vars, Served, GaveUp

\* A request comes to hold, or to delete, the slot only if it finds it free or past its
\* time: then the time of whoever was served from it is over.
LEMMA TakesOver ==
    ASSUME IInv, NEW p \in Requests, Served(p), p \in effects, NEW r \in Requests,
           RequestStep(r), req[r].pc \notin {"execute", "complete", "drop", "purge"},
           req'[r].pc \in {"execute", "complete", "drop", "purge"}
    PROVE  req[p].at + TTL < now
<1>. USE DEF IInv
<1>1. CASE Reserve(r)
  <2>1. row.id = NoOne
    BY <1>1, Going DEF Reserve, SlotFree, Pcs
  <2>. QED
    BY <2>1, IdempotencyAssumption DEF Holds, Won, Served
<1>2. CASE Lookup(r)
  <2>1. row.id # NoOne /\ Expired(row, req[r].at)
    BY <1>2, IdempotencyAssumption, Answering DEF Lookup, RowIsOf, Answers
  <2>2. CASE row.id = p
    BY <2>1, <2>2, IdempotencyAssumption DEF RowIsOf, Expired, Progress, TypeOK, Calls, Times
  <2>3. CASE row.id # p
    BY <2>3 DEF Holds, Won, Served
  <2>. QED
    BY <2>2, <2>3
<1>3. CASE Begin(r)
  BY <1>3, Beginning DEF Begin
<1>. QED
  BY <1>1, <1>2, <1>3 DEF RequestStep, Execute, Drop, Complete, PurgeRead

\* What a step of one request leaves of the others, and of itself.
LEMMA Moves ==
    ASSUME IInv, [Next]_vars, NEW r \in Requests
    PROVE  \/ req'[r] = req[r]
           \/ RequestStep(r) /\ (req[r].pc # "new" => req'[r].at = req[r].at)
           \/ req'[r].pc = "done"
<1>. USE DEF IInv
<1>1. ASSUME NEW q \in Requests, RequestStep(q) \/ Crash(q), r # q PROVE req'[r] = req[r]
  BY <1>1, Touches
<1>2. CASE req' = req
  BY <1>2
<1>3. CASE Crash(r)
  BY <1>3, IdempotencyAssumption, Answering DEF Crash, Answers
<1>4. ASSUME RequestStep(r), req[r].pc # "new" PROVE req'[r].at = req[r].at
  <2>1. CASE Reserve(r) \/ Execute(r)
    BY <2>1, Going, Winning, GivingUp DEF Reserve, Execute, Pcs
  <2>2. CASE Drop(r) \/ Complete(r) \/ PurgeRead(r)
    BY <2>2, IdempotencyAssumption, Answering DEF Drop, Complete, PurgeRead, Answers
  <2>3. CASE Lookup(r)
    <3>1. row.id # NoOne => row.id \in Requests
      BY DEF RowIsOf
    <3>2. TypeOK /\ NoOne \notin Requests
      BY IdempotencyAssumption
    <3>3. CASE \E a \in {"409", "422"} : Answer(r, a, NoOne)
      BY <3>2, <3>3, Answering DEF Answers
    <3>4. CASE row.id # NoOne /\ Answer(r, "replay", row.id)
      BY <3>1, <3>2, <3>4, Answering DEF Answers
    <3>5. CASE row.id # NoOne /\ req' = [req EXCEPT ![r] = [@ EXCEPT !.pc = "purge", !.read = row.id]]
      BY <3>1, <3>2, <3>5, Purging
    <3>. QED
      BY <2>3, <3>3, <3>4, <3>5, Zenon DEF Lookup
  <2>. QED
    BY <1>4, <2>1, <2>2, <2>3 DEF RequestStep, Begin
<1>. QED
  BY <1>1, <1>2, <1>3, <1>4 DEF Next, Tick, Sweep, vars

LEMMA Begins ==
    ASSUME IInv, [Next]_vars, NEW r \in Requests, req[r].pc = "new"
    PROVE  req'[r].pc \in {"new", "reserve", "done"}
  BY Moves, Beginning DEF IInv, RequestStep, Begin, Reserve, Execute, Drop, Complete, Lookup,
     PurgeRead

LEMMA EffectsStay == [Next]_vars => effects \subseteq effects'
  BY DEF Next, RequestStep, Begin, Reserve, Execute, TakesEffect, Drop, Complete, Lookup,
         PurgeRead, Crash, Tick, Sweep, vars

\* A completed row stays completed until it is deleted.
LEMMA RowStays ==
    ASSUME IInv, [Next]_vars, NEW p \in Requests, row.id = p => row.done, p \in effects
    PROVE  row'.id = p => row'.done
<1>1. CASE UNCHANGED row \/ row' = NoRow
  BY <1>1, IdempotencyAssumption DEF NoRow
<1>2. ASSUME NEW r \in Requests, Reserve(r), ~ UNCHANGED row PROVE row'.id # p
  BY <1>2 DEF Reserve, IInv, Progress
<1>3. ASSUME NEW r \in Requests, row.id = r, row' = [row EXCEPT !.done = TRUE]
      PROVE  row'.id = p => row'.done
  BY <1>3, IdempotencyAssumption DEF IInv, TypeOK, Rows, NoRow
<1>. QED
  BY <1>1, <1>2, <1>3 DEF Next, RequestStep, Begin, Execute, Drop, Complete, Lookup,
     PurgeRead, Crash, Tick, Sweep, vars, OwnRow

LEMMA OvertakesStep == IInv /\ Overtakes /\ [Next]_vars => Overtakes'
<1>. SUFFICES ASSUME IInv, Overtakes, [Next]_vars, NEW p \in Requests, Served(p)'
              PROVE  /\ p \in effects'
                     /\ row'.id = p => row'.done
                     /\ \A r \in Requests :
                          /\ req'[r].pc \in {"execute", "complete", "drop", "purge"}
                          /\ req'[p].until < req'[r].at
                          => req'[p].at + TTL < now'
  BY DEF Overtakes
<1>1. CASE Complete(p)
  <2>1. p \in effects'
    BY <1>1, ServedNow
  <2>3. row'.id = p => row'.done
    BY <1>1, ServedNow
  <2>2. \A r \in Requests : ~ req'[p].until < req'[r].at
    BY <1>1, ServedNow
  <2>. QED
    BY <2>1, <2>2, <2>3
<1>2. CASE ~ Complete(p)
  <2>1. Served(p) /\ req'[p] = req[p] /\ p \in effects /\ p \in Requests
    BY <1>2, ServedBefore DEF Overtakes
  <2>2. p \in effects'
    BY <2>1, EffectsStay
  <2>3. row'.id = p => row'.done
    BY <2>1, RowStays DEF Overtakes
  <2>4. ASSUME NEW r \in Requests,
               req'[r].pc \in {"execute", "complete", "drop", "purge"},
               req'[p].until < req'[r].at
        PROVE  req'[p].at + TTL < now'
    <3>1. now \in Nat /\ req[p].at + TTL \in Nat
      BY IdempotencyAssumption DEF IInv, TypeOK, Calls, Times
    <3>3. now' = now \/ now' = now + 1
      BY DEF Next, RequestStep, Begin, Reserve, Execute, Drop, Complete, Lookup, PurgeRead,
         Crash, Tick, Sweep, vars
    <3>2. req[p].at + TTL < now
      <4>1. CASE req[r].pc \in {"execute", "complete", "drop", "purge"} /\ req'[r].at = req[r].at
        BY <2>1, <2>4, <4>1 DEF Overtakes
      <4>2. CASE /\ RequestStep(r)
                 /\ req[r].pc \notin {"execute", "complete", "drop", "purge"}
        BY <2>1, <2>4, <4>2, TakesOver
      <4>. QED
        BY <2>4, <4>1, <4>2, Moves, Begins DEF IInv, Progress
    <3>. QED
      BY <2>1, <3>1, <3>2, <3>3
  <2>. QED
    BY <2>2, <2>3, <2>4
<1>. QED
  BY <1>1, <1>2

\* A caller that was served: whoever begins afterwards with the same body, and ends within
\* the time of the first, with an answer of the route, gets the first one's response.
THEOREM RetriesGetOriginal == Spec => RetryGetsOriginal
<1>1. Init => Overtakes
  BY DEF Init, Overtakes, Served, New
<1>2. ASSUME IInv, Overtakes, [Next]_vars, NEW r \in Requests, NEW p \in Requests,
             req[r].pc # "done", req'[r].pc = "done", req'[r].answer # "500",
             req[p].answer = "fresh", ~ GaveUp(p), req[p].until < req[r].at,
             BodyOf[p] = BodyOf[r], now <= req[p].at + TTL
      PROVE  req'[r].answer = "replay" /\ req'[r].from = p
  <2>1. Served(p) /\ p \in effects /\ (row.id = p => row.done)
    BY <1>2 DEF Overtakes, Served
  <2>2. now \in Nat /\ req[p].at + TTL \in Nat
    BY <1>2, IdempotencyAssumption DEF IInv, TypeOK, Calls, Times
  <2>3. req[r].pc \notin {"execute", "complete", "drop", "purge"}
    BY <1>2, <2>1, <2>2 DEF Overtakes
  <2>4. row.id = p
    BY <1>2, <2>1, <2>2 DEF IInv, Holds, Won, Served
  <2>5. Lookup(r)
    <3>1. ~ Crash(r)
      BY <1>2, IdempotencyAssumption, Answering DEF IInv, Crash, Answers
    <3>2. ~ Begin(r) /\ ~ Reserve(r)
      BY <1>2, Beginning, Winning, Going DEF IInv, Begin, Reserve, Pcs
    <3>3. RequestStep(r)
      BY <1>2, <3>1, Touches DEF Next, Tick, Sweep, vars
    <3>. QED
      BY <2>3, <3>2, <3>3 DEF RequestStep, Execute, Drop, Complete, PurgeRead
  <2>6. ~ Expired(row, req[r].at) /\ SameBody(r, row) /\ Finished(row)
    BY <1>2, <2>1, <2>2, <2>4, IdempotencyAssumption
       DEF IInv, RowIsOf, Progress, TypeOK, Calls, Times, Expired, SameBody, Finished
  <2>7. Answer(r, "replay", p)
    BY <2>4, <2>5, <2>6, IdempotencyAssumption DEF Lookup
  <2>. QED
    BY <1>2, <2>7, Answering DEF IInv, Answers
<1>3. IInv /\ Overtakes /\ [Next]_vars =>
        [\A r, p \in Requests :
            /\ req[r].pc # "done" /\ req'[r].pc = "done" /\ req'[r].answer # "500"
            /\ req[p].answer = "fresh" /\ ~ GaveUp(p)
            /\ req[p].until < req[r].at /\ BodyOf[p] = BodyOf[r]
            /\ now <= req[p].at + TTL
            => req'[r].answer = "replay" /\ req'[r].from = p]_vars
  BY <1>2
<1>. QED
  BY <1>1, <1>3, InitInv, Step, OvertakesStep, PTL DEF Spec, RetryGetsOriginal

-----------------------------------------------------------------------------
(* The mail of a channel. *)

\* A finite set of numbers has a greatest element: the one with the least to come after it.
LEMMA Greatest ==
    ASSUME NEW S, IsFiniteSet(S), S \subseteq Nat, S # {}
    PROVE  \E x \in S : \A y \in S : x >= y
<1>. DEFINE After(x) == {y \in S : y > x}
            All == {After(x) : x \in S}
<1>1. IsWellFoundedOn(StrictSubsetOrdering(S), FiniteSubsetsOf(S))
  BY FS_StrictSubsetOrderingWellFounded
<1>2. All \subseteq FiniteSubsetsOf(S) /\ All # {}
  <2>1. \A x \in S : After(x) \subseteq S /\ IsFiniteSet(After(x))
    BY FS_Subset
  <2>. QED
    BY <2>1 DEF FiniteSubsetsOf
<1>3. PICK A \in All : \A B \in All : ~ (<<B, A>> \in StrictSubsetOrdering(S))
  BY <1>1, <1>2, WFMin
<1>4. PICK x \in S : A = After(x)
  OBVIOUS
<1>5. ASSUME NEW y \in S, y > x PROVE FALSE
  <2>1. (\A z \in S : z > y => z > x) /\ ~ (y > y)
    BY <1>5
  <2>2. After(y) \subseteq After(x) /\ y \in After(x) /\ y \notin After(y)
    BY <1>5, <2>1
  <2>3. <<After(y), A>> \in StrictSubsetOrdering(S)
    BY <1>4, <2>2 DEF StrictSubsetOrdering
  <2>. QED
    BY <1>3, <2>3
<1>. QED
  BY <1>5

\* ... which is what Max chooses.
LEMMA MaxIsIn ==
    ASSUME NEW S, IsFiniteSet(S), S \subseteq Nat, S # {}
    PROVE  C!Max(S) \in S
  BY Greatest DEF C!Max

\* Tabs and requests can be counted.
MailAssumption ==
    /\ IsFiniteSet(Tabs) /\ IsFiniteSet(Ingests)
    /\ MaxAuths \in Nat /\ MaxTokens \in Nat \ {0}

AuthRow == [who : Staff, revoked : BOOLEAN, token : 1..MaxTokens, expired : BOOLEAN, failed : BOOLEAN]
GrantRow == [token : 1..MaxTokens, cut : BOOLEAN, own : BOOLEAN]
Stages == {"idle", "pass", "exchange", "store", "refused", "fetch", "find", "insert"}
Ids == 1..Len(auth)

BusyTabs == {t \in Tabs : tab[t].pc # "idle"}

\* Each row has its grant, and each busy tab has room for the row it will make.
TablesOK ==
    /\ kind \in {"OAUTH", "IMAP"} /\ rotates \in BOOLEAN /\ mailFaults \in 0..MaxFaults
    /\ status \in {"INACTIVE", "ACTIVE", "REVOKED", "REFRESH_FAILED"}
    /\ auth \in Seq(AuthRow) /\ grant \in Seq(GrantRow) /\ Len(grant) = Len(auth)
    /\ excused \subseteq Ids
    /\ tab \in [Tabs -> [pc : {"idle", "prior", "create"}, who : Staff \cup {C!Nobody}]]
    /\ \A t \in Tabs : tab[t].pc # "idle" => tab[t].who \in Staff
    /\ Len(auth) + Cardinality(BusyTabs) <= MaxAuths

\* A pass has a row before it, and holds a token while it refreshes one.
Fits(x) ==
    /\ x \in [pc : Stages, todo : SUBSET Ids, token : 0..MaxTokens]
    /\ x.pc \notin {"idle", "pass"} => x.todo # {}
    /\ x.pc \in {"exchange", "store"} => x.token # 0

IngestsOK == ingest = [i \in Ingests |-> ingest[i]] /\ \A i \in Ingests : Fits(ingest[i])

LEMMA ChannelCounts == \A S : C!Cardinality(S) = Cardinality(S)
  BY DEF C!Cardinality, Cardinality

\* A function on 1..n is a sequence of length n.
LEMMA TableIs ==
    ASSUME NEW S, NEW n \in Nat, NEW f \in [1..n -> S]
    PROVE  f \in Seq(S) /\ Len(f) = n
  BY SeqDef, LenProperties

\* The row of the pass is one of the rows to do.
LEMMA PassIsIn ==
    ASSUME TablesOK, NEW x, Fits(x), x.todo # {}
    PROVE  C!Max(x.todo) \in x.todo /\ C!Max(x.todo) \in Ids
<1>1. IsFiniteSet(Ids)
  BY FS_Interval, LenProperties DEF TablesOK, Ids
<1>2. IsFiniteSet(x.todo) /\ x.todo \subseteq Nat
  BY <1>1, FS_Subset DEF Fits, Ids
<1>. QED
  BY <1>2, MaxIsIn DEF Fits

\* Rows are changed in place ...
LEMMA RowsKept ==
    ASSUME TablesOK, NEW f \in [Ids -> AuthRow], auth' = f
    PROVE  auth' \in Seq(AuthRow) /\ Len(auth') = Len(auth)
  BY TableIs, LenProperties DEF TablesOK, Ids

LEMMA GrantsKept ==
    ASSUME TablesOK, NEW f \in [Ids -> GrantRow], grant' = f
    PROVE  grant' \in Seq(GrantRow) /\ Len(grant') = Len(auth)
  BY TableIs, LenProperties DEF TablesOK, Ids

\* Rows and grants as functions on the ids.
LEMMA RowsAre ==
    ASSUME TablesOK
    PROVE  /\ Len(auth) \in Nat /\ auth \in [Ids -> AuthRow] /\ grant \in [Ids -> GrantRow]
           /\ DOMAIN auth = Ids /\ C!Rows = Ids
<1>1. Len(auth) \in Nat /\ DOMAIN auth = 1..Len(auth) /\ auth \in [1..Len(auth) -> AuthRow]
  BY LenProperties, ElementOfSeq DEF TablesOK
<1>2. grant \in [1..Len(auth) -> GrantRow]
  BY LenProperties, ElementOfSeq DEF TablesOK
<1>. QED
  BY <1>1, <1>2 DEF Ids, C!Rows

\* Stages of the connect routes.
LEMMA TabStep ==
    ASSUME MailAssumption, TablesOK, NEW t \in Tabs,
           \/ \E s \in Staff : C!Connect(t, s)
           \/ C!revokePriorAuthsForMembership(t) \/ C!CreateAuth(t)
    PROVE  TablesOK' /\ Len(auth') >= Len(auth) /\ \A a \in Ids : auth'[a].who = auth[a].who
<1>0. IsFiniteSet(BusyTabs) /\ Cardinality(BusyTabs) \in Nat /\ Len(auth) \in Nat
  BY FS_Subset, FS_CardinalityType, LenProperties DEF MailAssumption, BusyTabs, TablesOK
<1>1. ASSUME NEW s \in Staff, C!Connect(t, s) PROVE TablesOK' /\ UNCHANGED auth
  <2>1. BusyTabs' = BusyTabs \cup {t} /\ t \notin BusyTabs
    BY <1>1 DEF C!Connect, BusyTabs, TablesOK
  <2>2. Cardinality(BusyTabs') = Cardinality(BusyTabs) + 1
    BY <1>0, <2>1, FS_AddElement
  <2>3. Len(auth) + Cardinality(BusyTabs) < MaxAuths
    BY <1>1, ChannelCounts DEF C!Connect, BusyTabs
  <2>4. UNCHANGED <<kind, rotates, auth, status, grant, mailFaults, excused>>
        /\ tab' = [tab EXCEPT ![t] = [pc |-> "prior", who |-> s]]
    BY <1>1 DEF C!Connect
  <2>5. Len(auth) + Cardinality(BusyTabs') <= MaxAuths
    BY <1>0, <2>2, <2>3 DEF MailAssumption
  <2>. QED
    BY <2>4, <2>5 DEF TablesOK, Ids
<1>2. CASE C!revokePriorAuthsForMembership(t)
  <2>1. /\ UNCHANGED <<kind, rotates, status, grant, mailFaults, excused>> /\ tab[t].pc = "prior"
        /\ tab' = [tab EXCEPT ![t].pc = "create"]
    BY <1>2 DEF C!revokePriorAuthsForMembership
  <2>2. /\ auth' \in [Ids -> AuthRow] /\ \A a \in Ids : auth'[a].who = auth[a].who
    BY <1>2, RowsAre DEF C!revokePriorAuthsForMembership, C!Owner, AuthRow
  <2>3. BusyTabs' = BusyTabs
    BY <2>1 DEF BusyTabs, TablesOK
  <2>4. auth' \in Seq(AuthRow) /\ Len(auth') = Len(auth)
    BY <2>2, RowsKept
  <2>. QED
    BY <1>0, <2>1, <2>2, <2>3, <2>4 DEF TablesOK, Ids
<1>3. CASE C!CreateAuth(t)
  <2>0. PICK o \in BOOLEAN : grant' = Append(grant, [token |-> 1, cut |-> FALSE, own |-> o])
    BY <1>3 DEF C!CreateAuth
  <2>. DEFINE r == [who |-> tab[t].who, revoked |-> FALSE, token |-> 1, expired |-> FALSE,
                    failed |-> FALSE]
              g == [token |-> 1, cut |-> FALSE, own |-> o]
  <2>1. /\ UNCHANGED <<kind, rotates, mailFaults, excused>> /\ tab[t].pc = "create"
        /\ tab' = [tab EXCEPT ![t] = C!NoTab]
        /\ auth' = Append(auth, r) /\ grant' = Append(grant, g) /\ status' \in {status, "ACTIVE"}
    BY <1>3, <2>0 DEF C!CreateAuth
  <2>2. r \in AuthRow /\ g \in GrantRow
    BY <2>1 DEF TablesOK, AuthRow, GrantRow, MailAssumption
  <2>. HIDE DEF r, g
  <2>3. /\ auth' \in Seq(AuthRow) /\ Len(auth') = Len(auth) + 1
        /\ grant' \in Seq(GrantRow) /\ Len(grant') = Len(grant) + 1
        /\ \A a \in Ids : auth'[a] = auth[a]
    BY <2>1, <2>2, AppendProperties DEF TablesOK, Ids
  <2>4. BusyTabs' = BusyTabs \ {t} /\ t \in BusyTabs
    BY <2>1 DEF BusyTabs, TablesOK, C!NoTab
  <2>5. Cardinality(BusyTabs') = Cardinality(BusyTabs) - 1
    BY <1>0, <2>4, FS_RemoveElement
  <2>6. tab' \in [Tabs -> [pc : {"idle", "prior", "create"}, who : Staff \cup {C!Nobody}]]
        /\ \A u \in Tabs : tab'[u].pc # "idle" => tab'[u].who \in Staff
    BY <2>1 DEF TablesOK, C!NoTab
  <2>7. Len(auth') + Cardinality(BusyTabs') <= MaxAuths
    BY <1>0, <2>3, <2>5 DEF TablesOK, MailAssumption
  <2>8. excused' \subseteq Ids'
    BY <1>0, <2>1, <2>3 DEF TablesOK, Ids
  <2>9. status' \in {"INACTIVE", "ACTIVE", "REVOKED", "REFRESH_FAILED"} /\ Len(grant') = Len(auth')
    BY <2>1, <2>3 DEF TablesOK
  <2>10. TablesOK'
    BY <2>1, <2>3, <2>6, <2>7, <2>8, <2>9 DEF TablesOK
  <2>. QED
    BY <1>0, <2>3, <2>10
<1>. QED
  BY <1>0, <1>1, <1>2, <1>3

\* Stages that touch a row in place, or none.
LEMMA InPlace ==
    ASSUME TablesOK, auth' \in [Ids -> AuthRow], grant' \in [Ids -> GrantRow],
           status' \in {"INACTIVE", "ACTIVE", "REVOKED", "REFRESH_FAILED"},
           mailFaults' \in 0..MaxFaults, excused' \subseteq Ids, UNCHANGED <<kind, rotates, tab>>
    PROVE  TablesOK' /\ Len(auth') = Len(auth)
<1>1. auth' \in Seq(AuthRow) /\ Len(auth') = Len(auth)
  BY RowsKept
<1>2. grant' \in Seq(GrantRow) /\ Len(grant') = Len(auth)
  BY GrantsKept
<1>3. Ids' = Ids /\ BusyTabs' = BusyTabs
  BY <1>1 DEF Ids, BusyTabs
<1>. QED
  BY <1>1, <1>2, <1>3 DEF TablesOK

\* The world: members, administrators, the provider.
LEMMA WorldStep ==
    ASSUME TablesOK,
           \/ \E a \in C!Rows : C!revokeChannelAuth(a) \/ C!TokensExpire(a) \/ C!GrantCut(a)
           \/ \E s \in Staff : C!MailArrives(s)
           \/ C!RevokeChannel
    PROVE  /\ TablesOK' /\ Len(auth') = Len(auth) /\ \A a \in Ids : auth'[a].who = auth[a].who
           /\ \A a \in Ids : auth'[a].token = auth[a].token /\ grant'[a].token = grant[a].token
           /\ \A a \in Ids : (grant[a].cut => grant'[a].cut) /\ grant'[a].own = grant[a].own
           /\ UNCHANGED <<copies, ingest, excused>>
<1>. USE RowsAre
<1>1. /\ auth' \in [Ids -> AuthRow] /\ grant' \in [Ids -> GrantRow]
      /\ \A a \in Ids : auth'[a].who = auth[a].who /\ auth'[a].token = auth[a].token
  <2>1. ASSUME NEW a \in Ids, C!revokeChannelAuth(a) \/ C!TokensExpire(a)
        PROVE  /\ auth' \in [Ids -> AuthRow] /\ UNCHANGED grant
               /\ \A b \in Ids : auth'[b].who = auth[b].who /\ auth'[b].token = auth[b].token
    <3>1. CASE C!revokeChannelAuth(a)
      BY <3>1 DEF C!revokeChannelAuth, AuthRow
    <3>2. CASE C!TokensExpire(a)
      BY <3>2 DEF C!TokensExpire, AuthRow
    <3>. QED
      BY <2>1, <3>1, <3>2
  <2>2. ASSUME NEW a \in Ids, C!GrantCut(a) PROVE UNCHANGED auth /\ grant' \in [Ids -> GrantRow]
    BY <2>2 DEF C!GrantCut, GrantRow
  <2>3. ASSUME C!RevokeChannel
        PROVE  /\ auth' \in [Ids -> AuthRow] /\ UNCHANGED grant
               /\ \A b \in Ids : auth'[b].who = auth[b].who /\ auth'[b].token = auth[b].token
    BY <2>3 DEF C!RevokeChannel, AuthRow
  <2>4. ASSUME NEW m \in Staff, C!MailArrives(m) PROVE UNCHANGED <<auth, grant>>
    BY <2>4 DEF C!MailArrives
  <2>. QED
    BY <2>1, <2>2, <2>3, <2>4
<1>2. /\ \A a \in Ids : grant'[a].token = grant[a].token /\ (grant[a].cut => grant'[a].cut)
                    /\ grant'[a].own = grant[a].own
  BY SMTT(30) DEF C!revokeChannelAuth, C!TokensExpire, C!GrantCut, C!MailArrives, C!RevokeChannel, GrantRow
<1>3. UNCHANGED <<copies, ingest, excused, kind, rotates, tab, mailFaults>>
  BY DEF C!revokeChannelAuth, C!TokensExpire, C!GrantCut, C!MailArrives, C!RevokeChannel
<1>4. status' \in {status, "REVOKED"}
  BY DEF C!revokeChannelAuth, C!TokensExpire, C!GrantCut, C!MailArrives, C!RevokeChannel
<1>. QED
  BY <1>1, <1>2, <1>3, <1>4, InPlace DEF TablesOK

\* A step of one ingest: what it holds afterwards.
IngestMoves(i) == \/ C!runIngest(i) \/ C!EndIngest(i) \/ C!ensureFreshTokens(i) \/ C!Exchange(i)
           \/ C!ProviderErrs(i) \/ C!StoreTokens(i) \/ C!RefreshFails(i) \/ C!Fetch(i)
           \/ C!FindMessage(i) \/ C!InsertMessage(i) \/ C!Dies(i)

Becomes(i, x) == Fits(x) /\ ingest' = [ingest EXCEPT ![i] = x]

LEMMA OthersWait ==
    ASSUME IngestsOK, NEW i \in Ingests, NEW x, Becomes(i, x), Len(auth') = Len(auth)
    PROVE  IngestsOK'
  BY DEF IngestsOK, Becomes, Fits, Ids

LEMMA Leaves ==
    ASSUME MailAssumption, IngestsOK, NEW i \in Ingests, C!NextPass(i)
    PROVE  \E x : Becomes(i, x) /\ x.pc = "pass"
<1>1. PICK T \in SUBSET Ids : T = ingest[i].todo \ {C!Pass(i)}
  BY DEF IngestsOK, Fits
<1>. DEFINE x == [C!NoIngest EXCEPT !.pc = "pass", !.todo = T]
<1>2. x \in [pc : Stages, todo : SUBSET Ids, token : 0..MaxTokens] /\ x.pc = "pass"
  <2>1. C!NoIngest \in [pc : Stages, todo : SUBSET Ids, token : 0..MaxTokens]
    BY DEF Stages, MailAssumption, C!NoIngest
  <2>2. "pass" \in Stages
    BY DEF Stages
  <2>. HIDE DEF C!NoIngest
  <2>. QED
    BY <2>1, <2>2
<1>3. ingest' = [ingest EXCEPT ![i] = x]
  BY <1>1 DEF C!NextPass
<1>. HIDE DEF x
<1>. QED
  BY <1>2, <1>3 DEF Becomes, Fits

LEMMA GoesTo ==
    ASSUME IngestsOK, NEW i \in Ingests, NEW p \in Stages, C!Goto(i, p),
           p \notin {"idle", "pass"} => ingest[i].todo # {},
           p \in {"exchange", "store"} => ingest[i].token # 0
    PROVE  \E x : Becomes(i, x) /\ x.pc = p /\ x.todo = ingest[i].todo
<1>. DEFINE x == [ingest[i] EXCEPT !.pc = p]
<1>1. x \in [pc : Stages, todo : SUBSET Ids, token : 0..MaxTokens]
      /\ x.pc = p /\ x.todo = ingest[i].todo /\ x.token = ingest[i].token
  BY DEF IngestsOK, Fits
<1>2. ingest' = [ingest EXCEPT ![i] = x]
  BY DEF C!Goto, IngestsOK
<1>. HIDE DEF x
<1>. QED
  BY <1>1, <1>2 DEF Becomes, Fits

LEMMA IngestStep ==
    ASSUME MailAssumption, TablesOK, IngestsOK, NEW i \in Ingests, IngestMoves(i)
    PROVE  /\ TablesOK' /\ (\E x : Becomes(i, x)) /\ Len(auth') = Len(auth)
           /\ \A a \in Ids : auth'[a].who = auth[a].who
<1>. DEFINE Goal == /\ TablesOK' /\ (\E x : Becomes(i, x)) /\ Len(auth') = Len(auth)
                    /\ \A a \in Ids : auth'[a].who = auth[a].who
            a == C!Pass(i)
<1>0. Fits(ingest[i]) /\ (ingest[i].todo # {} => a \in Ids)
  BY PassIsIn DEF IngestsOK, C!Pass
<1>a. ASSUME UNCHANGED <<kind, rotates, auth, grant, tab>>, excused' \subseteq Ids,
             mailFaults' \in 0..MaxFaults,
             status' \in {"INACTIVE", "ACTIVE", "REVOKED", "REFRESH_FAILED"}
      PROVE  TablesOK' /\ Len(auth') = Len(auth) /\ \A b \in Ids : auth'[b].who = auth[b].who
  BY <1>a, RowsAre, InPlace
<1>b. TablesOK => /\ excused \subseteq Ids /\ mailFaults \in 0..MaxFaults
                  /\ status \in {"INACTIVE", "ACTIVE", "REVOKED", "REFRESH_FAILED"}
  BY DEF TablesOK
<1>1. CASE C!runIngest(i)
  <2>. DEFINE x == [ingest[i] EXCEPT !.pc = "pass", !.todo = C!Active]
  <2>1. C!Active \subseteq Ids /\ "pass" \in Stages
    BY RowsAre DEF C!Active, Stages
  <2>2. x \in [pc : Stages, todo : SUBSET Ids, token : 0..MaxTokens] /\ x.pc = "pass"
    BY <1>0, <2>1 DEF Fits
  <2>3. ingest' = [ingest EXCEPT ![i] = x]
    BY <1>1 DEF C!runIngest, IngestsOK
  <2>. HIDE DEF x
  <2>4. Becomes(i, x)
    BY <2>2, <2>3 DEF Becomes, Fits
  <2>. QED
    BY <1>1, <1>a, <1>b, <2>4 DEF C!runIngest
<1>2. ASSUME ingest' = [ingest EXCEPT ![i] = C!NoIngest] PROVE \E x : Becomes(i, x)
  <2>1. C!NoIngest \in [pc : Stages, todo : SUBSET Ids, token : 0..MaxTokens] /\ C!NoIngest.pc = "idle"
    BY DEF Stages, MailAssumption, C!NoIngest
  <2>. QED
    BY <1>2, <2>1 DEF Becomes, Fits
<1>3. CASE C!EndIngest(i)
  BY <1>2, <1>3, <1>a, <1>b DEF C!EndIngest
<1>4. CASE C!Dies(i)
  <2>1. ingest[i].pc = "store" => a \in Ids
    BY <1>0 DEF Fits
  <2>2. mailFaults' \in 0..MaxFaults
    BY <1>4, <1>b, IdempotencyAssumption DEF C!Dies
  <2>3. excused' \subseteq Ids /\ UNCHANGED <<kind, rotates, auth, grant, tab, status>>
    BY <1>4, <1>b, <2>1 DEF C!Dies
  <2>. QED
    BY <1>2, <1>4, <1>a, <1>b, <2>2, <2>3 DEF C!Dies
<1>c. ASSUME C!NextPass(i) PROVE \E x : Becomes(i, x)
  BY <1>c, Leaves
<1>d. ASSUME ingest[i].pc \notin {"idle", "pass"}, NEW p \in Stages, C!Goto(i, p), p \notin {"exchange", "store"}
      PROVE  \E x : Becomes(i, x)
  BY <1>d, <1>0, GoesTo DEF Fits
<1>5. CASE C!ensureFreshTokens(i)
  <2>1. ingest[i].pc = "pass" /\ a \in Ids /\ ingest[i].todo # {}
        /\ UNCHANGED <<kind, rotates, auth, status, grant, tab, mailFaults>>
        /\ (excused' = excused \/ excused' = excused \cup {a})
    BY <1>0, <1>5 DEF C!ensureFreshTokens
  <2>2. TablesOK' /\ Len(auth') = Len(auth) /\ \A b \in Ids : auth'[b].who = auth[b].who
    BY <1>a, <1>b, <2>1
  <2>3. CASE C!NextPass(i)
    BY <1>c, <2>2, <2>3
  <2>4. ASSUME NEW p \in {"exchange", "fetch"},
               ingest' = [ingest EXCEPT ![i].token = auth[a].token, ![i].pc = p]
        PROVE  \E x : Becomes(i, x)
    <3>. DEFINE x == [ingest[i] EXCEPT !.token = auth[a].token, !.pc = p]
    <3>1. auth[a].token \in 0..MaxTokens /\ auth[a].token # 0 /\ p \in Stages
      BY <2>1, RowsAre DEF AuthRow, Stages, MailAssumption
    <3>2. /\ x \in [pc : Stages, todo : SUBSET Ids, token : 0..MaxTokens]
          /\ x.todo = ingest[i].todo /\ x.token = auth[a].token
      BY <1>0, <3>1 DEF Fits
    <3>3. ingest' = [ingest EXCEPT ![i] = x]
      BY <2>4 DEF IngestsOK
    <3>. HIDE DEF x
    <3>. QED
      BY <2>1, <3>1, <3>2, <3>3 DEF Becomes, Fits
  <2>5. C!NextPass(i) \/ \E p \in {"exchange", "fetch"} :
                            ingest' = [ingest EXCEPT ![i].token = auth[a].token, ![i].pc = p]
    BY <1>5 DEF C!ensureFreshTokens
  <2>. QED
    BY <2>2, <2>3, <2>4, <2>5
<1>6. CASE C!Exchange(i)
  <2>1. a \in Ids /\ ingest[i].pc = "exchange"
    BY <1>0, <1>6 DEF C!Exchange, Fits
  <2>2. UNCHANGED <<kind, rotates, auth, status, tab, mailFaults, excused>>
    BY <1>6 DEF C!Exchange
  <2>3. CASE C!Goto(i, "refused") /\ UNCHANGED grant
    BY <1>a, <1>b, <1>d, <2>1, <2>2, <2>3 DEF Stages
  <2>4. ASSUME NEW n, n = (IF rotates THEN grant[a].token + 1 ELSE grant[a].token), n <= MaxTokens,
               grant' = [grant EXCEPT ![a].token = n],
               ingest' = [ingest EXCEPT ![i].pc = "store", ![i].token = n]
        PROVE  Goal
    <3>. DEFINE x == [ingest[i] EXCEPT !.pc = "store", !.token = n]
    <3>1. n \in 0..MaxTokens /\ n # 0 /\ n \in 1..MaxTokens /\ "store" \in Stages
      BY <2>1, <2>4, RowsAre DEF GrantRow, Stages, MailAssumption
    <3>2. /\ x \in [pc : Stages, todo : SUBSET Ids, token : 0..MaxTokens]
          /\ x.todo = ingest[i].todo /\ x.token = n
      BY <1>0, <3>1 DEF Fits
    <3>3. ingest' = [ingest EXCEPT ![i] = x]
      BY <2>4 DEF IngestsOK
    <3>4. grant' \in [Ids -> GrantRow]
      BY <2>1, <2>4, <3>1, RowsAre DEF GrantRow
    <3>5. TablesOK' /\ Len(auth') = Len(auth) /\ \A b \in Ids : auth'[b].who = auth[b].who
      BY <1>b, <2>2, <3>4, RowsAre, InPlace
    <3>6. ingest[i].todo # {}
      BY <1>0, <2>1 DEF Fits
    <3>. HIDE DEF x
    <3>7. Becomes(i, x)
      BY <3>1, <3>2, <3>3, <3>6 DEF Becomes, Fits
    <3>. QED
      BY <3>5, <3>7
  <2>. QED
    BY <1>6, <2>3, <2>4 DEF C!Exchange
<1>7. CASE C!ProviderErrs(i)
  <2>1. a \in Ids /\ ingest[i].pc = "exchange" /\ mailFaults' \in 0..MaxFaults
    BY <1>0, <1>b, <1>7, IdempotencyAssumption DEF C!ProviderErrs, Fits
  <2>2. UNCHANGED <<kind, rotates, auth, grant, status, tab>> /\ excused' \subseteq Ids
    BY <1>b, <1>7, <2>1 DEF C!ProviderErrs
  <2>3. \E x : Becomes(i, x)
    BY <1>d, <1>7, <2>1 DEF C!ProviderErrs, Stages
  <2>. QED
    BY <1>a, <1>b, <2>1, <2>2, <2>3
<1>8. CASE C!StoreTokens(i)
  <2>1. a \in Ids /\ ingest[i].pc = "store" /\ ingest[i].token \in 1..MaxTokens
    BY <1>0, <1>8 DEF C!StoreTokens, Fits, MailAssumption
  <2>2. UNCHANGED <<kind, rotates, grant, status, tab, mailFaults, excused>>
        /\ auth' = [auth EXCEPT ![a] = [@ EXCEPT !.token = ingest[i].token, !.expired = FALSE]]
    BY <1>8 DEF C!StoreTokens, C!Merged
  <2>3. auth' \in [Ids -> AuthRow] /\ \A b \in Ids : auth'[b].who = auth[b].who
    BY <2>1, <2>2, RowsAre DEF AuthRow
  <2>4. TablesOK' /\ Len(auth') = Len(auth)
    BY <1>b, <2>2, <2>3, RowsAre, InPlace
  <2>5. \E x : Becomes(i, x)
    BY <1>d, <1>8, <2>1 DEF C!StoreTokens, Stages
  <2>. QED
    BY <2>3, <2>4, <2>5
<1>9. CASE C!RefreshFails(i)
  <2>1. a \in Ids
    BY <1>0, <1>9 DEF C!RefreshFails, Fits
  <2>2. UNCHANGED <<kind, rotates, grant, tab, mailFaults, excused>> /\ status' = "REFRESH_FAILED"
        /\ auth' = [auth EXCEPT ![a].revoked = TRUE]
    BY <1>9 DEF C!RefreshFails
  <2>3. auth' \in [Ids -> AuthRow] /\ \A b \in Ids : auth'[b].who = auth[b].who
    BY <2>1, <2>2, RowsAre DEF AuthRow
  <2>4. TablesOK' /\ Len(auth') = Len(auth)
    BY <1>b, <2>2, <2>3, RowsAre, InPlace
  <2>5. \E x : Becomes(i, x)
    BY <1>c, <1>9 DEF C!RefreshFails
  <2>. QED
    BY <2>3, <2>4, <2>5
<1>10. CASE C!Fetch(i)
  <2>1. a \in Ids /\ ingest[i].pc = "fetch"
    BY <1>0, <1>10 DEF C!Fetch, Fits
  <2>2. UNCHANGED <<kind, rotates, grant, tab, mailFaults, excused, status>>
    BY <1>10 DEF C!Fetch
  <2>3. auth' \in [Ids -> AuthRow] /\ \A b \in Ids : auth'[b].who = auth[b].who
    <3>1. CASE UNCHANGED auth
      BY <3>1, RowsAre
    <3>2. CASE auth' = [auth EXCEPT ![a].failed = @ \/ (kind = "IMAP" /\ ~ auth[a].revoked)]
      <4>. DEFINE v == auth[a].failed \/ (kind = "IMAP" /\ ~ auth[a].revoked)
      <4>1. v \in BOOLEAN /\ auth' = [auth EXCEPT ![a].failed = v]
        BY <3>2
      <4>. HIDE DEF v
      <4>. QED
        BY <2>1, <4>1, RowsAre DEF AuthRow
    <3>. QED
      BY <1>10, <3>1, <3>2 DEF C!Fetch
  <2>4. TablesOK' /\ Len(auth') = Len(auth)
    BY <1>b, <2>2, <2>3, RowsAre, InPlace
  <2>5. C!NextPass(i) \/ C!Goto(i, "find")
    BY <1>10 DEF C!Fetch
  <2>6. \E x : Becomes(i, x)
    BY <1>c, <1>d, <2>1, <2>5 DEF Stages
  <2>. QED
    BY <2>3, <2>4, <2>6
<1>11. CASE C!FindMessage(i) \/ C!InsertMessage(i)
  <2>1. ingest[i].pc \in {"find", "insert"} /\ (C!NextPass(i) \/ C!Goto(i, "insert"))
    BY <1>11 DEF C!FindMessage, C!InsertMessage
  <2>2. UNCHANGED <<kind, rotates, auth, grant, tab, mailFaults, excused, status>>
    BY <1>11 DEF C!FindMessage, C!InsertMessage
  <2>3. \E x : Becomes(i, x)
    BY <1>c, <1>d, <2>1 DEF Stages
  <2>. QED
    BY <1>a, <1>b, <2>2, <2>3
<1>. QED
  BY <1>1, <1>3, <1>4, <1>5, <1>6, <1>7, <1>8, <1>9, <1>10, <1>11 DEF IngestMoves

\* The ingests that are about to store the message of mailbox s.
Inserting(s) == {i \in Ingests : ingest[i].pc = "insert" /\ auth[C!Pass(i)].who = s}

\* Each has looked before another stored it: together they store no more than there are.
CountsOK ==
    /\ copies \in [Staff -> Nat]
    /\ \A s \in Staff : copies[s] + Cardinality(Inserting(s)) <= Cardinality(Ingests)

LEMMA InsertingCounts ==
    ASSUME MailAssumption, NEW s
    PROVE  /\ IsFiniteSet(Inserting(s)) /\ Cardinality(Inserting(s)) \in Nat
           /\ Cardinality(Ingests) \in Nat /\ Cardinality(Inserting(s)) <= Cardinality(Ingests)
  BY FS_Subset, FS_CardinalityType DEF MailAssumption, Inserting

LEMMA CountsKept ==
    ASSUME MailAssumption, CountsOK, UNCHANGED copies,
           \A s \in Staff : Inserting(s)' \subseteq Inserting(s)
    PROVE  CountsOK'
<1>. SUFFICES ASSUME NEW s \in Staff
              PROVE  copies[s] + Cardinality(Inserting(s)') <= Cardinality(Ingests)
  BY DEF CountsOK
<1>1. Cardinality(Inserting(s)') <= Cardinality(Inserting(s)) /\ Cardinality(Inserting(s)') \in Nat
  BY InsertingCounts, FS_Subset, FS_CardinalityType
<1>. QED
  BY <1>1, InsertingCounts DEF CountsOK

\* An ingest whose step does not end before an insertion leaves those that are about to insert.
LEMMA OthersInsert ==
    ASSUME TablesOK, IngestsOK, NEW i \in Ingests, NEW x, Becomes(i, x),
           \A a \in Ids : auth'[a].who = auth[a].who
    PROVE  /\ \A s : Inserting(s)' \subseteq Inserting(s) \cup {i}
           /\ x.pc # "insert" => \A s : Inserting(s)' \subseteq Inserting(s) \ {i}
<1>1. \A j \in Ingests \ {i} : ingest'[j] = ingest[j] /\ ingest'[i] = x
  BY DEF IngestsOK, Becomes
<1>2. ASSUME NEW j \in Ingests \ {i}, ingest[j].pc = "insert"
      PROVE  C!Pass(j) \in Ids /\ C!Pass(j)' = C!Pass(j)
  BY <1>1, <1>2, PassIsIn DEF IngestsOK, Fits, C!Pass
<1>. QED
  BY <1>1, <1>2 DEF Inserting, Becomes, IngestsOK

LEMMA CountsStep ==
    ASSUME MailAssumption, TablesOK, IngestsOK, CountsOK, NEW i \in Ingests, IngestMoves(i)
    PROVE  CountsOK'
<1>1. PICK x : Becomes(i, x)
  BY IngestStep
<1>2. (\A a \in Ids : auth'[a].who = auth[a].who) /\ ingest'[i] = x
      /\ \A j \in Ingests \ {i} : ingest'[j] = ingest[j]
  BY <1>1, IngestStep DEF Becomes, IngestsOK
<1>3. /\ \A s : Inserting(s)' \subseteq Inserting(s) \cup {i}
      /\ x.pc # "insert" => \A s : Inserting(s)' \subseteq Inserting(s) \ {i}
  BY <1>1, <1>2, OthersInsert
<1>4. CASE C!FindMessage(i) /\ x.pc = "insert"
  <2>0. PICK s \in Staff : s = C!Owner(C!Pass(i))
    BY <1>4, PassIsIn, RowsAre DEF IngestsOK, Fits, C!Pass, C!Owner, AuthRow, C!FindMessage
  <2>1. ingest[i].pc = "find" /\ UNCHANGED <<copies, auth>> /\ (copies[s] > 0 => C!NextPass(i))
        /\ (~ (copies[s] > 0) => C!Goto(i, "insert"))
    BY <1>4, <2>0 DEF C!FindMessage, C!Known
  <2>2. ~ C!NextPass(i)
    BY <1>2, <1>4 DEF C!NextPass, C!NoIngest, IngestsOK
  <2>4. copies[s] = 0 /\ C!Goto(i, "insert")
    BY <2>1, <2>2 DEF CountsOK
  <2>5. C!Pass(i)' = C!Pass(i)
    <3>1. ingest'[i].todo = ingest[i].todo
      BY <2>4 DEF C!Goto, IngestsOK, Fits
    <3>. QED
      BY <3>1 DEF C!Pass
  <2>6. \A t \in Staff \ {s} : Inserting(t)' \subseteq Inserting(t)
    BY <1>3, <2>0, <2>1, <2>5 DEF Inserting, C!Owner
  <2>7. ASSUME NEW t \in Staff \ {s} PROVE copies'[t] + Cardinality(Inserting(t)') <= Cardinality(Ingests)
    <3>1. Cardinality(Inserting(t)') <= Cardinality(Inserting(t)) /\ Cardinality(Inserting(t)') \in Nat
      BY <2>6, InsertingCounts, FS_Subset, FS_CardinalityType
    <3>. QED
      BY <2>1, <3>1, InsertingCounts DEF CountsOK
  <2>8. copies'[s] + Cardinality(Inserting(s)') <= Cardinality(Ingests)
    <3>1. Inserting(s)' \subseteq Ingests
      BY DEF Inserting
    <3>2. Cardinality(Inserting(s)') <= Cardinality(Ingests) /\ Cardinality(Inserting(s)') \in Nat
      BY <3>1, FS_Subset, FS_CardinalityType DEF MailAssumption
    <3>. QED
      BY <2>1, <2>4, <3>2
  <2>9. \A t \in Staff : copies'[t] + Cardinality(Inserting(t)') <= Cardinality(Ingests)
    BY <2>7, <2>8
  <2>. QED
    BY <2>1, <2>9 DEF CountsOK
<1>5. CASE C!InsertMessage(i)
  <2>0. PICK s \in Staff : s = C!Owner(C!Pass(i))
    BY <1>5, PassIsIn, RowsAre DEF IngestsOK, Fits, C!Pass, C!Owner, AuthRow, C!InsertMessage
  <2>1. /\ ingest[i].pc = "insert" /\ UNCHANGED auth /\ C!NextPass(i)
        /\ copies' = [copies EXCEPT ![s] = @ + 1]
    BY <1>5, <2>0 DEF C!InsertMessage
  <2>2. x.pc = "pass"
    BY <1>2, <2>1 DEF C!NextPass, C!NoIngest, IngestsOK
  <2>3. i \in Inserting(s)
    BY <2>0, <2>1 DEF C!Owner, Inserting
  <2>4. \A t \in Staff : Inserting(t)' \subseteq Inserting(t) \ {i}
    BY <1>3, <2>2
  <2>5. ASSUME NEW t \in Staff \ {s} PROVE copies'[t] + Cardinality(Inserting(t)') <= Cardinality(Ingests)
    <3>1. Cardinality(Inserting(t)') <= Cardinality(Inserting(t)) /\ Cardinality(Inserting(t)') \in Nat
      BY <2>4, InsertingCounts, FS_Subset, FS_CardinalityType
    <3>. QED
      BY <2>1, <3>1, InsertingCounts DEF CountsOK
  <2>6. copies'[s] + Cardinality(Inserting(s)') <= Cardinality(Ingests)
    <3>1. /\ Cardinality(Inserting(s) \ {i}) = Cardinality(Inserting(s)) - 1
          /\ IsFiniteSet(Inserting(s) \ {i}) /\ Cardinality(Inserting(s) \ {i}) \in Nat
      BY <2>3, InsertingCounts, FS_RemoveElement, FS_CardinalityType
    <3>2. Cardinality(Inserting(s)') <= Cardinality(Inserting(s) \ {i}) /\ Cardinality(Inserting(s)') \in Nat
      BY <2>3, <2>4, <3>1, FS_Subset, FS_CardinalityType
    <3>3. copies'[s] = copies[s] + 1 /\ copies[s] \in Nat
      BY <2>1, <2>3 DEF CountsOK
    <3>. QED
      BY <2>3, <3>1, <3>2, <3>3, InsertingCounts DEF CountsOK
  <2>7. \A t \in Staff : copies'[t] + Cardinality(Inserting(t)') <= Cardinality(Ingests)
    BY <2>5, <2>6
  <2>8. copies' \in [Staff -> Nat]
    BY <2>1, <2>3 DEF CountsOK
  <2>. QED
    BY <2>7, <2>8 DEF CountsOK
<1>6. ASSUME ~ C!InsertMessage(i), ~ (C!FindMessage(i) /\ x.pc = "insert") PROVE CountsOK'
  <2>1. UNCHANGED copies
    BY <1>6 DEF IngestMoves, C!runIngest, C!EndIngest, C!ensureFreshTokens, C!Exchange, C!ProviderErrs,
                C!StoreTokens, C!RefreshFails, C!Fetch, C!FindMessage, C!Dies
  <2>2. x.pc # "insert"
    <3>1. CASE C!runIngest(i)
      BY <1>2, <3>1 DEF C!runIngest, IngestsOK, Fits
    <3>2. CASE C!EndIngest(i) \/ C!Dies(i)
      BY <1>2, <3>2 DEF C!EndIngest, C!Dies, C!NoIngest, IngestsOK
    <3>3. ASSUME C!NextPass(i) PROVE x.pc # "insert"
      BY <1>2, <3>3 DEF C!NextPass, C!NoIngest, IngestsOK
    <3>4. ASSUME NEW p \in Stages \ {"insert"}, C!Goto(i, p) PROVE x.pc # "insert"
      BY <1>2, <3>4 DEF C!Goto, IngestsOK, Fits
    <3>5. CASE C!ensureFreshTokens(i)
      BY <1>2, <3>3, <3>5 DEF C!ensureFreshTokens, IngestsOK, Fits
    <3>6. CASE C!Exchange(i)
      BY <1>2, <3>4, <3>6 DEF C!Exchange, IngestsOK, Fits, Stages
    <3>7. CASE C!ProviderErrs(i) \/ C!StoreTokens(i) \/ C!RefreshFails(i) \/ C!Fetch(i)
      BY <3>3, <3>4, <3>7 DEF C!ProviderErrs, C!StoreTokens, C!RefreshFails, C!Fetch, Stages
    <3>. QED
      BY <1>6, <3>1, <3>2, <3>5, <3>6, <3>7 DEF IngestMoves
  <2>. QED
    BY <1>3, <2>1, <2>2, CountsKept
<1>. QED
  BY <1>4, <1>5, <1>6

\* A grant that a refresh cannot rely on.
Unusable(a) == grant[a].cut \/ grant[a].own
Spoilt(a) == Unusable(a) \/ a \in excused
InRefresh == {"exchange", "store", "refused"}

\* The stored refresh token is the provider's, unless its successor is about to be stored; a
\* refresh asks with the provider's, and is refused only where the grant is spoilt.
TokensOK ==
    /\ \A a \in Ids : \/ Spoilt(a) \/ auth[a].token = grant[a].token
                      \/ \E i \in Ingests : ingest[i].pc = "store" /\ C!Pass(i) = a
    /\ \A i \in Ingests : ingest[i].pc \in {"exchange", "store"} =>
          Spoilt(C!Pass(i)) \/ ingest[i].token = grant[C!Pass(i)].token
    /\ \A i \in Ingests : ingest[i].pc = "refused" => Spoilt(C!Pass(i))
    /\ \A i, j \in Ingests : i # j /\ C!Pass(i) = C!Pass(j)
          /\ ingest[i].pc \in InRefresh /\ ingest[j].pc \in InRefresh => C!Pass(i) \in excused

\* A pass that refreshes is about a row that is there.
LEMMA RefreshedIsIn ==
    ASSUME TablesOK, IngestsOK, NEW i \in Ingests, ingest[i].pc \notin {"idle", "pass"}
    PROVE  C!Pass(i) \in Ids
  BY PassIsIn DEF IngestsOK, Fits, C!Pass

\* The routes and the world leave the tokens as they are.
LEMMA TokensStay ==
    ASSUME TablesOK, IngestsOK, TokensOK, UNCHANGED <<ingest, excused>>,
           \A a \in Ids' \ Ids : auth'[a].token = grant'[a].token,
           \A a \in Ids : auth'[a].token = auth[a].token /\ grant'[a].token = grant[a].token,
           \A a \in Ids : (grant[a].cut => grant'[a].cut) /\ grant'[a].own = grant[a].own
    PROVE  TokensOK'
<1>1. \A i \in Ingests : C!Pass(i)' = C!Pass(i)
  BY DEF C!Pass
<1>2. \A a \in Ids : Spoilt(a) => Spoilt(a)'
  BY DEF Spoilt, Unusable
<1>. QED
  BY <1>1, <1>2, RefreshedIsIn DEF TokensOK, InRefresh

LEMMA TabKeepsTokens ==
    ASSUME MailAssumption, TablesOK, IngestsOK, TokensOK, NEW t \in Tabs,
           \/ \E s \in Staff : C!Connect(t, s)
           \/ C!revokePriorAuthsForMembership(t) \/ C!CreateAuth(t)
    PROVE  TokensOK'
<1>1. CASE (\E s \in Staff : C!Connect(t, s)) \/ C!revokePriorAuthsForMembership(t)
  <2>1. /\ UNCHANGED <<ingest, excused, grant>>
        /\ \A a \in Ids : auth'[a].token = auth[a].token
    BY <1>1, RowsAre, ZenonT(60) DEF C!Connect, C!revokePriorAuthsForMembership, AuthRow
  <2>2. Len(auth') = Len(auth)
    <3>1. CASE UNCHANGED auth
      BY <3>1
    <3>2. CASE C!revokePriorAuthsForMembership(t)
      <4>1. auth' \in [Ids -> AuthRow]
        BY <3>2, RowsAre DEF C!revokePriorAuthsForMembership, C!Owner, AuthRow
      <4>. QED
        BY <4>1, RowsKept
    <3>. QED
      BY <1>1, <3>1, <3>2 DEF C!Connect
  <2>. QED
    BY <2>1, <2>2, TokensStay DEF Ids
<1>2. CASE C!CreateAuth(t)
  <2>1. PICK r \in AuthRow, g \in GrantRow :
          auth' = Append(auth, r) /\ grant' = Append(grant, g) /\ r.token = g.token
    <3>1. [who |-> tab[t].who, revoked |-> FALSE, token |-> 1, expired |-> FALSE, failed |-> FALSE] \in AuthRow
          /\ \A o \in BOOLEAN : [token |-> 1, cut |-> FALSE, own |-> o] \in GrantRow
      BY <1>2 DEF TablesOK, AuthRow, GrantRow, MailAssumption, C!CreateAuth
    <3>. QED
      BY <1>2, <3>1 DEF C!CreateAuth
  <2>2. UNCHANGED <<ingest, excused>>
    BY <1>2 DEF C!CreateAuth
  <2>3. /\ Len(auth') = Len(auth) + 1 /\ auth'[Len(auth) + 1] = r /\ grant'[Len(auth) + 1] = g
        /\ \A a \in Ids : auth'[a] = auth[a] /\ grant'[a] = grant[a]
    BY <2>1, AppendProperties DEF TablesOK, Ids
  <2>4. \A a \in Ids' \ Ids : auth'[a].token = grant'[a].token
    BY <2>1, <2>3, RowsAre DEF Ids
  <2>. QED
    BY <2>2, <2>3, <2>4, TokensStay
<1>. QED
  BY <1>1, <1>2

\* An ingest leaves its refresh, or was in none, or is refused on a spoilt grant.
LEMMA EndsRefresh ==
    ASSUME TablesOK, IngestsOK, TokensOK, NEW i \in Ingests, NEW x, Becomes(i, x),
           NEW r, r = C!Pass(i),
           UNCHANGED grant, Len(auth') = Len(auth), excused \subseteq excused',
           \A a \in Ids : auth'[a].token = auth[a].token,
           ingest[i].pc = "store" => Unusable(r) \/ r \in excused',
           \/ x.pc \notin InRefresh
           \/ /\ x.pc = "refused" /\ x.todo = ingest[i].todo
              /\ ingest[i].pc \in InRefresh /\ (Unusable(r) \/ r \in excused')
    PROVE  TokensOK'
<1>1. /\ \A j \in Ingests \ {i} : ingest'[j] = ingest[j] /\ C!Pass(j)' = C!Pass(j)
      /\ ingest'[i] = x /\ Ids' = Ids
  BY DEF IngestsOK, Becomes, C!Pass, Ids
<1>2. x.todo = ingest[i].todo => C!Pass(i)' = r
  BY <1>1 DEF C!Pass
<1>3. \A a \in Ids : Spoilt(a) => Spoilt(a)'
  BY DEF Spoilt, Unusable
<1>4. ingest[i].pc \in InRefresh => r \in Ids
  BY RefreshedIsIn DEF InRefresh
<1>5. \A a \in Ids : \/ Spoilt(a)' \/ auth'[a].token = grant'[a].token
                    \/ \E j \in Ingests : ingest'[j].pc = "store" /\ C!Pass(j)' = a
  <2>. SUFFICES ASSUME NEW a \in Ids, ~ Spoilt(a)', auth'[a].token # grant'[a].token
                PROVE  \E j \in Ingests : ingest'[j].pc = "store" /\ C!Pass(j)' = a
    OBVIOUS
  <2>1. PICK j \in Ingests : ingest[j].pc = "store" /\ C!Pass(j) = a
    BY <1>3 DEF TokensOK
  <2>2. j # i
    BY <2>1 DEF Spoilt, Unusable
  <2>. QED
    BY <1>1, <2>1, <2>2
<1>6. \A j \in Ingests : ingest'[j].pc \in {"exchange", "store"} =>
          Spoilt(C!Pass(j))' \/ ingest'[j].token = grant'[C!Pass(j)'].token
  <2>. SUFFICES ASSUME NEW j \in Ingests \ {i}, ingest[j].pc \in {"exchange", "store"}
                PROVE  Spoilt(C!Pass(j))' \/ ingest'[j].token = grant'[C!Pass(j)'].token
    BY <1>1 DEF InRefresh
  <2>1. C!Pass(j) \in Ids
    BY RefreshedIsIn
  <2>. QED
    BY <1>1, <2>1 DEF TokensOK, Spoilt, Unusable
<1>7. \A j \in Ingests : ingest'[j].pc = "refused" => Spoilt(C!Pass(j))'
  <2>1. ASSUME NEW j \in Ingests \ {i}, ingest'[j].pc = "refused" PROVE Spoilt(C!Pass(j))'
    BY <1>1, <2>1 DEF TokensOK, Spoilt, Unusable
  <2>2. x.pc = "refused" => Spoilt(C!Pass(i))'
    BY <1>2 DEF Spoilt, Unusable, InRefresh
  <2>. QED
    BY <1>1, <2>1, <2>2
<1>8. \A j, k \in Ingests : j # k /\ C!Pass(j)' = C!Pass(k)'
          /\ ingest'[j].pc \in InRefresh /\ ingest'[k].pc \in InRefresh => C!Pass(j)' \in excused'
  <2>. SUFFICES ASSUME NEW j \in Ingests, NEW k \in Ingests, j # k, C!Pass(j)' = C!Pass(k)',
                       ingest'[j].pc \in InRefresh, ingest'[k].pc \in InRefresh
                PROVE  C!Pass(j)' \in excused'
    OBVIOUS
  <2>1. /\ C!Pass(j)' = C!Pass(j) /\ ingest[j].pc \in InRefresh
        /\ C!Pass(k)' = C!Pass(k) /\ ingest[k].pc \in InRefresh
    BY <1>1, <1>2
  <2>. QED
    BY <2>1, ZenonT(60) DEF TokensOK
<1>. QED
  BY <1>1, <1>5, <1>6, <1>7, <1>8 DEF TokensOK

LEMMA TokensStep ==
    ASSUME MailAssumption, TablesOK, IngestsOK, TokensOK, NEW i \in Ingests, IngestMoves(i)
    PROVE  TokensOK'
<1>1. PICK x : Becomes(i, x)
  BY IngestStep
<1>2. PICK r : r = C!Pass(i)
  OBVIOUS
<1>3. /\ \A j \in Ingests \ {i} : ingest'[j] = ingest[j] /\ C!Pass(j)' = C!Pass(j)
      /\ ingest'[i] = x /\ Len(auth') = Len(auth) /\ Ids' = Ids
  BY <1>1, IngestStep DEF IngestsOK, Becomes, C!Pass, Ids
<1>4. ingest[i].pc \notin {"idle", "pass"} => r \in Ids
  BY <1>2, RefreshedIsIn
<1>5. ASSUME C!NextPass(i) PROVE x.pc = "pass"
  BY <1>3, <1>5 DEF C!NextPass, C!NoIngest, IngestsOK
<1>6. ASSUME NEW p \in Stages, C!Goto(i, p) PROVE x.pc = p /\ x.todo = ingest[i].todo
  BY <1>3, <1>6 DEF C!Goto, IngestsOK, Fits
<1>7. CASE C!runIngest(i) \/ C!EndIngest(i)
  <2>1. x.pc \in {"pass", "idle"} /\ UNCHANGED <<auth, grant, excused>> /\ ingest[i].pc # "store"
    BY <1>3, <1>7 DEF C!runIngest, C!EndIngest, C!NoIngest, IngestsOK, Fits
  <2>. QED
    BY <1>1, <1>2, <1>3, <2>1, EndsRefresh DEF InRefresh
<1>8. CASE C!Dies(i)
  <2>1. /\ x.pc = "idle" /\ UNCHANGED <<auth, grant>> /\ excused \subseteq excused'
        /\ (ingest[i].pc = "store" => r \in excused')
    BY <1>2, <1>3, <1>8 DEF C!Dies, C!NoIngest, IngestsOK
  <2>. QED
    BY <1>1, <1>2, <1>3, <2>1, EndsRefresh DEF InRefresh
<1>9. CASE C!RefreshFails(i)
  <2>1. ingest[i].pc = "refused" /\ x.pc = "pass" /\ UNCHANGED <<grant, excused>>
        /\ auth' = [auth EXCEPT ![r].revoked = TRUE]
    BY <1>2, <1>5, <1>9 DEF C!RefreshFails
  <2>2. \A a \in Ids : auth'[a].token = auth[a].token
    BY <1>4, <2>1, RowsAre DEF AuthRow
  <2>. QED
    BY <1>1, <1>2, <1>3, <2>1, <2>2, EndsRefresh DEF InRefresh
<1>10. CASE C!Fetch(i)
  <2>1. ingest[i].pc = "fetch" /\ x.pc \in {"find", "pass"} /\ UNCHANGED <<grant, excused>>
    BY <1>5, <1>6, <1>10 DEF C!Fetch, Stages
  <2>2. \A a \in Ids : auth'[a].token = auth[a].token
    <3>. DEFINE v == auth[r].failed \/ (kind = "IMAP" /\ ~ auth[r].revoked)
    <3>1. UNCHANGED auth \/ auth' = [auth EXCEPT ![r].failed = v]
      BY <1>2, <1>10 DEF C!Fetch
    <3>. HIDE DEF v
    <3>2. r \in Ids /\ auth[r] \in AuthRow
      BY <1>4, <2>1, RowsAre
    <3>3. [auth[r] EXCEPT !.failed = v].token = auth[r].token
      BY <3>2 DEF AuthRow
    <3>4. CASE auth' = [auth EXCEPT ![r].failed = v]
      BY <3>2, <3>3, <3>4, RowsAre
    <3>. QED
      BY <3>1, <3>4
  <2>. QED
    BY <1>1, <1>2, <1>3, <2>1, <2>2, EndsRefresh DEF InRefresh
<1>11. CASE C!FindMessage(i) \/ C!InsertMessage(i)
  <2>1. ingest[i].pc \in {"find", "insert"} /\ x.pc \in {"insert", "pass"} /\ UNCHANGED <<auth, grant, excused>>
    BY <1>5, <1>6, <1>11 DEF C!FindMessage, C!InsertMessage, Stages
  <2>. QED
    BY <1>1, <1>2, <1>3, <2>1, EndsRefresh DEF InRefresh
<1>12. CASE C!ProviderErrs(i)
  <2>1. /\ ingest[i].pc = "exchange" /\ x.pc = "refused" /\ x.todo = ingest[i].todo
        /\ UNCHANGED <<auth, grant>> /\ excused' = excused \cup {r}
    BY <1>2, <1>6, <1>12 DEF C!ProviderErrs, Stages
  <2>. QED
    BY <1>1, <1>2, <1>3, <2>1, EndsRefresh DEF InRefresh
<1>13. ASSUME x.pc \in InRefresh, x.todo = ingest[i].todo PROVE C!Pass(i)' = r
  BY <1>2, <1>3, <1>13 DEF C!Pass
<1>14. CASE C!StoreTokens(i)
  <2>1. /\ ingest[i].pc = "store" /\ x.pc = "fetch" /\ UNCHANGED <<grant, excused>>
        /\ auth' = [auth EXCEPT ![r] = [@ EXCEPT !.token = ingest[i].token, !.expired = FALSE]]
    BY <1>2, <1>6, <1>14 DEF C!StoreTokens, C!Merged, Stages
  <2>2. /\ r \in Ids /\ auth'[r].token = ingest[i].token
        /\ \A a \in Ids \ {r} : auth'[a] = auth[a]
    BY <1>4, <2>1, RowsAre DEF AuthRow
  <2>3. \A a : Spoilt(a)' <=> Spoilt(a)
    BY <2>1 DEF Spoilt, Unusable
  <2>4. Spoilt(r) \/ auth'[r].token = grant[r].token
    BY <1>2, <2>1, <2>2 DEF TokensOK
  <2>5. \A a \in Ids \ {r} : \/ Spoilt(a) \/ auth'[a].token = grant[a].token
                          \/ \E j \in Ingests \ {i} : ingest[j].pc = "store" /\ C!Pass(j) = a
    BY <1>2, <2>2 DEF TokensOK
  <2>6. \A a \in Ids : \/ Spoilt(a)' \/ auth'[a].token = grant'[a].token
                      \/ \E j \in Ingests : ingest'[j].pc = "store" /\ C!Pass(j)' = a
    BY <1>3, <2>1, <2>3, <2>4, <2>5
  <2>. QED
    BY <1>3, <2>1, <2>3, <2>6 DEF TokensOK, InRefresh
<1>15. CASE C!Exchange(i)
  <2>1. ingest[i].pc = "exchange" /\ r \in Ids /\ UNCHANGED <<auth, excused>>
        /\ (Spoilt(r) \/ ingest[i].token = grant[r].token)
    BY <1>2, <1>4, <1>15 DEF C!Exchange, TokensOK
  <2>2. CASE ingest[i].token = grant[r].token /\ ~ Unusable(r)
    <3>1. PICK n : /\ grant' = [grant EXCEPT ![r].token = n]
                   /\ ingest' = [ingest EXCEPT ![i].pc = "store", ![i].token = n]
      BY <1>2, <1>15, <2>2 DEF C!Exchange, Unusable
    <3>2. x.pc = "store" /\ x.token = n /\ x.todo = ingest[i].todo
      BY <1>3, <3>1 DEF IngestsOK, Fits
    <3>3. /\ grant'[r].token = n /\ grant'[r].cut = grant[r].cut /\ grant'[r].own = grant[r].own
          /\ \A a \in Ids \ {r} : grant'[a] = grant[a]
      BY <2>1, <3>1, RowsAre DEF GrantRow
    <3>4. \A a \in Ids : Spoilt(a)' <=> Spoilt(a)
      BY <2>1, <3>3 DEF Spoilt, Unusable
    <3>5. C!Pass(i)' = r
      BY <1>13, <3>2 DEF InRefresh
    <3>6. \A a \in Ids : \/ Spoilt(a)' \/ auth'[a].token = grant'[a].token
                        \/ \E j \in Ingests : ingest'[j].pc = "store" /\ C!Pass(j)' = a
      <4>1. ASSUME NEW a \in Ids \ {r}
            PROVE  \/ Spoilt(a)' \/ auth'[a].token = grant'[a].token
                   \/ \E j \in Ingests : ingest'[j].pc = "store" /\ C!Pass(j)' = a
        <5>1. \/ Spoilt(a) \/ auth[a].token = grant[a].token
              \/ \E j \in Ingests \ {i} : ingest[j].pc = "store" /\ C!Pass(j) = a
          BY <1>2 DEF TokensOK
        <5>. QED
          BY <1>3, <2>1, <3>3, <3>4, <5>1
      <4>. QED
        BY <1>3, <3>2, <3>5, <4>1
    <3>7. ASSUME NEW j \in Ingests \ {i}, ingest[j].pc \in {"exchange", "store"}
          PROVE  Spoilt(C!Pass(j))' \/ ingest'[j].token = grant'[C!Pass(j)'].token
      <4>1. C!Pass(j) \in Ids /\ (Spoilt(C!Pass(j)) \/ ingest[j].token = grant[C!Pass(j)].token)
        BY <3>7, RefreshedIsIn DEF TokensOK
      <4>2. CASE C!Pass(j) = r
        BY <1>2, <1>3, <2>1, <3>4, <3>7, <4>1, <4>2 DEF TokensOK, InRefresh, Spoilt, Unusable
      <4>3. CASE C!Pass(j) # r
        <5>1. grant'[C!Pass(j)] = grant[C!Pass(j)]
          BY <3>3, <4>1, <4>3
        <5>. QED
          BY <1>3, <2>1, <4>1, <5>1 DEF Spoilt, Unusable
      <4>. QED
        BY <4>2, <4>3
    <3>8. ASSUME NEW j \in Ingests \ {i}, ingest[j].pc = "refused" PROVE Spoilt(C!Pass(j))'
      <4>1. C!Pass(j) \in Ids /\ Spoilt(C!Pass(j))
        BY <3>8, RefreshedIsIn DEF TokensOK
      <4>2. Unusable(C!Pass(j)) => Unusable(C!Pass(j))'
        BY <1>3, <3>3, <4>1 DEF Unusable
      <4>. QED
        BY <1>3, <2>1, <4>1, <4>2 DEF Spoilt, Unusable
    <3>9. \A j \in Ingests : ingest'[j].pc \in {"exchange", "store"} =>
             Spoilt(C!Pass(j))' \/ ingest'[j].token = grant'[C!Pass(j)'].token
      BY <1>3, <3>2, <3>3, <3>5, <3>7
    <3>10. \A j \in Ingests : ingest'[j].pc = "refused" => Spoilt(C!Pass(j))'
      BY <1>3, <3>2, <3>8
    <3>11. \A j, k \in Ingests : j # k /\ C!Pass(j)' = C!Pass(k)'
             /\ ingest'[j].pc \in InRefresh /\ ingest'[k].pc \in InRefresh => C!Pass(j)' \in excused'
      BY <1>2, <1>3, <2>1, <3>5 DEF TokensOK, InRefresh
    <3>. QED
      BY <1>3, <3>6, <3>9, <3>10, <3>11 DEF TokensOK
  <2>3. CASE ~ (ingest[i].token = grant[r].token /\ ~ Unusable(r))
    <3>1. C!Goto(i, "refused") /\ UNCHANGED grant
      BY <1>2, <1>15, <2>3 DEF C!Exchange, Unusable
    <3>2. x.pc = "refused" /\ x.todo = ingest[i].todo
      BY <1>6, <3>1 DEF Stages
    <3>3. Unusable(r) \/ r \in excused'
      BY <2>1, <2>3 DEF Spoilt, Unusable
    <3>. QED
      BY <1>1, <1>2, <1>3, <2>1, <3>1, <3>2, <3>3, EndsRefresh DEF InRefresh
  <2>. QED
    BY <2>2, <2>3
<1>16. CASE C!ensureFreshTokens(i)
  <2>1. /\ ingest[i].pc = "pass" /\ ingest[i].todo # {} /\ r \in Ids
        /\ UNCHANGED <<auth, grant>> /\ excused \subseteq excused'
    BY <1>2, <1>16, PassIsIn DEF C!ensureFreshTokens, C!Pass, IngestsOK
  <2>2. CASE x.pc \notin InRefresh
    BY <1>1, <1>2, <1>3, <2>1, <2>2, EndsRefresh
  <2>3. CASE x.pc \in InRefresh
    <3>1. ~ C!NextPass(i)
      BY <1>5, <2>3 DEF InRefresh
    <3>2. PICK p \in {"exchange", "fetch"} :
             /\ ingest' = [ingest EXCEPT ![i].token = auth[r].token, ![i].pc = p]
             /\ p = "exchange" /\ (\E j \in Ingests \ {i} : C!Refreshing(j, r)) => r \in excused'
      BY <1>2, <1>16, <3>1 DEF C!ensureFreshTokens
    <3>3. x.pc = "exchange" /\ x.token = auth[r].token /\ x.todo = ingest[i].todo
      BY <1>3, <2>3, <3>2 DEF IngestsOK, Fits, InRefresh
    <3>4. C!Pass(i)' = r /\ p = "exchange"
      BY <1>3, <1>13, <2>3, <3>2, <3>3 DEF IngestsOK, Fits
    <3>5. \A j \in Ingests \ {i} : ingest[j].pc \in InRefresh /\ C!Pass(j) = r => r \in excused'
      BY <3>2, <3>4 DEF C!Refreshing, InRefresh
    <3>6. \A a \in Ids : Spoilt(a) => Spoilt(a)'
      BY <2>1 DEF Spoilt, Unusable
    <3>7. Spoilt(r)' \/ x.token = grant'[r].token
      BY <2>1, <3>3, <3>5, <3>6 DEF TokensOK, Spoilt, Unusable, InRefresh
    <3>8. \A a \in Ids : \/ Spoilt(a)' \/ auth'[a].token = grant'[a].token
                        \/ \E j \in Ingests : ingest'[j].pc = "store" /\ C!Pass(j)' = a
      <4>1. \A a \in Ids : \/ Spoilt(a) \/ auth[a].token = grant[a].token
                          \/ \E j \in Ingests \ {i} : ingest[j].pc = "store" /\ C!Pass(j) = a
        BY <2>1 DEF TokensOK
      <4>. QED
        BY <1>3, <2>1, <3>6, <4>1
    <3>9. \A j \in Ingests : ingest'[j].pc \in {"exchange", "store"} =>
             Spoilt(C!Pass(j))' \/ ingest'[j].token = grant'[C!Pass(j)'].token
      <4>1. ASSUME NEW j \in Ingests \ {i}, ingest[j].pc \in {"exchange", "store"}
            PROVE  Spoilt(C!Pass(j))' \/ ingest'[j].token = grant'[C!Pass(j)'].token
        BY <1>3, <2>1, <4>1 DEF TokensOK, Spoilt, Unusable
      <4>2. Spoilt(C!Pass(i))' \/ ingest'[i].token = grant'[C!Pass(i)'].token
        BY <1>3, <2>1, <3>4, <3>7 DEF Spoilt, Unusable
      <4>. QED
        BY <1>3, <4>1, <4>2
    <3>10. \A j \in Ingests : ingest'[j].pc = "refused" => Spoilt(C!Pass(j))'
      BY <1>3, <2>1, <3>3 DEF TokensOK, Spoilt, Unusable
    <3>11. \A j, k \in Ingests : j # k /\ C!Pass(j)' = C!Pass(k)'
             /\ ingest'[j].pc \in InRefresh /\ ingest'[k].pc \in InRefresh => C!Pass(j)' \in excused'
      BY <1>3, <2>1, <3>4, <3>5 DEF TokensOK
    <3>. QED
      BY <1>3, <3>8, <3>9, <3>10, <3>11 DEF TokensOK
  <2>. QED
    BY <2>2, <2>3
<1>. QED
  BY <1>7, <1>8, <1>9, <1>10, <1>11, <1>12, <1>14, <1>15, <1>16 DEF IngestMoves

\* The invariant of a channel.
ChannelInv == TablesOK /\ IngestsOK /\ CountsOK /\ TokensOK

LEMMA ChannelInit == ASSUME MailAssumption, C!Init PROVE ChannelInv
<1>1. auth = <<>> /\ grant = <<>> /\ auth \in Seq(AuthRow) /\ grant \in Seq(GrantRow) /\ Len(auth) = 0
      /\ Len(grant) = 0
  BY EmptySeq DEF C!Init
<1>2. BusyTabs = {} /\ \A s : Inserting(s) = {}
  BY DEF C!Init, BusyTabs, Inserting, C!NoTab, C!NoIngest
<1>3. TablesOK
  <2>1. rotates \in BOOLEAN /\ kind \in {"OAUTH", "IMAP"}
    BY DEF C!Init
  <2>2. /\ tab \in [Tabs -> [pc : {"idle", "prior", "create"}, who : Staff \cup {C!Nobody}]]
        /\ \A t \in Tabs : tab[t].pc # "idle" => tab[t].who \in Staff
    BY DEF C!Init, C!NoTab
  <2>3. /\ mailFaults \in 0..MaxFaults /\ excused \subseteq Ids
        /\ status \in {"INACTIVE", "ACTIVE", "REVOKED", "REFRESH_FAILED"}
    BY IdempotencyAssumption DEF C!Init
  <2>. QED
    BY <1>1, <1>2, <2>1, <2>2, <2>3, FS_EmptySet DEF TablesOK, MailAssumption
<1>4. IngestsOK
  <2>1. C!NoIngest \in [pc : Stages, todo : SUBSET Ids, token : 0..MaxTokens] /\ C!NoIngest.pc = "idle"
    BY DEF Stages, MailAssumption, C!NoIngest
  <2>. QED
    BY <2>1 DEF C!Init, IngestsOK, Fits
<1>5. CountsOK
  <2>1. Cardinality({}) = 0 /\ Cardinality(Ingests) \in Nat
    BY FS_EmptySet, FS_CardinalityType DEF MailAssumption
  <2>2. copies = [s \in Staff |-> 0]
    BY DEF C!Init
  <2>. QED
    BY <1>2, <2>1, <2>2 DEF CountsOK
<1>6. TokensOK
  BY <1>1 DEF C!Init, TokensOK, InRefresh, C!NoIngest, Ids
<1>. QED
  BY <1>3, <1>4, <1>5, <1>6 DEF ChannelInv

\* Rows are added or touched, the ingests wait.
LEMMA IngestsWait ==
    ASSUME MailAssumption, ChannelInv, TablesOK', Len(auth') >= Len(auth), UNCHANGED <<ingest, copies>>,
           \A a \in Ids : auth'[a].who = auth[a].who
    PROVE  IngestsOK' /\ CountsOK'
<1>1. Ids \subseteq Ids'
  BY RowsAre DEF Ids, ChannelInv
<1>2. IngestsOK'
  BY <1>1 DEF ChannelInv, IngestsOK, Fits
<1>3. \A s : Inserting(s)' \subseteq Inserting(s)
  BY RefreshedIsIn DEF ChannelInv, Inserting, C!Pass
<1>. QED
  BY <1>2, <1>3, CountsKept DEF ChannelInv

LEMMA ChannelStep == ASSUME MailAssumption, ChannelInv, C!Next PROVE ChannelInv'
<1>1. ASSUME NEW t \in Tabs,
             \/ \E s \in Staff : C!Connect(t, s)
             \/ C!revokePriorAuthsForMembership(t) \/ C!CreateAuth(t)
      PROVE  ChannelInv'
  <2>1. UNCHANGED <<ingest, copies>>
    BY <1>1 DEF C!Connect, C!revokePriorAuthsForMembership, C!CreateAuth
  <2>2. TablesOK' /\ Len(auth') >= Len(auth) /\ \A a \in Ids : auth'[a].who = auth[a].who
    BY <1>1, TabStep DEF ChannelInv
  <2>3. TokensOK'
    BY <1>1, TabKeepsTokens DEF ChannelInv
  <2>. QED
    BY <2>1, <2>2, <2>3, IngestsWait DEF ChannelInv
<1>2. ASSUME \/ \E a \in C!Rows : C!revokeChannelAuth(a) \/ C!TokensExpire(a) \/ C!GrantCut(a)
             \/ \E s \in Staff : C!MailArrives(s)
             \/ C!RevokeChannel
      PROVE  ChannelInv'
  <2>1. /\ TablesOK' /\ Len(auth') = Len(auth) /\ \A a \in Ids : auth'[a].who = auth[a].who
        /\ \A a \in Ids : auth'[a].token = auth[a].token /\ grant'[a].token = grant[a].token
        /\ \A a \in Ids : (grant[a].cut => grant'[a].cut) /\ grant'[a].own = grant[a].own
        /\ UNCHANGED <<copies, ingest, excused>>
    BY <1>2, WorldStep DEF ChannelInv
  <2>2. Len(auth) \in Nat /\ Ids' = Ids
    BY <2>1, RowsAre DEF ChannelInv, Ids
  <2>3. IngestsOK' /\ CountsOK'
    BY <2>1, <2>2, IngestsWait
  <2>4. TokensOK'
    BY <2>1, <2>2, TokensStay DEF ChannelInv
  <2>. QED
    BY <2>1, <2>3, <2>4 DEF ChannelInv
<1>3. ASSUME NEW i \in Ingests, IngestMoves(i) PROVE ChannelInv'
  BY <1>3, IngestStep, OthersWait, CountsStep, TokensStep DEF ChannelInv
<1>. QED
  BY <1>1, <1>2, <1>3 DEF C!Next, IngestMoves

LEMMA ChannelRests == ASSUME MailAssumption, ChannelInv, UNCHANGED OfC PROVE ChannelInv'
<1>1. UNCHANGED <<kind, rotates, auth, status, grant, mail, copies, tab, ingest, mailFaults, excused>>
  BY DEF OfC
<1>2. TablesOK' /\ IngestsOK'
  BY <1>1 DEF ChannelInv, TablesOK, BusyTabs, IngestsOK, Fits, Ids
<1>3. CountsOK'
  <2>1. \A s : Inserting(s)' = Inserting(s)
    BY <1>1 DEF Inserting, C!Pass
  <2>. QED
    BY <1>1, <2>1, CountsKept DEF ChannelInv
<1>4. TokensOK'
  <2>1. Ids' = Ids
    BY <1>1 DEF Ids
  <2>. QED
    BY <1>1, <2>1, TokensStay DEF ChannelInv
<1>. QED
  BY <1>2, <1>3, <1>4 DEF ChannelInv

LEMMA ChannelInductive == ASSUME MailAssumption PROVE RepeatsSpec => []ChannelInv
<1>1. RepeatsInit => ChannelInv
  BY ChannelInit DEF RepeatsInit
<1>2. ChannelInv /\ [RepeatsNext]_<<scene, vars, OfC, OfN>> => ChannelInv'
  BY ChannelStep, ChannelRests DEF RepeatsNext
<1>. QED
  BY <1>1, <1>2, PTL DEF RepeatsSpec

\* Rows and passes are what they should be, and a message is stored once for each request
\* that can have looked for it before another stored it (storeMessages), for any number of
\* mailboxes, connections and requests, and whatever the provider does.
THEOREM MailIsStoredOnce == ASSUME MailAssumption PROVE RepeatsSpec => []MailInv
<1>1. ChannelInv => MailInv
  <2>. SUFFICES ASSUME ChannelInv PROVE C!TypeOK /\ C!StoredOncePerIngest
    BY DEF MailInv, C!MailInv
  <2>. USE DEF ChannelInv
  <2>1. \A a \in Ids : auth[a] \in AuthRow /\ grant[a] \in GrantRow
    BY RowsAre
  <2>2. DOMAIN grant = C!Rows /\ C!Rows = Ids
    BY RowsAre
  <2>3. Len(auth) <= MaxAuths
    <3>1. Cardinality(BusyTabs) \in Nat
      BY FS_Subset, FS_CardinalityType DEF MailAssumption, BusyTabs
    <3>. QED
      BY <3>1, RowsAre DEF TablesOK, MailAssumption
  <2>4. \A i \in Ingests : ingest[i].todo \subseteq Ids /\ ingest[i].token \in 0..MaxTokens
    BY DEF IngestsOK, Fits
  <2>5. C!TypeOK
    BY <2>1, <2>2, <2>3, <2>4 DEF C!TypeOK, TablesOK, AuthRow, GrantRow
  <2>6. ASSUME NEW s \in Staff PROVE copies[s] <= Cardinality(Ingests)
    BY InsertingCounts DEF CountsOK
  <2>. QED
    BY <2>5, <2>6, ChannelCounts DEF C!StoredOncePerIngest
<1>. QED
  BY <1>1, ChannelInductive, PTL

\* A refresh that fails takes a connection away only where the grant was withdrawn, was given
\* to the tenant's own OAuth app, or was spoilt by an error, by two refreshes at once or by an
\* answer that was never stored (ensureFreshTokens).
THEOREM HealthyAuthsStay == ASSUME MailAssumption PROVE RepeatsSpec => HealthyAuthKept
<1>1. ASSUME ChannelInv, [RepeatsNext]_<<scene, vars, OfC, OfN>>
      PROVE  \A i \in Ingests : ingest[i].pc = "refused" /\ ingest'[i].pc = "pass"
                => grant[C!Pass(i)].cut \/ grant[C!Pass(i)].own \/ C!Pass(i) \in excused
  BY <1>1 DEF ChannelInv, TokensOK, Spoilt, Unusable
<1>2. ChannelInv /\ [RepeatsNext]_<<scene, vars, OfC, OfN>>
      => [\A i \in Ingests : ingest[i].pc = "refused" /\ ingest'[i].pc = "pass"
            => grant[C!Pass(i)].cut \/ grant[C!Pass(i)].own \/ C!Pass(i) \in excused]_C!vars
  BY <1>1
<1>. QED
  BY <1>2, ChannelInductive, PTL DEF RepeatsSpec, HealthyAuthKept, C!HealthyAuthKept

-----------------------------------------------------------------------------
(* Who is told what. *)

\* There are weeks.
TellAssumption == MaxWeek \in Nat \ {0}

Fan == {"fanout", "send", "store", "audit", "draft"}
Calling == [pc : {"idle", "recorded", "dedupe", "warn", "probe", "alert"} \cup Fan,
            kind : N!Kinds \cup {N!None}, key : 0..MaxWeek, queue : SUBSET N!People,
            who : N!People \cup {N!None}]
Notice == [who : N!People, kind : N!Kinds, key : 0..MaxWeek]

\* What a call is about goes with where it is.
Stands(x) ==
    /\ x.pc = "idle" <=> x.kind = N!None
    /\ x.pc = "recorded" => x.kind = "escalation"
    /\ x.pc \in {"dedupe", "warn"} => x.kind = "escalation_stale"
    /\ x.pc \in {"probe", "alert"} => x.kind = "below_threshold"
    /\ x.pc = "draft" => x.kind = "draft_stale"
    /\ x.pc \in {"send", "store", "audit", "draft", "probe", "alert"} => x.who \in N!People
    /\ x.kind = "below_threshold" => x.key \in 1..MaxWeek
    /\ x.kind \in {"escalation", "escalation_stale", "draft_stale"} => x.key = 0
    /\ x.kind = "draft_stale" => x.queue \subseteq {Assignee}
                                 /\ (x.pc \in {"send", "store", "audit", "draft"} => x.who = Assignee)

Sign == [escalated : BOOLEAN, stale : BOOLEAN, acked : BOOLEAN, warned : Nat]
Owed == [overdue : BOOLEAN, sent : BOOLEAN, warned : Nat]

Typed ==
    /\ lockOn \in BOOLEAN /\ week \in 1..MaxWeek
    /\ member \in [N!People -> {"absent", "ACTIVE", "left"}]
    /\ \A p \in N!People \ Newcomers : member[p] # "absent"
    /\ signal \in Sign /\ draft \in Owed /\ alerted \subseteq 1..MaxWeek
    /\ rows \subseteq Notice /\ mailed \subseteq Notice
    /\ again \subseteq Notice /\ failed \subseteq Notice
    /\ call \in [Runs -> Calling] /\ \A c \in Runs : Stands(call[c])
    /\ lost \in Nat /\ dead \in Nat

\* Runs of one cron are apart where the lock works; an escalation is told by one call.
OneCall ==
    \A c, d \in Runs : c # d /\ call[c].kind = call[d].kind
                       => call[c].kind # "escalation" /\ (lockOn => call[c].kind = N!None)

Escalated ==
    /\ signal.warned > 0 => signal.escalated
    /\ \A c \in Runs : /\ call[c].kind \in {"escalation", "escalation_stale"} => signal.escalated
                       /\ lockOn /\ call[c].pc = "warn" => signal.warned = 0

\* The chain knows first.
Known(k, key) == /\ k = "escalation_stale" => signal.warned > 0
                 /\ k = "below_threshold" => key \in alerted
ChainFirst ==
    /\ \A c \in Runs : call[c].pc \in Fan => Known(call[c].kind, call[c].key)
    /\ \A r \in rows : Known(r.kind, r.key)

AtDraft(x) == x.kind = "draft_stale" /\ x.pc \in {"audit", "draft"}
OwnerTold == N!Told(Assignee, "draft_stale", 0)

\* Of the runs that tell the owner, one stores the row.
DraftOnce ==
    /\ draft.warned <= 1
    /\ draft.warned = 1 => OwnerTold
    /\ \A c \in Runs : AtDraft(call[c]) => /\ OwnerTold /\ draft.warned = 0
                                           /\ \A d \in Runs : AtDraft(call[d]) => c = d

RowFor(x, p) == [who |-> p, kind |-> x.kind, key |-> x.key]

\* Where the lock works, a mail is sent to one who has no row; unless a call died, every mail
\* has its row, or is about to get it, or was refused it.
Misses(x) == x.pc \in {"send", "store"} => RowFor(x, x.who) \notin rows
MailsHaveRows ==
    /\ lockOn => \A c \in Runs : Misses(call[c])
    /\ dead = 0 => \A m \in mailed : \/ m \in rows \cup failed
                                     \/ \E c \in Runs : call[c].pc = "store" /\ m = RowFor(call[c], call[c].who)

\* p will be told by the call.
WillTell(x, p) == x.pc \in Fan /\ (p \in x.queue \/ (x.pc \in {"send", "store"} /\ x.who = p))
Nudges == {"escalation", "escalation_stale"}

\* A call passes over nobody who stayed.
Reaching(x) ==
    /\ x.pc \in Fan /\ x.kind \in Nudges => \A p \in N!Stayed(N!People) : RowFor(x, p) \in rows \/ WillTell(x, p)
    /\ x.pc \in {"probe", "alert"} => N!Stayed(Admins) \subseteq x.queue
Reaches == \A c \in Runs : Reaching(call[c])

\* Nobody is at work on the notices of kind k, and one of the audience has none.
Telling(x, k) == x.kind = k /\ x.pc \in Fan \cup {"recorded"}
Owing(k) == (\A c \in Runs : ~ Telling(call[c], k)) /\ \E p \in N!Stayed(N!People) : ~ N!Told(p, k, 0)
First == signal.escalated /\ Owing("escalation")
Second == signal.warned > 0 /\ Owing("escalation_stale")

\* Each debt took a failure of its own.
Debts == lockOn => /\ First \/ Second => lost + dead >= 1
                   /\ First /\ Second => lost + dead >= 2

Alerting(x, w, p) == x.kind = "below_threshold" /\ x.key = w /\ WillTell(x, p)
Missed(w, p) == [who |-> p, kind |-> "below_threshold", key |-> w] \in failed
Hears(w, p) == \/ N!Told(p, "below_threshold", w) \/ Missed(w, p)
               \/ \E c \in Runs : Alerting(call[c], w, p)
Alerts == dead = 0 => \A w \in alerted, p \in N!Stayed(Admins) : Hears(w, p)

\* The invariant of the notices.
NoticeInv == Typed /\ OneCall /\ Escalated /\ ChainFirst /\ DraftOnce /\ MailsHaveRows
             /\ N!MailedOnce /\ Reaches /\ Debts /\ Alerts

LEMMA KindsAre == N!Kinds = {"escalation", "escalation_stale", "draft_stale", "below_threshold", "weekly_digest"}
                  /\ N!None = "none"
  BY DEF N!Kinds, N!Matters, N!None

\* Call c moves to x, and no other call moves.
TurnsTo(c, x) == x \in Calling /\ Stands(x) /\ call' = [call EXCEPT ![c] = x]

LEMMA MoveTyped == ASSUME Typed, NEW c \in Runs, NEW x, TurnsTo(c, x)
                   PROVE  /\ call' \in [Runs -> Calling] /\ \A d \in Runs : Stands(call'[d])
                          /\ call'[c] = x /\ \A d \in Runs \ {c} : call'[d] = call[d]
  BY DEF Typed, TurnsTo

LEMMA FinishMoves == ASSUME TellAssumption, Typed, NEW c \in Runs, N!Finish(c)
                     PROVE  TurnsTo(c, N!Idle) /\ N!Idle.pc = "idle" /\ N!Idle.kind = N!None
  BY KindsAre DEF N!Finish, N!Idle, TurnsTo, Calling, Stands, Fan, TellAssumption, Typed

\* A call goes on with its matter.
LEMMA GoMoves ==
    ASSUME Typed, NEW c \in Runs, NEW p \in Fan \cup {"warn", "alert"}, N!Go(c, p),
           call[c].pc # "idle", p = "warn" => call[c].pc = "dedupe", p = "alert" => call[c].pc = "probe",
           p = "draft" => call[c].kind = "draft_stale",
           p \in {"send", "store", "audit", "draft"} => call[c].pc \in {"send", "store", "audit", "draft"}
    PROVE  \E x : TurnsTo(c, x) /\ x = [call[c] EXCEPT !.pc = p]
<1>. DEFINE x == [call[c] EXCEPT !.pc = p]
<1>1. call' = [call EXCEPT ![c] = x]
  BY DEF N!Go
<1>2. call[c] \in Calling /\ Stands(call[c])
  BY DEF Typed
<1>3. x \in Calling
  BY <1>2 DEF Calling, Fan
<1>4. x.pc = p /\ x.kind = call[c].kind /\ x.key = call[c].key /\ x.queue = call[c].queue /\ x.who = call[c].who
  BY <1>2 DEF Calling
<1>5. Stands(x)
  <2>. HIDE DEF x
  <2>. QED
    BY <1>2, <1>4, KindsAre DEF Stands, Fan
<1>. QED
  BY <1>1, <1>3, <1>5 DEF TurnsTo

LEMMA StartMoves ==
    ASSUME TellAssumption, Typed, NEW c \in Runs, NEW k \in N!Kinds,
           NEW p \in {"recorded", "dedupe", "fanout"}, NEW Q \in SUBSET N!People, N!Start(c, k, p, Q),
           p = "recorded" => k = "escalation", p = "dedupe" => k = "escalation_stale",
           k = "draft_stale" => Q \subseteq {Assignee}
    PROVE  \E x : TurnsTo(c, x) /\ x.pc = p /\ x.kind = k /\ x.key = N!KeyOf(k) /\ x.queue = Q
<1>. DEFINE x == [N!Idle EXCEPT !.pc = p, !.kind = k, !.key = N!KeyOf(k), !.queue = Q]
<1>1. N!KeyOf(k) \in 0..MaxWeek /\ (k = "below_threshold" => N!KeyOf(k) \in 1..MaxWeek)
      /\ (k \in {"escalation", "escalation_stale", "draft_stale"} => N!KeyOf(k) = 0)
  BY DEF N!KeyOf, Typed, TellAssumption
<1>2. call' = [call EXCEPT ![c] = x]
  BY DEF N!Start
<1>3. N!Idle \in Calling
  BY DEF N!Idle, Calling, TellAssumption
<1>4. x \in Calling /\ x.pc = p /\ x.kind = k /\ x.key = N!KeyOf(k) /\ x.queue = Q
  <2>. HIDE DEF N!Idle
  <2>. QED
    BY <1>1, <1>3 DEF Calling, Fan
<1>. HIDE DEF x
<1>5. Stands(x)
  BY <1>1, <1>4, KindsAre DEF Stands
<1>. QED
  BY <1>2, <1>4, <1>5 DEF TurnsTo

\* Call c may move to x, when nothing else does: it keeps to its matter or begins one of its
\* own, goes on with what it owes to its recipients, and leaves only what has been done.
Sound(c, x) ==
    LET y == call[c]
    IN /\ \/ x.kind \in {N!None, y.kind}
          \/ \A d \in Runs : call[d].kind = x.kind => ~ lockOn /\ x.kind # "escalation"
       /\ x.kind \in Nudges => signal.escalated
       /\ lockOn /\ x.pc = "warn" => signal.warned = 0
       /\ x.pc \in Fan => Known(x.kind, x.key)
       /\ AtDraft(x) => AtDraft(y)
       /\ (lockOn => Misses(x)) /\ Reaching(x)
       /\ y.pc = "store" => RowFor(y, y.who) \in rows \cup failed' \/ dead' > 0
       /\ failed \subseteq failed' /\ failed' \subseteq Notice
       /\ \A k \in Nudges : Telling(y, k) => \/ Telling(x, k) \/ ~ lockOn
                                             \/ \A p \in N!Stayed(N!People) : RowFor(y, p) \in rows
                                             \/ lost' + dead' > lost + dead
       /\ \A p \in N!Stayed(Admins) :
             Alerting(y, y.key, p) => \/ RowFor(y, p) \in rows \cup failed' \/ Alerting(x, y.key, p)
                                      \/ dead' > 0
       /\ lost' \in Nat /\ dead' \in Nat /\ lost' >= lost /\ dead' >= dead

OfOthers == <<lockOn, week, member, signal, alerted, rows, mailed, again>>

\* Failures add up.
LEMMA Sums == ASSUME NEW l \in Nat, NEW d \in Nat, NEW l2 \in Nat, NEW d2 \in Nat, l2 >= l, d2 >= d
              PROVE  l2 + d2 >= l + d /\ (l2 + d2 > l + d => l2 + d2 >= l + d + 1)
                     /\ (l + d >= 1 => l + d + 1 >= 2) /\ l + d \in Nat /\ l2 + d2 \in Nat
  OBVIOUS

LEMMA QuietMove ==
    ASSUME NoticeInv, NEW c \in Runs, NEW x, TurnsTo(c, x), Sound(c, x), UNCHANGED OfOthers,
           draft' = draft \/ (draft' \in Owed /\ DraftOnce')
    PROVE  NoticeInv'
<1>. USE DEF OfOthers
<1>1. /\ call' \in [Runs -> Calling] /\ \A d \in Runs : Stands(call'[d])
      /\ call'[c] = x /\ \A d \in Runs \ {c} : call'[d] = call[d]
  BY MoveTyped DEF NoticeInv
<1>2. Typed'
  BY <1>1 DEF NoticeInv, Typed, Sound
<1>3. OneCall'
  BY <1>1, KindsAre DEF NoticeInv, OneCall, Sound
<1>4. Escalated' /\ ChainFirst'
  BY <1>1 DEF NoticeInv, Escalated, ChainFirst, Known, Sound, Nudges
<1>5. DraftOnce'
  BY <1>1 DEF NoticeInv, DraftOnce, AtDraft, OwnerTold, N!Told, Sound
<1>6. MailsHaveRows' /\ N!MailedOnce'
  <2>1. dead' = 0 => dead = 0
    BY DEF Sound, NoticeInv, Typed
  <2>2. dead' > 0 => ~ (dead' = 0)
    BY DEF Sound
  <2>3. dead > 0 => dead' > 0
    BY DEF Sound, NoticeInv, Typed
  <2>4. N!MailedOnce'
    BY <2>3 DEF NoticeInv, N!MailedOnce, Sound, Typed
  <2>5. MailsHaveRows'
    BY <1>1, <2>1, <2>2 DEF NoticeInv, MailsHaveRows, Misses, RowFor, Sound
  <2>. QED
    BY <2>4, <2>5
<1>7. Reaches'
  BY <1>1 DEF NoticeInv, Reaches, Reaching, RowFor, WillTell, N!Stayed, N!Active, Sound
<1>8. Debts'
  <2>1. ASSUME NEW k \in Nudges, lockOn, Owing(k)', ~ (Telling(call[c], k) /\ lost' + dead' > lost + dead)
        PROVE  Owing(k)
    <3>1. PICK p \in N!Stayed(N!People) : ~ N!Told(p, k, 0)
      BY <2>1 DEF Owing, N!Stayed, N!Active, N!Told
    <3>2. Telling(call[c], k) => RowFor(call[c], p) = [who |-> p, kind |-> k, key |-> 0]
      BY DEF NoticeInv, Typed, Stands, Telling, RowFor, Nudges
    <3>3. ~ Telling(call[c], k)
      BY <1>1, <2>1, <3>1, <3>2 DEF Sound, Owing, N!Told
    <3>. QED
      BY <1>1, <2>1, <3>1, <3>3 DEF Owing
  <2>2. ~ (Telling(call[c], "escalation") /\ Telling(call[c], "escalation_stale"))
    BY DEF Telling
  <2>3. lockOn /\ First' => First \/ (lost' + dead' > lost + dead /\ Telling(call[c], "escalation"))
    BY <2>1 DEF First, Nudges
  <2>4. lockOn /\ Second' => Second \/ (lost' + dead' > lost + dead /\ Telling(call[c], "escalation_stale"))
    BY <2>1 DEF Second, Nudges
  <2>5. lost \in Nat /\ dead \in Nat /\ lost' \in Nat /\ dead' \in Nat /\ lost' >= lost /\ dead' >= dead
    BY DEF NoticeInv, Typed, Sound
  <2>6. lost' + dead' >= lost + dead /\ (lost' + dead' > lost + dead => lost' + dead' >= lost + dead + 1)
        /\ (lost + dead >= 1 => lost + dead + 1 >= 2) /\ lost + dead \in Nat /\ lost' + dead' \in Nat
    BY <2>5, Sums
  <2>. HIDE DEF OfOthers
  <2>7. lockOn' = lockOn
    BY DEF OfOthers
  <2>. DEFINE n == lost + dead
              m == lost' + dead'
  <2>8. lockOn => (First \/ Second => n >= 1) /\ (First /\ Second => n >= 2)
    BY DEF NoticeInv, Debts
  <2>9. n \in Nat /\ m \in Nat /\ m >= n /\ (m > n => m >= n + 1) /\ (n >= 1 => n + 1 >= 2)
    BY <2>6
  <2>10. lockOn /\ First' => First \/ (m > n /\ Telling(call[c], "escalation"))
    BY <2>3
  <2>11. lockOn /\ Second' => Second \/ (m > n /\ Telling(call[c], "escalation_stale"))
    BY <2>4
  <2>12. m = n'
    OBVIOUS
  <2>. HIDE DEF n, m
  <2>13. lockOn => (First' \/ Second' => m >= 1) /\ (First' /\ Second' => m >= 2)
    BY <2>2, <2>8, <2>9, <2>10, <2>11
  <2>. QED
    BY <2>7, <2>13 DEF Debts, m
<1>9. Alerts'
  <2>1. ASSUME NEW w, NEW p \in N!Stayed(Admins), Alerting(call[c], w, p), dead' = 0
        PROVE  N!Told(p, "below_threshold", w) \/ Missed(w, p)' \/ Alerting(x, w, p)
    BY <2>1 DEF Sound, Alerting, RowFor, N!Told, Missed
  <2>2. ASSUME NEW w, NEW p \in N!Stayed(Admins), Hears(w, p), dead' = 0 PROVE Hears(w, p)'
    <3>1. \/ N!Told(p, "below_threshold", w) \/ Missed(w, p)'
          \/ \E d \in Runs : Alerting(call'[d], w, p)
      BY <1>1, <2>1, <2>2 DEF Hears, Missed, Sound
    <3>. QED
      BY <3>1 DEF Hears, Missed, N!Told, Alerting, WillTell
  <2>3. N!Stayed(Admins)' = N!Stayed(Admins)
    BY DEF N!Stayed, N!Active
  <2>4. dead' = 0 => dead = 0
    BY DEF Sound, NoticeInv, Typed
  <2>. QED
    BY <2>2, <2>3, <2>4 DEF NoticeInv, Alerts
<1>. QED
  BY <1>2, <1>3, <1>4, <1>5, <1>6, <1>7, <1>8, <1>9 DEF NoticeInv

\* A call that ends, or begins, owes nothing to a recipient.
LEMMA IdleIs == N!Idle.pc = "idle" /\ N!Idle.kind = N!None
  BY DEF N!Idle

LEMMA RestsSound ==
    ASSUME NoticeInv, NEW c \in Runs, UNCHANGED <<failed, lost, dead>>, call[c].pc \notin Fan \cup {"recorded"}
    PROVE  Sound(c, N!Idle)
  BY IdleIs, KindsAre DEF NoticeInv, Typed, Sound, Fan, Nudges, Misses, Reaching, Alerting, WillTell, Telling, AtDraft

LEMMA Audiences == N!Audience \subseteq N!People /\ N!Stayed(N!People) \subseteq N!Audience
                   /\ N!Active(Admins) \subseteq N!People /\ N!Active({Assignee}) \subseteq N!People
                   /\ N!Stayed(Admins) \subseteq N!Active(Admins) /\ N!Stayed(Admins) \subseteq N!Stayed(N!People)
  BY DEF N!Audience, N!Active, N!Stayed, N!People

LEMMA TellMoves ==
    ASSUME Typed, NEW c \in Runs, N!TellAudience(c), call[c].kind \in Nudges
    PROVE  \E x : /\ TurnsTo(c, x) /\ x.pc = "fanout" /\ x.queue = N!Audience
                  /\ x.kind = call[c].kind /\ x.key = call[c].key
<1>. DEFINE x == [call[c] EXCEPT !.pc = "fanout", !.queue = N!Audience]
<1>1. call[c] \in Calling /\ Stands(call[c])
  BY DEF Typed
<1>2. x \in Calling /\ x.pc = "fanout" /\ x.queue = N!Audience /\ x.kind = call[c].kind /\ x.key = call[c].key
  BY <1>1, Audiences DEF Calling, Fan
<1>3. call' = [call EXCEPT ![c] = x]
  BY <1>1 DEF N!TellAudience, Typed, Calling
<1>. HIDE DEF x
<1>4. Stands(x)
  BY <1>1, <1>2, KindsAre DEF Stands, Nudges
<1>. QED
  BY <1>2, <1>3, <1>4 DEF TurnsTo

LEMMA AuditEscalationStep ==
    ASSUME TellAssumption, NoticeInv, NEW c \in Runs, N!AuditEscalation(c) PROVE NoticeInv'
<1>. USE DEF N!AuditEscalation
<1>1. call[c].kind = "escalation" /\ signal.escalated
  BY DEF NoticeInv, Typed, Stands, Escalated
<1>2. PICK x : /\ TurnsTo(c, x) /\ x.pc = "fanout" /\ x.queue = N!Audience
               /\ x.kind = call[c].kind /\ x.key = call[c].key
  BY <1>1, TellMoves DEF NoticeInv, Nudges
<1>3. Sound(c, x)
  BY <1>1, <1>2, Audiences
     DEF NoticeInv, Typed, Sound, Known, AtDraft, Misses, Reaching, WillTell, Telling, Alerting, Fan, Nudges
<1>. QED
  BY <1>2, <1>3, QuietMove DEF OfOthers, N!world

LEMMA StaleSweepStep ==
    ASSUME TellAssumption, NoticeInv, NEW c \in Runs, N!StaleSweep(c) PROVE NoticeInv'
<1>. USE DEF N!StaleSweep
<1>1. PICK x : TurnsTo(c, x) /\ x.pc = "dedupe" /\ x.kind = "escalation_stale"
  BY StartMoves, KindsAre DEF NoticeInv
<1>2. call[c].pc = "idle" /\ call[c].kind = N!None
  BY DEF NoticeInv, Typed, Stands, N!MayStart
<1>3. Sound(c, x)
  BY <1>1, <1>2, KindsAre
     DEF NoticeInv, Typed, Sound, Known, AtDraft, Misses, Reaching, WillTell, Telling, Alerting, Fan, Nudges, N!MayStart
<1>. QED
  BY <1>1, <1>3, QuietMove DEF OfOthers, N!world

LEMMA DedupeStep ==
    ASSUME TellAssumption, NoticeInv, NEW c \in Runs, N!Dedupe(c) PROVE NoticeInv'
<1>. USE DEF N!Dedupe
<1>1. CASE signal.warned > 0
  BY <1>1, FinishMoves, RestsSound, QuietMove DEF NoticeInv, Fan, OfOthers, N!world
<1>2. CASE ~ (signal.warned > 0)
  <2>1. PICK x : TurnsTo(c, x) /\ x = [call[c] EXCEPT !.pc = "warn"]
    BY <1>2, GoMoves DEF NoticeInv
  <2>2. x.pc = "warn" /\ x.kind = "escalation_stale" /\ call[c].kind = "escalation_stale" /\ signal.escalated
    BY <2>1 DEF NoticeInv, Typed, Stands, Calling, Escalated
  <2>3. signal.warned = 0
    BY <1>2 DEF NoticeInv, Typed, Sign
  <2>4. Sound(c, x)
    BY <2>2, <2>3
       DEF NoticeInv, Typed, Sound, Known, AtDraft, Misses, Reaching, WillTell, Telling, Alerting, Fan, Nudges
  <2>. QED
    BY <2>1, <2>4, QuietMove DEF OfOthers, N!world
<1>. QED
  BY <1>1, <1>2

LEMMA DraftStaleSweepStep ==
    ASSUME TellAssumption, NoticeInv, NEW c \in Runs, N!DraftStaleSweep(c) PROVE NoticeInv'
<1>. USE DEF N!DraftStaleSweep
<1>1. PICK x : TurnsTo(c, x) /\ x.pc = "fanout" /\ x.kind = "draft_stale"
  BY StartMoves, KindsAre DEF NoticeInv, N!People
<1>2. call[c].pc = "idle" /\ call[c].kind = N!None
  BY DEF NoticeInv, Typed, Stands, N!MayStart
<1>3. Sound(c, x)
  BY <1>1, <1>2, KindsAre
     DEF NoticeInv, Typed, Sound, Known, AtDraft, Misses, Reaching, WillTell, Telling, Alerting, Fan, Nudges, N!MayStart
<1>. QED
  BY <1>1, <1>3, QuietMove DEF OfOthers, N!world

LEMMA DigestStep ==
    ASSUME TellAssumption, NoticeInv, NEW c \in Runs, N!runWeeklyDigest(c) PROVE NoticeInv'
<1>. USE DEF N!runWeeklyDigest
<1>1. PICK x : TurnsTo(c, x) /\ x.pc = "fanout" /\ x.kind = "weekly_digest"
  <2>1. "weekly_digest" \in N!Kinds /\ N!Active({Assignee}) \in SUBSET N!People
    BY KindsAre, Audiences
  <2>2. N!Start(c, "weekly_digest", "fanout", N!Active({Assignee}))
    OBVIOUS
  <2>. QED
    BY <2>1, <2>2, StartMoves DEF NoticeInv
<1>2. call[c].pc = "idle" /\ call[c].kind = N!None
  BY DEF NoticeInv, Typed, Stands, N!MayStart
<1>3. Sound(c, x)
  BY <1>1, <1>2, KindsAre
     DEF NoticeInv, Typed, Sound, Known, AtDraft, Misses, Reaching, WillTell, Telling, Alerting, Fan, Nudges, N!MayStart
<1>. QED
  BY <1>1, <1>3, QuietMove DEF OfOthers, N!world

LEMMA MonitorStep ==
    ASSUME TellAssumption, NoticeInv, NEW c \in Runs, N!Monitor(c) PROVE NoticeInv'
<1>. USE DEF N!Monitor
<1>1. PICK first \in N!Active(Admins) :
         call' = [call EXCEPT ![c] = [pc |-> "probe", kind |-> "below_threshold",
                                      key |-> N!KeyOf("below_threshold"),
                                      queue |-> N!Active(Admins), who |-> first]]
  OBVIOUS
<1>. DEFINE x == [pc |-> "probe", kind |-> "below_threshold", key |-> N!KeyOf("below_threshold"),
                  queue |-> N!Active(Admins), who |-> first]
<1>2. x \in Calling /\ Stands(x) /\ x.pc = "probe" /\ x.kind = "below_threshold" /\ x.queue = N!Active(Admins)
  BY Audiences, KindsAre DEF Calling, Stands, N!KeyOf, NoticeInv, Typed, Fan
<1>. HIDE DEF x
<1>3. TurnsTo(c, x)
  BY <1>1, <1>2 DEF TurnsTo, x
<1>4. call[c].pc = "idle" /\ call[c].kind = N!None
  BY DEF NoticeInv, Typed, Stands, N!MayStart
<1>5. Sound(c, x)
  BY <1>2, <1>4, KindsAre, Audiences
     DEF NoticeInv, Typed, Sound, Known, AtDraft, Misses, Reaching, WillTell, Telling, Alerting, Fan, Nudges, N!MayStart
<1>. QED
  BY <1>3, <1>5, QuietMove DEF OfOthers, N!world

LEMMA ProbeFirstStep ==
    ASSUME TellAssumption, NoticeInv, NEW c \in Runs, N!ProbeFirst(c) PROVE NoticeInv'
<1>. USE DEF N!ProbeFirst
<1>1. CASE N!RowOf(c, call[c].who) \in rows
  BY <1>1, FinishMoves, RestsSound, QuietMove DEF NoticeInv, Fan, OfOthers, N!world
<1>2. CASE N!RowOf(c, call[c].who) \notin rows
  <2>1. PICK x : TurnsTo(c, x) /\ x = [call[c] EXCEPT !.pc = "alert"]
    BY <1>2, GoMoves DEF NoticeInv
  <2>2. x.pc = "alert" /\ x.kind = call[c].kind /\ call[c].kind = "below_threshold" /\ x.queue = call[c].queue
    BY <2>1 DEF NoticeInv, Typed, Stands, Calling
  <2>3. Sound(c, x)
    BY <2>2
       DEF NoticeInv, Typed, Sound, Known, AtDraft, Misses, Reaches, Reaching, WillTell, Telling, Alerting, Fan, Nudges
  <2>. QED
    BY <2>1, <2>3, QuietMove DEF OfOthers, N!world
<1>. QED
  BY <1>1, <1>2

LEMMA NextRecipientStep ==
    ASSUME TellAssumption, NoticeInv, NEW c \in Runs, N!NextRecipient(c) PROVE NoticeInv'
<1>. USE DEF N!NextRecipient
<1>. DEFINE y == call[c]
<1>1. PICK p \in y.queue :
         call' = [call EXCEPT ![c].queue = @ \ {p}, ![c].who = p,
                              ![c].pc = IF N!HasRow(N!RowOf(c, p)) THEN "fanout" ELSE "send"]
  OBVIOUS
<1>. DEFINE x == [y EXCEPT !.queue = @ \ {p}, !.who = p,
                           !.pc = IF N!HasRow(N!RowOf(c, p)) THEN "fanout" ELSE "send"]
<1>2. y \in Calling /\ Stands(y) /\ y.pc = "fanout" /\ p \in N!People
  BY DEF NoticeInv, Typed, Calling
<1>3. /\ x \in Calling /\ x.kind = y.kind /\ x.key = y.key /\ x.queue = y.queue \ {p} /\ x.who = p
      /\ N!HasRow(N!RowOf(c, p)) => x.pc = "fanout"
      /\ ~ N!HasRow(N!RowOf(c, p)) => x.pc = "send"
  BY <1>2 DEF Calling, Fan
<1>4. call' = [call EXCEPT ![c] = x]
  BY <1>1, <1>2 DEF NoticeInv, Typed, Calling
<1>. HIDE DEF x
<1>5. N!HasRow(N!RowOf(c, p)) <=> RowFor(y, p) \in rows
  BY DEF N!HasRow, N!RowOf, RowFor
<1>6. Stands(x)
  BY <1>2, <1>3, KindsAre DEF Stands
<1>7. \A q : RowFor(x, q) = RowFor(y, q) /\ (WillTell(y, q) => RowFor(y, q) \in rows \/ WillTell(x, q))
  BY <1>2, <1>3, <1>5 DEF RowFor, WillTell, Fan
<1>8. Sound(c, x)
  <2>1. x.pc \in Fan /\ y.pc \in Fan /\ ~ AtDraft(x)
    BY <1>2, <1>3 DEF Fan, AtDraft
  <2>2. Known(x.kind, x.key) /\ (x.kind \in Nudges => signal.escalated)
    BY <1>3, <2>1 DEF NoticeInv, ChainFirst, Escalated, Nudges
  <2>3. Misses(x)
    BY <1>3, <1>5, <1>7 DEF Misses
  <2>4. Reaching(x)
    BY <1>3, <1>7, <2>1 DEF NoticeInv, Reaches, Reaching, Fan
  <2>5. \A q : Alerting(y, y.key, q) => RowFor(y, q) \in rows \/ Alerting(x, y.key, q)
    BY <1>3, <1>7 DEF Alerting
  <2>6. x.pc # "warn" /\ y.pc # "store" /\ \A k : Telling(y, k) => Telling(x, k)
    BY <1>2, <1>3, <2>1 DEF Telling
  <2>. QED
    BY <1>3, <2>1, <2>2, <2>3, <2>4, <2>5, <2>6 DEF Sound, NoticeInv, Typed
<1>. QED
  BY <1>3, <1>4, <1>6, <1>8, QuietMove DEF OfOthers, N!world, TurnsTo

\* A call at the end of its fan-out has told everybody who stayed.
LEMMA EndFanoutStep ==
    ASSUME TellAssumption, NoticeInv, NEW c \in Runs, N!EndFanout(c) PROVE NoticeInv'
<1>. USE DEF N!EndFanout
<1>1. \A p : ~ WillTell(call[c], p)
  BY DEF WillTell
<1>2. \A k \in Nudges, p \in N!Stayed(N!People) : Telling(call[c], k) => RowFor(call[c], p) \in rows
  BY <1>1 DEF NoticeInv, Reaches, Reaching, Telling, Fan
<1>3. Sound(c, N!Idle)
  BY <1>1, <1>2, IdleIs, KindsAre
     DEF NoticeInv, Typed, Sound, Known, AtDraft, Misses, Reaching, Telling, Alerting, Fan, Nudges
<1>. QED
  BY <1>3, FinishMoves, QuietMove DEF NoticeInv, OfOthers, N!world

\* A call that goes on with its fan-out after one recipient, who has the row.
LEMMA OnwardSound ==
    ASSUME NoticeInv, NEW c \in Runs, NEW p \in {"fanout", "draft"}, NEW x, x = [call[c] EXCEPT !.pc = p],
           call[c].pc \in {"store", "audit", "draft"},
           call[c].pc = "store" => RowFor(call[c], call[c].who) \in rows,
           p = "draft" => call[c].pc = "audit",
           lost' \in Nat, dead' \in Nat, lost' >= lost, dead' >= dead, failed' = failed
    PROVE  Sound(c, x)
<1>. DEFINE y == call[c]
<1>1. y \in Calling
  BY DEF NoticeInv, Typed
<1>2. x.pc = p /\ x.kind = y.kind /\ x.key = y.key /\ x.queue = y.queue
  BY <1>1 DEF Calling
<1>3. \A q : RowFor(x, q) = RowFor(y, q) /\ (WillTell(y, q) => RowFor(y, q) \in rows \/ WillTell(x, q))
  BY <1>2 DEF RowFor, WillTell, Fan
<1>4. x.pc \in Fan /\ y.pc \in Fan /\ (AtDraft(x) => AtDraft(y)) /\ x.pc # "warn"
  BY <1>2 DEF Fan, AtDraft
<1>5. Known(x.kind, x.key) /\ (x.kind \in Nudges => signal.escalated)
  BY <1>2, <1>4 DEF NoticeInv, ChainFirst, Escalated, Nudges
<1>6. Misses(x)
  BY <1>2 DEF Misses
<1>7. Reaching(x)
  BY <1>2, <1>3, <1>4 DEF NoticeInv, Reaches, Reaching, Fan
<1>8. \A q : Alerting(y, y.key, q) => RowFor(y, q) \in rows \/ Alerting(x, y.key, q)
  BY <1>2, <1>3 DEF Alerting
<1>9. \A k : Telling(y, k) => Telling(x, k)
  BY <1>2, <1>4 DEF Telling
<1>. QED
  BY <1>2, <1>4, <1>5, <1>6, <1>7, <1>8, <1>9 DEF Sound, NoticeInv, Typed

LEMMA AuditDispatchStep ==
    ASSUME TellAssumption, NoticeInv, NEW c \in Runs, N!AuditDispatch(c) PROVE NoticeInv'
<1>. USE DEF N!AuditDispatch
<1>. DEFINE p == IF call[c].kind = "draft_stale" THEN "draft" ELSE "fanout"
<1>1. PICK x : TurnsTo(c, x) /\ x = [call[c] EXCEPT !.pc = p]
  <2>1. p \in Fan /\ N!Go(c, p)
    BY DEF Fan
  <2>. QED
    BY <2>1, GoMoves DEF NoticeInv
<1>2. Sound(c, x)
  BY <1>1, OnwardSound DEF NoticeInv, Typed
<1>. QED
  BY <1>1, <1>2, QuietMove DEF OfOthers, N!world

\* The unique index refuses the row.
LEMMA RefusedStep ==
    ASSUME TellAssumption, NoticeInv, NEW c \in Runs, call[c].pc = "store", RowFor(call[c], call[c].who) \in rows,
           N!Throw(c), UNCHANGED <<OfOthers, draft, failed, lost, dead>>
    PROVE  NoticeInv'
<1>1. CASE call[c].kind = "below_threshold"
  <2>1. PICK x : TurnsTo(c, x) /\ x = [call[c] EXCEPT !.pc = "fanout"]
    BY <1>1, GoMoves DEF NoticeInv, N!Throw, N!GoesOn, Fan
  <2>2. Sound(c, x)
    BY <2>1, OnwardSound DEF NoticeInv, Typed
  <2>. QED
    BY <2>1, <2>2, QuietMove
<1>2. CASE call[c].kind # "below_threshold"
  <2>1. N!Finish(c)
    BY <1>2 DEF N!Throw, N!GoesOn
  <2>2. ~ lockOn
    BY DEF NoticeInv, MailsHaveRows, Misses
  <2>3. Sound(c, N!Idle)
    BY <1>2, <2>2, IdleIs, KindsAre
       DEF NoticeInv, Typed, Sound, AtDraft, Misses, Reaching, Telling, Alerting, Fan, Nudges
  <2>. QED
    BY <2>1, <2>3, FinishMoves, QuietMove DEF NoticeInv
<1>. QED
  BY <1>1, <1>2

\* An append that fails pays for what its call leaves undone.
LEMMA AppendFailsStep ==
    ASSUME TellAssumption, NoticeInv, NEW c \in Runs, N!AppendFails(c) PROVE NoticeInv'
<1>. USE DEF N!AppendFails
<1>1. lost \in Nat /\ dead \in Nat /\ lost' \in Nat /\ dead' = dead /\ lost' >= lost /\ lost' + dead' > lost + dead
  BY DEF NoticeInv, Typed
<1>2. CASE call[c].pc = "audit" /\ call[c].kind = "below_threshold"
  <2>1. PICK x : TurnsTo(c, x) /\ x = [call[c] EXCEPT !.pc = "fanout"]
    BY <1>2, GoMoves DEF NoticeInv, N!Throw, N!GoesOn, Fan
  <2>2. Sound(c, x)
    BY <1>1, <1>2, <2>1, OnwardSound DEF NoticeInv, Typed
  <2>. QED
    BY <2>1, <2>2, QuietMove DEF OfOthers, N!world
<1>3. CASE ~ (call[c].pc = "audit" /\ call[c].kind = "below_threshold")
  <2>1. N!Finish(c)
    BY <1>3 DEF N!Throw, N!GoesOn
  <2>2. \A p : ~ Alerting(call[c], call[c].key, p)
    BY <1>3 DEF NoticeInv, Typed, Stands, WillTell, Fan, Alerting
  <2>3. Sound(c, N!Idle)
    BY <1>1, <2>2, IdleIs, KindsAre
       DEF NoticeInv, Typed, Sound, AtDraft, Misses, Reaching, Telling, Fan, Nudges
  <2>. QED
    BY <2>1, <2>3, FinishMoves, QuietMove DEF NoticeInv, OfOthers, N!world
<1>. QED
  BY <1>2, <1>3

\* A dispatch that fails without its row: a monitor goes on with the others, and remembers
\* nothing of it; elsewhere the failure pays for what the call leaves undone.
LEMMA DispatchFailsStep ==
    ASSUME TellAssumption, NoticeInv, NEW c \in Runs, N!DispatchFails(c) PROVE NoticeInv'
<1>. DEFINE y == call[c]
<1>1. /\ lost' \in Nat /\ dead' \in Nat /\ lost' >= lost /\ dead' >= dead /\ lost' + dead' > lost + dead
      /\ UNCHANGED <<OfOthers, draft>>
  BY DEF NoticeInv, Typed, N!DispatchFails, OfOthers, N!world
<1>2. y \in Calling /\ Stands(y)
  BY DEF NoticeInv, Typed
<1>3. PICK p \in N!People :
         /\ y.pc \in {"fanout", "store"} /\ failed' = failed \cup {RowFor(y, p)}
         /\ y.pc = "fanout" => /\ p \in y.queue
                              /\ IF y.kind = "below_threshold" THEN call' = [call EXCEPT ![c].queue = @ \ {p}]
                                                               ELSE N!Finish(c)
         /\ y.pc = "store" => /\ p = y.who
                             /\ IF y.kind = "below_threshold" THEN N!Go(c, "fanout") ELSE N!Finish(c)
  <2>1. CASE y.pc = "fanout"
    BY <1>2, <2>1 DEF N!DispatchFails, N!GoesOn, N!RowOf, RowFor, Calling
  <2>2. CASE y.pc = "store"
    BY <1>2, <2>2 DEF N!DispatchFails, N!Throw, N!GoesOn, N!RowOf, RowFor, Stands
  <2>. QED
    BY <2>1, <2>2 DEF N!DispatchFails
<1>4. y.kind \in N!Kinds /\ RowFor(y, p) \in Notice
  BY <1>2, <1>3, KindsAre DEF Stands, Calling, RowFor, Notice
<1>5. failed \subseteq failed' /\ failed' \subseteq Notice /\ RowFor(y, p) \in failed'
  BY <1>3, <1>4 DEF NoticeInv, Typed
<1>6. CASE y.kind # "below_threshold"
  <2>1. N!Finish(c)
    BY <1>3, <1>6
  <2>2. Sound(c, N!Idle)
    BY <1>1, <1>3, <1>5, <1>6, IdleIs, KindsAre
       DEF Sound, AtDraft, Misses, Reaching, Telling, Alerting, Fan, Nudges
  <2>. QED
    BY <1>1, <2>1, <2>2, FinishMoves, QuietMove DEF NoticeInv
<1>7. CASE y.kind = "below_threshold"
  <2>1. PICK x : /\ TurnsTo(c, x) /\ x.pc = "fanout" /\ x.kind = y.kind /\ x.key = y.key
                 /\ \A q \in y.queue \ {p} : q \in x.queue
    <3>1. CASE y.pc = "fanout"
      <4>. DEFINE x == [y EXCEPT !.queue = @ \ {p}]
      <4>1. x \in Calling /\ x.pc = "fanout" /\ x.kind = y.kind /\ x.key = y.key /\ x.queue = y.queue \ {p}
            /\ x.who = y.who
        BY <1>2, <3>1 DEF Calling
      <4>2. call' = [call EXCEPT ![c] = x]
        BY <1>3, <1>7, <3>1
      <4>. HIDE DEF x
      <4>3. Stands(x)
        BY <1>2, <1>7, <3>1, <4>1, KindsAre DEF Stands
      <4>. QED
        BY <4>1, <4>2, <4>3 DEF TurnsTo
    <3>2. CASE y.pc = "store"
      <4>1. PICK x : TurnsTo(c, x) /\ x = [y EXCEPT !.pc = "fanout"]
        BY <1>3, <1>7, <3>2, GoMoves DEF NoticeInv, Fan
      <4>. QED
        BY <1>2, <4>1 DEF Calling
    <3>. QED
      BY <1>3, <3>1, <3>2
  <2>2. Known(x.kind, x.key) /\ x.pc \in Fan
    BY <1>3, <2>1 DEF NoticeInv, ChainFirst, Fan
  <2>3. \A q : Alerting(y, y.key, q) => RowFor(y, q) \in failed' \/ Alerting(x, y.key, q)
    BY <1>3, <1>5, <2>1, <2>2 DEF Alerting, WillTell
  <2>4. Sound(c, x)
    BY <1>1, <1>3, <1>5, <1>7, <2>1, <2>2, <2>3 DEF Sound, AtDraft, Misses, Reaching, Telling, Nudges
  <2>. QED
    BY <1>1, <2>1, <2>4, QuietMove
<1>. QED
  BY <1>6, <1>7

LEMMA DiesStep ==
    ASSUME TellAssumption, NoticeInv, NEW c \in Runs, N!Dies(c) PROVE NoticeInv'
<1>. USE DEF N!Dies
<1>1. lost \in Nat /\ dead \in Nat /\ dead' \in Nat /\ lost' = lost /\ dead' >= dead /\ lost' + dead' > lost + dead /\ dead' > 0
  BY DEF NoticeInv, Typed
<1>2. Sound(c, N!Idle)
  BY <1>1, IdleIs, KindsAre
     DEF NoticeInv, Typed, Sound, AtDraft, Misses, Reaching, Telling, Fan, Nudges
<1>. QED
  BY <1>2, FinishMoves, QuietMove DEF NoticeInv, OfOthers, N!world

\* Where nobody moves and no row is lost, what a call still reaches stays in reach.
LEMMA ReachStays ==
    ASSUME Typed, Reaches, NEW c \in Runs, NEW x, TurnsTo(c, x), Reaching(x) \/ Reaching(x)', member' = member, rows \subseteq rows'
    PROVE  Reaches'
<1>1. call'[c] = x /\ \A d \in Runs \ {c} : call'[d] = call[d]
  BY MoveTyped
<1>2. N!Stayed(N!People)' = N!Stayed(N!People) /\ N!Stayed(Admins)' = N!Stayed(Admins)
  BY DEF N!Stayed, N!Active
<1>3. ASSUME NEW y, Reaching(y) PROVE Reaching(y)'
  BY <1>2, <1>3 DEF Reaching, RowFor, WillTell
<1>4. ASSUME NEW d \in Runs PROVE Reaching(call[d])'
  <2>1. PICK y : y = call'[d]
    OBVIOUS
  <2>2. Reaching(y)'
    BY <1>1, <1>3, <2>1 DEF Reaches
  <2>. QED
    BY <2>1, <2>2 DEF Reaching, RowFor, WillTell
<1>. QED
  BY <1>4 DEF Reaches

\* An escalation begins with its call: there is nothing it can owe yet.
LEMMA EscalateStep ==
    ASSUME TellAssumption, NoticeInv, NEW c \in Runs, N!Escalate(c) PROVE NoticeInv'
<1>. USE DEF N!Escalate, N!world
<1>1. PICK x : TurnsTo(c, x) /\ x.pc = "recorded" /\ x.kind = "escalation"
  BY StartMoves, KindsAre DEF NoticeInv
<1>2. /\ call' \in [Runs -> Calling] /\ \A d \in Runs : Stands(call'[d])
      /\ call'[c] = x /\ \A d \in Runs \ {c} : call'[d] = call[d]
  BY <1>1, MoveTyped DEF NoticeInv
<1>3. signal' \in Sign /\ signal'.escalated /\ signal'.warned = signal.warned /\ signal.warned = 0
  <2>1. signal \in Sign /\ ~ (signal.warned > 0)
    BY DEF NoticeInv, Typed, Escalated
  <2>2. signal.warned = 0
    BY <2>1 DEF Sign
  <2>. QED
    BY <2>1, <2>2 DEF Sign
<1>4. call[c].pc = "idle" /\ call[c].kind = N!None
  BY DEF NoticeInv, Typed, Stands, N!MayStart
<1>5. \A d \in Runs : call[d].kind \notin Nudges
  BY DEF NoticeInv, Escalated, Nudges
<1>6. Typed'
  BY <1>2, <1>3 DEF NoticeInv, Typed
<1>7. OneCall' /\ Escalated'
  BY <1>1, <1>2, <1>3, <1>5, KindsAre DEF NoticeInv, OneCall, Escalated, Nudges
<1>8. ChainFirst' /\ DraftOnce'
  BY <1>1, <1>2, <1>3 DEF NoticeInv, ChainFirst, Known, Fan, DraftOnce, AtDraft, OwnerTold, N!Told
<1>9. MailsHaveRows' /\ N!MailedOnce'
  BY <1>1, <1>2, <1>4 DEF NoticeInv, MailsHaveRows, Misses, RowFor, N!MailedOnce
<1>10. Reaches'
  <2>1. Reaching(x)
    BY <1>1 DEF Reaching, Fan
  <2>. QED
    BY <1>1, <2>1, ReachStays DEF NoticeInv
<1>11. Debts'
  <2>1. Telling(call'[c], "escalation")
    BY <1>1, <1>2 DEF Telling
  <2>2. ~ First' /\ ~ Second'
    BY <1>3, <2>1 DEF First, Second, Owing
  <2>. QED
    BY <2>2 DEF Debts
<1>12. Alerts'
  <2>1. ASSUME NEW w, NEW p, Hears(w, p) PROVE Hears(w, p)'
    BY <1>2, <1>4, <2>1, KindsAre DEF Hears, Missed, N!Told, Alerting, WillTell, Fan
  <2>2. N!Stayed(Admins)' = N!Stayed(Admins)
    BY DEF N!Stayed, N!Active
  <2>. QED
    BY <2>1, <2>2 DEF NoticeInv, Alerts
<1>. QED
  BY <1>6, <1>7, <1>8, <1>9, <1>10, <1>11, <1>12 DEF NoticeInv

\* The event first: from here the nudge owes itself to the audience.
LEMMA WarnStep ==
    ASSUME TellAssumption, NoticeInv, NEW c \in Runs, N!Warn(c) PROVE NoticeInv'
<1>. USE DEF N!Warn, N!world
<1>1. call[c].kind = "escalation_stale" /\ call[c].pc = "warn" /\ signal.escalated /\ (lockOn => signal.warned = 0)
  BY DEF NoticeInv, Typed, Stands, Escalated
<1>2. PICK x : /\ TurnsTo(c, x) /\ x.pc = "fanout" /\ x.queue = N!Audience
               /\ x.kind = call[c].kind /\ x.key = call[c].key
  BY <1>1, TellMoves DEF NoticeInv, Nudges
<1>3. /\ call' \in [Runs -> Calling] /\ \A d \in Runs : Stands(call'[d])
      /\ call'[c] = x /\ \A d \in Runs \ {c} : call'[d] = call[d]
  BY <1>2, MoveTyped DEF NoticeInv
<1>4. signal' \in Sign /\ signal'.escalated /\ signal'.warned = signal.warned + 1 /\ signal'.warned > 0
  BY <1>1 DEF NoticeInv, Typed, Sign
<1>5. Typed'
  BY <1>3, <1>4 DEF NoticeInv, Typed
<1>6. OneCall'
  BY <1>1, <1>2, <1>3, KindsAre DEF NoticeInv, OneCall
<1>7. Escalated'
  <2>1. ASSUME NEW d \in Runs, lockOn, call'[d].pc = "warn" PROVE FALSE
    <3>1. d # c /\ call[d].pc = "warn"
      BY <1>2, <1>3, <2>1
    <3>2. call[d].kind = "escalation_stale"
      BY <3>1 DEF NoticeInv, Typed, Stands
    <3>. QED
      BY <1>1, <2>1, <3>1, <3>2, KindsAre DEF NoticeInv, OneCall
  <2>. QED
    BY <1>4, <2>1 DEF Escalated
<1>8. ChainFirst' /\ DraftOnce'
  BY <1>1, <1>2, <1>3, <1>4 DEF NoticeInv, ChainFirst, Known, Fan, DraftOnce, AtDraft, OwnerTold, N!Told
<1>9. MailsHaveRows' /\ N!MailedOnce'
  BY <1>1, <1>2, <1>3 DEF NoticeInv, MailsHaveRows, Misses, RowFor, N!MailedOnce
<1>10. Reaches'
  <2>1. Reaching(x)
    BY <1>1, <1>2, Audiences DEF Reaching, Fan, WillTell
  <2>. QED
    BY <1>2, <2>1, ReachStays DEF NoticeInv
<1>11. Debts'
  <2>1. Telling(call'[c], "escalation_stale") /\ ~ Second'
    BY <1>1, <1>2, <1>3 DEF Telling, Fan, Second, Owing
  <2>2. First' => First
    BY <1>1, <1>3 DEF First, Owing, Telling, N!Told, N!Stayed, N!Active
  <2>. QED
    BY <2>1, <2>2 DEF NoticeInv, Debts
<1>12. Alerts'
  <2>1. ASSUME NEW w, NEW p, Hears(w, p) PROVE Hears(w, p)'
    BY <1>1, <1>3, <2>1 DEF Hears, Missed, N!Told, Alerting, WillTell, Fan
  <2>2. N!Stayed(Admins)' = N!Stayed(Admins)
    BY DEF N!Stayed, N!Active
  <2>. QED
    BY <2>1, <2>2 DEF NoticeInv, Alerts
<1>. QED
  BY <1>5, <1>6, <1>7, <1>8, <1>9, <1>10, <1>11, <1>12 DEF NoticeInv

\* The week's alert is on the chain when its fan-out begins.
LEMMA AlertStep ==
    ASSUME TellAssumption, NoticeInv, NEW c \in Runs, N!Alert(c) PROVE NoticeInv'
<1>. USE DEF N!Alert, N!world
<1>1. PICK x : TurnsTo(c, x) /\ x = [call[c] EXCEPT !.pc = "fanout"]
  BY GoMoves DEF NoticeInv, Fan
<1>2. /\ call' \in [Runs -> Calling] /\ \A d \in Runs : Stands(call'[d])
      /\ call'[c] = x /\ \A d \in Runs \ {c} : call'[d] = call[d]
  BY <1>1, MoveTyped DEF NoticeInv
<1>3. /\ call[c].kind = "below_threshold" /\ call[c].pc = "alert" /\ call[c].key \in 1..MaxWeek
      /\ x.pc = "fanout" /\ x.kind = call[c].kind /\ x.key = call[c].key /\ x.queue = call[c].queue
  BY <1>1 DEF NoticeInv, Typed, Stands, Calling
<1>4. Typed'
  BY <1>2, <1>3 DEF NoticeInv, Typed
<1>5. OneCall' /\ Escalated'
  BY <1>2, <1>3, KindsAre DEF NoticeInv, OneCall, Escalated
<1>6. ChainFirst' /\ DraftOnce'
  BY <1>2, <1>3 DEF NoticeInv, ChainFirst, Known, Fan, DraftOnce, AtDraft, OwnerTold, N!Told
<1>7. MailsHaveRows' /\ N!MailedOnce'
  BY <1>2, <1>3 DEF NoticeInv, MailsHaveRows, Misses, RowFor, N!MailedOnce
<1>8. Reaches'
  <2>1. Reaching(x)
    BY <1>3 DEF Reaching, Nudges
  <2>. QED
    BY <1>1, <2>1, ReachStays DEF NoticeInv
<1>9. Debts'
  <2>1. (First' => First) /\ (Second' => Second)
    BY <1>2, <1>3 DEF First, Second, Owing, Telling, N!Told, N!Stayed, N!Active
  <2>. QED
    BY <2>1 DEF NoticeInv, Debts
<1>10. Alerts'
  <2>1. ASSUME NEW w, NEW p, Hears(w, p) PROVE Hears(w, p)'
    BY <1>2, <1>3, <2>1 DEF Hears, Missed, N!Told, Alerting, WillTell, Fan
  <2>2. ASSUME NEW p \in N!Stayed(Admins), NEW w, w = call[c].key PROVE Hears(w, p)'
    <3>1. Alerting(x, w, p)
      BY <1>3, <2>2 DEF NoticeInv, Reaches, Reaching, Alerting, WillTell, Fan
    <3>. QED
      BY <1>2, <3>1 DEF Hears, Missed, Alerting, WillTell
  <2>3. N!Stayed(Admins)' = N!Stayed(Admins)
    BY DEF N!Stayed, N!Active
  <2>4. PICK w0 : w0 = call[c].key
    OBVIOUS
  <2>. QED
    BY <2>1, <2>2, <2>3, <2>4 DEF NoticeInv, Alerts
<1>. QED
  BY <1>4, <1>5, <1>6, <1>7, <1>8, <1>9, <1>10 DEF NoticeInv

\* What is mailed was not mailed before: its row was missing, and no other call is at it.
LEMMA SendStep ==
    ASSUME TellAssumption, NoticeInv, NEW c \in Runs, N!Send(c) PROVE NoticeInv'
<1>. USE DEF N!Send, N!world
<1>1. PICK x : TurnsTo(c, x) /\ x = [call[c] EXCEPT !.pc = "store"]
  BY GoMoves DEF NoticeInv, Fan
<1>2. /\ call' \in [Runs -> Calling] /\ \A d \in Runs : Stands(call'[d])
      /\ call'[c] = x /\ \A d \in Runs \ {c} : call'[d] = call[d]
  BY <1>1, MoveTyped DEF NoticeInv
<1>3. /\ call[c].pc = "send" /\ call[c].kind \in N!Kinds /\ call[c].who \in N!People /\ call[c].key \in 0..MaxWeek
      /\ x.pc = "store" /\ x.kind = call[c].kind /\ x.key = call[c].key /\ x.queue = call[c].queue
      /\ x.who = call[c].who
  BY <1>1, KindsAre DEF NoticeInv, Typed, Stands, Calling
<1>4. PICK r : r = RowFor(call[c], call[c].who) /\ r = RowFor(x, x.who) /\ r \in Notice
               /\ mailed' = mailed \cup {r} /\ again' = again \cup (mailed \cap {r})
  BY <1>3 DEF RowFor, N!RowOf, Notice
<1>5. Typed'
  BY <1>2, <1>4 DEF NoticeInv, Typed
<1>6. OneCall' /\ Escalated'
  BY <1>2, <1>3, KindsAre DEF NoticeInv, OneCall, Escalated
<1>7. ChainFirst' /\ DraftOnce'
  BY <1>2, <1>3 DEF NoticeInv, ChainFirst, Known, Fan, DraftOnce, AtDraft, OwnerTold, N!Told
<1>8. MailsHaveRows'
  <2>1. \A d \in Runs : (lockOn => Misses(call[d])) => (lockOn => Misses(call'[d]))
    BY <1>2, <1>3 DEF Misses, RowFor
  <2>. QED
    BY <1>2, <1>3, <1>4, <2>1 DEF NoticeInv, MailsHaveRows, Misses, RowFor
<1>9. N!MailedOnce'
  <2>1. ASSUME lockOn, dead = 0, r \in mailed, r \notin failed PROVE FALSE
    <3>1. r \notin rows
      BY <1>3, <1>4, <2>1 DEF NoticeInv, MailsHaveRows, Misses
    <3>2. PICK d \in Runs : call[d].pc = "store" /\ r = RowFor(call[d], call[d].who)
      BY <2>1, <3>1 DEF NoticeInv, MailsHaveRows
    <3>3. call[d].kind = call[c].kind /\ d # c /\ call[c].kind # N!None
      BY <1>3, <1>4, <3>2, KindsAre DEF RowFor
    <3>. QED
      BY <2>1, <3>3 DEF NoticeInv, OneCall
  <2>. QED
    BY <1>4, <2>1 DEF NoticeInv, N!MailedOnce
<1>10. Reaches'
  <2>1. Reaching(call[c])
    BY DEF NoticeInv, Reaches
  <2>2. Reaching(x)
    BY <1>3, <2>1 DEF Reaching, WillTell, RowFor, Fan
  <2>. QED
    BY <1>1, <2>2, ReachStays DEF NoticeInv
<1>11. Debts'
  <2>1. (First' => First) /\ (Second' => Second)
    BY <1>2, <1>3 DEF First, Second, Owing, Telling, N!Told, N!Stayed, N!Active, Fan
  <2>. QED
    BY <2>1 DEF NoticeInv, Debts
<1>12. Alerts'
  <2>1. ASSUME NEW w, NEW p, Hears(w, p) PROVE Hears(w, p)'
    BY <1>2, <1>3, <2>1 DEF Hears, Missed, N!Told, Alerting, WillTell, Fan
  <2>2. N!Stayed(Admins)' = N!Stayed(Admins)
    BY DEF N!Stayed, N!Active
  <2>. QED
    BY <2>1, <2>2 DEF NoticeInv, Alerts
<1>. QED
  BY <1>5, <1>6, <1>7, <1>8, <1>9, <1>10, <1>11, <1>12 DEF NoticeInv

\* The row is stored.
LEMMA StoredStep ==
    ASSUME TellAssumption, NoticeInv, NEW c \in Runs, call[c].pc = "store",
           NEW r, r = RowFor(call[c], call[c].who), r \notin rows, rows' = rows \cup {r}, N!Go(c, "audit"),
           UNCHANGED <<lockOn, week, member, signal, draft, alerted, mailed, again, failed, lost, dead>>
    PROVE  NoticeInv'
<1>1. PICK x : TurnsTo(c, x) /\ x = [call[c] EXCEPT !.pc = "audit"]
  BY GoMoves DEF NoticeInv, Fan
<1>2. /\ call' \in [Runs -> Calling] /\ \A d \in Runs : Stands(call'[d])
      /\ call'[c] = x /\ \A d \in Runs \ {c} : call'[d] = call[d]
  BY <1>1, MoveTyped DEF NoticeInv
<1>3. /\ call[c].kind \in N!Kinds /\ call[c].who \in N!People /\ call[c].key \in 0..MaxWeek
      /\ x.pc = "audit" /\ x.kind = call[c].kind /\ x.key = call[c].key /\ x.queue = call[c].queue
      /\ x.who = call[c].who
  BY <1>1, KindsAre DEF NoticeInv, Typed, Stands, Calling
<1>4. r \in Notice /\ r.kind = call[c].kind /\ r.key = call[c].key
  BY <1>3 DEF RowFor, Notice
<1>5. Typed'
  BY <1>2, <1>4 DEF NoticeInv, Typed
<1>6. OneCall' /\ Escalated'
  BY <1>2, <1>3, KindsAre DEF NoticeInv, OneCall, Escalated
<1>7. ChainFirst'
  <2>1. Known(call[c].kind, call[c].key)
    BY DEF NoticeInv, ChainFirst, Fan
  <2>. QED
    BY <1>2, <1>3, <1>4, <2>1 DEF NoticeInv, ChainFirst, Known, Fan
<1>8. DraftOnce'
  <2>1. CASE call[c].kind = "draft_stale"
    <3>1. r = [who |-> Assignee, kind |-> "draft_stale", key |-> 0]
      BY <2>1 DEF NoticeInv, Typed, Stands, RowFor
    <3>2. ~ OwnerTold /\ OwnerTold'
      BY <3>1 DEF OwnerTold, N!Told
    <3>3. draft.warned = 0 /\ \A d \in Runs : ~ AtDraft(call[d])
      <4>1. draft.warned \in Nat
        BY DEF NoticeInv, Typed, Owed
      <4>. QED
        BY <3>2, <4>1 DEF NoticeInv, DraftOnce
    <3>. QED
      BY <1>2, <3>2, <3>3 DEF DraftOnce, AtDraft
  <2>2. CASE call[c].kind # "draft_stale"
    <3>1. OwnerTold => OwnerTold'
      BY DEF OwnerTold, N!Told
    <3>. QED
      BY <1>2, <1>3, <2>2, <3>1 DEF NoticeInv, DraftOnce, AtDraft
  <2>. QED
    BY <2>1, <2>2
<1>9. MailsHaveRows' /\ N!MailedOnce'
  <2>1. ASSUME lockOn, NEW d \in Runs PROVE Misses(call[d])'
    <3>1. CASE d = c
      BY <1>2, <1>3, <3>1 DEF Misses
    <3>2. CASE d # c
      <4>1. call[d].kind # call[c].kind
        BY <1>3, <2>1, <3>2, KindsAre DEF NoticeInv, OneCall
      <4>2. RowFor(call[d], call[d].who) # r
        BY <1>4, <4>1 DEF RowFor
      <4>3. Misses(call[d])
        BY <2>1 DEF NoticeInv, MailsHaveRows
      <4>. QED
        BY <1>2, <3>2, <4>2, <4>3 DEF Misses, RowFor
    <3>. QED
      BY <3>1, <3>2
  <2>2. ASSUME dead = 0, NEW m \in mailed
        PROVE  \/ m \in rows' \cup failed
               \/ \E d \in Runs : call'[d].pc = "store" /\ m = RowFor(call'[d], call'[d].who)
    <3>1. CASE m \in rows \cup failed
      BY <3>1
    <3>2. CASE m \notin rows \cup failed
      <4>1. PICK d \in Runs : call[d].pc = "store" /\ m = RowFor(call[d], call[d].who)
        BY <2>2, <3>2 DEF NoticeInv, MailsHaveRows
      <4>. QED
        BY <1>2, <4>1
    <3>. QED
      BY <3>1, <3>2
  <2>3. MailsHaveRows'
    BY <2>1, <2>2 DEF MailsHaveRows, RowFor
  <2>. QED
    BY <2>3 DEF NoticeInv, N!MailedOnce
<1>10. \A p : WillTell(call[c], p) => RowFor(call[c], p) \in rows' \/ WillTell(x, p)
  BY <1>3 DEF WillTell, Fan
<1>11. Reaches'
  <2>1. Reaching(call[c])
    BY DEF NoticeInv, Reaches
  <2>2. N!Stayed(N!People)' = N!Stayed(N!People)
    BY DEF N!Stayed, N!Active
  <2>3. \A p : RowFor(x, p) = RowFor(call[c], p)
    BY <1>3 DEF RowFor
  <2>4. x.pc \in Fan /\ call[c].pc \in Fan /\ x.pc \notin {"probe", "alert"}
    BY <1>3 DEF Fan
  <2>5. x.kind \in Nudges => \A p \in N!Stayed(N!People) : RowFor(x, p) \in rows' \/ WillTell(x, p)
    BY <1>3, <1>10, <2>1, <2>3, <2>4 DEF Reaching
  <2>6. Reaching(x)'
    BY <2>2, <2>4, <2>5 DEF Reaching, RowFor, WillTell
  <2>. QED
    BY <1>1, <2>6, ReachStays DEF NoticeInv
<1>12. Debts'
  <2>1. \A d \in Runs, k \in Nudges : Telling(call[d], k) => Telling(call'[d], k)
    BY <1>2, <1>3 DEF Telling, Fan
  <2>2. N!Stayed(N!People)' = N!Stayed(N!People)
    BY DEF N!Stayed, N!Active
  <2>3. ASSUME NEW k \in Nudges, Owing(k)' PROVE Owing(k)
    BY <2>1, <2>2, <2>3 DEF Owing, N!Told, Telling
  <2>. QED
    BY <2>3 DEF NoticeInv, Debts, First, Second, Nudges
<1>13. Alerts'
  <2>1. ASSUME NEW w, NEW p, Hears(w, p) PROVE Hears(w, p)'
    <3>1. CASE N!Told(p, "below_threshold", w)
      BY <3>1 DEF Hears, Missed, N!Told
    <3>2. CASE \E d \in Runs \ {c} : Alerting(call[d], w, p)
      BY <1>2, <3>2 DEF Hears, Missed, Alerting, WillTell
    <3>3. CASE Alerting(call[c], w, p)
      <4>1. RowFor(call[c], p) = [who |-> p, kind |-> "below_threshold", key |-> w]
        BY <3>3 DEF Alerting, RowFor
      <4>2. N!Told(p, "below_threshold", w)' \/ Alerting(x, w, p)
        BY <1>3, <1>10, <3>3, <4>1 DEF Alerting, N!Told
      <4>. QED
        BY <1>2, <4>2 DEF Hears, Missed, Alerting, WillTell
    <3>. QED
      BY <2>1, <3>1, <3>2, <3>3 DEF Hears, Missed
  <2>2. N!Stayed(Admins)' = N!Stayed(Admins)
    BY DEF N!Stayed, N!Active
  <2>. QED
    BY <2>1, <2>2 DEF NoticeInv, Alerts
<1>. QED
  BY <1>5, <1>6, <1>7, <1>8, <1>9, <1>11, <1>12, <1>13 DEF NoticeInv

LEMMA StoreStep ==
    ASSUME TellAssumption, NoticeInv, NEW c \in Runs, N!Store(c) PROVE NoticeInv'
<1>. USE DEF N!Store
<1>1. N!RowOf(c, call[c].who) = RowFor(call[c], call[c].who)
  BY DEF N!RowOf, RowFor
<1>. QED
  BY <1>1, RefusedStep, StoredStep DEF OfOthers, N!world

LEMMA WarnDraftStep ==
    ASSUME TellAssumption, NoticeInv, NEW c \in Runs, N!WarnDraft(c) PROVE NoticeInv'
<1>. USE DEF N!WarnDraft
<1>1. PICK x : TurnsTo(c, x) /\ x = [call[c] EXCEPT !.pc = "fanout"]
  BY GoMoves DEF NoticeInv, Fan
<1>2. call'[c] = x /\ \A d \in Runs \ {c} : call'[d] = call[d]
  BY <1>1, MoveTyped DEF NoticeInv
<1>3. Sound(c, x)
  BY <1>1, OnwardSound DEF NoticeInv, Typed
<1>4. AtDraft(call[c]) /\ x.pc = "fanout"
  BY <1>1 DEF NoticeInv, Typed, Stands, AtDraft, Calling
<1>5. draft.warned = 0 /\ OwnerTold /\ \A d \in Runs \ {c} : ~ AtDraft(call[d])
  BY <1>4 DEF NoticeInv, DraftOnce
<1>6. draft' \in Owed /\ draft'.warned = 1
  BY <1>5 DEF NoticeInv, Typed, Owed
<1>7. \A d \in Runs : ~ AtDraft(call'[d])
  BY <1>2, <1>4, <1>5 DEF AtDraft
<1>8. DraftOnce'
  BY <1>5, <1>6, <1>7 DEF DraftOnce, OwnerTold, N!Told, AtDraft
<1>. QED
  BY <1>1, <1>3, <1>6, <1>8, QuietMove DEF OfOthers, N!world

\* The world around the calls.
LEMMA WorldTurns ==
    ASSUME NoticeInv, UNCHANGED <<lockOn, alerted, rows, mailed, again, call, failed, lost, dead>>,
           signal' \in Sign, signal'.escalated = signal.escalated, signal'.warned = signal.warned,
           draft' \in Owed, draft'.warned = draft.warned, week' \in 1..MaxWeek,
           member' \in [N!People -> {"absent", "ACTIVE", "left"}],
           \A p \in N!People \ Newcomers : member'[p] # "absent" /\ (member'[p] = "ACTIVE" => member[p] = "ACTIVE")
    PROVE  NoticeInv'
<1>1. Typed'
  BY DEF NoticeInv, Typed
<1>2. OneCall' /\ Escalated' /\ ChainFirst' /\ DraftOnce'
  BY DEF NoticeInv, OneCall, Escalated, ChainFirst, Known, DraftOnce, AtDraft, OwnerTold, N!Told
<1>3. MailsHaveRows' /\ N!MailedOnce'
  BY DEF NoticeInv, MailsHaveRows, Misses, RowFor, N!MailedOnce
<1>4. N!Stayed(N!People)' \subseteq N!Stayed(N!People) /\ N!Stayed(Admins)' \subseteq N!Stayed(Admins)
  BY DEF N!Stayed, N!Active, N!People
<1>5. Reaches'
  BY <1>4 DEF NoticeInv, Reaches, Reaching, RowFor, WillTell
<1>6. Debts'
  BY <1>4 DEF NoticeInv, Debts, First, Second, Owing, Telling, N!Told
<1>7. Alerts'
  <2>1. ASSUME NEW w, NEW p, Hears(w, p) PROVE Hears(w, p)'
    BY <2>1 DEF Hears, Missed, N!Told, Alerting, WillTell
  <2>. QED
    BY <1>4, <2>1 DEF NoticeInv, Alerts
<1>. QED
  BY <1>1, <1>2, <1>3, <1>5, <1>6, <1>7 DEF NoticeInv

LEMMA NoticeStep == ASSUME TellAssumption, NoticeInv, N!Next PROVE NoticeInv'
<1>. USE DEF N!world
<1>1. ASSUME NEW c \in Runs,
             \/ N!Escalate(c) \/ N!AuditEscalation(c) \/ N!StaleSweep(c) \/ N!Dedupe(c) \/ N!Warn(c)
             \/ N!DraftStaleSweep(c) \/ N!Monitor(c) \/ N!ProbeFirst(c)
             \/ N!Alert(c) \/ N!runWeeklyDigest(c)
             \/ N!NextRecipient(c) \/ N!EndFanout(c) \/ N!Send(c) \/ N!Store(c) \/ N!AuditDispatch(c)
             \/ N!WarnDraft(c) \/ N!DispatchFails(c) \/ N!AppendFails(c) \/ N!Dies(c)
      PROVE  NoticeInv'
  BY <1>1, EscalateStep, AuditEscalationStep, StaleSweepStep, DedupeStep, WarnStep, DraftStaleSweepStep,
     MonitorStep, ProbeFirstStep, AlertStep, DigestStep, NextRecipientStep, EndFanoutStep, SendStep, StoreStep,
     AuditDispatchStep, WarnDraftStep, DispatchFailsStep, AppendFailsStep, DiesStep
<1>2. signal \in Sign /\ draft \in Owed /\ week \in 1..MaxWeek /\ member \in [N!People -> {"absent", "ACTIVE", "left"}]
      /\ \A p \in N!People \ Newcomers : member[p] # "absent"
  BY DEF NoticeInv, Typed
<1>3. CASE N!Acknowledge
  BY <1>2, <1>3, WorldTurns DEF N!Acknowledge, Sign
<1>4. CASE N!HoursPass
  BY <1>2, <1>4, WorldTurns DEF N!HoursPass, Sign, Owed
<1>5. CASE N!WeekEnds
  <2>1. week' \in 1..MaxWeek
    BY <1>2, <1>5 DEF N!WeekEnds, TellAssumption
  <2>. QED
    BY <1>2, <1>5, <2>1, WorldTurns DEF N!WeekEnds
<1>6. ASSUME NEW p \in N!People, N!StaffMoves(p) PROVE NoticeInv'
  <2>1. /\ member' \in [N!People -> {"absent", "ACTIVE", "left"}]
        /\ \A q \in N!People \ Newcomers : member'[q] # "absent" /\ (member'[q] = "ACTIVE" => member[q] = "ACTIVE")
    BY <1>2, <1>6 DEF N!StaffMoves
  <2>. QED
    BY <1>2, <1>6, <2>1, WorldTurns DEF N!StaffMoves
<1>. QED
  BY <1>1, <1>3, <1>4, <1>5, <1>6 DEF N!Next

LEMMA NoticeInit == ASSUME TellAssumption, N!Init PROVE NoticeInv
<1>. USE DEF N!Init
<1>1. call = [c \in Runs |-> N!Idle] /\ N!Idle \in Calling /\ Stands(N!Idle)
  BY KindsAre DEF N!Idle, Calling, Stands, Fan, TellAssumption
<1>2. \A c \in Runs : call[c].pc = "idle" /\ call[c].kind = N!None
  BY IdleIs
<1>3. Typed
  <2>1. signal \in Sign /\ draft \in Owed
    BY DEF Sign, Owed
  <2>2. member \in [N!People -> {"absent", "ACTIVE", "left"}] /\ \A p \in N!People \ Newcomers : member[p] # "absent"
    OBVIOUS
  <2>3. call \in [Runs -> Calling] /\ \A c \in Runs : Stands(call[c])
    BY <1>1
  <2>4. week \in 1..MaxWeek /\ alerted \subseteq 1..MaxWeek
    BY DEF TellAssumption
  <2>. QED
    BY <2>1, <2>2, <2>3, <2>4 DEF Typed
<1>4. OneCall /\ Escalated /\ ChainFirst
  BY <1>2, KindsAre DEF OneCall, Escalated, ChainFirst, Fan
<1>5. DraftOnce /\ MailsHaveRows /\ N!MailedOnce
  BY <1>2 DEF DraftOnce, AtDraft, MailsHaveRows, Misses, N!MailedOnce
<1>6. Reaches /\ Debts /\ Alerts
  BY <1>2 DEF Reaches, Reaching, Fan, Debts, First, Second, Alerts
<1>. QED
  BY <1>3, <1>4, <1>5, <1>6 DEF NoticeInv

LEMMA NoticeInductive == ASSUME TellAssumption PROVE RepeatsSpec => [](scene = "notices" => NoticeInv)
<1>1. RepeatsInit => (scene = "notices" => NoticeInv)
  BY NoticeInit DEF RepeatsInit
<1>2. ASSUME scene = "notices" => NoticeInv, [RepeatsNext]_<<scene, vars, OfC, OfN>>
      PROVE  (scene = "notices" => NoticeInv)'
  <2>1. ASSUME UNCHANGED <<scene, OfN>> PROVE (scene = "notices" => NoticeInv)'
    <3>1. ASSUME NoticeInv PROVE NoticeInv'
      BY <2>1, <3>1, WorldTurns DEF OfN, NoticeInv, Typed
    <3>. QED
      BY <1>2, <2>1, <3>1
  <2>2. CASE RepeatsNext
    <3>1. CASE scene = "notices" /\ N!Next
      BY <1>2, <3>1, NoticeStep
    <3>2. CASE UNCHANGED <<scene, OfN>>
      BY <2>1, <3>2
    <3>. QED
      BY <2>2, <3>1, <3>2 DEF RepeatsNext
  <2>. QED
    BY <1>2, <2>1, <2>2
<1>. QED
  BY <1>1, <1>2, PTL DEF RepeatsSpec

\* Nobody is mailed the same thing twice, unless runs of one cron overlap, a call dies between
\* the mail and its row, or the storing of that row failed (dispatchNotification); nobody is told of what the chain does not show,
\* and the chain shows a warning of the draft only when its owner was told (the sweeps).
THEOREM NothingIsToldTwice == ASSUME TellAssumption PROVE RepeatsSpec => []TellInv
<1>1. (scene = "notices" => NoticeInv) => TellInv
  <2>. SUFFICES ASSUME NoticeInv PROVE N!TypeOK /\ N!MailedOnce /\ N!ChainKnows
    BY DEF TellInv, N!TellInv
  <2>1. N!TypeOK
    BY DEF NoticeInv, Typed, N!TypeOK, N!Weeks, Notice, Calling
  <2>2. N!ChainKnows
    BY DEF NoticeInv, ChainFirst, Known, DraftOnce, OwnerTold, N!ChainKnows
  <2>. QED
    BY <2>1, <2>2 DEF NoticeInv
<1>. QED
  BY <1>1, NoticeInductive, PTL

\* One failure never keeps both the escalation and its nudge from one of the audience; a week
\* whose alert is on the chain has told every administrator but those whose own dispatch threw,
\* unless a run died (the fan-outs of dispatchAdherenceEscalation, of runSentimentStaleSweep
\* and of the monitors).
THEOREM NobodyIsLeftOut == ASSUME TellAssumption PROVE RepeatsSpec => []BadNewsArrives
<1>1. (scene = "notices" => NoticeInv) => BadNewsArrives
  <2>. SUFFICES ASSUME NoticeInv PROVE N!SecondChance /\ N!AlertReachesAdmins
    BY DEF BadNewsArrives, N!BadNewsArrives
  <2>1. N!SecondChance
    <3>1. ASSUME lockOn, signal.warned > 0, ~ N!Busy("escalation"), ~ N!Busy("escalation_stale"),
                 NEW p \in N!Stayed(N!People),
                 ~ N!Told(p, "escalation", 0), ~ N!Told(p, "escalation_stale", 0)
          PROVE  ~ (lost + dead <= 1)
      <4>1. Owing("escalation") /\ Owing("escalation_stale")
        BY <3>1 DEF Owing, Telling, N!Busy
      <4>2. First /\ Second
        BY <3>1, <4>1 DEF NoticeInv, Escalated, First, Second
      <4>3. lost + dead >= 2 /\ lost + dead \in Nat
        BY <3>1, <4>2 DEF NoticeInv, Debts, Typed
      <4>. QED
        BY <4>3
    <3>2. {Assignee} \cup Admins = N!People
      BY DEF N!People
    <3>. QED
      BY <3>1, <3>2 DEF N!SecondChance
  <2>2. N!AlertReachesAdmins
    BY DEF NoticeInv, Alerts, Hears, Missed, Alerting, N!AlertReachesAdmins, N!Busy
  <2>. QED
    BY <2>1, <2>2
<1>. QED
  BY <1>1, NoticeInductive, PTL
=====================================================================================
