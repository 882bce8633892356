---------------------------- MODULE AutoDraftProofs ----------------------------
(***************************************************************************)
(* Proofs about AutoDraft, for every set of messages and of administrators,*)
(* any finite number of backfills at once, every threshold and any number  *)
(* of outages, throws and deaths.                                          *)
(***************************************************************************)
EXTENDS AutoDraft, FiniteSetTheorems, WellFoundedInduction, TLAPS

\* Messages are numbered by age, no administrator has the breaker's name and no backfill is
\* the cron's.
DraftingAssumption ==
    /\ Inbound \subseteq Nat
    /\ IsFiniteSet(Backfills) /\ "CRON" \notin Backfills
    /\ Admins \cap {None, SENTINEL_ACTOR, LOCKED_SENTINEL_ACTOR} = {}
    /\ FAILURE_THRESHOLD \in Nat /\ QUARANTINE_THRESHOLD \in Nat
    /\ WINDOW \in Nat /\ MIN_PAUSE \in Nat /\ THRASH_WINDOW \in Nat

Pcs == {"idle", "resume", "lift", "breaker", "trip", "list", "next", "call", "record"}
Sweeps == [pc : Pcs, locks : BOOLEAN, todo : SUBSET Inbound, made : Nat,
           attempts : 0 .. QUARANTINE_THRESHOLD + 1]

\* A sweep that is about a message has it in hand.
SweepOK == /\ sweep \in [Sources -> Sweeps]
           /\ \A s \in Sources : sweep[s].pc \in {"next", "call", "record"} => sweep[s].todo # {}

\* Whoever is about to draft found no draft: once a message has one, the sweeps that still have
\* it in hand are all that can draft it again.
Drafts(s, m) == sweep[s].pc = "call" /\ InHand(s) = m
Drafters(m) == {s \in Sources : Drafts(s, m)}
HandsInv == \A m \in Inbound :
               inbound[m].drafts > 0 => inbound[m].drafts + Cardinality(Drafters(m)) <= Cardinality(Sources)

\* A backfill does not consult the breaker, and the cron is about to lift or to set a pause
\* only while the breaker has not locked one.
BreakerInv == /\ \A b \in Backfills : sweep[b].pc \notin {"resume", "lift", "breaker", "trip"}
              /\ sweep["CRON"].pc \in {"lift", "trip"} => pause.by # LOCKED_SENTINEL_ACTOR

IInv == TypeOK /\ SweepOK /\ HandsInv /\ BreakerInv

Pauses == [by : {None, SENTINEL_ACTOR, LOCKED_SENTINEL_ACTOR} \cup Admins,
           age : 0 .. MIN_PAUSE, resumed : 0 .. THRASH_WINDOW]
Messages == [kind : Kinds, attempts : 0 .. QUARANTINE_THRESHOLD + 1,
             quarantined : BOOLEAN, drafts : Nat]
Failures == [Ages -> 0 .. FAILURE_THRESHOLD]
-----------------------------------------------------------------------------
\* A set of messages has an oldest one.
LEMMA Oldest == ASSUME NEW S \in SUBSET Nat, S # {} PROVE Min(S) \in S
<1>. DEFINE R == OpToRel(<, Nat)
<1>1. IsWellFoundedOn(R, Nat)
  BY NatLessThanWellFounded
<1>2. \A x, y \in Nat : y < x => <<y, x>> \in R
  BY DEF OpToRel
<1>. HIDE DEF R
<1>3. PICK x \in S : \A y \in S : ~ (<<y, x>> \in R)
  BY <1>1, WFMin
<1>4. \A y \in S : x =< y
  <2>. SUFFICES ASSUME NEW y \in S PROVE x =< y
    OBVIOUS
  <2>1. x \in Nat /\ y \in Nat
    OBVIOUS
  <2>2. ~ (y < x)
    BY <1>2, <1>3, <2>1, Zenon
  <2>. QED
    BY <2>1, <2>2
<1>. QED
  BY <1>3, <1>4 DEF Min

\* The message in hand is one, and the rest are fewer.
LEMMA HandIsMessage ==
    ASSUME DraftingAssumption, SweepOK, NEW s \in Sources, sweep[s].todo # {}
    PROVE  InHand(s) \in Inbound /\ Rest(s) \in SUBSET Inbound
<1>1. sweep[s].todo \subseteq Inbound /\ sweep[s].todo \in SUBSET Nat
  BY DEF SweepOK, Sweeps, DraftingAssumption
<1>2. Min(sweep[s].todo) \in sweep[s].todo
  BY <1>1, Oldest
<1>. QED
  BY <1>1, <1>2 DEF InHand, Rest

\* The row of a sweep is replaced.
LEMMA Updates ==
    ASSUME SweepOK, DraftingAssumption, NEW s \in Sources
    PROVE  /\ sweep[s] \in Sweeps /\ NotRun \in Sweeps /\ NotRun.pc = "idle"
           /\ \A x \in Sweeps : sweep' = [sweep EXCEPT ![s] = x] =>
                 /\ sweep' \in [Sources -> Sweeps] /\ sweep'[s] = x
                 /\ \A t \in Sources \ {s} : sweep'[t] = sweep[t]
<1>1. sweep \in [Sources -> Sweeps]
  BY DEF SweepOK
<1>2. NotRun \in Sweeps /\ NotRun.pc = "idle"
  BY DEF NotRun, Sweeps, Pcs, DraftingAssumption
<1>. QED
  BY <1>1, <1>2

LEMMA Steps ==
    ASSUME SweepOK, DraftingAssumption, NEW s \in Sources, NEW pc \in Pcs
    PROVE  /\ [sweep[s] EXCEPT !.pc = pc] \in Sweeps
           /\ Goto(s, pc) => sweep' = [sweep EXCEPT ![s] = [sweep[s] EXCEPT !.pc = pc]]
           /\ Ends(s) => sweep' = [sweep EXCEPT ![s] = NotRun]
<1>1. sweep[s] \in Sweeps
  BY DEF SweepOK
<1>. QED
  BY <1>1 DEF Goto, Ends, Sweeps

\* A sweep that goes on is done or has a message in hand, of those that were left.
LEMMA GoesOn ==
    ASSUME DraftingAssumption, NEW s \in Sources, NEW left \in SUBSET Inbound, NEW made \in Nat,
           GoOn(s, left, made)
    PROVE  \E x \in Sweeps : /\ sweep' = [sweep EXCEPT ![s] = x] /\ x.todo \subseteq left
                             /\ x.pc = "idle" \/ (x.pc = "next" /\ x.todo # {})
<1>. DEFINE y == [NotRun EXCEPT !.pc = "next", !.todo = left, !.made = made]
<1>1. NotRun \in Sweeps /\ NotRun.pc = "idle" /\ NotRun.todo = {}
  BY DEF NotRun, Sweeps, Pcs, DraftingAssumption
<1>2. y \in Sweeps /\ y.pc = "next" /\ y.todo = left
  BY <1>1 DEF Sweeps, Pcs
<1>3. CASE left = {} \/ made >= MaxPerPass
  BY <1>1, <1>3 DEF GoOn
<1>4. CASE ~ (left = {} \/ made >= MaxPerPass)
  <2>1. sweep' = [sweep EXCEPT ![s] = y]
    BY <1>4 DEF GoOn
  <2>. HIDE DEF y
  <2>. QED
    BY <1>2, <1>4, <2>1
<1>. QED
  BY <1>3, <1>4

\* Sets of sweeps are counted: there are finitely many.
LEMMA Hands ==
    ASSUME DraftingAssumption, NEW A \in SUBSET Sources, NEW B \in SUBSET A
    PROVE  /\ Cardinality(Sources) \in Nat /\ Cardinality(A) \in Nat /\ Cardinality(B) \in Nat
           /\ Cardinality(B) <= Cardinality(A) /\ Cardinality(A) <= Cardinality(Sources)
           /\ \A s \in A \ B : Cardinality(B) + 1 <= Cardinality(A)
<1>1. IsFiniteSet(Sources)
  <2>1. IsFiniteSet({"CRON"})
    BY FS_Singleton
  <2>. QED
    BY <2>1, FS_Union DEF Sources, DraftingAssumption
<1>2. IsFiniteSet(A) /\ Cardinality(A) <= Cardinality(Sources)
  BY <1>1, FS_Subset
<1>3. IsFiniteSet(B) /\ Cardinality(B) <= Cardinality(A)
  BY <1>2, FS_Subset
<1>4. ASSUME NEW s \in A \ B PROVE Cardinality(B) + 1 <= Cardinality(A)
  <2>1. Cardinality(B \cup {s}) = Cardinality(B) + 1
    BY <1>3, FS_AddElement
  <2>2. Cardinality(B \cup {s}) <= Cardinality(A)
    BY <1>2, FS_Subset
  <2>. QED
    BY <2>1, <2>2
<1>. QED
  BY <1>1, <1>2, <1>3, <1>4, FS_CardinalityType

\* The sweep s moves to x.  If it does not begin a call and no draft is made, what is in
\* hand only becomes less.
LEMMA SweepMoves ==
    ASSUME IInv, DraftingAssumption, NEW s \in Sources, NEW x \in Sweeps,
           sweep' = [sweep EXCEPT ![s] = x],
           x.pc \in {"next", "call", "record"} => x.todo # {},
           s # "CRON" => x.pc \notin {"resume", "lift", "breaker", "trip"},
           s = "CRON" /\ x.pc \in {"lift", "trip"} => pause'.by # LOCKED_SENTINEL_ACTOR,
           s = "CRON" \/ pause' = pause,
           pause' \in Pauses, failed' \in Failures, inbound' \in [Inbound -> Messages],
           HandsInv' \/ (x.pc # "call" /\ \A m \in Inbound : inbound'[m].drafts = inbound[m].drafts)
    PROVE  IInv'
<1>1. /\ sweep' \in [Sources -> Sweeps] /\ sweep'[s] = x
      /\ \A t \in Sources \ {s} : sweep'[t] = sweep[t]
  <2>1. SweepOK
    BY DEF IInv
  <2>. QED
    BY <2>1, Updates
<1>2. SweepOK'
  BY <1>1 DEF IInv, SweepOK
<1>3. TypeOK'
  BY DEF TypeOK, Pauses, Failures, Messages
<1>4. BreakerInv'
  BY <1>1 DEF IInv, BreakerInv, Sources, DraftingAssumption
<1>5. HandsInv'
  <2>. SUFFICES ASSUME x.pc # "call", \A m \in Inbound : inbound'[m].drafts = inbound[m].drafts
                PROVE  HandsInv'
    OBVIOUS
  <2>1. \A t \in Sources, m \in Inbound : Drafts(t, m)' => Drafts(t, m)
    BY <1>1 DEF Drafts, InHand
  <2>. SUFFICES ASSUME NEW m \in Inbound, inbound'[m].drafts > 0
                PROVE  inbound'[m].drafts + Cardinality(Drafters(m)') <= Cardinality(Sources)
    BY DEF HandsInv
  <2>2. Drafters(m)' \in SUBSET Drafters(m) /\ Drafters(m) \in SUBSET Sources
    BY <2>1 DEF Drafters
  <2>3. /\ Cardinality(Drafters(m)') <= Cardinality(Drafters(m)) /\ Cardinality(Sources) \in Nat
        /\ Cardinality(Drafters(m)') \in Nat /\ Cardinality(Drafters(m)) \in Nat
    BY <2>2, Hands
  <2>4. inbound'[m].drafts \in Nat /\ inbound'[m].drafts = inbound[m].drafts
    BY DEF Messages
  <2>5. inbound[m].drafts + Cardinality(Drafters(m)) <= Cardinality(Sources)
    BY <2>4 DEF IInv, HandsInv
  <2>. QED
    BY <2>3, <2>4, <2>5
<1>. QED
  BY <1>2, <1>3, <1>4, <1>5 DEF IInv

\* No sweep moves, no draft is made and the pause is not locked.
LEMMA OthersMove ==
    ASSUME IInv, UNCHANGED sweep,
           pause'.by = pause.by \/ pause'.by # LOCKED_SENTINEL_ACTOR,
           pause' \in Pauses, failed' \in Failures, inbound' \in [Inbound -> Messages],
           \A m \in Inbound : inbound'[m].drafts = inbound[m].drafts
    PROVE  IInv'
<1>1. TypeOK'
  BY DEF TypeOK, Pauses, Failures, Messages
<1>2. SweepOK' /\ BreakerInv'
  BY DEF IInv, SweepOK, BreakerInv
<1>3. \A t \in Sources, m \in Inbound : Drafts(t, m)' <=> Drafts(t, m)
  BY DEF Drafts, InHand
<1>4. \A m \in Inbound : Drafters(m)' = Drafters(m)
  BY <1>3 DEF Drafters
<1>5. HandsInv'
  BY <1>4 DEF IInv, HandsInv
<1>. QED
  BY <1>1, <1>2, <1>5 DEF IInv
-----------------------------------------------------------------------------
\* The part of the invariant that every step begins from.
LEMMA Begin ==
    ASSUME IInv, DraftingAssumption, NEW s \in Sources
    PROVE  /\ SweepOK /\ pause \in Pauses /\ failed \in Failures
           /\ inbound \in [Inbound -> Messages] /\ sweep[s] \in Sweeps
           /\ s = "CRON" \/ sweep[s].pc \notin {"resume", "lift", "breaker", "trip"}
           /\ s = "CRON" /\ sweep[s].pc \in {"lift", "trip"} => pause.by # LOCKED_SENTINEL_ACTOR
           /\ sweep[s].pc \in {"next", "call", "record"} => sweep[s].todo # {}
  BY DEF IInv, TypeOK, SweepOK, BreakerInv, Pauses, Failures, Messages, Sources

\* What the breaker's steps do to the pause.
LEMMA BreakerStep ==
    ASSUME IInv, DraftingAssumption, NEW s \in Sources,
           evaluateAutoResume(s) \/ LiftPause(s) \/ evaluateAutoPauseCircuitBreaker(s) \/ Trip(s)
              \/ runAutoDraftSweep(s) \/ EvaluationThrows(s)
    PROVE  IInv'
<1>0. /\ SweepOK /\ pause \in Pauses /\ failed \in Failures
      /\ inbound \in [Inbound -> Messages] /\ sweep[s] \in Sweeps
      /\ s = "CRON" \/ sweep[s].pc \notin {"resume", "lift", "breaker", "trip"}
      /\ s = "CRON" /\ sweep[s].pc \in {"lift", "trip"} => pause.by # LOCKED_SENTINEL_ACTOR
  BY Begin
<1>1. UNCHANGED <<failed, inbound>>
  BY DEF evaluateAutoResume, LiftPause, evaluateAutoPauseCircuitBreaker, Trip, runAutoDraftSweep,
         EvaluationThrows
<1>2. ASSUME NEW x \in Sweeps, sweep' = [sweep EXCEPT ![s] = x], x.pc \notin {"next", "call", "record"},
             s # "CRON" => x.pc \notin {"resume", "lift", "breaker", "trip"},
             s = "CRON" /\ x.pc \in {"lift", "trip"} => pause'.by # LOCKED_SENTINEL_ACTOR,
             s = "CRON" \/ pause' = pause, pause' \in Pauses
      PROVE  IInv'
  BY <1>0, <1>1, <1>2, SweepMoves
<1>3. ASSUME NEW pc \in Pcs \ {"next", "call", "record"}, Goto(s, pc),
             s # "CRON" => pc \notin {"resume", "lift", "breaker", "trip"},
             s = "CRON" /\ pc \in {"lift", "trip"} => pause'.by # LOCKED_SENTINEL_ACTOR,
             s = "CRON" \/ pause' = pause, pause' \in Pauses
      PROVE  IInv'
  <2>. DEFINE x == [sweep[s] EXCEPT !.pc = pc]
  <2>1. x \in Sweeps /\ sweep' = [sweep EXCEPT ![s] = x]
    BY <1>0, <1>3, Steps
  <2>2. x.pc = pc
    BY <1>0 DEF Sweeps
  <2>. HIDE DEF x
  <2>. QED
    BY <1>2, <1>3, <2>1, <2>2
<1>4. CASE evaluateAutoResume(s)
  <2>1. /\ UNCHANGED pause /\ s = "CRON"
        /\ \/ Goto(s, "lift") /\ pause.by # LOCKED_SENTINEL_ACTOR
           \/ Goto(s, "breaker")
    BY <1>0, <1>4 DEF evaluateAutoResume, MayResume, SENTINEL_ACTOR, LOCKED_SENTINEL_ACTOR
  <2>. QED
    BY <1>0, <1>3, <2>1 DEF Pcs
<1>5. CASE LiftPause(s)
  <2>1. s = "CRON" /\ Goto(s, "breaker")
    BY <1>0, <1>5 DEF LiftPause
  <2>2. pause' \in Pauses
    BY <1>0, <1>5 DEF LiftPause, Pauses, DraftingAssumption
  <2>. QED
    BY <1>3, <2>1, <2>2 DEF Pcs
<1>6. CASE evaluateAutoPauseCircuitBreaker(s)
  <2>1. s = "CRON" /\ UNCHANGED pause
    BY <1>0, <1>6 DEF evaluateAutoPauseCircuitBreaker
  <2>2. CASE Ends(s)
    BY <1>0, <1>2, <2>1, <2>2, Updates, Steps DEF Pcs
  <2>3. CASE ~ Paused /\ sweep' = [sweep EXCEPT ![s].pc = "trip", ![s].locks = Thrashes]
    <3>. DEFINE x == [sweep[s] EXCEPT !.pc = "trip", !.locks = Thrashes]
    <3>1. x \in Sweeps /\ x.pc = "trip"
      <4>1. \A b \in BOOLEAN : LET y == [sweep[s] EXCEPT !.pc = "trip", !.locks = b]
                               IN y \in Sweeps /\ y.pc = "trip"
        BY <1>0 DEF Sweeps, Pcs
      <4>2. Thrashes \in BOOLEAN
        BY DEF Thrashes
      <4>. QED
        BY <4>1, <4>2, Zenon
    <3>2. sweep' = [sweep EXCEPT ![s] = x]
      BY <2>3
    <3>3. pause'.by # LOCKED_SENTINEL_ACTOR
      BY <2>1, <2>3 DEF Paused, None, LOCKED_SENTINEL_ACTOR
    <3>. HIDE DEF x
    <3>. QED
      BY <1>0, <1>2, <2>1, <3>1, <3>2, <3>3
  <2>. QED
    BY <1>6, <2>2, <2>3 DEF evaluateAutoPauseCircuitBreaker
<1>7. CASE Trip(s)
  <2>1. s = "CRON"
    BY <1>0, <1>7 DEF Trip
  <2>2. CASE Goto(s, "list") /\ UNCHANGED pause
    BY <1>0, <1>3, <2>1, <2>2 DEF Pcs
  <2>3. CASE Ends(s) /\ pause' = [pause EXCEPT !.age = 0, !.by = IF sweep[s].locks
                                         THEN LOCKED_SENTINEL_ACTOR ELSE SENTINEL_ACTOR]
    <3>1. pause' \in Pauses
      <4>1. 0 \in 0 .. MIN_PAUSE
        BY DEF DraftingAssumption
      <4>2. CASE sweep[s].locks
        BY <1>0, <2>3, <4>1, <4>2 DEF Pauses
      <4>3. CASE ~ sweep[s].locks
        BY <1>0, <2>3, <4>1, <4>3 DEF Pauses
      <4>. QED
        BY <4>2, <4>3
    <3>2. NotRun \in Sweeps /\ NotRun.pc = "idle" /\ sweep' = [sweep EXCEPT ![s] = NotRun]
      BY <1>0, <2>3, Updates DEF Ends
    <3>. QED
      BY <1>2, <2>1, <3>1, <3>2
  <2>. QED
    BY <1>7, <2>2, <2>3 DEF Trip
<1>8. CASE runAutoDraftSweep(s)
  <2>1. UNCHANGED pause /\ Goto(s, IF s = "CRON" THEN "resume" ELSE "list")
    BY <1>8 DEF runAutoDraftSweep
  <2>. QED
    BY <1>0, <1>3, <2>1 DEF Pcs
<1>9. CASE EvaluationThrows(s)
  <2>1. UNCHANGED pause /\ s = "CRON" /\ (Goto(s, "breaker") \/ Goto(s, "list"))
    BY <1>0, <1>9 DEF EvaluationThrows, Evaluating
  <2>. QED
    BY <1>0, <1>3, <2>1 DEF Pcs
<1>. QED
  BY <1>4, <1>5, <1>6, <1>7, <1>8, <1>9
-----------------------------------------------------------------------------
\* A message that has no draft may be drafted by a sweep more.
LEMMA CallBegins ==
    ASSUME IInv, DraftingAssumption, NEW s \in Sources, produceDraftFromInbound(s)
    PROVE  IInv'
<1>0. /\ SweepOK /\ pause \in Pauses /\ failed \in Failures
      /\ inbound \in [Inbound -> Messages] /\ sweep[s] \in Sweeps
      /\ sweep[s].pc = "next" /\ sweep[s].todo # {}
      /\ UNCHANGED <<pause, failed, inbound>>
  BY Begin DEF produceDraftFromInbound
<1>. DEFINE m == InHand(s)
<1>1. m \in Inbound /\ Rest(s) \in SUBSET Inbound
  BY <1>0, HandIsMessage
<1>2. CASE Drafting(m)
  <2>. DEFINE x == [sweep[s] EXCEPT !.pc = "call", !.attempts = inbound[m].attempts]
  <2>1. x \in Sweeps /\ x.pc = "call" /\ x.todo = sweep[s].todo
    <3>1. \A n \in 0 .. QUARANTINE_THRESHOLD + 1 :
             LET y == [sweep[s] EXCEPT !.pc = "call", !.attempts = n]
             IN  y \in Sweeps /\ y.pc = "call" /\ y.todo = sweep[s].todo
      BY <1>0 DEF Sweeps, Pcs
    <3>2. inbound[m].attempts \in 0 .. QUARANTINE_THRESHOLD + 1
      BY <1>0, <1>1 DEF Messages
    <3>. QED
      BY <3>1, <3>2, Zenon
  <2>2. sweep' = [sweep EXCEPT ![s] = x]
    BY <1>0, <1>2 DEF produceDraftFromInbound, SweepOK
  <2>3. inbound[m].drafts = 0
    BY <1>2 DEF Drafting, Undrafted
  <2>. HIDE DEF x
  <2>4. /\ sweep'[s] = x
        /\ \A t \in Sources \ {s} : sweep'[t] = sweep[t]
    BY <1>0, <2>1, <2>2, Updates
  <2>5. \A t \in Sources, k \in Inbound : Drafts(t, k)' /\ k # m => Drafts(t, k)
    BY <2>1, <2>4 DEF Drafts, InHand
  <2>. HIDE DEF m
  <2>6. HandsInv'
    <3>. SUFFICES ASSUME NEW k \in Inbound, inbound[k].drafts > 0
                  PROVE  inbound[k].drafts + Cardinality(Drafters(k)') <= Cardinality(Sources)
      BY <1>0 DEF HandsInv
    <3>1. k # m
      BY <2>3
    <3>2. Drafters(k)' \in SUBSET Drafters(k) /\ Drafters(k) \in SUBSET Sources
      BY <2>5, <3>1 DEF Drafters
    <3>3. /\ Cardinality(Drafters(k)') <= Cardinality(Drafters(k)) /\ Cardinality(Sources) \in Nat
          /\ Cardinality(Drafters(k)') \in Nat /\ Cardinality(Drafters(k)) \in Nat
      BY <3>2, Hands
    <3>4. inbound[k].drafts \in Nat
      BY <1>0 DEF Messages
    <3>5. inbound[k].drafts + Cardinality(Drafters(k)) <= Cardinality(Sources)
      BY DEF IInv, HandsInv
    <3>. QED
      BY <3>3, <3>4, <3>5
  <2>. QED
    BY <1>0, <2>1, <2>2, <2>6, SweepMoves
<1>3. CASE ~ Drafting(m)
  <2>1. GoOn(s, Rest(s), sweep[s].made)
    BY <1>3 DEF produceDraftFromInbound
  <2>2. sweep[s].made \in Nat
    BY <1>0 DEF Sweeps
  <2>3. PICK x \in Sweeps : sweep' = [sweep EXCEPT ![s] = x] /\ (x.pc = "idle" \/ (x.pc = "next" /\ x.todo # {}))
    BY <1>1, <2>1, <2>2, GoesOn
  <2>. QED
    BY <1>0, <2>3, SweepMoves
<1>. QED
  BY <1>2, <1>3

\* The draft that is made leaves one hand fewer about the message.
LEMMA DraftCreated ==
    ASSUME IInv, DraftingAssumption, NEW s \in Sources, Drafted(s) \/ AuditThrows(s)
    PROVE  IInv'
<1>0. /\ SweepOK /\ pause \in Pauses /\ failed \in Failures
      /\ inbound \in [Inbound -> Messages] /\ sweep[s] \in Sweeps
      /\ sweep[s].pc = "call" /\ sweep[s].todo # {}
      /\ UNCHANGED <<pause, failed>>
  BY Begin DEF Drafted, AuditThrows, CallSucceeds
<1>. DEFINE m == InHand(s)
<1>1. m \in Inbound /\ Rest(s) \in SUBSET Inbound
  BY <1>0, HandIsMessage
<1>2. PICK x \in Sweeps : sweep' = [sweep EXCEPT ![s] = x] /\ (x.pc = "idle" \/ (x.pc = "next" /\ x.todo # {}))
  <2>1. sweep[s].made \in Nat /\ sweep[s].made + 1 \in Nat
    BY <1>0 DEF Sweeps
  <2>2. CASE GoOn(s, Rest(s), sweep[s].made + 1)
    BY <1>1, <2>1, <2>2, GoesOn
  <2>3. CASE GoOn(s, Rest(s), sweep[s].made)
    BY <1>1, <2>1, <2>3, GoesOn
  <2>. QED
    BY <2>2, <2>3 DEF Drafted, AuditThrows
<1>3. inbound' = [inbound EXCEPT ![m].drafts = @ + 1]
  BY DEF Drafted, AuditThrows, CreateDraft
<1>4. /\ sweep'[s] = x
      /\ \A t \in Sources \ {s} : sweep'[t] = sweep[t]
  BY <1>0, <1>2, Updates
<1>5. \A t \in Sources, k \in Inbound : Drafts(t, k)' => t # s /\ Drafts(t, k)
  BY <1>2, <1>4 DEF Drafts, InHand
<1>6. s \in Drafters(m)
  BY <1>0 DEF Drafters, Drafts
<1>. HIDE DEF m
<1>7. /\ inbound' \in [Inbound -> Messages]
      /\ inbound'[m].drafts = inbound[m].drafts + 1
      /\ \A k \in Inbound \ {m} : inbound'[k] = inbound[k]
  BY <1>0, <1>1, <1>3 DEF Messages
<1>8. HandsInv'
  <2>. SUFFICES ASSUME NEW k \in Inbound, inbound'[k].drafts > 0
                PROVE  inbound'[k].drafts + Cardinality(Drafters(k)') <= Cardinality(Sources)
    BY DEF HandsInv
  <2>1. Drafters(k)' \in SUBSET Drafters(k) /\ Drafters(k) \in SUBSET Sources /\ s \notin Drafters(k)'
    BY <1>5 DEF Drafters
  <2>2. /\ Cardinality(Drafters(k)') <= Cardinality(Drafters(k)) /\ Cardinality(Sources) \in Nat
        /\ Cardinality(Drafters(k)) <= Cardinality(Sources)
        /\ Cardinality(Drafters(k)') \in Nat /\ Cardinality(Drafters(k)) \in Nat
        /\ \A t \in Drafters(k) \ Drafters(k)' : Cardinality(Drafters(k)') + 1 <= Cardinality(Drafters(k))
    BY <2>1, Hands
  <2>3. inbound[k].drafts \in Nat
    BY <1>0 DEF Messages
  <2>4. inbound[k].drafts > 0 => inbound[k].drafts + Cardinality(Drafters(k)) <= Cardinality(Sources)
    BY DEF IInv, HandsInv
  <2>5. CASE k # m
    BY <1>7, <2>2, <2>3, <2>4, <2>5
  <2>6. CASE k = m
    <3>1. Cardinality(Drafters(k)') + 1 <= Cardinality(Drafters(k)) /\ inbound'[k].drafts = inbound[k].drafts + 1
      BY <1>6, <1>7, <2>1, <2>2, <2>6
    <3>. QED
      BY <2>2, <2>3, <2>4, <3>1
  <2>. QED
    BY <2>5, <2>6
<1>. QED
  BY <1>0, <1>2, <1>7, <1>8, SweepMoves

\* The steps of a sweep around its calls.
LEMMA PassStep ==
    ASSUME IInv, DraftingAssumption, NEW s \in Sources,
           ListCandidates(s) \/ CallFails(s) \/ RecordFailure(s) \/ ProduceThrows(s) \/ Dies(s)
    PROVE  IInv'
<1>0. /\ SweepOK /\ pause \in Pauses /\ failed \in Failures
      /\ inbound \in [Inbound -> Messages] /\ sweep[s] \in Sweeps
      /\ sweep[s].pc \in {"next", "call", "record"} => sweep[s].todo # {}
      /\ NotRun \in Sweeps /\ NotRun.pc = "idle" /\ sweep[s].made \in Nat
  BY Begin, Updates DEF Sweeps
<1>1. UNCHANGED pause
  BY DEF ListCandidates, CallFails, RecordFailure, ProduceThrows, Dies
<1>2. ASSUME NEW x \in Sweeps, sweep' = [sweep EXCEPT ![s] = x],
             x.pc \in {"idle", "next", "record"}, x.pc # "idle" => x.todo # {},
             failed' \in Failures, inbound' \in [Inbound -> Messages],
             \A m \in Inbound : inbound'[m].drafts = inbound[m].drafts
      PROVE  IInv'
  BY <1>0, <1>1, <1>2, SweepMoves
<1>3. ASSUME NEW left \in SUBSET Inbound, GoOn(s, left, 0) \/ GoOn(s, left, sweep[s].made), UNCHANGED failed,
             inbound' \in [Inbound -> Messages],
             \A m \in Inbound : inbound'[m].drafts = inbound[m].drafts
      PROVE  IInv'
  <2>1. PICK x \in Sweeps : sweep' = [sweep EXCEPT ![s] = x] /\ (x.pc = "idle" \/ (x.pc = "next" /\ x.todo # {}))
    <3>1. CASE GoOn(s, left, 0)
      BY <3>1, GoesOn
    <3>2. CASE GoOn(s, left, sweep[s].made)
      BY <1>0, <3>2, GoesOn
    <3>. QED
      BY <1>3, <3>1, <3>2
  <2>. QED
    BY <1>0, <1>2, <1>3, <2>1
<1>4. CASE Dies(s)
  <2>1. sweep' = [sweep EXCEPT ![s] = NotRun] /\ UNCHANGED <<failed, inbound>>
    BY <1>4 DEF Dies, Ends
  <2>. QED
    BY <1>0, <1>2, <2>1
<1>5. CASE ListCandidates(s)
  <2>. DEFINE S == {m \in Inbound : Candidate(m)}
  <2>1. S \in SUBSET Inbound /\ GoOn(s, S, 0) /\ UNCHANGED <<failed, inbound>>
    BY <1>5 DEF ListCandidates
  <2>. HIDE DEF S
  <2>. QED
    BY <1>0, <1>3, <2>1
<1>6. CASE ProduceThrows(s)
  <2>1. GoOn(s, Rest(s), sweep[s].made) /\ UNCHANGED <<failed, inbound>> /\ sweep[s].todo # {}
    BY <1>0, <1>6 DEF ProduceThrows, CallSucceeds
  <2>2. Rest(s) \in SUBSET Inbound
    BY <1>0, <2>1, HandIsMessage
  <2>. QED
    BY <1>0, <1>3, <2>1, <2>2
<1>7. CASE CallFails(s)
  <2>. DEFINE x == [sweep[s] EXCEPT !.pc = "record"]
  <2>1. x \in Sweeps /\ x.pc = "record" /\ x.todo # {}
    BY <1>0, <1>7 DEF CallFails, Sweeps, Pcs
  <2>2. sweep' = [sweep EXCEPT ![s] = x] /\ UNCHANGED inbound
    BY <1>0, <1>7 DEF CallFails, Goto, SweepOK
  <2>3. 0 \in Ages /\ failed[0] \in 0 .. FAILURE_THRESHOLD
    BY <1>0 DEF Failures, Ages, DraftingAssumption
  <2>4. Least(FAILURE_THRESHOLD, failed[0] + 1) \in 0 .. FAILURE_THRESHOLD
    BY <2>3 DEF Least, DraftingAssumption
  <2>5. failed' \in Failures
    <3>1. failed' = [failed EXCEPT ![0] = Least(FAILURE_THRESHOLD, failed[0] + 1)]
      BY <1>7 DEF CallFails
    <3>. QED
      BY <1>0, <2>3, <2>4, <3>1 DEF Failures
  <2>. HIDE DEF x
  <2>. QED
    BY <1>0, <1>2, <2>1, <2>2, <2>5
<1>8. CASE RecordFailure(s)
  <2>. DEFINE m == InHand(s)
              n == Least(QUARANTINE_THRESHOLD + 1, sweep[s].attempts + 1)
  <2>1. m \in Inbound /\ Rest(s) \in SUBSET Inbound
    BY <1>0, <1>8, HandIsMessage DEF RecordFailure
  <2>2. GoOn(s, Rest(s), sweep[s].made) /\ UNCHANGED failed
    BY <1>8 DEF RecordFailure
  <2>3. n \in 0 .. QUARANTINE_THRESHOLD + 1
    BY <1>0 DEF Least, Sweeps, DraftingAssumption
  <2>4. /\ inbound' \in [Inbound -> Messages]
        /\ \A k \in Inbound : inbound'[k].drafts = inbound[k].drafts
    <3>1. inbound' = [inbound EXCEPT ![m].attempts = n,
                                     ![m].quarantined = @ \/ Quarantines(n)]
      BY <1>8 DEF RecordFailure
    <3>2. PICK b \in BOOLEAN : inbound' = [inbound EXCEPT ![m] =
                                   [inbound[m] EXCEPT !.attempts = n, !.quarantined = b]]
      <4>1. (inbound[m].quarantined \/ Quarantines(n)) \in BOOLEAN
        BY DEF Quarantines
      <4>. QED
        BY <1>0, <2>1, <3>1, <4>1
    <3>. HIDE DEF m, n
    <3>3. \A r \in Messages, k \in 0 .. QUARANTINE_THRESHOLD + 1 :
             LET y == [r EXCEPT !.attempts = k, !.quarantined = b]
             IN  y \in Messages /\ y.drafts = r.drafts
      BY DEF Messages
    <3>4. LET y == [inbound[m] EXCEPT !.attempts = n, !.quarantined = b]
          IN  y \in Messages /\ y.drafts = inbound[m].drafts
      BY <1>0, <2>1, <2>3, <3>3, Zenon
    <3>. QED
      BY <1>0, <2>1, <3>2, <3>4
  <2>. QED
    BY <1>3, <2>1, <2>2, <2>4
<1>. QED
  BY <1>4, <1>5, <1>6, <1>7, <1>8

\* The administrators, the members, the provider and the clock.
LEMMA OtherStep ==
    ASSUME IInv, DraftingAssumption,
           \/ \E a \in Admins : PauseBy(a) \/ ResumeBy(a)
           \/ \E m \in Inbound : Unquarantine(m) \/ Arrives(m)
           \/ OutageTurns \/ Tick
    PROVE  IInv'
<1>0. /\ pause \in Pauses /\ failed \in Failures /\ inbound \in [Inbound -> Messages]
      /\ 0 \in 0 .. MIN_PAUSE /\ THRASH_WINDOW \in 0 .. THRASH_WINDOW
      /\ 0 \in 0 .. QUARANTINE_THRESHOLD + 1 /\ 0 \in 0 .. FAILURE_THRESHOLD
  BY DEF IInv, TypeOK, Pauses, Failures, Messages, DraftingAssumption
<1>1. UNCHANGED sweep
  BY DEF PauseBy, ResumeBy, Unquarantine, Arrives, OutageTurns, Tick
<1>2. ASSUME NEW a \in Admins, PauseBy(a) PROVE IInv'
  <2>1. pause' \in Pauses /\ pause'.by = a /\ UNCHANGED <<failed, inbound>>
    BY <1>0, <1>2 DEF PauseBy, Pauses
  <2>2. a # LOCKED_SENTINEL_ACTOR
    BY DEF DraftingAssumption
  <2>. QED
    BY <1>0, <1>1, <2>1, <2>2, OthersMove
<1>3. ASSUME NEW a \in Admins, ResumeBy(a) PROVE IInv'
  <2>1. pause' \in Pauses /\ pause'.by # LOCKED_SENTINEL_ACTOR /\ UNCHANGED <<failed, inbound>>
    BY <1>0, <1>3 DEF ResumeBy, Running, Pauses, None, LOCKED_SENTINEL_ACTOR
  <2>. QED
    BY <1>0, <1>1, <2>1, OthersMove
<1>4. ASSUME NEW m \in Inbound, Unquarantine(m) PROVE IInv'
  <2>1. UNCHANGED <<pause, failed>>
        /\ inbound' = [inbound EXCEPT ![m].quarantined = FALSE, ![m].attempts = 0]
    BY <1>4 DEF Unquarantine
  <2>2. /\ inbound' \in [Inbound -> Messages]
        /\ \A k \in Inbound : inbound'[k].drafts = inbound[k].drafts
    BY <1>0, <2>1 DEF Messages
  <2>. QED
    BY <1>0, <1>1, <2>1, <2>2, OthersMove
<1>5. ASSUME NEW m \in Inbound, Arrives(m) PROVE IInv'
  <2>1. PICK k \in Kinds : inbound' = [inbound EXCEPT ![m].kind = k] /\ UNCHANGED <<pause, failed>>
    BY <1>5 DEF Arrives
  <2>2. /\ inbound' \in [Inbound -> Messages]
        /\ \A j \in Inbound : inbound'[j].drafts = inbound[j].drafts
    BY <1>0, <2>1 DEF Messages
  <2>. QED
    BY <1>0, <1>1, <2>1, <2>2, OthersMove
<1>6. CASE OutageTurns
  <2>1. UNCHANGED <<pause, failed, inbound>>
    BY <1>6 DEF OutageTurns
  <2>. QED
    BY <1>0, <1>1, <2>1, OthersMove
<1>7. CASE Tick
  <2>1. UNCHANGED inbound
    BY <1>7 DEF Tick
  <2>2. failed' \in Failures
    <3>1. failed' = [a \in Ages |-> IF a = 0 THEN 0 ELSE failed[a - 1]]
      BY <1>7 DEF Tick
    <3>2. \A a \in Ages : a # 0 => a - 1 \in Ages
      BY DEF Ages, DraftingAssumption
    <3>. QED
      BY <1>0, <3>1, <3>2 DEF Failures
  <2>3. pause' \in Pauses /\ pause'.by = pause.by
    <3>1. PICK x \in 0 .. MIN_PAUSE, y \in 0 .. THRASH_WINDOW :
             pause' = [pause EXCEPT !.age = x, !.resumed = y]
      <4>. DEFINE x == IF pause.by = SENTINEL_ACTOR THEN Least(MIN_PAUSE, pause.age + 1) ELSE 0
                  y == Least(THRASH_WINDOW, pause.resumed + 1)
      <4>1. x \in 0 .. MIN_PAUSE /\ y \in 0 .. THRASH_WINDOW
        BY <1>0 DEF Pauses, Least, DraftingAssumption
      <4>2. pause' = [pause EXCEPT !.age = x, !.resumed = y]
        BY <1>7 DEF Tick
      <4>. QED
        BY <4>1, <4>2
    <3>. QED
      BY <1>0, <3>1 DEF Pauses
  <2>. QED
    BY <1>0, <1>1, <2>1, <2>2, <2>3, OthersMove
<1>. QED
  BY <1>2, <1>3, <1>4, <1>5, <1>6, <1>7

LEMMA Starts == ASSUME DraftingAssumption, Init PROVE IInv
<1>0. /\ 0 \in 0 .. MIN_PAUSE /\ THRASH_WINDOW \in 0 .. THRASH_WINDOW
      /\ 0 \in 0 .. QUARANTINE_THRESHOLD + 1 /\ 0 \in 0 .. FAILURE_THRESHOLD
  BY DEF DraftingAssumption
<1>1. TypeOK
  BY <1>0 DEF Init, TypeOK, Running, Kinds
<1>2. /\ sweep = [s \in Sources |-> NotRun] /\ NotRun.pc = "idle" /\ NotRun \in Sweeps
  BY <1>0 DEF Init, NotRun, Sweeps, Pcs
<1>3. SweepOK /\ BreakerInv
  BY <1>2 DEF SweepOK, BreakerInv, Sources
<1>4. HandsInv
  BY DEF Init, HandsInv
<1>. QED
  BY <1>1, <1>3, <1>4 DEF IInv

LEMMA Step == ASSUME DraftingAssumption, IInv, [Next]_vars PROVE IInv'
<1>1. ASSUME NEW s \in Sources, SweepStep(s) \/ Throws(s) \/ Dies(s) PROVE IInv'
  BY <1>1, BreakerStep, CallBegins, DraftCreated, PassStep DEF SweepStep, Throws
<1>2. CASE UNCHANGED vars
  BY <1>2 DEF vars, IInv, TypeOK, SweepOK, HandsInv, BreakerInv, Drafters, Drafts, InHand
<1>. QED
  BY <1>1, <1>2, OtherStep DEF Next
-----------------------------------------------------------------------------
\* A message has at most one draft for each sweep that can be under way, however many backfills
\* an administrator starts beside the cron: whoever drafts it found no draft, so every draft but
\* the first was in hand when the first was made (produceDraftFromInbound), and a sweep that
\* comes round again finds it.
THEOREM DraftsAreBounded == ASSUME DraftingAssumption PROVE Spec => []InboundInv
<1>1. IInv => InboundInv
  <2>. SUFFICES ASSUME IInv, NEW m \in Inbound PROVE inbound[m].drafts <= Cardinality(Sources)
    BY DEF IInv, InboundInv, DraftedOncePerSweep
  <2>1. Drafters(m) \in SUBSET Sources
    BY DEF Drafters
  <2>2. Cardinality(Sources) \in Nat /\ Cardinality(Drafters(m)) \in Nat
    BY <2>1, Hands
  <2>3. inbound[m].drafts \in Nat
    BY DEF IInv, TypeOK
  <2>4. inbound[m].drafts > 0 => inbound[m].drafts + Cardinality(Drafters(m)) <= Cardinality(Sources)
    BY DEF IInv, HandsInv
  <2>. QED
    BY <2>2, <2>3, <2>4
<1>. QED
  BY <1>1, Starts, Step, PTL DEF Spec

\* A pause the breaker has locked is lifted by no sweep and set anew by none: between a
\* sweep's look at the pause and its update only administrators change it
\* (evaluateAutoResume, evaluateAutoPauseCircuitBreaker).
THEOREM LockedStaysLocked == ASSUME DraftingAssumption PROVE Spec => LockStands
<1>1. ASSUME IInv, [Next]_vars PROVE [pause.by = LOCKED_SENTINEL_ACTOR
                                       /\ pause'.by # LOCKED_SENTINEL_ACTOR => UNCHANGED sweep]_vars
  <2>. SUFFICES ASSUME pause.by = LOCKED_SENTINEL_ACTOR, pause'.by # LOCKED_SENTINEL_ACTOR, Next
                PROVE  UNCHANGED sweep
    BY <1>1 DEF vars
  <2>1. ASSUME NEW s \in Sources, SweepStep(s) \/ Throws(s) \/ Dies(s) PROVE FALSE
    <3>1. UNCHANGED pause \/ LiftPause(s) \/ Trip(s)
      BY <2>1 DEF SweepStep, runAutoDraftSweep, evaluateAutoResume, evaluateAutoPauseCircuitBreaker,
             ListCandidates, produceDraftFromInbound, Drafted, CallFails, RecordFailure,
             EvaluationThrows, ProduceThrows, AuditThrows, Throws, Dies
    <3>2. sweep[s].pc \notin {"lift", "trip"}
      BY <1>1 DEF IInv, BreakerInv, Sources
    <3>. QED
      BY <3>1, <3>2 DEF LiftPause, Trip
  <2>2. \/ \E s \in Sources : SweepStep(s) \/ Throws(s) \/ Dies(s)
        \/ UNCHANGED sweep
    BY DEF Next, PauseBy, ResumeBy, Unquarantine, Arrives, OutageTurns, Tick
  <2>. QED
    BY <2>1, <2>2
<1>. QED
  BY <1>1, Starts, Step, PTL DEF Spec, LockStands
-----------------------------------------------------------------------------
\* Quarantine comes first: "deliberately below FAILURE_THRESHOLD".
ContainmentAssumption ==
    /\ DraftingAssumption /\ IsFiniteSet(Inbound)
    /\ 0 < QUARANTINE_THRESHOLD /\ QUARANTINE_THRESHOLD < FAILURE_THRESHOLD

Tries(s, m) == sweep[s].pc \in {"call", "record"} /\ InHand(s) = m
Failed(s, m) == sweep[s].pc = "record" /\ InHand(s) = m
Broken(m) == inbound[m].kind = "broken"
OneBroken == \A m, n \in Inbound : Broken(m) /\ Broken(n) => m = n

\* Nothing but broken messages goes wrong: each is in one hand at most, is tried with the count
\* that its row has, and is set aside when the count is full.
Attempted ==
    /\ ~ down
    /\ \A s \in Sources : \A m \in sweep[s].todo : inbound[m].kind # None
    /\ \A m \in Inbound : /\ inbound[m].attempts <= QUARANTINE_THRESHOLD
                          /\ ~ inbound[m].quarantined => inbound[m].attempts < QUARANTINE_THRESHOLD
                          /\ \A s, t \in Sources : Tries(s, m) /\ Tries(t, m) => s = t
                          /\ \A s \in Sources : Tries(s, m) => /\ ~ inbound[m].quarantined
                                                              /\ sweep[s].attempts = inbound[m].attempts
                          /\ \A s \in Sources : Failed(s, m) => Broken(m)

\* The failures that the breaker counts are attempts at the one broken message.
Counted ==
    /\ (\A m \in Inbound : ~ Broken(m)) => recentFailures = 0
    /\ \A m \in Inbound : Broken(m) =>
          recentFailures <= inbound[m].attempts + (IF \E s \in Sources : Failed(s, m) THEN 1 ELSE 0)

ContainInv == /\ excused \in BOOLEAN
              /\ ~ excused => Attempted
              /\ ~ excused /\ OneBroken => Counted /\ pause.by \notin {SENTINEL_ACTOR, LOCKED_SENTINEL_ACTOR}

\* One failed call is one row more; time takes rows away.
LEMMA RowsCount ==
    ASSUME DraftingAssumption
    PROVE  IsFiniteSet(FailedRows) /\ recentFailures \in Nat /\ IsFiniteSet(FailedRows)' /\ recentFailures' \in Nat
<1>1. IsFiniteSet(Ages) /\ IsFiniteSet(1 .. FAILURE_THRESHOLD)
  BY FS_Interval DEF Ages, DraftingAssumption
<1>2. IsFiniteSet(Ages \X (1 .. FAILURE_THRESHOLD))
  BY <1>1, FS_Product
<1>3. FailedRows \in SUBSET (Ages \X (1 .. FAILURE_THRESHOLD))
      /\ FailedRows' \in SUBSET (Ages \X (1 .. FAILURE_THRESHOLD))
  BY DEF FailedRows
<1>4. IsFiniteSet(FailedRows) /\ IsFiniteSet(FailedRows')
  BY <1>2, <1>3, FS_Subset
<1>. QED
  BY <1>4, FS_CardinalityType DEF recentFailures

LEMMA RowAdded ==
    ASSUME DraftingAssumption, failed \in Failures,
           failed' = [failed EXCEPT ![0] = Least(FAILURE_THRESHOLD, @ + 1)]
    PROVE  recentFailures' <= recentFailures + 1
<1>. DEFINE r == <<0, failed[0] + 1>>
<1>1. 0 \in Ages /\ failed[0] \in Nat
  BY DEF Ages, Failures, DraftingAssumption
<1>2. FailedRows' \subseteq FailedRows \cup {r}
  <2>. SUFFICES ASSUME NEW a \in Ages, NEW n \in 1 .. FAILURE_THRESHOLD, n <= failed'[a], ~ (n <= failed[a])
                PROVE  a = 0 /\ n = failed[0] + 1
    BY DEF FailedRows
  <2>1. a = 0
    BY DEF Failures
  <2>2. failed'[0] <= failed[0] + 1 /\ failed'[0] \in Nat
    BY <1>1 DEF Least, Failures, DraftingAssumption
  <2>3. n <= failed'[0] /\ ~ (n <= failed[0]) /\ n \in Nat
    BY <2>1 DEF DraftingAssumption
  <2>. QED
    BY <1>1, <2>1, <2>2, <2>3
<1>3. IsFiniteSet(FailedRows \cup {r}) /\ Cardinality(FailedRows \cup {r}) <= recentFailures + 1
      /\ Cardinality(FailedRows \cup {r}) \in Nat
  <2>. HIDE DEF r
  <2>1. IsFiniteSet(FailedRows) /\ recentFailures \in Nat
    BY RowsCount
  <2>2. IsFiniteSet(FailedRows \cup {r})
        /\ Cardinality(FailedRows \cup {r}) \in {recentFailures, recentFailures + 1}
    BY <2>1, FS_AddElement DEF recentFailures
  <2>. QED
    BY <2>1, <2>2
<1>4. recentFailures' <= Cardinality(FailedRows \cup {r})
  BY <1>2, <1>3, FS_Subset DEF recentFailures
<1>. QED
  BY <1>3, <1>4, RowsCount

LEMMA RowsAge ==
    ASSUME DraftingAssumption, failed \in Failures,
           failed' = [a \in Ages |-> IF a = 0 THEN 0 ELSE failed[a - 1]]
    PROVE  recentFailures' <= recentFailures
<1>. DEFINE f == [r \in FailedRows' |-> <<r[1] - 1, r[2]>>]
<1>1. ASSUME NEW r \in FailedRows'
      PROVE  /\ r[1] \in Ages /\ r[1] # 0 /\ r = <<r[1], r[2]>> /\ r[2] \in 1 .. FAILURE_THRESHOLD
             /\ r[2] <= failed[r[1] - 1]
  BY DEF FailedRows, DraftingAssumption
<1>2. \A r \in FailedRows' : f[r] \in FailedRows
  <2>1. \A r \in FailedRows' : r[1] - 1 \in Ages
    BY <1>1 DEF Ages, DraftingAssumption
  <2>. QED
    BY <1>1, <2>1 DEF FailedRows
<1>3. \A r, q \in FailedRows' : f[r] = f[q] => r = q
  <2>. SUFFICES ASSUME NEW r \in FailedRows', NEW q \in FailedRows', f[r] = f[q] PROVE r = q
    OBVIOUS
  <2>1. r[1] - 1 = q[1] - 1 /\ r[2] = q[2]
    OBVIOUS
  <2>2. r[1] = q[1]
    BY <1>1, <2>1 DEF Ages, DraftingAssumption
  <2>. QED
    BY <1>1, <2>1, <2>2
<1>4. f \in Injection(FailedRows', FailedRows)
  BY <1>2, <1>3 DEF Injection, IsInjective
<1>. QED
  BY <1>4, RowsCount, FS_Injection DEF recentFailures

\* A sweep that is not at a failed call turns to something else.
LEMMA TurnsAway ==
    ASSUME IInv, ContainInv, NEW s \in Sources, sweep'[s].pc \notin {"call", "record"},
           \A t \in Sources \ {s} : sweep'[t] = sweep[t],
           \A m \in sweep'[s].todo : m \in Inbound /\ (m \in sweep[s].todo \/ inbound[m].kind # None),
           excused' \in BOOLEAN, ~ excused' => ~ excused /\ sweep[s].pc # "record",
           UNCHANGED <<failed, down>>,
           \A m \in Inbound : /\ inbound'[m].kind = inbound[m].kind
                             /\ inbound'[m].attempts = inbound[m].attempts
                             /\ inbound'[m].quarantined = inbound[m].quarantined,
           ~ excused /\ OneBroken /\ Counted /\ pause.by \notin {SENTINEL_ACTOR, LOCKED_SENTINEL_ACTOR}
              => pause'.by \notin {SENTINEL_ACTOR, LOCKED_SENTINEL_ACTOR}
    PROVE  ContainInv'
<1>. SUFFICES ASSUME ~ excused', ~ excused
              PROVE  Attempted' /\ (OneBroken' => Counted' /\ pause'.by \notin {SENTINEL_ACTOR, LOCKED_SENTINEL_ACTOR})
  BY DEF ContainInv
<1>1. \A t \in Sources, m \in Inbound :
         /\ Tries(t, m)' => Tries(t, m) /\ sweep'[t] = sweep[t]
         /\ Failed(t, m)' <=> Failed(t, m)
  BY DEF Tries, Failed, InHand
<1>2. \A m \in Inbound : Broken(m)' <=> Broken(m)
  BY DEF Broken
<1>3. Attempted
  BY DEF ContainInv
<1>4. \A t \in Sources : sweep[t].todo \subseteq Inbound
  BY DEF IInv, SweepOK, Sweeps
<1>5. \A t \in Sources : \A m \in sweep'[t].todo : inbound'[m].kind # None
  BY <1>3, <1>4 DEF Attempted
<1>6. Attempted'
  BY <1>1, <1>2, <1>3, <1>5 DEF Attempted, Sources
<1>7. OneBroken' => OneBroken
  BY <1>2 DEF OneBroken
<1>8. Counted => Counted'
  BY <1>1, <1>2 DEF Counted, recentFailures, FailedRows
<1>. QED
  BY <1>6, <1>7, <1>8 DEF ContainInv

LEMMA TurnsAwayStep ==
    ASSUME ContainmentAssumption, IInv, ContainInv, NEW s \in Sources,
           \/ evaluateAutoResume(s) \/ LiftPause(s) \/ evaluateAutoPauseCircuitBreaker(s) \/ Trip(s)
           \/ runAutoDraftSweep(s) \/ EvaluationThrows(s) \/ ListCandidates(s) \/ ProduceThrows(s) \/ Dies(s)
           \/ produceDraftFromInbound(s) /\ ~ Drafting(InHand(s))
    PROVE  ContainInv'
<1>1. sweep \in [Sources -> Sweeps] /\ DraftingAssumption /\ excused \in BOOLEAN
  BY DEF IInv, SweepOK, ContainmentAssumption, ContainInv
<1>2. /\ sweep'[s].pc \notin {"call", "record"} /\ \A t \in Sources \ {s} : sweep'[t] = sweep[t]
      /\ \A m \in sweep'[s].todo : m \in sweep[s].todo \/ (m \in Inbound /\ inbound[m].kind # None)
  <2>. USE <1>1
  <2>0. sweep[s].made \in Nat /\ sweep[s].todo \in SUBSET Inbound
    BY DEF Sweeps
  <2>1. CASE evaluateAutoResume(s) \/ LiftPause(s) \/ runAutoDraftSweep(s) \/ EvaluationThrows(s)
    BY <2>1 DEF evaluateAutoResume, LiftPause, runAutoDraftSweep, EvaluationThrows, Goto, Sweeps
  <2>2. CASE Dies(s)
    BY <2>2 DEF Dies, Ends, NotRun, Sweeps
  <2>3. CASE evaluateAutoPauseCircuitBreaker(s) \/ Trip(s)
    BY <2>3 DEF evaluateAutoPauseCircuitBreaker, Trip, Goto, Ends, NotRun, Sweeps
  <2>4. CASE ListCandidates(s)
    <3>. DEFINE S == {m \in Inbound : Candidate(m)}
    <3>1. S \in SUBSET Inbound /\ GoOn(s, S, 0) /\ \A m \in S : inbound[m].kind # None
      BY <2>4 DEF ListCandidates, Candidate
    <3>. HIDE DEF S
    <3>2. PICK x \in Sweeps : /\ sweep' = [sweep EXCEPT ![s] = x] /\ x.todo \subseteq S
                              /\ x.pc = "idle" \/ (x.pc = "next" /\ x.todo # {})
      BY <3>1, GoesOn
    <3>. QED
      BY <3>1, <3>2
  <2>5. CASE ProduceThrows(s) \/ (produceDraftFromInbound(s) /\ ~ Drafting(InHand(s)))
    <3>1. GoOn(s, Rest(s), sweep[s].made) /\ Rest(s) \in SUBSET Inbound /\ Rest(s) \subseteq sweep[s].todo
      BY <2>0, <2>5 DEF ProduceThrows, produceDraftFromInbound, Rest
    <3>2. PICK x \in Sweeps : /\ sweep' = [sweep EXCEPT ![s] = x] /\ x.todo \subseteq Rest(s)
                              /\ x.pc = "idle" \/ (x.pc = "next" /\ x.todo # {})
      BY <2>0, <3>1, GoesOn
    <3>. QED
      BY <3>1, <3>2
  <2>. QED
    BY <2>1, <2>2, <2>3, <2>4, <2>5
<1>3. excused' \in BOOLEAN /\ (~ excused' => ~ excused /\ sweep[s].pc # "record") /\ UNCHANGED <<failed, down, inbound>>
  BY <1>1 DEF evaluateAutoResume, LiftPause, evaluateAutoPauseCircuitBreaker, Trip, runAutoDraftSweep,
     EvaluationThrows, Evaluating, ListCandidates, ProduceThrows, Dies, produceDraftFromInbound
<1>4. ~ excused /\ OneBroken /\ Counted /\ pause.by \notin {SENTINEL_ACTOR, LOCKED_SENTINEL_ACTOR}
         => pause'.by \notin {SENTINEL_ACTOR, LOCKED_SENTINEL_ACTOR}
  <2>. SUFFICES ASSUME ~ excused, OneBroken, Counted, pause.by \notin {SENTINEL_ACTOR, LOCKED_SENTINEL_ACTOR}
                PROVE  pause'.by \notin {SENTINEL_ACTOR, LOCKED_SENTINEL_ACTOR}
    OBVIOUS
  <2>1. CASE UNCHANGED pause
    BY <2>1
  <2>2. CASE LiftPause(s)
    BY <2>2 DEF LiftPause, None, SENTINEL_ACTOR, LOCKED_SENTINEL_ACTOR
  <2>3. CASE Trip(s)
    <3>1. recentFailures \in Nat
      BY <1>1, RowsCount
    <3>2. recentFailures <= QUARANTINE_THRESHOLD
      <4>1. CASE \A m \in Inbound : ~ Broken(m)
        BY <3>1, <4>1 DEF Counted, ContainmentAssumption, DraftingAssumption
      <4>2. CASE \E m \in Inbound : Broken(m)
        <5>1. PICK m \in Inbound : Broken(m)
          BY <4>2
        <5>2. inbound[m].attempts \in Nat
          BY DEF IInv, TypeOK, ContainmentAssumption, DraftingAssumption
        <5>3. inbound[m].attempts <= QUARANTINE_THRESHOLD
              /\ ((\E t \in Sources : Failed(t, m)) => inbound[m].attempts < QUARANTINE_THRESHOLD)
          BY DEF ContainInv, Attempted, Failed, Tries
        <5>4. CASE \E t \in Sources : Failed(t, m)
          <6>1. recentFailures <= inbound[m].attempts + 1
            BY <5>1, <5>4 DEF Counted
          <6>. QED
            BY <1>1, <3>1, <5>2, <5>3, <5>4, <6>1 DEF DraftingAssumption
        <5>5. CASE ~ \E t \in Sources : Failed(t, m)
          <6>1. recentFailures <= inbound[m].attempts + 0
            BY <5>1, <5>5 DEF Counted
          <6>. QED
            BY <1>1, <3>1, <5>2, <5>3, <6>1 DEF DraftingAssumption
        <5>. QED
          BY <5>4, <5>5
      <4>. QED
        BY <4>1, <4>2
    <3>3. recentFailures < FAILURE_THRESHOLD
      BY <3>1, <3>2 DEF ContainmentAssumption, DraftingAssumption
    <3>. QED
      BY <2>3, <3>3 DEF Trip
  <2>. QED
    BY <2>1, <2>2, <2>3 DEF evaluateAutoResume, evaluateAutoPauseCircuitBreaker, runAutoDraftSweep,
       EvaluationThrows, ListCandidates, ProduceThrows, Dies, produceDraftFromInbound
<1>5. \A m \in sweep[s].todo : m \in Inbound
  BY <1>1 DEF Sweeps
<1>. QED
  BY <1>2, <1>3, <1>4, <1>5, TurnsAway

\* A sweep that goes on is about no message that it was not to see.
LEMMA GoesAway ==
    ASSUME ContainmentAssumption, sweep \in [Sources -> Sweeps], NEW s \in Sources,
           GoOn(s, Rest(s), sweep[s].made) \/ GoOn(s, Rest(s), sweep[s].made + 1)
    PROVE  /\ sweep'[s].pc \notin {"call", "record"} /\ \A t \in Sources \ {s} : sweep'[t] = sweep[t]
           /\ sweep'[s].todo \subseteq sweep[s].todo /\ sweep[s].todo \subseteq Inbound
<1>1. /\ sweep[s].made \in Nat /\ sweep[s].made + 1 \in Nat /\ sweep[s].todo \subseteq Inbound
      /\ Rest(s) \in SUBSET Inbound /\ Rest(s) \subseteq sweep[s].todo
  BY DEF Sweeps, Rest
<1>2. PICK x \in Sweeps : /\ sweep' = [sweep EXCEPT ![s] = x] /\ x.todo \subseteq Rest(s)
                          /\ x.pc = "idle" \/ (x.pc = "next" /\ x.todo # {})
  <2>1. CASE GoOn(s, Rest(s), sweep[s].made)
    BY <1>1, <2>1, GoesOn DEF ContainmentAssumption
  <2>2. CASE GoOn(s, Rest(s), sweep[s].made + 1)
    BY <1>1, <2>2, GoesOn DEF ContainmentAssumption
  <2>. QED
    BY <2>1, <2>2
<1>. QED
  BY <1>1, <1>2

LEMMA DraftMade ==
    ASSUME ContainmentAssumption, IInv, ContainInv, NEW s \in Sources, Drafted(s) \/ AuditThrows(s)
    PROVE  ContainInv'
<1>1. sweep \in [Sources -> Sweeps] /\ inbound \in [Inbound -> Messages] /\ excused \in BOOLEAN
  BY DEF IInv, SweepOK, ContainInv, TypeOK, Messages
<1>2. /\ sweep'[s].pc \notin {"call", "record"} /\ \A t \in Sources \ {s} : sweep'[t] = sweep[t]
      /\ sweep'[s].todo \subseteq sweep[s].todo /\ sweep[s].todo \subseteq Inbound /\ sweep[s].pc = "call"
  <2>1. GoOn(s, Rest(s), sweep[s].made) \/ GoOn(s, Rest(s), sweep[s].made + 1)
    BY DEF Drafted, AuditThrows
  <2>2. sweep[s].pc = "call"
    BY DEF Drafted, AuditThrows, CallSucceeds
  <2>. QED
    BY <1>1, <2>1, <2>2, GoesAway
<1>3. \A m \in Inbound : /\ inbound'[m].kind = inbound[m].kind
                        /\ inbound'[m].attempts = inbound[m].attempts
                        /\ inbound'[m].quarantined = inbound[m].quarantined
  BY <1>1 DEF Drafted, AuditThrows, CreateDraft, Messages
<1>. QED
  BY <1>1, <1>2, <1>3, TurnsAway DEF Drafted, AuditThrows

\* What a sweep has in hand is a message.
LEMMA InHandIs ==
    ASSUME ContainmentAssumption, IInv, NEW s \in Sources, sweep[s].todo # {}
    PROVE  InHand(s) \in Inbound /\ inbound[InHand(s)] \in Messages /\ sweep[s] \in Sweeps
           /\ Rest(s) \in SUBSET Inbound
  BY HandIsMessage DEF IInv, SweepOK, TypeOK, Messages, ContainmentAssumption

LEMMA CallBegun ==
    ASSUME ContainmentAssumption, IInv, ContainInv, NEW s \in Sources, produceDraftFromInbound(s), Drafting(InHand(s))
    PROVE  ContainInv'
<1>1. PICK m \in Inbound : m = InHand(s)
  BY InHandIs DEF produceDraftFromInbound, IInv, SweepOK
<1>2. sweep \in [Sources -> Sweeps] /\ sweep[s].pc = "next" /\ UNCHANGED <<pause, failed, inbound, down>>
  BY DEF IInv, SweepOK, produceDraftFromInbound
<1>3. /\ sweep'[s].pc = "call" /\ sweep'[s].todo = sweep[s].todo /\ sweep'[s].attempts = inbound[m].attempts
      /\ \A t \in Sources \ {s} : sweep'[t] = sweep[t]
  BY <1>1, <1>2 DEF produceDraftFromInbound, Sweeps
<1>4. excused' = (excused \/ \E t \in Sources \ {s} : Tries(t, m)) /\ ~ inbound[m].quarantined
  BY <1>1 DEF produceDraftFromInbound, Tries, Drafting
<1>. SUFFICES ASSUME ~ excused', ~ excused, \A t \in Sources \ {s} : ~ Tries(t, m)
              PROVE  Attempted' /\ (OneBroken' => Counted' /\ pause'.by \notin {SENTINEL_ACTOR, LOCKED_SENTINEL_ACTOR})
  BY <1>4 DEF ContainInv
<1>5. Attempted
  BY DEF ContainInv
<1>6. \A t \in Sources, k \in Inbound :
         /\ Tries(t, k)' => IF t = s THEN k = m ELSE Tries(t, k)
         /\ Failed(t, k)' <=> Failed(t, k)
  BY <1>1, <1>2, <1>3 DEF Tries, Failed, InHand
<1>7. \A k \in Inbound : Broken(k)' <=> Broken(k)
  BY <1>2 DEF Broken
<1>8. Attempted'
  <2>1. ~ down' /\ \A t \in Sources : \A k \in sweep'[t].todo : inbound'[k].kind # None
    BY <1>2, <1>3, <1>5 DEF Attempted
  <2>2. ASSUME NEW k \in Inbound
        PROVE  /\ inbound[k].attempts <= QUARANTINE_THRESHOLD
               /\ ~ inbound[k].quarantined => inbound[k].attempts < QUARANTINE_THRESHOLD
               /\ \A s1, s2 \in Sources : Tries(s1, k)' /\ Tries(s2, k)' => s1 = s2
               /\ \A t \in Sources : Tries(t, k)' => /\ ~ inbound[k].quarantined
                                                    /\ sweep'[t].attempts = inbound[k].attempts
               /\ \A t \in Sources : Failed(t, k)' => Broken(k)
    BY <1>3, <1>4, <1>5, <1>6 DEF Attempted, Sources
  <2>. QED
    BY <1>2, <1>7, <2>1, <2>2 DEF Attempted
<1>9. (OneBroken' => OneBroken) /\ (Counted => Counted')
  BY <1>2, <1>6, <1>7 DEF OneBroken, Counted, recentFailures, FailedRows
<1>. QED
  BY <1>2, <1>8, <1>9 DEF ContainInv

\* The call about a broken message fails: its row counts one failure more than its attempts.
LEMMA CallFailed ==
    ASSUME ContainmentAssumption, IInv, ContainInv, NEW s \in Sources, CallFails(s)
    PROVE  ContainInv'
<1>0. sweep[s].pc = "call" /\ sweep[s].todo # {} /\ failed \in Failures /\ DraftingAssumption
  BY DEF IInv, SweepOK, CallFails, TypeOK, Failures, ContainmentAssumption
<1>1. PICK m \in Inbound : m = InHand(s) /\ inbound[m] \in Messages
  BY <1>0, InHandIs
<1>2. sweep \in [Sources -> Sweeps] /\ UNCHANGED <<pause, inbound, down, excused>>
  BY DEF IInv, SweepOK, CallFails
<1>3. /\ sweep'[s].pc = "record" /\ sweep'[s].todo = sweep[s].todo /\ sweep'[s].attempts = sweep[s].attempts
      /\ \A t \in Sources \ {s} : sweep'[t] = sweep[t]
  BY <1>2 DEF CallFails, Goto, Sweeps
<1>. SUFFICES ASSUME ~ excused
              PROVE  Attempted' /\ (OneBroken' => Counted' /\ pause'.by \notin {SENTINEL_ACTOR, LOCKED_SENTINEL_ACTOR})
  BY <1>2 DEF ContainInv
<1>4. Attempted
  BY DEF ContainInv
<1>5. Broken(m) /\ Tries(s, m) /\ \A t \in Sources \ {s} : ~ Tries(t, m)
  BY <1>0, <1>1, <1>4 DEF CallFails, Attempted, Broken, Tries, Sources
<1>6. \A t \in Sources, k \in Inbound :
         /\ Tries(t, k)' <=> Tries(t, k)
         /\ Failed(t, k)' <=> (Failed(t, k) \/ (t = s /\ k = m))
         /\ sweep'[t].attempts = sweep[t].attempts /\ sweep'[t].todo = sweep[t].todo
  BY <1>0, <1>1, <1>3 DEF Tries, Failed, InHand
<1>7. \A k \in Inbound : Broken(k)' <=> Broken(k)
  BY <1>2 DEF Broken
<1>8. Attempted'
  <2>1. ~ down' /\ \A t \in Sources : \A k \in sweep'[t].todo : inbound'[k].kind # None
    BY <1>2, <1>4, <1>6 DEF Attempted
  <2>2. ASSUME NEW k \in Inbound
        PROVE  /\ inbound[k].attempts <= QUARANTINE_THRESHOLD
               /\ ~ inbound[k].quarantined => inbound[k].attempts < QUARANTINE_THRESHOLD
               /\ \A s1, s2 \in Sources : Tries(s1, k)' /\ Tries(s2, k)' => s1 = s2
               /\ \A t \in Sources : Tries(t, k)' => /\ ~ inbound[k].quarantined
                                                    /\ sweep'[t].attempts = inbound[k].attempts
               /\ \A t \in Sources : Failed(t, k)' => Broken(k)
    BY <1>4, <1>5, <1>6 DEF Attempted, Sources
  <2>. QED
    BY <1>2, <1>7, <2>1, <2>2 DEF Attempted
<1>9. ASSUME OneBroken' PROVE Counted' /\ pause'.by \notin {SENTINEL_ACTOR, LOCKED_SENTINEL_ACTOR}
  <2>1. OneBroken
    BY <1>7, <1>9 DEF OneBroken
  <2>2. recentFailures' <= recentFailures + 1 /\ recentFailures \in Nat /\ recentFailures' \in Nat
    BY <1>0, RowAdded, RowsCount DEF CallFails
  <2>3. ~ \E t \in Sources : Failed(t, m)
    BY <1>0, <1>5 DEF Failed, Tries
  <2>4. recentFailures <= inbound[m].attempts + 0
    BY <1>5, <2>1, <2>3 DEF ContainInv, Counted
  <2>5. inbound[m].attempts \in Nat
    BY <1>0, <1>1 DEF Messages, DraftingAssumption
  <2>6. recentFailures' <= inbound[m].attempts + 1
    BY <2>2, <2>4, <2>5
  <2>7. \E t \in Sources : Failed(t, m)'
    BY <1>6
  <2>8. \A k \in Inbound : Broken(k)' => k = m
    BY <1>5, <1>7, <1>9 DEF OneBroken
  <2>9. Counted'
    BY <1>2, <1>5, <1>7, <2>6, <2>7, <2>8 DEF Counted
  <2>. QED
    BY <1>2, <2>1, <2>9 DEF ContainInv
<1>. QED
  BY <1>8, <1>9

\* The attempt is counted in the row, and the last one sets the message aside.
LEMMA FailureRecorded ==
    ASSUME ContainmentAssumption, IInv, ContainInv, NEW s \in Sources, RecordFailure(s)
    PROVE  ContainInv'
<1>0. sweep[s].pc = "record" /\ sweep[s].todo # {} /\ DraftingAssumption
      /\ 0 < QUARANTINE_THRESHOLD /\ QUARANTINE_THRESHOLD \in Nat
  BY DEF IInv, SweepOK, RecordFailure, ContainmentAssumption, DraftingAssumption
<1>1. PICK m \in Inbound : m = InHand(s) /\ inbound[m] \in Messages
  BY <1>0, InHandIs
<1>2. sweep \in [Sources -> Sweeps] /\ UNCHANGED <<pause, failed, down, excused>> /\ inbound \in [Inbound -> Messages]
  BY DEF IInv, SweepOK, RecordFailure, TypeOK, Messages
<1>3. /\ sweep'[s].pc \notin {"call", "record"}
      /\ sweep'[s].todo \subseteq sweep[s].todo /\ sweep[s].todo \subseteq Inbound
      /\ \A t \in Sources \ {s} : sweep'[t] = sweep[t]
  <2>1. GoOn(s, Rest(s), sweep[s].made)
    BY DEF RecordFailure
  <2>. QED
    BY <1>2, <2>1, GoesAway
<1>. SUFFICES ASSUME ~ excused
              PROVE  Attempted' /\ (OneBroken' => Counted' /\ pause'.by \notin {SENTINEL_ACTOR, LOCKED_SENTINEL_ACTOR})
  BY <1>2 DEF ContainInv
<1>4. Attempted
  BY DEF ContainInv
<1>5. /\ Tries(s, m) /\ Failed(s, m) /\ Broken(m) /\ \A t \in Sources \ {s} : ~ Tries(t, m)
      /\ ~ inbound[m].quarantined /\ sweep[s].attempts = inbound[m].attempts
      /\ inbound[m].attempts < QUARANTINE_THRESHOLD
  <2>1. Tries(s, m) /\ Failed(s, m)
    BY <1>0, <1>1 DEF Tries, Failed
  <2>. QED
    BY <1>4, <2>1 DEF Attempted, Sources
<1>6. PICK n \in Nat : n = inbound[m].attempts + 1 /\ n <= QUARANTINE_THRESHOLD
  BY <1>0, <1>1, <1>5 DEF Messages
<1>7. /\ inbound'[m].kind = inbound[m].kind /\ inbound'[m].attempts = n
      /\ (~ inbound'[m].quarantined => n < QUARANTINE_THRESHOLD)
      /\ \A k \in Inbound \ {m} : inbound'[k] = inbound[k]
  <2>1. Least(QUARANTINE_THRESHOLD + 1, sweep[s].attempts + 1) = n
    BY <1>0, <1>5, <1>6 DEF Least
  <2>2. inbound' = [inbound EXCEPT ![m].attempts = n, ![m].quarantined = @ \/ Quarantines(n)]
    BY <1>1, <2>1 DEF RecordFailure
  <2>3. inbound'[m] = [inbound[m] EXCEPT !.attempts = n, !.quarantined = @ \/ Quarantines(n)]
        /\ \A k \in Inbound \ {m} : inbound'[k] = inbound[k]
    BY <1>1, <1>2, <2>2 DEF Messages
  <2>4. /\ inbound'[m].kind = inbound[m].kind /\ inbound'[m].attempts = n
        /\ inbound'[m].quarantined = (inbound[m].quarantined \/ Quarantines(n))
    BY <1>1, <2>3 DEF Messages
  <2>5. ~ Quarantines(n) => n < QUARANTINE_THRESHOLD
    BY <1>0 DEF Quarantines
  <2>6. ~ inbound'[m].quarantined => ~ Quarantines(n)
    BY <2>4, Zenon
  <2>. QED
    BY <2>3, <2>4, <2>5, <2>6
<1>8. \A t \in Sources, k \in Inbound :
         /\ Tries(t, k)' => Tries(t, k) /\ k # m /\ sweep'[t] = sweep[t]
         /\ Failed(t, k)' <=> (Failed(t, k) /\ k # m)
  BY <1>1, <1>3, <1>5 DEF Tries, Failed, InHand
<1>9. \A k \in Inbound : inbound'[k].kind = inbound[k].kind /\ (Broken(k)' <=> Broken(k))
  BY <1>7 DEF Broken
<1>10. Attempted'
  <2>1. ~ down' /\ \A t \in Sources : \A k \in sweep'[t].todo : inbound'[k].kind # None
    <3>1. \A t \in Sources : sweep[t].todo \subseteq Inbound
      BY <1>2 DEF Sweeps
    <3>. QED
      BY <1>2, <1>3, <1>4, <1>9, <3>1 DEF Attempted
  <2>2. ASSUME NEW k \in Inbound
        PROVE  /\ inbound'[k].attempts <= QUARANTINE_THRESHOLD
               /\ ~ inbound'[k].quarantined => inbound'[k].attempts < QUARANTINE_THRESHOLD
               /\ \A s1, s2 \in Sources : Tries(s1, k)' /\ Tries(s2, k)' => s1 = s2
               /\ \A t \in Sources : Tries(t, k)' => /\ ~ inbound'[k].quarantined
                                                    /\ sweep'[t].attempts = inbound'[k].attempts
               /\ \A t \in Sources : Failed(t, k)' => Broken(k)
    BY <1>4, <1>6, <1>7, <1>8 DEF Attempted, Sources
  <2>. QED
    BY <1>9, <2>1, <2>2 DEF Attempted
<1>11. ASSUME OneBroken' PROVE Counted' /\ pause'.by \notin {SENTINEL_ACTOR, LOCKED_SENTINEL_ACTOR}
  <2>1. OneBroken
    BY <1>9, <1>11 DEF OneBroken
  <2>2. recentFailures' = recentFailures
    BY <1>2 DEF recentFailures, FailedRows
  <2>3. recentFailures <= inbound[m].attempts + 1
    BY <1>5, <2>1 DEF ContainInv, Counted
  <2>4. ~ \E t \in Sources : Failed(t, m)'
    BY <1>8
  <2>5. \A k \in Inbound : Broken(k)' => k = m
    BY <1>5, <1>9, <1>11 DEF OneBroken
  <2>6. recentFailures' <= inbound'[m].attempts + 0
    BY <1>6, <1>7, <2>2, <2>3
  <2>7. Counted'
    BY <1>5, <1>9, <2>4, <2>5, <2>6 DEF Counted
  <2>. QED
    BY <1>2, <2>1, <2>7 DEF ContainInv
<1>. QED
  BY <1>10, <1>11

\* Nobody but the sweeps makes a failure; a message is broken from its arrival on.
LEMMA AnotherStep ==
    ASSUME ContainmentAssumption, IInv, ContainInv,
           \/ \E a \in Admins : PauseBy(a) \/ ResumeBy(a)
           \/ \E m \in Inbound : Unquarantine(m) \/ Arrives(m)
           \/ OutageTurns \/ Tick \/ UNCHANGED vars
    PROVE  ContainInv'
<1>0. DraftingAssumption /\ inbound \in [Inbound -> Messages] /\ failed \in Failures
  BY DEF ContainmentAssumption, IInv, TypeOK, Messages, Failures
<1>1. CASE OutageTurns \/ \E m \in Inbound : Unquarantine(m)
  BY <1>1 DEF OutageTurns, Unquarantine, ContainInv
<1>2. ASSUME UNCHANGED <<inbound, down, sweep, excused>>, recentFailures' <= recentFailures,
             pause'.by \in {SENTINEL_ACTOR, LOCKED_SENTINEL_ACTOR} => pause'.by = pause.by
      PROVE  ContainInv'
  <2>1. /\ \A s \in Sources, m \in Inbound : /\ Tries(s, m)' <=> Tries(s, m)
                                             /\ Failed(s, m)' <=> Failed(s, m)
        /\ \A m \in Inbound : Broken(m)' <=> Broken(m)
    BY <1>2 DEF Tries, Failed, InHand, Broken
  <2>2. Attempted => Attempted'
    BY <1>2, <2>1 DEF Attempted, Sources
  <2>3. recentFailures \in Nat /\ recentFailures' \in Nat
    BY <1>0, RowsCount
  <2>4. ASSUME OneBroken', OneBroken => Counted PROVE Counted'
    <3>1. OneBroken
      BY <2>1, <2>4 DEF OneBroken
    <3>2. ASSUME NEW m \in Inbound, Broken(m)'
          PROVE  recentFailures' <= inbound'[m].attempts + (IF \E s \in Sources : Failed(s, m)' THEN 1 ELSE 0)
      <4>. DEFINE e == IF \E s \in Sources : Failed(s, m) THEN 1 ELSE 0
      <4>1. recentFailures <= inbound[m].attempts + e
        BY <2>1, <2>4, <3>1, <3>2 DEF Counted
      <4>2. e = IF \E s \in Sources : Failed(s, m)' THEN 1 ELSE 0
        BY <2>1
      <4>3. inbound[m].attempts \in Nat /\ e \in Nat
        BY <1>0 DEF Messages, DraftingAssumption
      <4>. HIDE DEF e
      <4>4. recentFailures' <= inbound[m].attempts + e
        BY <1>2, <2>3, <4>1, <4>3
      <4>. QED
        BY <1>2, <4>2, <4>4
    <3>3. (\A m \in Inbound : ~ Broken(m)') => recentFailures' = 0
      BY <1>2, <2>1, <2>3, <2>4, <3>1 DEF Counted
    <3>. QED
      BY <3>2, <3>3 DEF Counted
  <2>5. OneBroken' => OneBroken
    BY <2>1 DEF OneBroken
  <2>. QED
    BY <1>2, <2>2, <2>4, <2>5 DEF ContainInv
<1>3. recentFailures' <= recentFailures \/ failed' # failed
  <2>1. UNCHANGED failed => recentFailures' = recentFailures
    BY DEF recentFailures, FailedRows
  <2>. QED
    BY <1>0, <2>1, RowsCount
<1>4. CASE \E a \in Admins : PauseBy(a) \/ ResumeBy(a)
  <2>1. UNCHANGED <<failed, inbound, down, sweep, excused>>
    BY <1>4 DEF PauseBy, ResumeBy
  <2>2. \A a \in Admins : /\ PauseBy(a) => pause'.by = a
                          /\ ResumeBy(a) => pause'.by = None
                          /\ a \notin {SENTINEL_ACTOR, LOCKED_SENTINEL_ACTOR}
    <3>1. pause \in Pauses
      BY DEF IInv, TypeOK, Pauses
    <3>2. \A a \in Admins : PauseBy(a) => pause'.by = a
      <4>. SUFFICES ASSUME NEW a \in Admins, PauseBy(a) PROVE pause'.by = a
        OBVIOUS
      <4>. DEFINE Base == pause
      <4>1. Base \in Pauses /\ pause' = [Base EXCEPT !.by = a, !.age = 0]
        BY <3>1 DEF PauseBy
      <4>. HIDE DEF Base
      <4>. QED
        BY <4>1 DEF Pauses
    <3>3. \A a \in Admins : ResumeBy(a) => pause'.by = None
      BY DEF ResumeBy, Running
    <3>. QED
      BY <1>0, <3>2, <3>3 DEF DraftingAssumption
  <2>3. pause'.by \notin {SENTINEL_ACTOR, LOCKED_SENTINEL_ACTOR}
    BY <1>4, <2>2 DEF None, SENTINEL_ACTOR, LOCKED_SENTINEL_ACTOR
  <2>. QED
    BY <1>2, <1>3, <2>1, <2>3
<1>5. CASE Tick
  <2>1. recentFailures' <= recentFailures
    BY <1>0, <1>5, RowsAge DEF Tick
  <2>2. pause'.by = pause.by
    BY <1>5 DEF Tick, IInv, TypeOK
  <2>. QED
    BY <1>2, <1>5, <2>1, <2>2 DEF Tick
<1>6. CASE UNCHANGED vars
  BY <1>2, <1>3, <1>6 DEF vars
<1>7. ASSUME NEW m \in Inbound, Arrives(m) PROVE ContainInv'
  <2>1. UNCHANGED <<pause, failed, down, sweep, excused>> /\ inbound[m].kind = None
    BY <1>7 DEF Arrives
  <2>2. \A n \in Inbound : /\ inbound'[n].attempts = inbound[n].attempts
                           /\ inbound'[n].quarantined = inbound[n].quarantined
                           /\ inbound[n].attempts \in Nat
                           /\ n # m => inbound'[n] = inbound[n]
    BY <1>0, <1>7 DEF Arrives, Messages, DraftingAssumption
  <2>3. inbound'[m].kind # None
    BY <1>0, <1>7 DEF Arrives, Messages, Kinds
  <2>. SUFFICES ASSUME ~ excused
                PROVE  Attempted' /\ (OneBroken' => Counted' /\ pause'.by \notin {SENTINEL_ACTOR, LOCKED_SENTINEL_ACTOR})
    BY <2>1 DEF ContainInv
  <2>4. Attempted
    BY DEF ContainInv
  <2>5. \A s \in Sources, n \in Inbound : /\ Tries(s, n)' <=> Tries(s, n)
                                          /\ Failed(s, n)' <=> Failed(s, n)
    BY <2>1 DEF Tries, Failed, InHand
  <2>6. \A n \in Inbound : Broken(n) => Broken(n)' /\ n # m
    BY <2>1, <2>2, <2>3 DEF Broken, None
  <2>7. \A s \in Sources : sweep[s].todo \subseteq Inbound
    BY DEF IInv, SweepOK, Sweeps
  <2>8. ~ down' /\ \A s \in Sources : \A n \in sweep'[s].todo : inbound'[n].kind # None
    BY <2>1, <2>2, <2>3, <2>4, <2>7 DEF Attempted
  <2>9. ASSUME NEW n \in Inbound
        PROVE  /\ inbound'[n].attempts <= QUARANTINE_THRESHOLD
               /\ ~ inbound'[n].quarantined => inbound'[n].attempts < QUARANTINE_THRESHOLD
               /\ \A s, t \in Sources : Tries(s, n)' /\ Tries(t, n)' => s = t
               /\ \A t \in Sources : Tries(t, n)' => /\ ~ inbound'[n].quarantined
                                                    /\ sweep'[t].attempts = inbound'[n].attempts
               /\ \A t \in Sources : Failed(t, n)' => Broken(n)'
    BY <2>1, <2>2, <2>3, <2>4, <2>5, <2>6 DEF Attempted, Sources
  <2>10. Attempted'
    BY <2>8, <2>9 DEF Attempted
  <2>11. ASSUME OneBroken' PROVE Counted' /\ pause'.by \notin {SENTINEL_ACTOR, LOCKED_SENTINEL_ACTOR}
    <3>1. OneBroken
      BY <2>6, <2>11 DEF OneBroken
    <3>2. Counted /\ pause'.by \notin {SENTINEL_ACTOR, LOCKED_SENTINEL_ACTOR}
      BY <2>1, <3>1 DEF ContainInv
    <3>3. recentFailures' = recentFailures
      BY <2>1 DEF recentFailures, FailedRows
    <3>4. CASE Broken(m)'
      <4>1. \A n \in Inbound : Broken(n)' => n = m
        BY <2>11, <3>4 DEF OneBroken
      <4>2. recentFailures = 0
        BY <2>6, <3>2, <4>1 DEF Counted
      <4>3. ~ \E s \in Sources : Failed(s, m)'
        BY <2>4, <2>5, <2>6 DEF Attempted
      <4>4. inbound'[m].attempts \in Nat
        BY <2>2, <2>3
      <4>5. recentFailures' <= inbound'[m].attempts + 0
        BY <3>3, <4>2, <4>4
      <4>. QED
        BY <3>2, <3>4, <4>1, <4>3, <4>5 DEF Counted
    <3>5. CASE ~ Broken(m)'
      <4>1. \A n \in Inbound : (Broken(n)' <=> Broken(n)) /\ inbound'[n].attempts = inbound[n].attempts
        BY <2>2, <2>3, <2>6, <3>5 DEF Broken
      <4>. QED
        BY <2>5, <3>2, <3>3, <4>1 DEF Counted
    <3>. QED
      BY <3>4, <3>5
  <2>. QED
    BY <2>10, <2>11
<1>. QED
  BY <1>1, <1>4, <1>5, <1>6, <1>7

LEMMA ContainStep == ASSUME ContainmentAssumption, IInv, ContainInv, [Next]_vars PROVE ContainInv'
<1>1. ASSUME NEW s \in Sources, SweepStep(s) \/ Throws(s) \/ Dies(s) PROVE ContainInv'
  BY <1>1, TurnsAwayStep, DraftMade, CallBegun, CallFailed, FailureRecorded DEF SweepStep, Throws
<1>. QED
  BY <1>1, AnotherStep DEF Next

LEMMA ContainStarts == ASSUME ContainmentAssumption, Init PROVE ContainInv
<1>1. /\ \A s \in Sources, m \in Inbound : ~ Tries(s, m) /\ ~ Failed(s, m)
      /\ \A m \in Inbound : ~ Broken(m)
  BY DEF Init, NotRun, Tries, Failed, Broken, None
<1>2. FailedRows = {}
  BY DEF Init, FailedRows, ContainmentAssumption, DraftingAssumption
<1>3. recentFailures = 0
  BY <1>2, FS_EmptySet DEF recentFailures
<1>4. Attempted
  BY <1>1 DEF Attempted, Init, NotRun, ContainmentAssumption, DraftingAssumption, Sources
<1>. QED
  BY <1>1, <1>3, <1>4 DEF ContainInv, Counted, Init, Running, None, SENTINEL_ACTOR, LOCKED_SENTINEL_ACTOR

\* Whatever the order of sweeps, backfills, pauses and arrivals, one broken inbound message does
\* not fill the breaker's window: it is set aside before (recordInboundDraftFailure,
\* produceDraftFromInbound, evaluateAutoPauseCircuitBreaker).
THEOREM OneBrokenIsContained == ASSUME ContainmentAssumption PROVE Spec => []BrokenIsContained
<1>1. ASSUME ContainInv PROVE BrokenIsContained
  <2>. DEFINE B == {m \in Inbound : inbound[m].kind = "broken"}
  <2>. SUFFICES ASSUME pause.by \in {SENTINEL_ACTOR, LOCKED_SENTINEL_ACTOR}, Cardinality(B) <= 1, ~ excused
                PROVE  FALSE
    BY DEF BrokenIsContained
  <2>1. \A m, n \in B : m = n
    <3>. SUFFICES ASSUME NEW m \in B, NEW n \in B, m # n PROVE FALSE
      OBVIOUS
    <3>1. IsFiniteSet(B)
      BY FS_Subset DEF ContainmentAssumption
    <3>. HIDE DEF B
    <3>2. IsFiniteSet({m}) /\ Cardinality({m}) = 1
      BY FS_Singleton
    <3>3. Cardinality({m} \cup {n}) = 2 /\ {m} \cup {n} \subseteq B
      BY <3>2, FS_AddElement
    <3>4. Cardinality({m} \cup {n}) <= Cardinality(B) /\ Cardinality(B) \in Nat
      BY <3>1, <3>3, FS_Subset, FS_CardinalityType
    <3>. QED
      BY <3>3, <3>4
  <2>2. OneBroken
    BY <2>1 DEF OneBroken, Broken
  <2>. QED
    BY <1>1, <2>2 DEF ContainInv
<1>2. ContainmentAssumption => DraftingAssumption
  BY DEF ContainmentAssumption
<1>3. Init => IInv /\ ContainInv
  BY <1>2, Starts, ContainStarts
<1>4. IInv /\ ContainInv /\ [Next]_vars => (IInv /\ ContainInv)'
  BY <1>2, Step, ContainStep
<1>. QED
  BY <1>1, <1>3, <1>4, PTL DEF Spec
=============================================================================
