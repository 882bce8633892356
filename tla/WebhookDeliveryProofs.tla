------------------------- MODULE WebhookDeliveryProofs -------------------------
(***************************************************************************)
(* Proofs about WebhookDelivery, for any workers, subscriptions and        *)
(* deliveries, any number of attempts, faults and secrets that do not      *)
(* decrypt, with the cron's lock or without it.                            *)
(***************************************************************************)
EXTENDS WebhookDelivery, FiniteSetTheorems, TLAPS

\* A worker is done with a row before its time in flight is over: one POST is cut off after
\* 15 s, and a row is taken for abandoned after 5 min.
DeliveryAssumption ==
    /\ "none" \notin Deliveries /\ SubOf \in [Deliveries -> Subs]
    /\ MaxAttempts \in Nat \ {0} /\ MaxFaults \in Nat /\ MaxFailures \in Nat
    /\ ~ SlowWorkers

Rows == [status : Statuses, attempt : 0 .. MaxAttempts, due : BOOLEAN, stale : BOOLEAN]
Subscriptions == [enabled : BOOLEAN, failures : 0 .. MaxFailures, deleted : BOOLEAN]
States == [pc : Pcs, todo : SUBSET Deliveries, cur : Deliveries \cup {"none"},
           attempt : 0 .. MaxAttempts, enabled : BOOLEAN, ok : BOOLEAN]

Resting == {"idle", "select", "next"}
Working == {"load", "post", "retry", "delivered", "dead"}
Reporting == {"audit", "check", "disable"}
Unsettled == {"none", "PENDING", "IN_FLIGHT"}

\* A worker that has a row in hand locked it, and nothing but a deletion changed it since.
WorkerOK(w) ==
    LET d == worker[w].cur
    IN  /\ worker[w].pc \in Resting <=> d = "none"
        /\ worker[w].pc \in Working => /\ row[d].status \in {"IN_FLIGHT", "gone"} /\ ~ row[d].stale
                                       /\ row[d].status = "gone" => Deleted(SubOf[d])
        /\ worker[w].pc \in Reporting => row[d].status \in Terminal \cup {"gone"}
        /\ worker[w].pc = "retry" => worker[w].attempt < MaxAttempts
        /\ worker[w].pc = "delivered" => received[d] > 0

Alone == \A v, w \in Workers : worker[v].cur = worker[w].cur /\ worker[v].cur # "none" => v = w

Healthy == faults = 0 /\ Undecryptable = {} /\ \A s \in Subs : ~ Deleted(s)

RowOK(d) ==
    /\ row[d].status \in Unsettled \cup {"gone"} => row[d].attempt < MaxAttempts
    /\ row[d].status = "IN_FLIGHT" /\ Healthy => \E w \in Workers : Holds(w, d)

\* A row that may yet be posted counts all its acceptances among those that were not
\* recorded, but for one that a worker is about to record.
CauseOK(d) ==
    /\ received[d] <= 1 + unsure[d]
    /\ \/ row[d].status \in Unsettled
       \/ \E w \in Workers : Holds(w, d) /\ worker[w].pc \in Working
       => \/ \E w \in Workers : Holds(w, d) /\ worker[w].pc = "delivered"
          \/ received[d] <= unsure[d]

IInv == /\ TypeOK /\ Alone
        /\ \A w \in Workers : WorkerOK(w)
        /\ \A d \in Deliveries : RowOK(d) /\ CauseOK(d)
-----------------------------------------------------------------------------
\* The rest of the state keeps its types.
Typed == /\ row \in [Deliveries -> Rows] /\ sub \in [Subs -> Subscriptions]
         /\ worker \in [Workers -> States]
         /\ editing \in [Subs -> {"none", "enabled", "disabled"}]
         /\ received \in [Deliveries -> Nat] /\ unsure \in [Deliveries -> Nat]
         /\ faults \in 0 .. MaxFaults

LEMMA Types == Typed <=> TypeOK
  BY DEF Typed, TypeOK, Rows, Subscriptions, States

\* A worker with nothing in hand, an administrator, an enqueuer, the sweep or the clock
\* moves.  A row either stays, or it is in nobody's hands and does not become unsettled or
\* in flight, or its subscription has been deleted.
LEMMA WorldMoves ==
    ASSUME DeliveryAssumption, IInv, Typed', UNCHANGED <<received, unsure>>,
           \A v \in Workers :
              \/ /\ worker'[v].cur = worker[v].cur /\ worker'[v].pc = worker[v].pc
                 /\ worker'[v].attempt = worker[v].attempt
              \/ /\ worker[v].pc \in Resting /\ worker'[v].pc \in Resting
                 /\ worker'[v].cur = "none",
           \A s \in Subs : Deleted(s) => Deleted(s)',
           faults' = 0 => faults = 0,
           \A d \in Deliveries :
              \/ row'[d] = row[d]
              \/ /\ \A v \in Workers : ~ Holds(v, d)
                 /\ row'[d].status = "IN_FLIGHT" => row[d].status = "IN_FLIGHT"
                 /\ row'[d].status \in Unsettled => row[d].status \in Unsettled
                 /\ row'[d].status \in Unsettled \cup {"gone"} => row'[d].attempt < MaxAttempts
              \/ row'[d] = GoneRow /\ Deleted(SubOf[d])'
    PROVE  IInv'
<1>0. /\ \A v \in Workers : WorkerOK(v)
      /\ \A d \in Deliveries : RowOK(d) /\ CauseOK(d)
      /\ \A v \in Workers : worker[v].cur \in Deliveries \cup {"none"}
      /\ Healthy' => Healthy
      /\ \A d \in Deliveries : SubOf[d] \in Subs
      /\ GoneRow.status = "gone" /\ GoneRow.stale = FALSE /\ GoneRow.attempt = 0
      /\ 0 < MaxAttempts
  BY Types DEF IInv, Typed, States, Healthy, DeliveryAssumption, GoneRow, NoRow
<1>1. TypeOK' /\ Typed
  BY Types DEF IInv, Typed, TypeOK, Rows, Subscriptions, States
<1>2. \A v \in Workers : worker'[v].cur = worker[v].cur
  BY <1>0 DEF WorkerOK
<1>3. Alone'
  BY <1>2 DEF IInv, Alone
<1>4. \A v \in Workers, d \in Deliveries : Holds(v, d)' <=> Holds(v, d)
  BY <1>2 DEF Holds
<1>5. \A v \in Workers : worker[v].cur # "none" => worker'[v].pc = worker[v].pc
  BY <1>0 DEF WorkerOK
<1>6. ASSUME NEW v \in Workers PROVE WorkerOK(v)'
  <2>0. PICK d \in Deliveries \cup {"none"} : worker[v].cur = d /\ worker'[v].cur = d
    BY <1>0, <1>2
  <2>1. CASE d = "none"
    <3>1. worker'[v].pc \in Resting
      BY <1>0, <2>0, <2>1 DEF WorkerOK
    <3>. QED
      BY <2>0, <2>1, <3>1 DEF WorkerOK, Resting, Working, Reporting
  <2>2. CASE d # "none"
    <3>1. d \in Deliveries /\ worker[v].pc \notin Resting
      BY <1>0, <2>0, <2>2 DEF WorkerOK
    <3>2. worker'[v].pc = worker[v].pc /\ worker'[v].attempt = worker[v].attempt
      BY <3>1
    <3>3. row'[d] = row[d] \/ (row'[d] = GoneRow /\ Deleted(SubOf[d])')
      BY <2>0, <3>1 DEF Holds
    <3>4. Deleted(SubOf[d]) => Deleted(SubOf[d])'
      BY <1>0, <3>1
    <3>. QED
      BY <1>0, <2>0, <3>1, <3>2, <3>3, <3>4 DEF WorkerOK
  <2>. QED
    BY <2>1, <2>2
<1>7. ASSUME NEW d \in Deliveries PROVE RowOK(d)'
  BY <1>0, <1>4 DEF RowOK, Unsettled
<1>8. ASSUME NEW d \in Deliveries PROVE CauseOK(d)'
  BY <1>0, <1>4, <1>5 DEF CauseOK, Holds, Unsettled, DeliveryAssumption
<1>. QED
  BY <1>1, <1>3, <1>6, <1>7, <1>8 DEF IInv

\* Only the worker w and the delivery d are concerned.
Others(w, d) ==
    /\ \A v \in Workers \ {w} : worker'[v] = worker[v]
    /\ \A e \in Deliveries \ {d} : /\ row'[e] = row[e]
                                   /\ received'[e] = received[e] /\ unsure'[e] = unsure[e]
    /\ \A s \in Subs : Deleted(s)' <=> Deleted(s)
    /\ faults' = 0 => faults = 0

\* A worker takes the delivery d, moves on with it, or lets go of it, and nobody else has d
\* in hand.
LEMMA WorkerMoves ==
    ASSUME DeliveryAssumption, IInv, Typed', NEW w \in Workers, NEW d \in Deliveries,
           Others(w, d),
           worker[w].cur \in {d, "none"}, worker'[w].cur \in {d, "none"},
           \A v \in Workers \ {w} : ~ Holds(v, d),
           WorkerOK(w)',
           row'[d].status \in Unsettled \cup {"gone"} => row'[d].attempt < MaxAttempts,
           row'[d].status = "IN_FLIGHT" /\ Healthy' => worker'[w].cur = d,
           received'[d] <= 1 + unsure'[d],
           \/ received'[d] <= unsure'[d]
           \/ worker'[w].cur = d /\ worker'[w].pc = "delivered"
           \/ row'[d].status \notin Unsettled /\ (worker'[w].cur = d => worker'[w].pc \notin Working)
    PROVE  IInv'
<1>0. /\ \A v \in Workers : WorkerOK(v)
      /\ \A e \in Deliveries : RowOK(e) /\ CauseOK(e)
      /\ \A v \in Workers : worker[v].cur \in Deliveries \cup {"none"}
      /\ Healthy' => Healthy
      /\ \A e \in Deliveries : SubOf[e] \in Subs
      /\ "none" \notin Deliveries
  BY Types DEF IInv, Typed, States, Healthy, DeliveryAssumption, Others
<1>1. TypeOK'
  BY Types DEF Typed, TypeOK, Rows, Subscriptions, States
<1>2. /\ \A v \in Workers \ {w} : worker'[v] = worker[v]
      /\ \A e \in Deliveries \ {d} : /\ row'[e] = row[e]
                                     /\ received'[e] = received[e] /\ unsure'[e] = unsure[e]
      /\ \A s \in Subs : Deleted(s)' <=> Deleted(s)
  BY DEF Others
<1>3. Alone'
  BY <1>2 DEF IInv, Alone, Holds
<1>4. \A e \in Deliveries \ {d}, v \in Workers : Holds(v, e)' <=> Holds(v, e)
  BY <1>0, <1>2 DEF Holds
<1>5. \A v \in Workers \ {w} : ~ Holds(v, d)'
  BY <1>2 DEF Holds
<1>6. ASSUME NEW v \in Workers PROVE WorkerOK(v)'
  <2>1. CASE v = w
    BY <2>1
  <2>2. CASE v # w
    <3>1. PICK e \in Deliveries \cup {"none"} : worker[v].cur = e /\ worker'[v].cur = e
      BY <1>0, <1>2, <2>2
    <3>2. e # d
      BY <2>2, <3>1 DEF Holds
    <3>3. CASE e = "none"
      BY <1>0, <1>2, <2>2, <3>1, <3>3 DEF WorkerOK, Resting, Working, Reporting
    <3>4. CASE e \in Deliveries
      <4>1. row'[e] = row[e] /\ received'[e] = received[e]
        BY <1>2, <3>2, <3>4
      <4>2. Deleted(SubOf[e]) => Deleted(SubOf[e])'
        BY <1>0, <1>2, <3>4
      <4>. QED
        BY <1>0, <1>2, <2>2, <3>1, <4>1, <4>2 DEF WorkerOK
    <3>. QED
      BY <3>3, <3>4
  <2>. QED
    BY <2>1, <2>2
<1>7. ASSUME NEW e \in Deliveries PROVE RowOK(e)' /\ CauseOK(e)'
  <2>1. CASE e = d
    <3>1. RowOK(d)'
      BY <1>2 DEF RowOK, Holds
    <3>2. CauseOK(d)'
      BY <1>2, <1>5 DEF CauseOK, Holds
    <3>. QED
      BY <2>1, <3>1, <3>2
  <2>2. CASE e # d
    <3>1. row'[e] = row[e] /\ received'[e] = received[e] /\ unsure'[e] = unsure[e]
      BY <1>2, <2>2
    <3>2. \A v \in Workers : Holds(v, e)' <=> Holds(v, e)
      BY <1>4, <2>2
    <3>3. \A v \in Workers : Holds(v, e) => v # w
      BY <1>0, <2>2 DEF Holds
    <3>4. \A v \in Workers : Holds(v, e) => worker'[v].pc = worker[v].pc
      BY <1>2, <3>3
    <3>5. RowOK(e)'
      BY <1>0, <3>1, <3>2 DEF RowOK
    <3>6. CauseOK(e)'
      BY <1>0, <3>1, <3>2, <3>4 DEF CauseOK
    <3>. QED
      BY <3>5, <3>6
  <2>. QED
    BY <2>1, <2>2
<1>. QED
  BY <1>1, <1>3, <1>6, <1>7 DEF IInv
-----------------------------------------------------------------------------
\* A row in somebody's hands is in flight and not stale, settled, or gone.
LEMMA Held ==
    ASSUME DeliveryAssumption, IInv, NEW v \in Workers, NEW d \in Deliveries, Holds(v, d)
    PROVE  /\ worker[v].pc \in Working \cup Reporting
           /\ row[d].status \in {"IN_FLIGHT", "gone"} \cup Terminal
           /\ ~ (row[d].status = "IN_FLIGHT" /\ row[d].stale)
<1>1. WorkerOK(v) /\ worker[v].cur = d /\ d # "none"
  BY DEF IInv, Holds, DeliveryAssumption
<1>2. worker[v].pc \in Pcs
  BY Types DEF IInv, Typed, States
<1>3. worker[v].pc \in Working \cup Reporting
  <2>1. worker[v].pc \notin Resting
    BY <1>1 DEF WorkerOK
  <2>. QED
    BY <1>2, <2>1 DEF Pcs, Resting, Working, Reporting
<1>. QED
  BY <1>1, <1>3 DEF WorkerOK, Terminal

\* A batch between its deliveries.
LEMMA RestingStep ==
    ASSUME DeliveryAssumption, IInv, NEW w \in Workers, NEW x \in States,
           worker' = [worker EXCEPT ![w] = x],
           worker[w].pc \in Resting, x.pc \in Resting, x.cur = "none",
           UNCHANGED <<sub, editing, received, unsure>>,
           faults' \in 0 .. MaxFaults, faults' = 0 => faults = 0,
           \/ UNCHANGED row
           \/ row' = [d \in Deliveries |-> IF row[d].status = "IN_FLIGHT" /\ row[d].stale
                                           THEN [row[d] EXCEPT !.status = "PENDING", !.stale = FALSE]
                                           ELSE row[d]]
    PROVE  IInv'
<1>0. Typed /\ \A v \in Workers : WorkerOK(v)
  BY Types DEF IInv
<1>1. /\ worker' \in [Workers -> States] /\ worker'[w] = x
      /\ \A v \in Workers \ {w} : worker'[v] = worker[v]
  BY <1>0 DEF Typed
<1>2. /\ row' \in [Deliveries -> Rows]
      /\ \A d \in Deliveries :
            \/ row'[d] = row[d]
            \/ row[d].status = "IN_FLIGHT" /\ row[d].stale /\ row'[d].status = "PENDING"
               /\ row'[d].attempt = row[d].attempt
  <2>. DEFINE Back(r) == [r EXCEPT !.status = "PENDING", !.stale = FALSE]
  <2>1. \A r \in Rows : /\ Back(r) \in Rows
                        /\ Back(r).status = "PENDING" /\ Back(r).attempt = r.attempt
    BY DEF Rows, Statuses
  <2>. HIDE DEF Back
  <2>2. \A d \in Deliveries : row[d] \in Rows
    BY <1>0 DEF Typed
  <2>3. CASE UNCHANGED row
    BY <1>0, <2>3 DEF Typed
  <2>4. CASE row' = [d \in Deliveries |-> IF row[d].status = "IN_FLIGHT" /\ row[d].stale
                                         THEN [row[d] EXCEPT !.status = "PENDING", !.stale = FALSE]
                                         ELSE row[d]]
    <3>1. ASSUME NEW d \in Deliveries
          PROVE  /\ row'[d] \in Rows
                 /\ \/ row'[d] = row[d]
                    \/ row[d].status = "IN_FLIGHT" /\ row[d].stale /\ row'[d].status = "PENDING"
                       /\ row'[d].attempt = row[d].attempt
      <4>1. CASE row[d].status = "IN_FLIGHT" /\ row[d].stale
        <5>1. row'[d] = Back(row[d])
          BY <2>4, <4>1 DEF Back
        <5>2. /\ Back(row[d]) \in Rows /\ Back(row[d]).status = "PENDING"
              /\ Back(row[d]).attempt = row[d].attempt
          BY <2>1, <2>2, Zenon
        <5>. QED
          BY <4>1, <5>1, <5>2, Zenon
      <4>2. CASE ~ (row[d].status = "IN_FLIGHT" /\ row[d].stale)
        BY <2>2, <2>4, <4>2
      <4>. QED
        BY <4>1, <4>2
    <3>2. row' = [d \in Deliveries |-> row'[d]]
      BY <2>4
    <3>. QED
      BY <3>1, <3>2
  <2>. QED
    BY <2>3, <2>4
<1>3. \A d \in Deliveries : row[d].status = "IN_FLIGHT" /\ row[d].stale
                              => \A v \in Workers : ~ Holds(v, d)
  BY Held
<1>4. \A d \in Deliveries : row[d].status = "IN_FLIGHT" => row[d].attempt < MaxAttempts
  BY DEF IInv, RowOK, Unsettled
<1>5. Typed'
  BY <1>0, <1>1, <1>2 DEF Typed
<1>6. \A d \in Deliveries :
         \/ row'[d] = row[d]
         \/ /\ \A v \in Workers : ~ Holds(v, d)
            /\ row'[d].status = "IN_FLIGHT" => row[d].status = "IN_FLIGHT"
            /\ row'[d].status \in Unsettled => row[d].status \in Unsettled
            /\ row'[d].status \in Unsettled \cup {"gone"} => row'[d].attempt < MaxAttempts
  BY <1>2, <1>3, <1>4 DEF Unsettled
<1>7. \A s \in Subs : Deleted(s) => Deleted(s)'
  BY DEF Deleted
<1>. QED
  BY <1>1, <1>5, <1>6, <1>7, WorldMoves

LEMMA BatchStep ==
    ASSUME DeliveryAssumption, IInv, NEW w \in Workers,
           StartBatch(w) \/ Select(w) \/ EndBatch(w)
    PROVE  IInv'
<1>0. /\ worker \in [Workers -> States] /\ worker[w] \in States /\ WorkerOK(w)
      /\ faults \in 0 .. MaxFaults
      /\ UNCHANGED <<sub, editing, received, unsure, faults>>
  BY Types DEF IInv, Typed, StartBatch, Select, EndBatch
<1>1. worker[w].pc \in Resting /\ worker[w].cur = "none"
  BY <1>0 DEF StartBatch, Select, EndBatch, WorkerOK, Resting
<1>2. CASE StartBatch(w)
  <2>. DEFINE x == [worker[w] EXCEPT !.pc = "select"]
  <2>1. x \in States /\ x.pc \in Resting /\ x.cur = "none"
    BY <1>0, <1>1 DEF States, Pcs, Resting
  <2>2. worker' = [worker EXCEPT ![w] = x]
    BY <1>2 DEF StartBatch, Step
  <2>3. row' = [d \in Deliveries |-> IF row[d].status = "IN_FLIGHT" /\ row[d].stale
                                     THEN [row[d] EXCEPT !.status = "PENDING", !.stale = FALSE]
                                     ELSE row[d]]
    BY <1>2 DEF StartBatch
  <2>. HIDE DEF x
  <2>. QED
    BY <1>0, <1>1, <2>1, <2>2, <2>3, RestingStep
<1>3. CASE Select(w)
  <2>. DEFINE T == {d \in Deliveries : row[d].status = "PENDING" /\ row[d].due}
              x == [worker[w] EXCEPT !.pc = "next", !.todo = T]
  <2>1. x \in States /\ x.pc \in Resting /\ x.cur = "none"
    <3>1. \A S \in SUBSET Deliveries : LET y == [worker[w] EXCEPT !.pc = "next", !.todo = S]
                                       IN  y \in States /\ y.pc \in Resting /\ y.cur = "none"
      BY <1>0, <1>1 DEF States, Pcs, Resting
    <3>2. T \in SUBSET Deliveries
      OBVIOUS
    <3>. QED
      BY <3>1, <3>2, Zenon
  <2>2. worker' = [worker EXCEPT ![w] = x] /\ UNCHANGED row
    BY <1>0, <1>3 DEF Select
  <2>. HIDE DEF x
  <2>. QED
    BY <1>0, <1>1, <2>1, <2>2, RestingStep
<1>4. CASE EndBatch(w)
  <2>1. Idle \in States /\ Idle.pc \in Resting /\ Idle.cur = "none"
    BY DEF Idle, States, Pcs, Resting, DeliveryAssumption
  <2>2. worker' = [worker EXCEPT ![w] = Idle] /\ UNCHANGED row
    BY <1>4 DEF EndBatch
  <2>. QED
    BY <1>0, <1>1, <2>1, <2>2, RestingStep
<1>. QED
  BY <1>2, <1>3, <1>4

\* The rows and the subscriptions as others change them.
LEMMA OutsideStep ==
    ASSUME DeliveryAssumption, IInv,
           \/ \E d \in Deliveries : Enqueue(d) \/ BackoffElapses(d) \/ GoesStale(d) \/ Reap(d)
           \/ \E s \in Subs : ReadForUpdate(s) \/ UpdateSubscription(s) \/ DeleteSubscription(s)
    PROVE  IInv'
<1>0. /\ Typed /\ \A v \in Workers : WorkerOK(v)
      /\ \A d \in Deliveries : RowOK(d)
      /\ \A d \in Deliveries : SubOf[d] \in Subs
  BY Types DEF IInv, DeliveryAssumption
<1>. /\ 0 < MaxAttempts /\ NoRow \in Rows /\ NoRow.attempt = 0
     /\ GoneRow \in Rows /\ GoneRow.status = "gone" /\ GoneRow.attempt = 0
  <2>1. 0 \in 0 .. MaxAttempts /\ 0 < MaxAttempts
    BY DEF DeliveryAssumption
  <2>2. NoRow \in Rows /\ NoRow.attempt = 0
    BY <2>1 DEF NoRow, Rows, Statuses
  <2>3. \A x \in Rows : LET y == [x EXCEPT !.status = "gone"]
                        IN  y \in Rows /\ y.status = "gone" /\ y.attempt = x.attempt
    BY DEF Rows, Statuses
  <2>4. GoneRow \in Rows /\ GoneRow.status = "gone" /\ GoneRow.attempt = 0
    BY <2>2, <2>3, Zenon DEF GoneRow
  <2>. QED
    BY <2>1, <2>2, <2>4
<1>1. UNCHANGED <<worker, received, unsure, faults>>
  BY DEF Enqueue, BackoffElapses, GoesStale, Reap, ReadForUpdate, UpdateSubscription,
         DeleteSubscription
<1>2. \A v \in Workers, d \in Deliveries : Holds(v, d) => row[d].status \in {"IN_FLIGHT", "gone"} \cup Terminal
  BY Held
<1>3. ASSUME NEW d \in Deliveries, NEW r \in Rows, row' = [row EXCEPT ![d] = r], UNCHANGED <<sub, editing>>,
             \A v \in Workers : ~ Holds(v, d),
             r.status = "IN_FLIGHT" => row[d].status = "IN_FLIGHT",
             r.status \in Unsettled => row[d].status \in Unsettled,
             r.status \in Unsettled \cup {"gone"} => r.attempt < MaxAttempts
      PROVE  IInv'
  <2>1. Typed' /\ \A e \in Deliveries : row'[e] = IF e = d THEN r ELSE row[e]
    BY <1>0, <1>1, <1>3 DEF Typed
  <2>2. \A s \in Subs : Deleted(s) => Deleted(s)'
    BY <1>3 DEF Deleted
  <2>. QED
    BY <1>1, <1>3, <2>1, <2>2, WorldMoves
<1>4. ASSUME NEW d \in Deliveries, Enqueue(d) PROVE IInv'
  <2>. DEFINE r == [NoRow EXCEPT !.status = "PENDING", !.due = TRUE]
  <2>1. r \in Rows /\ r.status = "PENDING" /\ r.attempt = 0
    <3>1. \A x \in Rows : LET y == [x EXCEPT !.status = "PENDING", !.due = TRUE]
                          IN  y \in Rows /\ y.status = "PENDING" /\ y.attempt = x.attempt
      BY DEF Rows, Statuses
    <3>. QED
      BY <3>1
  <2>2. \A v \in Workers : ~ Holds(v, d)
    BY <1>2, <1>4 DEF Enqueue, Terminal
  <2>3. row' = [row EXCEPT ![d] = r] /\ row[d].status = "none" /\ UNCHANGED <<sub, editing>>
    BY <1>4 DEF Enqueue
  <2>. HIDE DEF r
  <2>. QED
    BY <1>3, <2>1, <2>2, <2>3 DEF Unsettled
<1>5. ASSUME NEW d \in Deliveries, BackoffElapses(d) PROVE IInv'
  <2>. DEFINE r == [row[d] EXCEPT !.due = TRUE]
  <2>1. r \in Rows /\ r.status = "PENDING" /\ r.attempt = row[d].attempt
    BY <1>0, <1>5 DEF Typed, Rows, BackoffElapses
  <2>2. \A v \in Workers : ~ Holds(v, d)
    BY <1>2, <1>5 DEF BackoffElapses, Terminal
  <2>3. row' = [row EXCEPT ![d] = r] /\ row[d].status = "PENDING" /\ UNCHANGED <<sub, editing>>
    BY <1>5 DEF BackoffElapses
  <2>. HIDE DEF r
  <2>. QED
    BY <1>0, <1>3, <2>1, <2>2, <2>3 DEF Unsettled, RowOK
<1>6. ASSUME NEW d \in Deliveries, GoesStale(d) PROVE IInv'
  <2>. DEFINE r == [row[d] EXCEPT !.stale = TRUE]
  <2>1. r \in Rows /\ r.status = "IN_FLIGHT" /\ r.attempt = row[d].attempt
    BY <1>0, <1>6 DEF Typed, Rows, GoesStale
  <2>2. \A v \in Workers : ~ Holds(v, d)
    BY <1>6 DEF GoesStale, DeliveryAssumption
  <2>3. row' = [row EXCEPT ![d] = r] /\ row[d].status = "IN_FLIGHT" /\ UNCHANGED <<sub, editing>>
    BY <1>6 DEF GoesStale
  <2>. HIDE DEF r
  <2>. QED
    BY <1>0, <1>3, <2>1, <2>2, <2>3 DEF Unsettled, RowOK
<1>7. ASSUME NEW d \in Deliveries, Reap(d) PROVE IInv'
  <2>1. /\ row' = [row EXCEPT ![d] = GoneRow] /\ UNCHANGED <<sub, editing>>
        /\ \A v \in Workers : ~ Holds(v, d)
    BY <1>7 DEF Reap
  <2>. QED
    BY <1>0, <1>3, <2>1 DEF Unsettled
<1>8. ASSUME NEW s \in Subs, ReadForUpdate(s) \/ UpdateSubscription(s) PROVE IInv'
  <2>1. UNCHANGED row
    BY <1>8 DEF ReadForUpdate, UpdateSubscription
  <2>2. editing' \in [Subs -> {"none", "enabled", "disabled"}]
    BY <1>0, <1>8 DEF ReadForUpdate, UpdateSubscription, Typed
  <2>3. sub' \in [Subs -> Subscriptions] /\ \A z \in Subs : Deleted(z)' <=> Deleted(z)
    <3>1. CASE UNCHANGED sub
      BY <1>0, <3>1 DEF Typed, Deleted
    <3>2. CASE UpdateSubscription(s)
      <4>1. PICK e \in BOOLEAN, n \in 0 .. MaxFailures :
               sub' = [sub EXCEPT ![s].enabled = e, ![s].failures = n]
        <5>1. PICK e \in BOOLEAN :
                 sub' = [sub EXCEPT ![s].enabled = e,
                                    ![s].failures = IF e /\ editing[s] = "disabled" THEN 0 ELSE @]
          BY <3>2 DEF UpdateSubscription
        <5>2. sub[s].failures \in 0 .. MaxFailures /\ 0 \in 0 .. MaxFailures
          BY <1>0 DEF Typed, Subscriptions, DeliveryAssumption
        <5>3. CASE e /\ editing[s] = "disabled"
          BY <5>1, <5>2, <5>3
        <5>4. CASE ~ (e /\ editing[s] = "disabled")
          BY <1>0, <5>1, <5>2, <5>4 DEF Typed
        <5>. QED
          BY <5>3, <5>4
      <4>. QED
        BY <1>0, <4>1, ZenonT(60) DEF Typed, Subscriptions, Deleted
    <3>. QED
      BY <1>8, <3>1, <3>2 DEF ReadForUpdate
  <2>4. Typed'
    BY <1>0, <1>1, <2>1, <2>2, <2>3 DEF Typed
  <2>. QED
    BY <1>1, <2>1, <2>3, <2>4, WorldMoves
<1>9. ASSUME NEW s \in Subs, DeleteSubscription(s) PROVE IInv'
  <2>1. /\ row' \in [Deliveries -> Rows]
        /\ \A d \in Deliveries : row'[d] = row[d] \/ (row'[d] = GoneRow /\ SubOf[d] = s)
    BY <1>0, <1>9 DEF DeleteSubscription, Typed
  <2>2. /\ sub' \in [Subs -> Subscriptions] /\ Deleted(s)'
        /\ \A z \in Subs : Deleted(z) => Deleted(z)'
    <3>1. \A b \in Subscriptions : LET y == [b EXCEPT !.deleted = TRUE]
                                   IN  y \in Subscriptions /\ y.deleted = TRUE
      BY DEF Subscriptions
    <3>2. sub' = [sub EXCEPT ![s] = [sub[s] EXCEPT !.deleted = TRUE]]
      BY <1>9 DEF DeleteSubscription
    <3>. QED
      BY <1>0, <3>1, <3>2 DEF Typed, Deleted
  <2>3. editing' \in [Subs -> {"none", "enabled", "disabled"}]
    BY <1>0, <1>9 DEF DeleteSubscription, Typed
  <2>4. Typed'
    BY <1>0, <1>1, <2>1, <2>2, <2>3 DEF Typed
  <2>5. \A d \in Deliveries : row'[d] = row[d] \/ (row'[d] = GoneRow /\ Deleted(SubOf[d])')
    BY <2>1, <2>2
  <2>. QED
    BY <1>1, <2>2, <2>4, <2>5, WorldMoves
<1>. QED
  BY <1>4, <1>5, <1>6, <1>7, <1>8, <1>9
-----------------------------------------------------------------------------
\* What a worker with a delivery in hand knows about it.
LEMMA AtWork ==
    ASSUME DeliveryAssumption, IInv, NEW w \in Workers, worker[w].pc \notin Resting
    PROVE  \E d \in Deliveries :
              /\ worker[w].cur = d /\ SubOf[d] \in Subs /\ row[d] \in Rows
              /\ \A v \in Workers \ {w} : ~ Holds(v, d)
              /\ received[d] \in Nat /\ unsure[d] \in Nat /\ received[d] <= 1 + unsure[d]
              /\ worker[w].pc \in Working \ {"delivered"} => received[d] <= unsure[d]
              /\ worker[w].pc \in Working => row[d].status \in {"IN_FLIGHT", "gone"} /\ ~ row[d].stale
              /\ worker[w].pc \in Working /\ row[d].status = "gone" => Deleted(SubOf[d])
              /\ worker[w].pc \in Reporting => row[d].status \in Terminal \cup {"gone"}
              /\ row[d].status \in Unsettled \cup {"gone"} => row[d].attempt < MaxAttempts
<1>1. Typed /\ WorkerOK(w)
  BY Types DEF IInv
<1>2. PICK d \in Deliveries : worker[w].cur = d
  BY <1>1 DEF WorkerOK, Typed, States
<1>3. \A v \in Workers \ {w} : ~ Holds(v, d)
  BY <1>2 DEF IInv, Alone, Holds, DeliveryAssumption
<1>4. RowOK(d) /\ CauseOK(d)
  BY DEF IInv
<1>5. worker[w].pc \in Working \ {"delivered"} => received[d] <= unsure[d]
  BY <1>2, <1>3, <1>4 DEF CauseOK, Holds
<1>6. SubOf[d] \in Subs /\ row[d] \in Rows /\ received[d] \in Nat /\ unsure[d] \in Nat
  BY <1>1 DEF Typed, DeliveryAssumption
<1>7. received[d] <= 1 + unsure[d] /\ (row[d].status \in Unsettled \cup {"gone"} => row[d].attempt < MaxAttempts)
  BY <1>4 DEF RowOK, CauseOK
<1>8. /\ worker[w].pc \in Working => row[d].status \in {"IN_FLIGHT", "gone"} /\ ~ row[d].stale
      /\ worker[w].pc \in Working /\ row[d].status = "gone" => Deleted(SubOf[d])
      /\ worker[w].pc \in Reporting => row[d].status \in Terminal \cup {"gone"}
  BY <1>1, <1>2 DEF WorkerOK
<1>. QED
  BY <1>2, <1>3, <1>5, <1>6, <1>7, <1>8

\* A row is locked while it is pending, so by one worker.
LEMMA LockStep ==
    ASSUME DeliveryAssumption, IInv, NEW w \in Workers, LockDelivery(w)
    PROVE  IInv'
<1>0. /\ Typed /\ worker[w] \in States /\ worker[w].pc = "next" /\ worker[w].cur = "none"
      /\ UNCHANGED <<sub, editing, received, unsure, faults>>
  BY Types DEF IInv, Typed, LockDelivery, WorkerOK, Resting
<1>1. PICK d \in worker[w].todo :
         IF row[d].status = "PENDING" /\ row[d].due
         THEN /\ row' = [row EXCEPT ![d].status = "IN_FLIGHT", ![d].stale = FALSE]
              /\ worker' = [worker EXCEPT ![w].pc = "load", ![w].cur = d, ![w].todo = @ \ {d}]
         ELSE /\ worker' = [worker EXCEPT ![w].todo = @ \ {d}]
              /\ UNCHANGED row
  BY DEF LockDelivery
<1>. DEFINE T == worker[w].todo \ {d}
<1>2. d \in Deliveries /\ T \in SUBSET Deliveries
  BY <1>0 DEF States
<1>3. CASE row[d].status = "PENDING" /\ row[d].due
  <2>. DEFINE x == [worker[w] EXCEPT !.pc = "load", !.cur = d, !.todo = T]
              Taken(r) == [r EXCEPT !.status = "IN_FLIGHT", !.stale = FALSE]
  <2>1. x \in States /\ x.pc = "load" /\ x.cur = d
    <3>1. \A S \in SUBSET Deliveries :
             LET y == [worker[w] EXCEPT !.pc = "load", !.cur = d, !.todo = S]
             IN  y \in States /\ y.pc = "load" /\ y.cur = d
      BY <1>0, <1>2 DEF States, Pcs
    <3>. QED
      BY <1>2, <3>1, Zenon
  <2>2. worker' = [worker EXCEPT ![w] = x] /\ row' = [row EXCEPT ![d] = Taken(row[d])]
    BY <1>0, <1>1, <1>2, <1>3 DEF Typed
  <2>3. \A r \in Rows : /\ Taken(r) \in Rows /\ Taken(r).status = "IN_FLIGHT"
                        /\ ~ Taken(r).stale /\ Taken(r).attempt = r.attempt
    BY DEF Rows, Statuses
  <2>. HIDE DEF x, T, Taken
  <2>4. row[d] \in Rows
    BY <1>0, <1>2 DEF Typed
  <2>5. /\ row' \in [Deliveries -> Rows] /\ row'[d].status = "IN_FLIGHT" /\ ~ row'[d].stale
        /\ row'[d].attempt = row[d].attempt
        /\ \A e \in Deliveries \ {d} : row'[e] = row[e]
    <3>1. Taken(row[d]) \in Rows /\ row'[d] = Taken(row[d])
      BY <1>0, <1>2, <2>2, <2>3, <2>4 DEF Typed
    <3>. QED
      BY <1>0, <1>2, <2>2, <2>3, <2>4, <3>1 DEF Typed
  <2>6. worker' \in [Workers -> States] /\ worker'[w] = x
    BY <1>0, <2>1, <2>2 DEF Typed
  <2>7. Typed'
    BY <1>0, <2>5, <2>6 DEF Typed
  <2>8. \A v \in Workers : ~ Holds(v, d)
    BY <1>2, <1>3, Held DEF Terminal
  <2>9. RowOK(d) /\ CauseOK(d)
    BY <1>2 DEF IInv
  <2>10. received[d] \in Nat /\ unsure[d] \in Nat /\ received[d] <= unsure[d] /\ row[d].attempt < MaxAttempts
    BY <1>0, <1>2, <1>3, <2>8, <2>9 DEF CauseOK, RowOK, Unsettled, Typed
  <2>11. WorkerOK(w)'
    BY <1>2, <2>1, <2>5, <2>6 DEF WorkerOK, Resting, Working, Reporting, DeliveryAssumption
  <2>12. \A s \in Subs : Deleted(s)' <=> Deleted(s)
    BY <1>0 DEF Deleted
  <2>13. received'[d] <= unsure'[d] /\ received'[d] <= 1 + unsure'[d]
    BY <1>0, <2>10
  <2>14. \A e \in Deliveries \ {d} : /\ row'[e] = row[e]
                                     /\ received'[e] = received[e] /\ unsure'[e] = unsure[e]
    BY <1>0, <2>5
  <2>15. row'[d].status \in Unsettled \cup {"gone"} => row'[d].attempt < MaxAttempts
    BY <2>5, <2>10
  <2>16. Others(w, d)
    BY <1>0, <2>2, <2>12, <2>14 DEF Others, Typed
  <2>. QED
    BY <1>0, <1>2, <2>1, <2>6, <2>7, <2>8, <2>11, <2>13, <2>15, <2>16, WorkerMoves
<1>4. CASE ~ (row[d].status = "PENDING" /\ row[d].due)
  <2>. DEFINE x == [worker[w] EXCEPT !.todo = T]
  <2>1. x \in States /\ x.pc = "next" /\ x.cur = "none"
    BY <1>0, <1>2 DEF States
  <2>2. worker' = [worker EXCEPT ![w] = x] /\ UNCHANGED row
    BY <1>1, <1>4
  <2>3. faults' \in 0 .. MaxFaults
    BY <1>0 DEF Typed
  <2>. HIDE DEF x
  <2>. QED
    BY <1>0, <2>1, <2>2, <2>3, RestingStep DEF Resting
<1>. QED
  BY <1>3, <1>4

\* A worker goes on with the delivery d that it has in hand, or lets go of it.
LEMMA HandStep ==
    ASSUME DeliveryAssumption, IInv, NEW w \in Workers, worker[w].pc \notin Resting,
           NEW d \in Deliveries, worker[w].cur = d,
           Typed', Others(w, d),
           worker'[w].cur \in {d, "none"}, worker'[w].pc \in Resting <=> worker'[w].cur = "none",
           worker'[w].pc \in Working => row'[d].status \in {"IN_FLIGHT", "gone"} /\ ~ row'[d].stale,
           worker'[w].pc \in Working /\ row'[d].status = "gone" => Deleted(SubOf[d]),
           worker'[w].pc \in Reporting => row'[d].status \in Terminal \cup {"gone"},
           worker'[w].pc = "retry" => worker'[w].attempt < MaxAttempts,
           worker'[w].pc = "delivered" => received'[d] > 0,
           row'[d].status \in Unsettled \cup {"gone"} => row'[d].attempt < MaxAttempts,
           row'[d].status = "IN_FLIGHT" /\ Healthy' => worker'[w].cur = d,
           received'[d] <= 1 + unsure'[d],
           \/ received'[d] <= unsure'[d]
           \/ worker'[w].pc = "delivered"
           \/ row'[d].status \notin Unsettled /\ worker'[w].pc \notin Working
    PROVE  IInv'
<1>0. Typed /\ SubOf[d] \in Subs /\ d # "none"
  BY Types DEF IInv, DeliveryAssumption
<1>1. PICK x \in States : worker'[w] = x /\ worker' = [worker EXCEPT ![w] = x]
  BY <1>0 DEF Typed, Others
<1>2. x.cur \in {d, "none"} /\ (row'[d].status = "IN_FLIGHT" /\ Healthy' => x.cur = d)
  BY <1>1
<1>4. \A v \in Workers \ {w} : ~ Holds(v, d)
  BY <1>0 DEF IInv, Alone, Holds
<1>5. Deleted(SubOf[d])' <=> Deleted(SubOf[d])
  BY <1>0 DEF Others
<1>6. WorkerOK(w)'
  <2>1. CASE x.cur = d
    BY <1>0, <1>1, <1>5, <2>1 DEF WorkerOK
  <2>2. CASE x.cur = "none"
    <3>1. x.pc \in Resting
      BY <1>1, <2>2
    <3>. QED
      BY <1>1, <2>2, <3>1 DEF WorkerOK, Resting, Working, Reporting
  <2>. QED
    BY <1>2, <2>1, <2>2
<1>8. \/ received'[d] <= unsure'[d]
      \/ x.cur = d /\ x.pc = "delivered"
      \/ row'[d].status \notin Unsettled /\ (x.cur = d => x.pc \notin Working)
  BY <1>1 DEF Resting
<1>. QED
  BY <1>1, <1>2, <1>4, <1>6, <1>8, WorkerMoves

\* The steps that read: the row stays as it is.
LEMMA ReadStep ==
    ASSUME DeliveryAssumption, IInv, NEW w \in Workers,
           Load(w) \/ AuditOutcome(w) \/ CheckAutoDisable(w) \/ AutoDisable(w)
    PROVE  IInv'
<1>0. /\ Typed /\ worker[w] \in States
      /\ worker[w].pc \in {"load"} \cup Reporting /\ worker[w].pc \notin Resting
      /\ UNCHANGED <<row, editing, received, unsure, faults>>
  BY Types DEF IInv, Typed, Load, AuditOutcome, CheckAutoDisable, AutoDisable, Resting, Reporting
<1>1. PICK d \in Deliveries :
         /\ worker[w].cur = d /\ SubOf[d] \in Subs /\ row[d] \in Rows
         /\ received[d] \in Nat /\ unsure[d] \in Nat /\ received[d] <= 1 + unsure[d]
         /\ worker[w].pc \in Working \ {"delivered"} => received[d] <= unsure[d]
         /\ worker[w].pc \in Working => row[d].status \in {"IN_FLIGHT", "gone"} /\ ~ row[d].stale
         /\ worker[w].pc \in Working /\ row[d].status = "gone" => Deleted(SubOf[d])
         /\ worker[w].pc \in Reporting => row[d].status \in Terminal \cup {"gone"}
         /\ row[d].status \in Unsettled \cup {"gone"} => row[d].attempt < MaxAttempts
  BY <1>0, AtWork
<1>3. /\ sub' \in [Subs -> Subscriptions]
      /\ \A s \in Subs : Deleted(s)' <=> Deleted(s)
  <2>1. CASE UNCHANGED sub
    BY <1>0, <2>1 DEF Typed, Deleted
  <2>2. CASE AutoDisable(w)
    <3>1. \A b \in Subscriptions : LET y == [b EXCEPT !.enabled = FALSE]
                                   IN  y \in Subscriptions /\ y.deleted = b.deleted
      BY DEF Subscriptions
    <3>2. sub' = [sub EXCEPT ![SubOf[d]] = [sub[SubOf[d]] EXCEPT !.enabled = FALSE]]
      BY <1>1, <2>2 DEF AutoDisable
    <3>. QED
      BY <1>0, <1>1, <3>1, <3>2 DEF Typed, Deleted
  <2>. QED
    BY <2>1, <2>2 DEF Load, AuditOutcome, CheckAutoDisable
<1>5. ASSUME NEW x \in States, worker' = [worker EXCEPT ![w] = x],
             x.cur \in {d, "none"}, x.pc \in Resting <=> x.cur = "none",
             x.pc \notin {"retry", "delivered"},
             x.pc \in Working => worker[w].pc = "load",
             x.pc \in Reporting => worker[w].pc \in Reporting,
             worker[w].pc = "load" /\ row[d].status # "gone" => x.cur = d
      PROVE  IInv'
  <2>1. /\ x.pc \in Working => row[d].status \in {"IN_FLIGHT", "gone"} /\ ~ row[d].stale
        /\ x.pc \in Working /\ row[d].status = "gone" => Deleted(SubOf[d])
        /\ x.pc \in Reporting => row[d].status \in Terminal \cup {"gone"}
        /\ x.pc # "retry" /\ x.pc # "delivered"
        /\ row[d].status = "IN_FLIGHT" => x.cur = d
    BY <1>0, <1>1, <1>5 DEF Working, Terminal
  <2>2. received[d] <= unsure[d] \/ (row[d].status \notin Unsettled /\ x.pc \notin Working)
    BY <1>0, <1>1, <1>5 DEF Working, Terminal, Unsettled
  <2>3. worker' \in [Workers -> States] /\ worker'[w] = x
    BY <1>0, <1>5 DEF Typed
  <2>4. Typed'
    BY <1>0, <1>3, <2>3 DEF Typed
  <2>5. Others(w, d)
    BY <1>0, <1>3, <1>5 DEF Others, Typed
  <2>6. row'[d] = row[d] /\ received'[d] = received[d] /\ unsure'[d] = unsure[d]
    BY <1>0
  <2>. QED
    BY <1>0, <1>1, <1>5, <2>1, <2>2, <2>3, <2>4, <2>5, <2>6, HandStep
<1>. DEFINE y(pc, cur, n, b) == [worker[w] EXCEPT !.pc = pc, !.cur = cur, !.attempt = n, !.enabled = b]
            z(pc, cur, ok) == [worker[w] EXCEPT !.pc = pc, !.cur = cur, !.ok = ok]
<1>6. /\ \A pc \in Pcs, cur \in {d, "none"}, n \in 0 .. MaxAttempts, b \in BOOLEAN :
            y(pc, cur, n, b) \in States /\ y(pc, cur, n, b).pc = pc /\ y(pc, cur, n, b).cur = cur
      /\ \A pc \in Pcs, cur \in {d, "none"}, ok \in BOOLEAN :
            z(pc, cur, ok) \in States /\ z(pc, cur, ok).pc = pc /\ z(pc, cur, ok).cur = cur
  BY <1>0, <1>1, ZenonT(60) DEF States
<1>. HIDE DEF y, z
<1>7. d # "none"
  BY DEF DeliveryAssumption
<1>8. CASE Load(w)
  <2>. DEFINE n == row[d].attempt + 1
              b == sub[SubOf[d]].enabled
  <2>1. n \in 0 .. MaxAttempts /\ b \in BOOLEAN /\ worker[w].pc = "load"
    BY <1>0, <1>1, <1>8 DEF Load, Rows, Working, Unsettled, Typed, Subscriptions, DeliveryAssumption
  <2>2. CASE row[d].status = "gone"
    <3>1. worker' = [worker EXCEPT ![w] = y("next", "none", n, b)]
      BY <1>0, <1>1, <1>8, <2>2 DEF Load, Typed, y
    <3>2. /\ y("next", "none", n, b) \in States /\ y("next", "none", n, b).pc = "next"
          /\ y("next", "none", n, b).cur = "none"
      BY <1>6, <2>1 DEF Pcs
    <3>. QED
      BY <1>5, <2>1, <2>2, <3>1, <3>2 DEF Resting, Working, Reporting
  <2>3. CASE row[d].status # "gone"
    <3>. DEFINE pc == IF b THEN "post" ELSE "dead"
    <3>1. worker' = [worker EXCEPT ![w] = y(pc, d, n, b)]
      BY <1>0, <1>1, <1>8, <2>3 DEF Load, Typed, y
    <3>2. pc \in Pcs /\ pc \in {"post", "dead"}
      BY DEF Pcs
    <3>. HIDE DEF pc
    <3>3. y(pc, d, n, b) \in States /\ y(pc, d, n, b).pc = pc /\ y(pc, d, n, b).cur = d
      BY <1>6, <2>1, <3>2
    <3>. QED
      BY <1>5, <1>7, <2>1, <3>1, <3>2, <3>3 DEF Resting, Working, Reporting
  <2>. QED
    BY <2>2, <2>3
<1>9. ASSUME worker[w].pc \in Reporting,
             \/ \E pc \in Reporting : worker' = [worker EXCEPT ![w].pc = pc]
             \/ worker' = [worker EXCEPT ![w].pc = "next", ![w].cur = "none", ![w].ok = FALSE]
             \/ worker' = [worker EXCEPT ![w].pc = "next", ![w].cur = "none"]
      PROVE  IInv'
  <2>1. worker[w].ok \in BOOLEAN /\ worker[w].pc # "load"
    BY <1>0, <1>9 DEF States, Reporting
  <2>2. CASE \E pc \in Reporting : worker' = [worker EXCEPT ![w].pc = pc]
    <3>1. PICK pc \in Reporting : worker' = [worker EXCEPT ![w].pc = pc]
      BY <2>2
    <3>. DEFINE x == [worker[w] EXCEPT !.pc = pc]
    <3>2. x \in States /\ x.pc = pc /\ x.cur = d /\ worker' = [worker EXCEPT ![w] = x]
      BY <1>0, <1>1, <3>1 DEF States, Pcs, Reporting
    <3>. HIDE DEF x
    <3>. QED
      BY <1>5, <1>7, <1>9, <2>1, <3>2 DEF Resting, Working, Reporting
  <2>3. ASSUME NEW ok \in BOOLEAN, worker' = [worker EXCEPT ![w] = z("next", "none", ok)]
        PROVE  IInv'
    <3>1. /\ z("next", "none", ok) \in States /\ z("next", "none", ok).pc = "next"
          /\ z("next", "none", ok).cur = "none"
      BY <1>6 DEF Pcs
    <3>. QED
      BY <1>5, <2>1, <2>3, <3>1 DEF Resting, Working, Reporting
  <2>4. CASE worker' = [worker EXCEPT ![w].pc = "next", ![w].cur = "none", ![w].ok = FALSE]
    <3>1. worker' = [worker EXCEPT ![w] = z("next", "none", FALSE)]
      BY <1>0, <2>4 DEF Typed, z
    <3>. QED
      BY <2>3, <3>1
  <2>5. CASE worker' = [worker EXCEPT ![w].pc = "next", ![w].cur = "none"]
    <3>1. worker' = [worker EXCEPT ![w] = z("next", "none", worker[w].ok)]
      BY <1>0, <2>5 DEF Typed, States, z
    <3>. QED
      BY <2>1, <2>3, <3>1
  <2>. QED
    BY <1>9, <2>2, <2>4, <2>5
<1>10. CASE AuditOutcome(w) \/ CheckAutoDisable(w) \/ AutoDisable(w)
  BY <1>1, <1>9, <1>10 DEF AuditOutcome, CheckAutoDisable, AutoDisable, Reporting
<1>. QED
  BY <1>8, <1>10

\* An acceptance that is not counted among the unsure ones is in the hands of one worker.
LEMMA PostStep ==
    ASSUME DeliveryAssumption, IInv, NEW w \in Workers, Post(w)
    PROVE  IInv'
<1>0. /\ Typed /\ worker[w] \in States /\ worker[w].pc = "post" /\ worker[w].pc \notin Resting
      /\ UNCHANGED <<row, sub, editing, faults>>
  BY Types DEF IInv, Typed, Post, Resting
<1>1. PICK d \in Deliveries :
         /\ worker[w].cur = d /\ row[d].status \in {"IN_FLIGHT", "gone"} /\ ~ row[d].stale
         /\ row[d].status = "gone" => Deleted(SubOf[d])
         /\ received[d] \in Nat /\ unsure[d] \in Nat /\ received[d] <= unsure[d]
         /\ row[d].status \in Unsettled \cup {"gone"} => row[d].attempt < MaxAttempts
  BY <1>0, AtWork DEF Working
<1>2. ASSUME NEW x \in States, worker' = [worker EXCEPT ![w] = x], x.cur = d,
             x.pc \in {"delivered", "retry", "dead"},
             x.pc = "retry" => x.attempt < MaxAttempts,
             NEW m \in Nat, received' = [received EXCEPT ![d] = m],
             NEW n \in Nat, unsure' = [unsure EXCEPT ![d] = n],
             \/ m = received[d] + 1 /\ (n = unsure[d] + 1 \/ (n = unsure[d] /\ x.pc = "delivered"))
             \/ m = received[d] /\ n = unsure[d] /\ x.pc # "delivered"
      PROVE  IInv'
  <2>1. /\ worker' \in [Workers -> States] /\ worker'[w] = x
        /\ received' \in [Deliveries -> Nat] /\ received'[d] = m
        /\ unsure' \in [Deliveries -> Nat] /\ unsure'[d] = n
    BY <1>0, <1>2 DEF Typed
  <2>2. Typed'
    BY <1>0, <2>1 DEF Typed
  <2>3. Others(w, d)
    BY <1>0, <1>2 DEF Others, Typed, Deleted
  <2>4. m <= 1 + n /\ (m <= n \/ x.pc = "delivered") /\ (x.pc = "delivered" => m > 0)
    BY <1>1, <1>2
  <2>5. row'[d] = row[d] /\ d # "none"
    BY <1>0 DEF DeliveryAssumption
  <2>6. x.pc \in Working /\ x.pc \notin Resting /\ x.pc \notin Reporting
    BY <1>2 DEF Working, Resting, Reporting
  <2>. QED
    BY <1>0, <1>1, <1>2, <2>1, <2>2, <2>3, <2>4, <2>5, <2>6, HandStep
<1>. DEFINE y(pc, ok) == [worker[w] EXCEPT !.pc = pc, !.ok = ok]
<1>3. \A pc \in Pcs, ok \in BOOLEAN : /\ y(pc, ok) \in States /\ y(pc, ok).pc = pc
                                      /\ y(pc, ok).cur = d /\ y(pc, ok).attempt = worker[w].attempt
  BY <1>0, <1>1 DEF States
<1>. HIDE DEF y
<1>4. ASSUME NEW pc \in {"retry", "dead"}, worker' = [worker EXCEPT ![w].pc = pc],
             pc = "retry" => ~ LastAttempt(w)
      PROVE  \E x \in States : /\ worker' = [worker EXCEPT ![w] = x]
                               /\ x.cur = d /\ x.pc = pc /\ (pc = "retry" => x.attempt < MaxAttempts)
  <2>1. worker' = [worker EXCEPT ![w] = y(pc, worker[w].ok)] /\ worker[w].ok \in BOOLEAN
    BY <1>0, <1>4 DEF y, Typed, States
  <2>2. pc = "retry" => worker[w].attempt < MaxAttempts
    BY <1>0, <1>4 DEF LastAttempt, States, DeliveryAssumption
  <2>3. pc \in Pcs
    BY DEF Pcs
  <2>4. /\ y(pc, worker[w].ok) \in States /\ y(pc, worker[w].ok).pc = pc
        /\ y(pc, worker[w].ok).cur = d /\ y(pc, worker[w].ok).attempt = worker[w].attempt
    BY <1>3, <2>1, <2>3
  <2>. QED
    BY <2>1, <2>2, <2>4
<1>5. /\ received' = [received EXCEPT ![d] = @ + 1] => received' = [received EXCEPT ![d] = received[d] + 1]
      /\ unsure' = [unsure EXCEPT ![d] = @ + 1] => unsure' = [unsure EXCEPT ![d] = unsure[d] + 1]
      /\ UNCHANGED received => received' = [received EXCEPT ![d] = received[d]]
      /\ UNCHANGED unsure => unsure' = [unsure EXCEPT ![d] = unsure[d]]
      /\ received[d] + 1 \in Nat /\ unsure[d] + 1 \in Nat
  BY <1>0, <1>1 DEF Typed
<1>6. CASE /\ worker' = [worker EXCEPT ![w].pc = "delivered", ![w].ok = TRUE]
           /\ received' = [received EXCEPT ![d] = @ + 1] /\ UNCHANGED unsure
  <2>1. worker' = [worker EXCEPT ![w] = y("delivered", TRUE)]
    BY <1>0, <1>6 DEF y, Typed
  <2>2. y("delivered", TRUE) \in States /\ y("delivered", TRUE).pc = "delivered" /\ y("delivered", TRUE).cur = d
    BY <1>3 DEF Pcs
  <2>. QED
    BY <1>1, <1>2, <1>5, <1>6, <2>1, <2>2, ZenonT(60)
<1>7. ASSUME NEW pc \in {"retry", "dead"}, worker' = [worker EXCEPT ![w].pc = pc],
             pc = "retry" => ~ LastAttempt(w),
             \/ received' = [received EXCEPT ![d] = @ + 1] /\ unsure' = [unsure EXCEPT ![d] = @ + 1]
             \/ UNCHANGED <<received, unsure>>
      PROVE  IInv'
  <2>1. PICK x \in States : /\ worker' = [worker EXCEPT ![w] = x]
                            /\ x.cur = d /\ x.pc = pc /\ (pc = "retry" => x.attempt < MaxAttempts)
    BY <1>4, <1>7
  <2>2. CASE received' = [received EXCEPT ![d] = @ + 1] /\ unsure' = [unsure EXCEPT ![d] = @ + 1]
    BY <1>1, <1>2, <1>5, <2>1, <2>2
  <2>3. CASE UNCHANGED <<received, unsure>>
    BY <1>1, <1>2, <1>5, <2>1, <2>3, ZenonT(60)
  <2>. QED
    BY <1>7, <2>2, <2>3
<1>8. \/ /\ worker' = [worker EXCEPT ![w].pc = "delivered", ![w].ok = TRUE]
         /\ received' = [received EXCEPT ![d] = @ + 1] /\ UNCHANGED unsure
      \/ \E pc \in {"retry", "dead"} :
            /\ worker' = [worker EXCEPT ![w].pc = pc] /\ (pc = "retry" => ~ LastAttempt(w))
            /\ \/ received' = [received EXCEPT ![d] = @ + 1] /\ unsure' = [unsure EXCEPT ![d] = @ + 1]
               \/ UNCHANGED <<received, unsure>>
  BY <1>1 DEF Post
<1>. QED
  BY <1>6, <1>7, <1>8

\* Only the worker that has the row in hand writes it, and with it the acceptance is recorded.
LEMMA SettleStep ==
    ASSUME DeliveryAssumption, IInv, NEW w \in Workers,
           Retry(w) \/ FinaliseDelivered(w) \/ FinaliseDeadLetter(w)
    PROVE  IInv'
<1>0. /\ Typed /\ worker[w] \in States /\ worker[w].pc \in {"retry", "delivered", "dead"}
      /\ worker[w].pc \notin Resting /\ WorkerOK(w)
      /\ UNCHANGED <<editing, received, unsure, faults>>
  BY Types DEF IInv, Typed, Retry, FinaliseDelivered, FinaliseDeadLetter, Resting
<1>1. PICK d \in Deliveries :
         /\ worker[w].cur = d /\ SubOf[d] \in Subs /\ row[d] \in Rows
         /\ received[d] \in Nat /\ unsure[d] \in Nat /\ received[d] <= 1 + unsure[d]
         /\ worker[w].pc \in Working \ {"delivered"} => received[d] <= unsure[d]
  BY <1>0, AtWork
<1>2. ASSUME NEW x \in States, worker' = [worker EXCEPT ![w] = x],
             \/ x.pc = "next" /\ x.cur = "none"
             \/ x.pc = "audit" /\ x.cur = d,
             NEW r \in Rows, row' = [row EXCEPT ![d] = r],
             \/ r.status = "PENDING" /\ r.attempt < MaxAttempts /\ x.pc = "next" /\ worker[w].pc # "delivered"
             \/ r.status \in Terminal /\ x.pc = "audit",
             sub' \in [Subs -> Subscriptions], \A s \in Subs : Deleted(s)' <=> Deleted(s)
      PROVE  IInv'
  <2>1. /\ worker' \in [Workers -> States] /\ worker'[w] = x
        /\ row' \in [Deliveries -> Rows] /\ row'[d] = r
    BY <1>0, <1>2 DEF Typed
  <2>2. Typed'
    BY <1>0, <1>2, <2>1 DEF Typed
  <2>3. Others(w, d)
    BY <1>0, <1>2 DEF Others, Typed
  <2>4. received'[d] = received[d] /\ unsure'[d] = unsure[d]
    BY <1>0
  <2>5. received[d] <= unsure[d] \/ (r.status \notin Unsettled /\ x.pc \notin Working)
    BY <1>0, <1>1, <1>2 DEF Unsettled, Working, Terminal
  <2>6. /\ x.pc \notin Working /\ x.cur \in {d, "none"} /\ (x.pc \in Resting <=> x.cur = "none")
        /\ x.pc \in Reporting => r.status \in Terminal \cup {"gone"}
        /\ x.pc # "retry" /\ x.pc # "delivered" /\ r.status # "IN_FLIGHT"
        /\ r.status \in Unsettled \cup {"gone"} => r.attempt < MaxAttempts
    BY <1>2 DEF Working, Resting, Reporting, Terminal, Unsettled, DeliveryAssumption
  <2>. QED
    BY <1>0, <1>1, <2>1, <2>2, <2>3, <2>4, <2>5, <2>6, HandStep
<1>. DEFINE y(pc, cur) == [worker[w] EXCEPT !.pc = pc, !.cur = cur]
            r(status) == [status |-> status, attempt |-> worker[w].attempt,
                          due |-> FALSE, stale |-> FALSE]
<1>3. /\ \A pc \in Pcs, cur \in {d, "none"} :
            y(pc, cur) \in States /\ y(pc, cur).pc = pc /\ y(pc, cur).cur = cur
      /\ \A st \in Statuses : r(st) \in Rows /\ r(st).status = st /\ r(st).attempt = worker[w].attempt
  BY <1>0, <1>1 DEF States, Rows
<1>. HIDE DEF y, r
<1>4. CASE Retry(w)
  <2>1. worker' = [worker EXCEPT ![w] = y("next", "none")]
    BY <1>0, <1>4 DEF Retry, Typed, y
  <2>2. row' = [row EXCEPT ![d] = r("PENDING")] /\ UNCHANGED sub /\ worker[w].pc = "retry"
    BY <1>1, <1>4 DEF Retry, r
  <2>3. worker[w].attempt < MaxAttempts
    BY <1>0, <2>2 DEF WorkerOK
  <2>4. /\ y("next", "none") \in States /\ y("next", "none").pc = "next" /\ y("next", "none").cur = "none"
        /\ r("PENDING") \in Rows /\ r("PENDING").status = "PENDING" /\ r("PENDING").attempt = worker[w].attempt
    BY <1>3 DEF Pcs, Statuses
  <2>5. sub' \in [Subs -> Subscriptions] /\ \A s \in Subs : Deleted(s)' <=> Deleted(s)
    BY <1>0, <2>2 DEF Typed, Deleted
  <2>. QED
    BY <1>2, <2>1, <2>2, <2>3, <2>4, <2>5
<1>5. CASE FinaliseDelivered(w) \/ FinaliseDeadLetter(w)
  <2>1. worker' = [worker EXCEPT ![w] = y("audit", d)]
    BY <1>0, <1>1, <1>5 DEF FinaliseDelivered, FinaliseDeadLetter, Step, Typed, States, y
  <2>2. PICK st \in Terminal : row' = [row EXCEPT ![d] = r(st)]
    BY <1>1, <1>5 DEF FinaliseDelivered, FinaliseDeadLetter, SettleRow, Terminal, r
  <2>3. PICK n \in 0 .. MaxFailures : sub' = [sub EXCEPT ![SubOf[d]].failures = n]
    <3>1. 0 \in 0 .. MaxFailures /\ sub[SubOf[d]].failures \in 0 .. MaxFailures
      BY <1>0, <1>1 DEF Typed, Subscriptions, DeliveryAssumption
    <3>2. CASE FinaliseDelivered(w)
      BY <1>1, <3>1, <3>2 DEF FinaliseDelivered
    <3>3. CASE FinaliseDeadLetter(w)
      <4>. DEFINE f == sub[SubOf[d]].failures
                  n == IF f < MaxFailures THEN f + 1 ELSE f
      <4>1. n \in 0 .. MaxFailures
        BY <3>1 DEF DeliveryAssumption
      <4>2. sub' = [sub EXCEPT ![SubOf[d]].failures = n]
        BY <1>0, <1>1, <3>3 DEF FinaliseDeadLetter, Typed
      <4>. HIDE DEF n
      <4>. QED
        BY <4>1, <4>2
    <3>. QED
      BY <1>5, <3>2, <3>3
  <2>4. sub' \in [Subs -> Subscriptions] /\ \A s \in Subs : Deleted(s)' <=> Deleted(s)
    BY <1>0, <1>1, <2>3 DEF Typed, Subscriptions, Deleted
  <2>5. /\ y("audit", d) \in States /\ y("audit", d).pc = "audit" /\ y("audit", d).cur = d
        /\ r(st) \in Rows /\ r(st).status = st
    BY <1>3 DEF Pcs, Statuses
  <2>. QED
    BY <1>2, <2>1, <2>2, <2>4, <2>5
<1>. QED
  BY <1>4, <1>5

\* A worker that dies or throws leaves its row in flight; an acceptance in its hands is one
\* that nobody records.
LEMMA AbandonStep ==
    ASSUME DeliveryAssumption, IInv, NEW w \in Workers, ThrowMissing(w) \/ Fault(w)
    PROVE  IInv'
<1>0. /\ Typed /\ worker[w] \in States /\ WorkerOK(w)
      /\ Idle \in States /\ Idle.pc = "idle" /\ Idle.cur = "none"
  BY Types DEF IInv, Typed, Idle, States, Pcs, DeliveryAssumption
<1>1. /\ worker' = [worker EXCEPT ![w] = Idle] /\ UNCHANGED <<row, sub, editing, received>>
      /\ unsure' = IF worker[w].pc = "delivered"
                   THEN [unsure EXCEPT ![worker[w].cur] = @ + 1] ELSE unsure
  BY DEF ThrowMissing, Fault, Abandon
<1>2. /\ faults' \in 0 .. MaxFaults
      /\ \/ faults' = faults + 1
         \/ UNCHANGED faults /\ Throws(w)
  BY <1>0 DEF Typed, ThrowMissing, Fault, DeliveryAssumption
<1>3. faults' = 0 => faults = 0 /\ Throws(w)
  BY <1>0, <1>2 DEF Typed
<1>4. CASE worker[w].pc \in Resting
  BY <1>0, <1>1, <1>2, <1>3, <1>4, RestingStep DEF Resting
<1>5. CASE worker[w].pc \notin Resting
  <2>1. PICK d \in Deliveries :
           /\ worker[w].cur = d /\ SubOf[d] \in Subs /\ row[d] \in Rows
           /\ received[d] \in Nat /\ unsure[d] \in Nat /\ received[d] <= 1 + unsure[d]
           /\ worker[w].pc \in Working \ {"delivered"} => received[d] <= unsure[d]
           /\ worker[w].pc \in Reporting => row[d].status \in Terminal \cup {"gone"}
           /\ row[d].status \in Unsettled \cup {"gone"} => row[d].attempt < MaxAttempts
    BY <1>5, AtWork
  <2>2. PICK n \in Nat : /\ unsure' = [unsure EXCEPT ![d] = n]
                         /\ n = IF worker[w].pc = "delivered" THEN unsure[d] + 1 ELSE unsure[d]
    <3>1. CASE worker[w].pc = "delivered"
      <4>1. unsure' = [unsure EXCEPT ![d] = @ + 1] /\ unsure[d] + 1 \in Nat
        BY <1>1, <2>1, <3>1
      <4>. QED
        BY <3>1, <4>1
    <3>2. CASE worker[w].pc # "delivered"
      <4>1. unsure' = [unsure EXCEPT ![d] = unsure[d]]
        BY <1>0, <1>1, <3>2 DEF Typed
      <4>. QED
        BY <2>1, <3>2, <4>1
    <3>. QED
      BY <3>1, <3>2
  <2>3. /\ worker' \in [Workers -> States] /\ worker'[w] = Idle
        /\ unsure' \in [Deliveries -> Nat] /\ unsure'[d] = n
    BY <1>0, <1>1, <2>2 DEF Typed
  <2>4. Typed'
    BY <1>0, <1>1, <1>2, <2>3 DEF Typed
  <2>5. Others(w, d)
    BY <1>0, <1>1, <1>3, <2>2 DEF Others, Typed, Deleted
  <2>6. worker[w].pc \in Working \cup Reporting
    BY <1>0, <1>5 DEF States, Pcs, Working, Reporting, Resting
  <2>7. received[d] <= 1 + n /\ (received[d] <= n \/ row[d].status \notin Unsettled)
    BY <2>1, <2>2, <2>6 DEF Working, Reporting, Terminal, Unsettled
  <2>8. ~ (row'[d].status = "IN_FLIGHT" /\ Healthy')
    BY <1>1, <1>3, <2>1 DEF Healthy, Throws, Reporting, Terminal
  <2>9. row'[d] = row[d] /\ received'[d] = received[d]
    BY <1>1
  <2>10. "idle" \in Resting /\ "idle" \notin Working /\ "idle" \notin Reporting
    BY DEF Resting, Working, Reporting
  <2>. QED
    BY <1>0, <1>5, <2>1, <2>3, <2>4, <2>5, <2>7, <2>8, <2>9, <2>10, HandStep
<1>. QED
  BY <1>4, <1>5

LEMMA Starts == ASSUME DeliveryAssumption, Init PROVE IInv
<1>1. 0 \in 0 .. MaxAttempts /\ 0 \in 0 .. MaxFailures /\ 0 \in 0 .. MaxFaults /\ 0 < MaxAttempts
  BY DEF DeliveryAssumption
<1>2. NoRow \in Rows /\ Idle \in States /\ NoRow.status = "none" /\ NoRow.attempt = 0
      /\ Idle.pc = "idle" /\ Idle.cur = "none"
  BY <1>1 DEF NoRow, Rows, Idle, States, Statuses, Pcs
<1>3. Typed
  BY <1>1, <1>2 DEF Init, Typed, Subscriptions
<1>4. Alone /\ \A w \in Workers : WorkerOK(w)
  BY <1>2 DEF Init, Alone, WorkerOK, Resting, Working, Reporting
<1>5. \A d \in Deliveries : RowOK(d) /\ CauseOK(d)
  BY <1>1, <1>2 DEF Init, RowOK, CauseOK
<1>. QED
  BY <1>3, <1>4, <1>5, Types DEF IInv

LEMMA Steps == ASSUME DeliveryAssumption, IInv, [Next]_vars PROVE IInv'
<1>1. CASE \E w \in Workers : WorkerStep(w) \/ Fault(w)
  BY <1>1, BatchStep, LockStep, ReadStep, PostStep, SettleStep, AbandonStep DEF WorkerStep
<1>2. CASE \/ \E d \in Deliveries : Enqueue(d) \/ BackoffElapses(d) \/ GoesStale(d) \/ Reap(d)
           \/ \E s \in Subs : ReadForUpdate(s) \/ UpdateSubscription(s) \/ DeleteSubscription(s)
  BY <1>2, OutsideStep
<1>3. CASE UNCHANGED vars
  <2>1. TypeOK' /\ Alone'
    BY <1>3 DEF vars, IInv, TypeOK, Alone
  <2>2. ASSUME NEW w \in Workers PROVE WorkerOK(w)'
    BY <1>3 DEF vars, IInv, WorkerOK, Deleted
  <2>3. ASSUME NEW d \in Deliveries PROVE RowOK(d)' /\ CauseOK(d)'
    BY <1>3 DEF vars, IInv, RowOK, CauseOK, Healthy, Holds, Deleted
  <2>. QED
    BY <2>1, <2>2, <2>3 DEF IInv
<1>. QED
  BY <1>1, <1>2, <1>3 DEF Next

LEMMA Invariant == ASSUME DeliveryAssumption PROVE Spec => []IInv
<1>1. Init => IInv
  BY Starts
<1>2. IInv /\ [Next]_vars => IInv'
  BY Steps
<1>. QED
  BY <1>1, <1>2, PTL DEF Spec
-----------------------------------------------------------------------------
\* lockDelivery's conditional update gives a row to one worker, reclaimStaleInFlight never
\* takes it from one at work, and a row in flight whose worker did not die is in somebody's
\* hands: with any number of overlapping batches.
THEOREM RowLocked == ASSUME DeliveryAssumption PROVE Spec => []RowLockInv
<1>1. ASSUME IInv PROVE RowLockInv
  <2>1. TypeOK
    BY <1>1 DEF IInv
  <2>2. ASSUME NEW d \in Deliveries PROVE Cardinality({w \in Workers : Holds(w, d)}) <= 1
    <3>. DEFINE S == {w \in Workers : Holds(w, d)}
    <3>1. \A v, w \in S : v = w
      BY <1>1 DEF IInv, Alone, Holds, DeliveryAssumption
    <3>2. S = {} \/ \E w \in S : S = {w}
      BY <3>1
    <3>3. Cardinality({}) = 0 /\ \A w : Cardinality({w}) = 1
      BY FS_EmptySet, FS_Singleton
    <3>4. Cardinality(S) <= 1
      <4>. HIDE DEF S
      <4>1. Cardinality(S) = 0 \/ Cardinality(S) = 1
        BY <3>2, <3>3, Zenon
      <4>. QED
        BY <4>1
    <3>. QED
      BY <3>4
  <2>3. \A d \in Deliveries : row[d].status = "IN_FLIGHT" /\ Healthy => \E w \in Workers : Holds(w, d)
    BY <1>1 DEF IInv, RowOK
  <2>4. \A w \in Workers : worker[w].pc \in Working => row[worker[w].cur].status \in {"IN_FLIGHT", "gone"}
    BY <1>1 DEF IInv, WorkerOK
  <2>. QED
    BY <2>1, <2>2, <2>3, <2>4 DEF RowLockInv, OneWorkerPerRow, InFlightIsHeld, Healthy, Working
<1>. QED
  BY <1>1, Invariant, PTL

\* attemptDelivery posts a row again only while it is unsettled: each acceptance after the
\* first is matched by one that no worker recorded.
THEOREM DuplicatesHaveCauses == ASSUME DeliveryAssumption PROVE Spec => []DuplicateHasCause
<1>1. IInv => DuplicateHasCause
  BY DEF IInv, CauseOK, DuplicateHasCause
<1>. QED
  BY <1>1, Invariant, PTL
-----------------------------------------------------------------------------
\* What the ledger sees of a row.
Seen(status) == CASE status \in {"PENDING", "IN_FLIGHT"} -> "open"
                  [] status = "DELIVERED" -> "delivered"
                  [] status = "DEAD_LETTERED" -> "dead"
                  [] OTHER -> status

LEMMA SeenCases ==
    /\ Seen("none") = "none" /\ Seen("PENDING") = "open" /\ Seen("IN_FLIGHT") = "open"
    /\ Seen("DELIVERED") = "delivered" /\ Seen("DEAD_LETTERED") = "dead" /\ Seen("gone") = "gone"
  BY DEF Seen

LEMMA Outcomes == /\ outcome = [d \in Deliveries |-> Seen(row[d].status)]
                  /\ outcome' = [d \in Deliveries |-> Seen(row'[d].status)]
  BY DEF outcome, Seen

\* Nothing is seen of a step that keeps every outcome and posts nothing.
LEMMA Unseen ==
    ASSUME UNCHANGED received,
           \A d \in Deliveries : Seen(row'[d].status) = Seen(row[d].status)
    PROVE  UNCHANGED <<outcome, received>>
  BY Outcomes

\* One row changes.
LEMMA SeenOne ==
    ASSUME row \in [Deliveries -> Rows], NEW d \in Deliveries, NEW r,
           row' = [row EXCEPT ![d] = r]
    PROVE  outcome' = [outcome EXCEPT ![d] = Seen(r.status)]
<1>1. \A e \in Deliveries : row'[e] = IF e = d THEN r ELSE row[e]
  OBVIOUS
<1>. QED
  BY <1>1, Outcomes

LEMMA WorkerIsLedger ==
    ASSUME DeliveryAssumption, IInv, NEW w \in Workers, WorkerStep(w) \/ Fault(w)
    PROVE  [Ledger!Next]_<<outcome, received>>
<1>0. Typed
  BY Types DEF IInv
<1>1. CASE UNCHANGED <<row, received>>
  BY <1>1, Unseen
<1>2. CASE StartBatch(w)
  <2>1. \A d \in Deliveries : \/ row'[d] = row[d]
                              \/ /\ row[d].status = "IN_FLIGHT"
                                 /\ row'[d] = [row[d] EXCEPT !.status = "PENDING", !.stale = FALSE]
    BY <1>2 DEF StartBatch
  <2>2. \A d \in Deliveries : \/ row'[d] = row[d]
                              \/ row[d].status = "IN_FLIGHT" /\ row'[d].status = "PENDING"
    BY <1>0, <2>1, ZenonT(60) DEF Typed, Rows
  <2>. QED
    BY <1>2, <2>2, Unseen, SeenCases DEF StartBatch
<1>3. CASE LockDelivery(w)
  <2>1. PICK d \in Deliveries :
           \/ UNCHANGED row
           \/ row[d].status = "PENDING" /\ row' = [row EXCEPT ![d].status = "IN_FLIGHT", ![d].stale = FALSE]
    BY <1>0, <1>3 DEF LockDelivery, Typed, States
  <2>2. \A e \in Deliveries : \/ row'[e] = row[e]
                              \/ row[e].status = "PENDING" /\ row'[e].status = "IN_FLIGHT"
    BY <1>0, <2>1 DEF Typed, Rows
  <2>. QED
    BY <1>3, <2>2, Unseen, SeenCases DEF LockDelivery
<1>4. CASE Post(w)
  <2>1. PICK d \in Deliveries : worker[w].cur = d /\ row[d].status \in {"IN_FLIGHT", "gone"}
    BY <1>4, AtWork DEF Post, Resting, Working
  <2>2. UNCHANGED row
        /\ (UNCHANGED received \/ received' = [received EXCEPT ![d] = @ + 1])
    BY <1>4, <2>1 DEF Post
  <2>3. UNCHANGED outcome /\ outcome[d] \in {"open", "gone"}
    BY <2>1, <2>2, Outcomes, SeenCases
  <2>4. CASE received' = [received EXCEPT ![d] = @ + 1]
    BY <2>1, <2>3, <2>4 DEF Ledger!Next, Ledger!Accept, Ledger!AcceptLate
  <2>. QED
    BY <2>2, <2>3, <2>4
<1>5. CASE Retry(w)
  <2>1. PICK d \in Deliveries : worker[w].cur = d /\ row[d].status \in {"IN_FLIGHT", "gone"}
    BY <1>5, AtWork DEF Retry, Resting, Working
  <2>2. PICK r : /\ row' = [row EXCEPT ![d] = r] /\ r.status = "PENDING"
                 /\ row[d].status = "IN_FLIGHT"
    BY <1>5, <2>1 DEF Retry
  <2>3. \A e \in Deliveries : \/ row'[e] = row[e]
                              \/ row[e].status = "IN_FLIGHT" /\ row'[e].status = "PENDING"
    BY <1>0, <2>2 DEF Typed
  <2>. QED
    BY <1>5, <2>3, Unseen, SeenCases DEF Retry
<1>6. CASE FinaliseDelivered(w) \/ FinaliseDeadLetter(w)
  <2>1. PICK d \in Deliveries : worker[w].cur = d /\ row[d].status \in {"IN_FLIGHT", "gone"}
    BY <1>6, AtWork DEF FinaliseDelivered, FinaliseDeadLetter, Resting, Working
  <2>2. PICK r : /\ row' = [row EXCEPT ![d] = r] /\ row[d].status = "IN_FLIGHT"
                 /\ \/ r.status = "DELIVERED" /\ received[d] > 0
                    \/ r.status = "DEAD_LETTERED"
    <3>. DEFINE y(st) == [status |-> st, attempt |-> worker[w].attempt, due |-> FALSE, stale |-> FALSE]
    <3>1. CASE FinaliseDelivered(w)
      <4>1. received[d] > 0
        BY <2>1, <3>1 DEF FinaliseDelivered, IInv, WorkerOK
      <4>2. y("DELIVERED").status = "DELIVERED" /\ row' = [row EXCEPT ![d] = y("DELIVERED")]
            /\ row[d].status = "IN_FLIGHT"
        BY <2>1, <3>1 DEF FinaliseDelivered, SettleRow
      <4>. HIDE DEF y
      <4>. QED
        BY <4>1, <4>2
    <3>2. CASE FinaliseDeadLetter(w)
      <4>1. y("DEAD_LETTERED").status = "DEAD_LETTERED" /\ row' = [row EXCEPT ![d] = y("DEAD_LETTERED")]
            /\ row[d].status = "IN_FLIGHT"
        BY <2>1, <3>2 DEF FinaliseDeadLetter, SettleRow
      <4>. HIDE DEF y
      <4>. QED
        BY <4>1
    <3>. QED
      BY <1>6, <3>1, <3>2
  <2>3. outcome[d] = "open" /\ outcome' = [outcome EXCEPT ![d] = Seen(r.status)]
    BY <1>0, <2>2, Outcomes, SeenOne, SeenCases DEF Typed
  <2>4. UNCHANGED received
    BY <1>6 DEF FinaliseDelivered, FinaliseDeadLetter
  <2>5. Ledger!Settle(d)
    BY <2>2, <2>3, <2>4, SeenCases DEF Ledger!Settle
  <2>. QED
    BY <2>5 DEF Ledger!Next
<1>. QED
  BY <1>1, <1>2, <1>3, <1>4, <1>5, <1>6
     DEF WorkerStep, Select, EndBatch, Load, AuditOutcome, CheckAutoDisable, AutoDisable,
         ThrowMissing, Fault, Abandon

LEMMA WorldIsLedger ==
    ASSUME DeliveryAssumption, IInv,
           \/ \E d \in Deliveries : Enqueue(d) \/ BackoffElapses(d) \/ GoesStale(d) \/ Reap(d)
           \/ \E s \in Subs : ReadForUpdate(s) \/ UpdateSubscription(s) \/ DeleteSubscription(s)
    PROVE  [Ledger!Next]_<<outcome, received>>
<1>0. Typed
  BY Types DEF IInv
<1>1. ASSUME NEW d \in Deliveries, Enqueue(d) PROVE Ledger!Open(d)
  <2>. DEFINE r == [NoRow EXCEPT !.status = "PENDING", !.due = TRUE]
  <2>1. row' = [row EXCEPT ![d] = r] /\ r.status = "PENDING"
    BY <1>1 DEF Enqueue, NoRow
  <2>. HIDE DEF r
  <2>2. row[d].status = "none" /\ UNCHANGED received
    BY <1>1 DEF Enqueue
  <2>. QED
    BY <1>0, <2>1, <2>2, Outcomes, SeenOne, SeenCases DEF Ledger!Open, Typed
<1>2. ASSUME NEW d \in Deliveries, BackoffElapses(d) \/ GoesStale(d)
      PROVE  UNCHANGED <<outcome, received>>
  <2>1. row' = [row EXCEPT ![d].due = TRUE] \/ row' = [row EXCEPT ![d].stale = TRUE]
    BY <1>2 DEF BackoffElapses, GoesStale
  <2>2. \A e \in Deliveries : row'[e].status = row[e].status
    <3>1. CASE row' = [row EXCEPT ![d].due = TRUE]
      BY <1>0, <3>1 DEF Typed, Rows
    <3>2. CASE row' = [row EXCEPT ![d].stale = TRUE]
      BY <1>0, <3>2 DEF Typed, Rows
    <3>. QED
      BY <2>1, <3>1, <3>2
  <2>. QED
    BY <1>2, <2>2, Unseen DEF BackoffElapses, GoesStale
<1>3. ASSUME NEW d \in Deliveries, Reap(d) PROVE Ledger!Remove({d})
  <2>1. row' = [row EXCEPT ![d] = GoneRow] /\ GoneRow.status = "gone" /\ UNCHANGED received
    BY <1>3 DEF Reap, GoneRow, NoRow
  <2>2. outcome[d] # "none"
    BY <1>3, Outcomes, SeenCases DEF Reap, Terminal
  <2>3. outcome' = [outcome EXCEPT ![d] = "gone"]
    <3>1. outcome' = [outcome EXCEPT ![d] = Seen(GoneRow.status)]
      BY <1>0, <2>1, SeenOne DEF Typed
    <3>. QED
      BY <2>1, <3>1, SeenCases
  <2>4. outcome' = [e \in Deliveries |-> IF e \in {d} THEN "gone" ELSE outcome[e]]
    BY <2>3, Outcomes
  <2>. QED
    BY <2>1, <2>2, <2>4 DEF Ledger!Remove
<1>4. ASSUME NEW s \in Subs, ReadForUpdate(s) \/ UpdateSubscription(s)
      PROVE  UNCHANGED <<outcome, received>>
  BY <1>4, Unseen DEF ReadForUpdate, UpdateSubscription
<1>5. ASSUME NEW s \in Subs, DeleteSubscription(s)
      PROVE  \E D \in SUBSET Deliveries : Ledger!Remove(D)
  <2>. DEFINE D == {d \in Deliveries : SubOf[d] = s /\ row[d].status # "none"}
  <2>1. \A d \in Deliveries : row'[d] = IF d \in D THEN GoneRow ELSE row[d]
    BY <1>5 DEF DeleteSubscription
  <2>2. outcome' = [d \in Deliveries |-> IF d \in D THEN "gone" ELSE outcome[d]]
    BY <2>1, Outcomes, SeenCases DEF GoneRow, NoRow
  <2>3. \A d \in D : outcome[d] # "none"
    <3>1. \A d \in D : row[d].status \in Statuses \ {"none"}
      BY <1>0 DEF Typed, Rows
    <3>. QED
      BY <3>1, Outcomes, SeenCases DEF Statuses, Terminal
  <2>4. UNCHANGED received
    BY <1>5 DEF DeleteSubscription
  <2>. QED
    BY <2>2, <2>3, <2>4 DEF Ledger!Remove
<1>. QED
  BY <1>1, <1>2, <1>3, <1>4, <1>5 DEF Ledger!Next

\* The worker keeps what DeliveryLedger promises of each delivery: it settles once and for
\* good, as delivered only after an acceptance, and the receiver is not called for a settled
\* one, whatever retries, reclaims, deaths of workers and deletions lie in between.
THEOREM ImplementsLedger == ASSUME DeliveryAssumption PROVE Spec => LedgerSpec
<1>1. Init => Ledger!Init
  <2>. SUFFICES ASSUME Init PROVE Ledger!Init
    OBVIOUS
  <2>1. \A d \in Deliveries : row[d].status = "none"
    BY DEF Init, NoRow
  <2>. QED
    BY <2>1, Outcomes, SeenCases DEF Ledger!Init, Init
<1>2. IInv /\ [Next]_vars => [Ledger!Next]_<<outcome, received>>
  <2>. SUFFICES ASSUME IInv, [Next]_vars PROVE [Ledger!Next]_<<outcome, received>>
    OBVIOUS
  <2>1. CASE UNCHANGED vars
    BY <2>1, Unseen DEF vars
  <2>. QED
    BY <2>1, WorkerIsLedger, WorldIsLedger DEF Next
<1>. QED
  BY <1>1, <1>2, Invariant, PTL DEF Spec, LedgerSpec, Ledger!Spec
=============================================================================
