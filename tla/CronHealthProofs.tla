---------------------------- MODULE CronHealthProofs ----------------------------
(***************************************************************************)
(* Proofs about CronHealth, for every set of crons and invocations, every  *)
(* interval and threshold: the advisory lock keeps the runs of one cron    *)
(* apart, and the conditional update spaces the alerts of one cron,        *)
(* whether the lock is on or off.                                          *)
(*                                                                         *)
(* Then proofs about Billing, the other scene of Races, for every set of   *)
(* members, closes and plans and every length of a month: a closed month   *)
(* is a fair account of it, whatever moves between the reads of a close    *)
(* and its write.                                                          *)
(***************************************************************************)
EXTENDS Races, FiniteSetTheorems, TLAPS

\* The initial state is typed.
LEMMA TypingInit == Init => TypeOK
<1> SUFFICES ASSUME Init PROVE TypeOK
  OBVIOUS
<1>1. Idle \in Invocation
  BY BoundsAssumption DEF Idle, Pcs, Invocation
<1>2. NoRow \in Heartbeat
  BY BoundsAssumption DEF NoRow, Heartbeat
<1>3. now \in Times /\ faults \in 0..MaxFaults
  BY BoundsAssumption DEF Init, Times
<1> HIDE DEF Idle, NoRow
<1>4. QED BY <1>1, <1>2, <1>3 DEF Init, TypeOK

\* A program counter moves within its range.
LEMMA GotoTyped ==
  ASSUME TypeOK, NEW r \in Runs, NEW p \in Pcs, Goto(r, p)
  PROVE  run' \in [Runs -> Invocation]
BY ZenonT(60) DEF TypeOK, Goto, Invocation

LEMMA FaultTyped ==
  ASSUME TypeOK, MayFault, faults' = faults + 1
  PROVE  faults' \in 0..MaxFaults
BY BoundsAssumption DEF TypeOK, MayFault

LEMMA IdleTyped ==
  ASSUME TypeOK, NEW r \in Runs, run' = [run EXCEPT ![r] = Idle]
  PROVE  run' \in [Runs -> Invocation]
<1>1. Idle \in Invocation
  BY BoundsAssumption DEF Idle, Pcs, Invocation
<1> HIDE DEF Idle
<1>2. QED BY <1>1 DEF TypeOK

LEMMA CountedTyped ==
  ASSUME NEW S, NEW f \in [S -> Nat], NEW x
  PROVE  [f EXCEPT ![x] = @ + 1] \in [S -> Nat]
<1> DEFINE m == f[x] + 1
           g == [f EXCEPT ![x] = m]
<1>1. x \in S => m \in Nat
  OBVIOUS
<1> HIDE DEF m
<1>2. g \in [S -> Nat]
  BY <1>1
<1>3. QED BY <1>2 DEF m

\* Typing is preserved.
LEMMA TypingStep ==
  ASSUME TypeOK, [Next]_vars
  PROVE  TypeOK'
<1>1. CASE UNCHANGED vars
  BY <1>1 DEF vars, TypeOK
<1>2. CASE Tick
  <2>1. now' \in Times
    BY <1>2, BoundsAssumption DEF Tick, TypeOK, Times
  <2>2. UNCHANGED <<lockOn, beat, lock, run, alerts, faults>>
    BY <1>2 DEF Tick
  <2>3. QED BY <2>1, <2>2 DEF TypeOK
<1>3. ASSUME NEW r \in Runs, MarkStarted(r) PROVE TypeOK'
  <2>1. faults' \in 0..MaxFaults
    BY <1>3, FaultTyped DEF MarkStarted, Faulty, TypeOK
  <2>2. run' \in [Runs -> Invocation]
    BY <1>3, GotoTyped DEF MarkStarted, Pcs
  <2>3. beat' \in [Crons -> Heartbeat]
    <3> beat[CronOf[r]] \in Heartbeat
      BY BoundsAssumption DEF TypeOK
    <3>1. [beat[CronOf[r]] EXCEPT !.exists = TRUE] \in Heartbeat
      BY DEF Heartbeat
    <3>2. beat' = beat \/ beat' = [beat EXCEPT ![CronOf[r]] = [beat[CronOf[r]] EXCEPT !.exists = TRUE]]
      BY <1>3 DEF MarkStarted, Faulty
    <3>3. QED BY <3>1, <3>2 DEF TypeOK
  <2>4. QED BY <1>3, <2>1, <2>2, <2>3 DEF MarkStarted, TypeOK
<1>4. ASSUME NEW r \in Runs, Acquire(r) PROVE TypeOK'
  <2>1. faults' \in 0..MaxFaults /\ beat' = beat
    BY <1>4, FaultTyped DEF Acquire, Faulty, TypeOK
  <2>2. run' \in [Runs -> Invocation]
    BY <1>4, GotoTyped, IdleTyped DEF Acquire, Pcs
  <2>3. lock' \in [Crons -> SUBSET Runs]
    BY <1>4, BoundsAssumption DEF Acquire, TypeOK
  <2>4. QED BY <1>4, <2>1, <2>2, <2>3 DEF Acquire, TypeOK
<1>5. ASSUME NEW r \in Runs, Finish(r) \/ EndPass(r) \/ PassThrows(r) PROVE TypeOK'
  <2>1. faults' \in 0..MaxFaults
    BY <1>5, FaultTyped DEF Finish, EndPass, PassThrows, TypeOK
  <2>2. run' \in [Runs -> Invocation]
    BY <1>5, GotoTyped DEF Finish, EndPass, PassThrows, Pcs
  <2>3. lock' \in [Crons -> SUBSET Runs]
    BY <1>5 DEF Finish, EndPass, PassThrows, Release, TypeOK
  <2>4. QED BY <1>5, <2>1, <2>2, <2>3 DEF Finish, EndPass, PassThrows, TypeOK
<1>6. ASSUME NEW r \in Runs, MarkSucceeded(r) PROVE TypeOK'
  <2>1. faults' \in 0..MaxFaults
    BY <1>6, FaultTyped DEF MarkSucceeded, Faulty, TypeOK
  <2>2. run' \in [Runs -> Invocation]
    BY <1>6, IdleTyped DEF MarkSucceeded
  <2>3. beat' \in [Crons -> Heartbeat]
    <3> DEFINE row == [beat[CronOf[r]] EXCEPT !.lastSuccess = now, !.failures = 0]
    <3> beat[CronOf[r]] \in Heartbeat /\ now \in 0..MaxTime /\ 0 \in 0..Failing
      BY BoundsAssumption DEF TypeOK, Times
    <3>1. row \in Heartbeat
      BY DEF Heartbeat
    <3>2. beat' = beat \/ beat' = [beat EXCEPT ![CronOf[r]] = row]
      BY <1>6 DEF MarkSucceeded, Faulty
    <3> HIDE DEF row
    <3>3. QED BY <3>1, <3>2 DEF TypeOK
  <2>4. QED BY <1>6, <2>1, <2>2, <2>3 DEF MarkSucceeded, TypeOK
<1>7. ASSUME NEW r \in Runs, MarkFailed(r) PROVE TypeOK'
  <2>1. faults' \in 0..MaxFaults
    BY <1>7, FaultTyped DEF MarkFailed, Faulty, TypeOK
  <2>2. run' \in [Runs -> Invocation]
    BY <1>7, IdleTyped DEF MarkFailed
  <2>3. beat' \in [Crons -> Heartbeat]
    <3> DEFINE row == [beat[CronOf[r]] EXCEPT !.failures = IF @ < Failing THEN @ + 1 ELSE @]
    <3>1. row \in Heartbeat
      BY BoundsAssumption DEF TypeOK, Heartbeat
    <3>2. beat' = beat \/ beat' = [beat EXCEPT ![CronOf[r]] = row]
      BY <1>7 DEF MarkFailed, Faulty
    <3> HIDE DEF row
    <3>3. QED BY <3>1, <3>2 DEF TypeOK
  <2>4. QED BY <1>7, <2>1, <2>2, <2>3 DEF MarkFailed, TypeOK
<1>8. ASSUME NEW r \in Runs, Evaluate(r) PROVE TypeOK'
  <2>1. PICK bad \in SUBSET Crons :
           run' = [run EXCEPT ![r].pc = "pass", ![r].at = now, ![r].todo = bad,
                              ![r].read = {<<c, beat[c].notified>> : c \in bad}]
    BY <1>8 DEF Evaluate
  <2>2. {<<c, beat[c].notified>> : c \in bad} \in SUBSET (Crons \X (0..MaxTime))
    BY DEF TypeOK, Heartbeat
  <2>3. PICK seen \in SUBSET (Crons \X (0..MaxTime)) :
           run' = [run EXCEPT ![r].pc = "pass", ![r].at = now, ![r].todo = bad, ![r].read = seen]
    BY <2>1, <2>2
  <2>4. now \in 0..MaxTime
    BY BoundsAssumption DEF TypeOK, Times
  <2>5. run' \in [Runs -> Invocation]
    <3> DEFINE row == [run[r] EXCEPT !.pc = "pass", !.at = now, !.todo = bad, !.read = seen]
    <3> run[r] \in Invocation
      BY DEF TypeOK
    <3>1. row \in Invocation
      BY <2>4 DEF Pcs, Invocation
    <3>2. run' = [run EXCEPT ![r] = row]
      BY <2>3
    <3> HIDE DEF row
    <3>3. QED BY <3>1, <3>2 DEF TypeOK
  <2>6. QED BY <1>8, <2>5 DEF Evaluate, TypeOK
<1>9. ASSUME NEW r \in Runs, Claim(r) PROVE TypeOK'
  <2>1. PICK c \in run[r].todo :
           \/ /\ beat' = [beat EXCEPT ![c].notified = run[r].at]
              /\ run' = [run EXCEPT ![r].pc = "emit", ![r].cur = c, ![r].todo = @ \ {c}]
           \/ /\ run' = [run EXCEPT ![r].todo = @ \ {c}]
              /\ beat' = beat
    BY <1>9 DEF Claim
  <2>2. c \in Crons
    BY <2>1 DEF TypeOK, Invocation
  <2>3. run' \in [Runs -> Invocation]
    <3> DEFINE mine == [run[r] EXCEPT !.pc = "emit", !.cur = c, !.todo = @ \ {c}]
               skip == [run[r] EXCEPT !.todo = @ \ {c}]
    <3> run[r] \in Invocation
      BY DEF TypeOK
    <3>1. mine \in Invocation /\ skip \in Invocation
      BY <2>2 DEF Pcs, Invocation
    <3>2. run' = [run EXCEPT ![r] = mine] \/ run' = [run EXCEPT ![r] = skip]
      BY <2>1
    <3> HIDE DEF mine, skip
    <3>3. QED BY <3>1, <3>2 DEF TypeOK
  <2>4. beat' \in [Crons -> Heartbeat]
    <3>1. [beat[c] EXCEPT !.notified = run[r].at] \in Heartbeat
      BY <2>2 DEF TypeOK, Heartbeat, Invocation
    <3>2. beat' = beat \/ beat' = [beat EXCEPT ![c] = [beat[c] EXCEPT !.notified = run[r].at]]
      BY <2>1
    <3>3. QED BY <3>1, <3>2 DEF TypeOK
  <2>5. QED BY <1>9, <2>3, <2>4 DEF Claim, TypeOK
<1>10. ASSUME NEW r \in Runs, Emit(r) PROVE TypeOK'
  <2>1. faults' \in 0..MaxFaults /\ beat' = beat
    BY <1>10, FaultTyped DEF Emit, Faulty, TypeOK
  <2>2. run' \in [Runs -> Invocation]
    BY <1>10, GotoTyped DEF Emit, Pcs
  <2>3. alerts' \in [Crons -> [Times -> Nat]]
    <3> DEFINE sent == [alerts[run[r].cur] EXCEPT ![run[r].at] = @ + 1]
    <3> alerts[run[r].cur] \in [Times -> Nat]
      BY DEF TypeOK, Invocation
    <3>1. sent \in [Times -> Nat]
      BY CountedTyped
    <3>2. alerts' = alerts \/ alerts' = [alerts EXCEPT ![run[r].cur] = sent]
      BY <1>10 DEF Emit
    <3> HIDE DEF sent
    <3>3. QED BY <3>1, <3>2 DEF TypeOK
  <2>4. QED BY <1>10, <2>1, <2>2, <2>3 DEF Emit, TypeOK
<1>11. ASSUME NEW r \in Runs, Crash(r) PROVE TypeOK'
  <2>1. faults' \in 0..MaxFaults
    BY <1>11, FaultTyped DEF Crash
  <2>2. run' \in [Runs -> Invocation]
    BY <1>11, IdleTyped DEF Crash
  <2>3. lock' \in [Crons -> SUBSET Runs]
    BY <1>11 DEF Crash, Release, TypeOK
  <2>4. QED BY <1>11, <2>1, <2>2, <2>3 DEF Crash, TypeOK
<1>12. QED
  BY <1>1, <1>2, <1>3, <1>4, <1>5, <1>6, <1>7, <1>8, <1>9, <1>10, <1>11 DEF Next, RunStep
-----------------------------------------------------------------------------
\* A run moves and the others stay: the lock goes on saying who works, whether the run
\* enters, leaves or does neither.
LEMMA LockKept ==
  ASSUME LockInv, TypeOK', lockOn' = lockOn, NEW r \in Runs,
         \A q \in Runs \ {r} : InWork(q)' <=> InWork(q),
         \/ lock' = lock /\ (InWork(r)' <=> InWork(r))
         \/ lock' = [lock EXCEPT ![CronOf[r]] = @ \ {r}] /\ ~ InWork(r)'
         \/ /\ MayLock(CronOf[r])
            /\ lock' = [lock EXCEPT ![CronOf[r]] = @ \cup {r}] /\ InWork(r)'
  PROVE  LockInv'
<1>0. CronOf[r] \in Crons /\ lock \in [Crons -> SUBSET Runs]
  BY BoundsAssumption DEF LockInv, TypeOK
<1>1. \A q \in Runs, c \in Crons : (q \in lock[c])' <=> CronOf[q] = c /\ InWork(q)'
  <2> SUFFICES ASSUME NEW q \in Runs, NEW c \in Crons
               PROVE  q \in lock'[c] <=> CronOf[q] = c /\ InWork(q)'
    OBVIOUS
  <2>1. q \in lock[c] <=> CronOf[q] = c /\ InWork(q)
    BY DEF LockInv
  <2>2. CASE q = r
    BY <1>0, <2>1, <2>2
  <2>3. CASE q # r
    BY <1>0, <2>1, <2>3
  <2>4. QED BY <2>2, <2>3
<1>2. lockOn => \A c \in Crons : \A q, s \in lock'[c] : q = s
  BY <1>0 DEF LockInv, MayLock
<1>3. QED BY <1>1, <1>2 DEF LockInv

\* Every step keeps the lock with the runs that work.
LEMMA LockStep ==
  ASSUME LockInv, [Next]_vars
  PROVE  LockInv'
<1> TypeOK /\ TypeOK'
  BY TypingStep DEF LockInv
<1>1. CASE UNCHANGED vars \/ Tick
  BY <1>1 DEF vars, Tick, LockInv, InWork
<1>2. ASSUME NEW r \in Runs, MarkStarted(r) PROVE LockInv'
  BY <1>2, LockKept DEF MarkStarted, Goto, InWork, TypeOK
<1>3. ASSUME NEW r \in Runs, Acquire(r) PROVE LockInv'
  <2>1. /\ lockOn' = lockOn
        /\ \A q \in Runs \ {r} : InWork(q)' <=> InWork(q)
    BY <1>3 DEF Acquire, Goto, InWork, TypeOK
  <2>2. \/ lock' = lock /\ (InWork(r)' <=> InWork(r))
        \/ /\ MayLock(CronOf[r])
           /\ lock' = [lock EXCEPT ![CronOf[r]] = @ \cup {r}] /\ InWork(r)'
    <3>1. CASE MayLock(CronOf[r]) /\ Goto(r, "work")
               /\ lock' = [lock EXCEPT ![CronOf[r]] = @ \cup {r}]
      BY <3>1 DEF Goto, InWork, TypeOK
    <3>2. CASE run' = [run EXCEPT ![r] = Idle] /\ lock' = lock
      BY <1>3, <3>2 DEF Acquire, InWork, TypeOK, Idle
    <3>3. CASE Goto(r, "failed") /\ lock' = lock
      BY <1>3, <3>3 DEF Acquire, Goto, InWork, TypeOK
    <3>4. QED BY <1>3, <3>1, <3>2, <3>3 DEF Acquire
  <2>3. QED BY <2>1, <2>2, LockKept
<1>4. ASSUME NEW r \in Runs, MarkSucceeded(r) \/ MarkFailed(r) PROVE LockInv'
  BY <1>4, LockKept DEF MarkSucceeded, MarkFailed, InWork, TypeOK, Idle
<1>5. ASSUME NEW r \in Runs, Finish(r) \/ EndPass(r) \/ PassThrows(r) PROVE LockInv'
  <2>1. /\ lockOn' = lockOn
        /\ \A q \in Runs \ {r} : InWork(q)' <=> InWork(q)
    BY <1>5 DEF Finish, EndPass, PassThrows, Goto, InWork, TypeOK
  <2>2. lock' = [lock EXCEPT ![CronOf[r]] = @ \ {r}] /\ ~ InWork(r)'
    <3>1. PICK p \in {"ok", "failed"} : Goto(r, p)
      BY <1>5 DEF Finish, EndPass, PassThrows
    <3>2. ~ InWork(r)'
      BY <3>1 DEF Goto, InWork, TypeOK
    <3>3. QED BY <1>5, <3>2 DEF Finish, EndPass, PassThrows, Release
  <2>3. QED BY <2>1, <2>2, LockKept
<1>6. ASSUME NEW r \in Runs, Evaluate(r) PROVE LockInv'
  <2>1. PICK bad, seen :
           run' = [run EXCEPT ![r].pc = "pass", ![r].at = now, ![r].todo = bad, ![r].read = seen]
    BY <1>6 DEF Evaluate
  <2>2. run[r].pc = "work" /\ lock' = lock /\ lockOn' = lockOn
    BY <1>6 DEF Evaluate
  <2>3. run'[r].pc = "pass" /\ \A q \in Runs \ {r} : run'[q] = run[q]
    BY <2>1 DEF TypeOK, Invocation
  <2>4. (InWork(r)' <=> InWork(r)) /\ \A q \in Runs \ {r} : InWork(q)' <=> InWork(q)
    BY <2>2, <2>3 DEF InWork
  <2>5. QED BY <2>2, <2>4, LockKept
<1>7. ASSUME NEW r \in Runs, Claim(r) PROVE LockInv'
  <2>1. run[r].pc = "pass" /\ lock' = lock /\ lockOn' = lockOn
    BY <1>7 DEF Claim
  <2>2. PICK c \in run[r].todo :
           \/ run' = [run EXCEPT ![r].pc = "emit", ![r].cur = c, ![r].todo = @ \ {c}]
           \/ run' = [run EXCEPT ![r].todo = @ \ {c}]
    BY <1>7 DEF Claim
  <2>3. run'[r].pc \in {"pass", "emit"} /\ \A q \in Runs \ {r} : run'[q] = run[q]
    BY <2>1, <2>2 DEF TypeOK, Invocation
  <2>4. (InWork(r)' <=> InWork(r)) /\ \A q \in Runs \ {r} : InWork(q)' <=> InWork(q)
    BY <2>1, <2>3 DEF InWork
  <2>5. QED BY <2>1, <2>4, LockKept
<1>8. ASSUME NEW r \in Runs, Emit(r) PROVE LockInv'
  BY <1>8, LockKept DEF Emit, Goto, InWork, TypeOK
<1>9. ASSUME NEW r \in Runs, Crash(r) PROVE LockInv'
  BY <1>9, LockKept, ZenonT(60) DEF Crash, Release, InWork, TypeOK, Idle
<1>10. QED
  BY <1>1, <1>2, <1>3, <1>4, <1>5, <1>6, <1>7, <1>8, <1>9 DEF Next, RunStep

\* The inductive invariant of the lock.
THEOREM LockHeldByWorkers == Spec => []LockInv
<1>1. Init => LockInv
  <2> SUFFICES ASSUME Init PROVE LockInv
    OBVIOUS
  <2>1. TypeOK
    BY TypingInit
  <2>2. QED BY <2>1 DEF Init, LockInv, InWork, Idle
<1>2. LockInv /\ [Next]_vars => LockInv'
  BY LockStep
<1>3. QED BY <1>1, <1>2, PTL DEF Spec

\* With the lock on, no cron ever has two runs at work, whatever fails or dies
\* (lock.ts, withCronLock).
THEOREM OneAtATime == Spec => []OneRunPerCron
<1>1. LockInv => OneRunPerCron
  BY BoundsAssumption DEF LockInv, OneRunPerCron
<1>2. QED BY <1>1, LockHeldByWorkers, PTL
-----------------------------------------------------------------------------
\* A pass holds one reading of each cron, and a step that claims nothing and sends
\* nothing leaves the claims as they are or drops some.
ReadsOnce == \A r \in Runs : \A a, b \in run[r].read : a[1] = b[1] => a = b

LEMMA ReadsStep ==
  ASSUME TypeOK, ReadsOnce, [Next]_vars
  PROVE  ReadsOnce'
<1> DEFINE Once(seen) == \A a, b \in seen : a[1] = b[1] => a = b
<1>1. CASE UNCHANGED vars \/ Tick
  BY <1>1 DEF vars, Tick, ReadsOnce
<1>2. ASSUME NEW r \in Runs,
             \A q \in Runs \ {r} : run'[q] = run[q],
             run'[r].read = run[r].read \/ Once(run'[r].read)
      PROVE  ReadsOnce'
  BY <1>2 DEF ReadsOnce
<1>3. ASSUME NEW r \in Runs, NEW p, Goto(r, p)
      PROVE  ReadsOnce'
  BY <1>3, <1>2 DEF Goto, TypeOK, Invocation
<1>4. ASSUME NEW r \in Runs, run' = [run EXCEPT ![r] = Idle]
      PROVE  ReadsOnce'
  BY <1>4, <1>2 DEF TypeOK, Idle
<1>5. ASSUME NEW r \in Runs, Evaluate(r) PROVE ReadsOnce'
  <2>1. PICK bad, seen :
           /\ run' = [run EXCEPT ![r].pc = "pass", ![r].at = now, ![r].todo = bad, ![r].read = seen]
           /\ seen = {<<c, beat[c].notified>> : c \in bad}
    BY <1>5 DEF Evaluate
  <2>2. run'[r].read = seen /\ \A q \in Runs \ {r} : run'[q] = run[q]
    BY <2>1 DEF TypeOK, Invocation
  <2>3. Once(seen)
    BY <2>1
  <2>4. QED BY <2>2, <2>3, <1>2
<1>6. ASSUME NEW r \in Runs, Claim(r) PROVE ReadsOnce'
  <2>1. PICK c \in run[r].todo :
           \/ run' = [run EXCEPT ![r].pc = "emit", ![r].cur = c, ![r].todo = @ \ {c}]
           \/ run' = [run EXCEPT ![r].todo = @ \ {c}]
    BY <1>6 DEF Claim
  <2>2. run'[r].read = run[r].read /\ \A q \in Runs \ {r} : run'[q] = run[q]
    BY <2>1 DEF TypeOK, Invocation
  <2>3. QED BY <2>2, <1>2
<1>7. ASSUME NEW r \in Runs,
             \/ MarkStarted(r) \/ Acquire(r) \/ MarkSucceeded(r) \/ MarkFailed(r) \/ Finish(r)
             \/ Emit(r) \/ EndPass(r) \/ PassThrows(r) \/ Crash(r)
      PROVE  ReadsOnce'
  <2>1. run' = [run EXCEPT ![r] = Idle] \/ \E p \in Pcs : Goto(r, p)
    BY <1>7 DEF MarkStarted, Acquire, MarkSucceeded, MarkFailed, Finish, Emit, EndPass,
                PassThrows, Crash, Pcs
  <2>2. QED BY <2>1, <1>3, <1>4
<1>8. QED BY <1>1, <1>5, <1>6, <1>7 DEF Next, RunStep

\* A step that sends no alert, moves no stalledNotifiedAt and lets no run start to
\* emit keeps the invariant of the alerts.
LEMMA AlertsKept ==
  ASSUME AlertInv, ReadsOnce', alerts' = alerts,
         \A c \in Crons : beat'[c].notified = beat[c].notified,
         \A q \in Runs : run'[q].pc = "emit" => run'[q] = run[q]
  PROVE  AlertInv'
<1>1. \A q \in Runs, c \in Crons, t \in Times : Emitting(q, c, t)' => Emitting(q, c, t)
  BY DEF Emitting
<1>2. \A c \in Crons, t \in Times : Claimed(c, t)' => Claimed(c, t)
  BY <1>1 DEF Claimed
<1>3. QED BY <1>1, <1>2 DEF AlertInv, ReadsOnce

\* A run that has claimed sends its alert: the claim was there before.
LEMMA EmitKeepsAlerts ==
  ASSUME TypeOK, AlertInv, ReadsOnce', NEW r \in Runs, Emit(r)
  PROVE  AlertInv'
<1> DEFINE c == run[r].cur
           n == run[r].at
<1>0. /\ c \in Crons /\ beat' = beat /\ Emitting(r, c, n)
      /\ run'[r].pc = "pass" /\ \A q \in Runs \ {r} : run'[q] = run[q]
  BY DEF Emit, Faulty, Goto, TypeOK, Invocation, Emitting
<1> HIDE DEF c, n
<1>1. CASE alerts' = alerts
  BY <1>0, <1>1, AlertsKept
<1>2. CASE alerts' = [alerts EXCEPT ![c][n] = @ + 1]
  <2>1. \A q \in Runs, d \in Crons, t \in Times :
           Emitting(q, d, t)' => q # r /\ Emitting(q, d, t)
    BY <1>0 DEF Emitting
  <2>2. \A d \in Crons, t \in Times :
           alerts'[d][t] = IF d = c /\ t = n THEN alerts[d][t] + 1 ELSE alerts[d][t]
    BY <1>2 DEF TypeOK
  <2>3. n \in Times => alerts[c][n] = 0
    BY <1>0 DEF AlertInv
  <2>4. \A d \in Crons, t \in Times : Claimed(d, t)' => Claimed(d, t)
    BY <1>0, <2>1, <2>2 DEF Claimed
  <2>5. \A d \in Crons, t \in Times : alerts'[d][t] <= 1
    BY <2>2, <2>3 DEF AlertInv
  <2>6. \A d \in Crons, t \in Times : \A q, s \in Runs :
           Emitting(q, d, t)' /\ Emitting(s, d, t)' => q = s /\ alerts'[d][t] = 0
    <3> SUFFICES ASSUME NEW d \in Crons, NEW t \in Times, NEW q \in Runs, NEW s \in Runs,
                        Emitting(q, d, t)', Emitting(s, d, t)'
                 PROVE  q = s /\ alerts'[d][t] = 0
      OBVIOUS
    <3>1. q # r /\ Emitting(q, d, t) /\ Emitting(s, d, t)
      BY <2>1
    <3>2. q = s /\ alerts[d][t] = 0
      BY <3>1 DEF AlertInv
    <3>3. ~ (d = c /\ t = n)
      BY <3>1, <1>0 DEF AlertInv
    <3>4. QED BY <3>2, <3>3, <2>2
  <2>7. QED BY <1>0, <2>4, <2>5, <2>6 DEF AlertInv, ReadsOnce
<1>3. QED BY <1>1, <1>2 DEF Emit, c, n

\* A run that claims: stalledNotifiedAt is what the pass has read of it, so every claim
\* that is out is an interval or more older than the pass.
LEMMA ClaimKeepsAlerts ==
  ASSUME TypeOK, AlertInv, ReadsOnce', NEW r \in Runs, Claim(r)
  PROVE  AlertInv'
<1> DEFINE n == run[r].at
<1>0. n \in 0..MaxTime /\ alerts' = alerts
  BY DEF Claim, TypeOK, Invocation
<1>1. PICK c \in run[r].todo :
        \/ /\ \E read \in run[r].read : read[1] = c /\ Due(n, read[2]) /\ Claims(r, c)
           /\ beat' = [beat EXCEPT ![c].notified = n]
           /\ run' = [run EXCEPT ![r].pc = "emit", ![r].cur = c, ![r].todo = @ \ {c}]
        \/ /\ run' = [run EXCEPT ![r].todo = @ \ {c}]
           /\ beat' = beat
  BY DEF Claim
<1>2. c \in Crons /\ run[r].pc = "pass"
  BY <1>1 DEF TypeOK, Invocation, Claim
<1>3. CASE run' = [run EXCEPT ![r].todo = @ \ {c}] /\ beat' = beat
  <2>1. run'[r].pc = "pass" /\ \A q \in Runs \ {r} : run'[q] = run[q]
    BY <1>2, <1>3 DEF TypeOK, Invocation
  <2>2. QED BY <1>0, <1>3, <2>1, AlertsKept
<1>4. CASE /\ \E read \in run[r].read : read[1] = c /\ Due(n, read[2]) /\ Claims(r, c)
           /\ beat' = [beat EXCEPT ![c].notified = n]
           /\ run' = [run EXCEPT ![r].pc = "emit", ![r].cur = c, ![r].todo = @ \ {c}]
  <2> DEFINE previous == beat[c].notified
  <2>1. previous \in 0..MaxTime
    BY <1>2 DEF TypeOK, Heartbeat
  <2>2. Due(n, previous)
    <3>1. PICK read \in run[r].read :
             read[1] = c /\ Due(n, read[2]) /\ <<c, previous>> \in run[r].read
      BY <1>4 DEF Claims
    <3>2. read = <<c, previous>>
      BY <3>1 DEF AlertInv
    <3>3. QED BY <3>1, <3>2
  <2>3. \A t \in Times : Claimed(c, t) => t < n /\ n - t >= Interval
    <3> SUFFICES ASSUME NEW t \in Times, Claimed(c, t) PROVE t < n /\ n - t >= Interval
      OBVIOUS
    <3>1. t <= previous /\ t \in Nat /\ t >= 1
      BY <1>2, BoundsAssumption DEF AlertInv, Times
    <3>2. n - previous >= Interval
      BY <3>1, <2>2 DEF Due
    <3> HIDE DEF n, previous
    <3>3. QED BY <3>1, <3>2, <1>0, <2>1, BoundsAssumption
  <2>4. /\ run'[r].pc = "emit" /\ run'[r].cur = c /\ run'[r].at = n
        /\ \A q \in Runs \ {r} : run'[q] = run[q]
    BY <1>4 DEF TypeOK, Invocation
  <2>5. \A d \in Crons : beat'[d].notified = IF d = c THEN n ELSE beat[d].notified
    BY <1>2, <1>4 DEF TypeOK, Heartbeat
  <2> HIDE DEF n, previous
  <2>6. \A q \in Runs, d \in Crons, t \in Times :
           Emitting(q, d, t)' => (q = r /\ d = c /\ t = n) \/ (q # r /\ Emitting(q, d, t))
    BY <2>4 DEF Emitting
  <2>7. \A d \in Crons, t \in Times : Claimed(d, t)' => (d = c /\ t = n) \/ Claimed(d, t)
    BY <1>0, <2>6 DEF Claimed
  <2>8. \A d \in Crons, t \in Times : Claimed(d, t)' => t <= beat'[d].notified
    <3> SUFFICES ASSUME NEW d \in Crons, NEW t \in Times, Claimed(d, t)'
                 PROVE  t <= beat'[d].notified
      OBVIOUS
    <3>1. CASE d = c
      <4>1. t = n \/ t < n
        BY <2>3, <2>7, <3>1
      <4>2. t \in Nat
        BY BoundsAssumption DEF Times
      <4>3. QED BY <4>1, <4>2, <2>5, <3>1, <1>0
    <3>2. CASE d # c
      BY <2>5, <2>7, <3>2 DEF AlertInv
    <3>3. QED BY <3>1, <3>2
  <2>9. \A d \in Crons : \A t, u \in Times :
           Claimed(d, t)' /\ Claimed(d, u)' /\ t < u => u - t >= Interval
    <3> SUFFICES ASSUME NEW d \in Crons, NEW t \in Times, NEW u \in Times,
                        Claimed(d, t)', Claimed(d, u)', t < u
                 PROVE  u - t >= Interval
      OBVIOUS
    <3>1. CASE Claimed(d, t) /\ Claimed(d, u)
      BY <3>1 DEF AlertInv
    <3>2. CASE d = c /\ t = n
      <4>1. u = n \/ u < n
        BY <2>3, <2>7, <3>2
      <4>2. t \in Nat /\ u \in Nat
        BY BoundsAssumption DEF Times
      <4>3. QED BY <4>1, <4>2, <3>2
    <3>3. CASE Claimed(d, t) /\ d = c /\ u = n
      BY <2>3, <3>3
    <3>4. QED BY <2>7, <3>1, <3>2, <3>3
  <2>10. \A d \in Crons, t \in Times : \A q, s \in Runs :
            Emitting(q, d, t)' /\ Emitting(s, d, t)' => q = s /\ alerts'[d][t] = 0
    <3> SUFFICES ASSUME NEW d \in Crons, NEW t \in Times, NEW q \in Runs, NEW s \in Runs,
                        Emitting(q, d, t)', Emitting(s, d, t)'
                 PROVE  q = s /\ alerts[d][t] = 0
      BY <1>0
    <3>1. CASE d = c /\ t = n
      <4>1. ~ Claimed(c, n)
        <5>1. t \in Nat
          BY BoundsAssumption DEF Times
        <5>2. QED BY <2>3, <3>1, <5>1
      <4>2. q = r /\ s = r
        BY <2>6, <3>1, <4>1 DEF Claimed
      <4>3. alerts[c][n] \in Nat
        BY <1>2, <3>1 DEF TypeOK
      <4>4. QED BY <4>1, <4>2, <4>3, <3>1 DEF Claimed
    <3>2. CASE ~ (d = c /\ t = n)
      BY <2>6, <3>2 DEF AlertInv
    <3>3. QED BY <3>1, <3>2
  <2>11. \A d \in Crons, t \in Times : alerts'[d][t] <= 1
    BY <1>0 DEF AlertInv
  <2>12. QED BY <2>8, <2>9, <2>10, <2>11 DEF AlertInv, ReadsOnce
<1>5. QED BY <1>1, <1>3, <1>4

\* Every step keeps the alerts spaced.
LEMMA AlertStep ==
  ASSUME TypeOK, AlertInv, [Next]_vars
  PROVE  AlertInv'
<1>0. ReadsOnce'
  BY ReadsStep DEF AlertInv, ReadsOnce
<1>1. CASE UNCHANGED vars \/ Tick
  BY <1>0, <1>1, AlertsKept DEF vars, Tick
<1>2. ASSUME NEW r \in Runs, Claim(r) PROVE AlertInv'
  BY <1>0, <1>2, ClaimKeepsAlerts
<1>3. ASSUME NEW r \in Runs, Emit(r) PROVE AlertInv'
  BY <1>0, <1>3, EmitKeepsAlerts
<1>4. ASSUME NEW r \in Runs, NEW p \in Pcs \ {"emit"}, run'[r].pc = p,
             \A q \in Runs \ {r} : run'[q] = run[q], alerts' = alerts,
             \A c \in Crons : beat'[c].notified = beat[c].notified
      PROVE  AlertInv'
  BY <1>0, <1>4, AlertsKept
<1>5. ASSUME NEW r \in Runs, Evaluate(r) PROVE AlertInv'
  <2>1. PICK bad, seen :
           run' = [run EXCEPT ![r].pc = "pass", ![r].at = now, ![r].todo = bad, ![r].read = seen]
    BY <1>5 DEF Evaluate
  <2>2. run'[r].pc = "pass" /\ \A q \in Runs \ {r} : run'[q] = run[q]
    BY <2>1 DEF TypeOK, Invocation
  <2>3. QED BY <1>4, <1>5, <2>2 DEF Evaluate, Pcs
<1>6. ASSUME NEW r \in Runs,
             \/ MarkStarted(r) \/ Acquire(r) \/ MarkSucceeded(r) \/ MarkFailed(r) \/ Finish(r)
             \/ EndPass(r) \/ PassThrows(r) \/ Crash(r)
      PROVE  AlertInv'
  <2>1. run' = [run EXCEPT ![r] = Idle] \/ \E p \in Pcs \ {"emit"} : Goto(r, p)
    BY <1>6 DEF MarkStarted, Acquire, MarkSucceeded, MarkFailed, Finish, EndPass, PassThrows,
                Crash, Pcs
  <2>2. (\E p \in Pcs \ {"emit"} : run'[r].pc = p) /\ \A q \in Runs \ {r} : run'[q] = run[q]
    BY <2>1 DEF Goto, Idle, Pcs, TypeOK, Invocation
  <2>3. \A c \in Crons : beat'[c].notified = beat[c].notified
    <3>1. CASE MarkStarted(r)
      <4>1. beat' = beat \/ beat' = [beat EXCEPT ![CronOf[r]].exists = TRUE]
        BY <3>1 DEF MarkStarted, Faulty
      <4>2. QED BY <4>1, SMTT(30) DEF TypeOK, Heartbeat
    <3>2. CASE MarkSucceeded(r)
      BY <3>2 DEF MarkSucceeded, Faulty, TypeOK, Heartbeat
    <3>3. CASE MarkFailed(r)
      BY <3>3 DEF MarkFailed, Faulty, TypeOK, Heartbeat
    <3>4. CASE Acquire(r) \/ Finish(r) \/ EndPass(r) \/ PassThrows(r) \/ Crash(r)
      BY <3>4 DEF Acquire, Finish, EndPass, PassThrows, Crash, Faulty
    <3>5. QED BY <1>6, <3>1, <3>2, <3>3, <3>4
  <2>4. alerts' = alerts
    BY <1>6 DEF MarkStarted, Acquire, MarkSucceeded, MarkFailed, Finish, EndPass, PassThrows, Crash
  <2>5. QED BY <1>4, <2>2, <2>3, <2>4
<1>7. QED BY <1>1, <1>2, <1>3, <1>5, <1>6 DEF Next, RunStep

\* Racing health checks never both alert, and the alerts for one cron are at least its
\* expected interval apart, with the lock or without it (alert.ts: "Safe to call
\* concurrently").
THEOREM AlertsAlwaysSpaced == Spec => []AlertsSpaced
<1>1. Init => TypeOK /\ AlertInv
  <2> SUFFICES ASSUME Init PROVE AlertInv
    BY TypingInit
  <2>1. \A c \in Crons, t \in Times : alerts[c][t] = 0 /\ \A r \in Runs : ~ Emitting(r, c, t)
    BY DEF Init, Idle, Emitting
  <2>2. \A r \in Runs : run[r].read = {}
    BY DEF Init, Idle
  <2>3. \A c \in Crons, t \in Times : ~ Claimed(c, t)
    BY <2>1 DEF Claimed
  <2>4. QED BY <2>1, <2>2, <2>3 DEF AlertInv
<1>2. TypeOK /\ AlertInv /\ [Next]_vars => (TypeOK /\ AlertInv)'
  BY TypingStep, AlertStep
<1>3. AlertInv => AlertsSpaced
  BY DEF AlertInv, AlertsSpaced, Claimed
<1>4. QED BY <1>1, <1>2, <1>3, PTL DEF Spec
-----------------------------------------------------------------------------
\* A month has a length, the members can be counted, and a plan says whether it has the add-on.
BillingAssumption ==
    /\ MonthLength \in Nat \ {0} /\ Horizon \in Nat \ {0} /\ IsFiniteSet(Members)
    /\ \A p \in Plans : p.salesIdEnabled \in BOOLEAN

\* Multiplication keeps an order.
LEMMA Product ==
    ASSUME NEW a \in Nat, NEW b \in Nat, NEW n \in Nat, a <= b
    PROVE  a * n <= b * n
  OBVIOUS

\* What a quotient is: the multiple below.
LEMMA Quotient ==
    ASSUME NEW t \in Nat, NEW n \in Nat \ {0}
    PROVE  /\ t \div n \in Nat
           /\ (t \div n) * n <= t /\ t < (t \div n) * n + n
  OBVIOUS

\* ... and the only one.
LEMMA QuotientIs ==
    ASSUME NEW t \in Nat, NEW n \in Nat \ {0}, NEW q \in Nat, q * n <= t, t < q * n + n
    PROVE  t \div n = q
<1>1. CASE t \div n < q
  <2>1. (t \div n + 1) * n <= q * n
    BY <1>1, Quotient, Product
  <2>. QED
    BY <1>1, <2>1, Quotient
<1>2. CASE t \div n > q
  <2>1. (q + 1) * n <= (t \div n) * n
    BY <1>2, Quotient, Product
  <2>. QED
    BY <2>1, Quotient
<1>. QED
  BY <1>1, <1>2, Quotient

\* The month of a moment is the one between whose start and end it lies.
LEMMA MonthIsOf ==
    ASSUME BillingAssumption, NEW t \in Nat, NEW m \in Nat \ {0},
           t >= B!StartOf(m), t < B!EndOf(m)
    PROVE  B!MonthOf(t) = m
<1>1. t - 1 \in Nat /\ m - 1 \in Nat
  <2>1. (m - 1) * MonthLength \in Nat
    BY DEF BillingAssumption
  <2>. QED
    BY <2>1 DEF B!StartOf
<1>2. (m - 1) * MonthLength <= t - 1 /\ t - 1 < (m - 1) * MonthLength + MonthLength
  BY DEF B!StartOf, B!EndOf, BillingAssumption
<1>. QED
  BY <1>1, <1>2, QuotientIs DEF B!MonthOf, BillingAssumption

\* What the rows and a close hold.
Person == [status : {"ACTIVE", "ANONYMISED"}, lastLogin : Nat, revokedAt : Nat,
           channelFrom : Nat, channelTo : Nat]
Snapshot == [month : B!Months, user : Members, billable : BOOLEAN, salesId : BOOLEAN]
Closing == [pc : {"idle", "plan", "evaluate", "write"}, month : B!Months,
            plan : Plans \cup {B!NoPlan}, rows : SUBSET Snapshot]

BillTyped ==
    /\ day \in Nat \ {0} /\ member \in [Members -> Person] /\ plan \in Plans
    /\ drafts \in [Members -> SUBSET Nat] /\ logins \in [Members -> SUBSET Nat]
    /\ snapshots \subseteq Snapshot /\ close \in [Closers -> Closing]
    /\ period = [m \in B!Months |-> period[m]]
    /\ \A m \in B!Months : "status" \in DOMAIN period[m]

\* The column that is overwritten at each login is backed by a login.
LoginsKept ==
    \A u \in Members : member[u].lastLogin # 0 => B!MonthOf(member[u].lastLogin) \in logins[u]

\* What a closer has computed of month m is one snapshot of each member ...
OneEach(rows, m) ==
    /\ \A r \in rows : r.month = m
    /\ Cardinality(rows) = Cardinality(Members)
    /\ B!SalesIdUsers(rows) \subseteq B!Billable(rows)

\* ... and who is billable was there.
WereThere(rows) ==
    \A r \in B!Billable(rows) : /\ r.month \in logins[r.user] \cup drafts[r.user]
                                /\ member[r.user].channelFrom # 0

\* The invariant: closed months and what the closes under way have computed are fair.
FairInv ==
    /\ BillTyped /\ LoginsKept
    /\ \A c \in Closers : close[c].pc = "write" =>
          OneEach(close[c].rows, close[c].month) /\ WereThere(close[c].rows)
    /\ \A m \in B!Months : B!Closed(m) =>
          /\ OneEach(B!SnapshotsOf(m), m)
          /\ period[m].totals = B!computeTotals(period[m].plan, B!SnapshotsOf(m), m)
    /\ WereThere(snapshots)

\* What a close computes from the members' columns as they are now.
LEMMA EvaluationIsFair ==
    ASSUME BillingAssumption, BillTyped, LoginsKept, NEW m \in B!Months,
           NEW p, p.salesIdEnabled \in BOOLEAN
    PROVE  /\ B!evaluateActivity(m, p) \subseteq Snapshot
           /\ OneEach(B!evaluateActivity(m, p), m)
           /\ WereThere(B!evaluateActivity(m, p))
<1>. DEFINE bill(u) == B!IsBillable(u, m)
            sales(u) == B!IsBillable(u, m) /\ p.salesIdEnabled
            r(u) == [month |-> m, user |-> u, billable |-> bill(u), salesId |-> sales(u)]
            rows == {r(u) : u \in Members}
<1>0. B!evaluateActivity(m, p) = rows
  BY DEF B!evaluateActivity
<1>1. \A u \in Members : bill(u) \in BOOLEAN /\ sales(u) \in BOOLEAN /\ (sales(u) => bill(u))
  BY DEF B!IsBillable
<1>2. ASSUME NEW u \in Members, bill(u)
      PROVE  m \in logins[u] \cup drafts[u] /\ member[u].channelFrom # 0
  <2>1. member[u].channelFrom # 0 /\ (B!LoggedIn(u, m) \/ m \in drafts[u])
    BY <1>2 DEF B!IsBillable, B!IsActive, B!HasChannel, B!Never
  <2>2. ASSUME B!LoggedIn(u, m) PROVE m \in logins[u]
    <3>1. m \in Nat \ {0} /\ member[u].lastLogin \in Nat
      BY DEF B!Months, BillTyped, Person
    <3>2. B!MonthOf(member[u].lastLogin) = m
      BY <2>2, <3>1, MonthIsOf DEF B!LoggedIn
    <3>3. member[u].lastLogin # 0
      <4>1. (m - 1) * MonthLength \in Nat
        BY <3>1 DEF BillingAssumption
      <4>. QED
        BY <2>2, <3>1, <4>1 DEF B!LoggedIn, B!StartOf
    <3>. QED
      BY <3>2, <3>3 DEF LoginsKept
  <2>. QED
    BY <2>1, <2>2
<1>. HIDE DEF bill, sales
<1>3. \A u \in Members : r(u) \in Snapshot /\ r(u).month = m /\ r(u).user = u
                          /\ r(u).billable = bill(u) /\ r(u).salesId = sales(u)
  BY <1>1 DEF Snapshot
<1>. HIDE DEF r
<1>4. Cardinality(rows) = Cardinality(Members)
  <2>. DEFINE f == [u \in Members |-> r(u)]
  <2>1. f \in [Members -> rows]
    OBVIOUS
  <2>2. \A u, v \in Members : f[u] = f[v] => u = v
    BY <1>3
  <2>3. \A x \in rows : \E u \in Members : f[u] = x
    OBVIOUS
  <2>. HIDE DEF f, rows
  <2>4. f \in Bijection(Members, rows)
    BY <2>1, <2>2, <2>3 DEF Bijection, Injection, Surjection, IsInjective
  <2>. QED
    BY <2>4, FS_Bijection DEF ExistsBijection, BillingAssumption
<1>5. rows \subseteq Snapshot /\ \A x \in rows : x.month = m
  BY <1>3
<1>6. B!SalesIdUsers(rows) \subseteq B!Billable(rows)
  BY <1>1, <1>3 DEF B!SalesIdUsers, B!Billable
<1>7. WereThere(rows)
  BY <1>2, <1>3 DEF WereThere, B!Billable
<1>. HIDE DEF rows
<1>. QED
  BY <1>0, <1>4, <1>5, <1>6, <1>7 DEF OneEach

\* Who was there stays known: activity is added, never withdrawn.
LEMMA ActivityStays ==
    ASSUME NEW R, R \subseteq Snapshot, WereThere(R),
           \A u \in Members : /\ logins[u] \subseteq logins'[u] /\ drafts[u] \subseteq drafts'[u]
                              /\ member[u].channelFrom # 0 => member'[u].channelFrom # 0
    PROVE  WereThere(R)'
<1>1. \A r \in B!Billable(R) : r.user \in Members
  BY DEF B!Billable, Snapshot
<1>. QED
  BY <1>1 DEF WereThere, B!Billable

\* What members and administrators do leaves the closes as they are.
LEMMA ActivityKeepsFair ==
    ASSUME FairInv, BillTyped', LoginsKept', UNCHANGED <<period, snapshots, close>>,
           \A u \in Members : /\ logins[u] \subseteq logins'[u] /\ drafts[u] \subseteq drafts'[u]
                              /\ member[u].channelFrom # 0 => member'[u].channelFrom # 0
    PROVE  FairInv'
<1>1. ASSUME NEW c \in Closers, close'[c].pc = "write"
      PROVE  (OneEach(close[c].rows, close[c].month) /\ WereThere(close[c].rows))'
  <2>1. PICK R \in SUBSET Snapshot : R = close[c].rows /\ close'[c].rows = R
    BY DEF FairInv, BillTyped, Closing
  <2>2. WereThere(R)'
    BY <1>1, <2>1, ActivityStays DEF FairInv
  <2>3. OneEach(R, close[c].month) /\ close'[c].month = close[c].month
    BY <1>1, <2>1 DEF FairInv
  <2>. QED
    BY <2>1, <2>2, <2>3 DEF OneEach, B!Billable, B!SalesIdUsers, WereThere
<1>2. WereThere(snapshots)'
  <2>1. PICK R \in SUBSET Snapshot : R = snapshots /\ snapshots' = R
    BY DEF FairInv, BillTyped
  <2>2. WereThere(R)'
    BY <2>1, ActivityStays DEF FairInv
  <2>. QED
    BY <2>1, <2>2 DEF WereThere, B!Billable
<1>3. ASSUME NEW m \in B!Months, B!Closed(m)'
      PROVE  /\ OneEach(B!SnapshotsOf(m), m)'
             /\ period'[m].totals = B!computeTotals(period'[m].plan, B!SnapshotsOf(m)', m)
  <2>1. B!Closed(m) /\ B!SnapshotsOf(m)' = B!SnapshotsOf(m) /\ period' = period
    BY <1>3 DEF B!Closed, B!SnapshotsOf
  <2>. QED
    BY <2>1 DEF FairInv, OneEach, B!SalesIdUsers, B!Billable
<1>. QED
  BY <1>1, <1>2, <1>3 DEF FairInv

\* Members log in, draft, join and leave; the plan changes; time passes.
LEMMA MemberStep ==
    ASSUME BillingAssumption, FairInv,
           \/ \E u \in Members : \/ B!stampLastLogin(u) \/ B!Produce(u) \/ B!Authorise(u)
                                 \/ B!Revoke(u) \/ B!Depart(u)
           \/ \E p \in Plans : B!updateTenantPlan(p)
           \/ B!Tick
    PROVE  FairInv'
<1>0. /\ BillTyped /\ LoginsKept
      /\ UNCHANGED <<period, snapshots, close>>
      /\ \A t \in Nat \ {0} : B!MonthOf(t) \in Nat
  <2>1. \A t \in Nat \ {0} : t - 1 \in Nat /\ B!MonthOf(t) \in Nat
    BY Quotient DEF BillingAssumption, B!MonthOf
  <2>. QED
    BY <2>1 DEF FairInv, B!stampLastLogin, B!Produce, B!Authorise, B!Revoke, B!Depart,
              B!updateTenantPlan, B!Tick
<1>1. ASSUME NEW u \in Members, B!stampLastLogin(u) PROVE FairInv'
  <2>. DEFINE x == [member[u] EXCEPT !.lastLogin = day]
  <2>1. /\ member' = [member EXCEPT ![u] = x]
        /\ logins' = [logins EXCEPT ![u] = @ \cup {B!MonthOf(day)}]
        /\ UNCHANGED <<day, drafts, plan>>
    BY <1>1 DEF B!stampLastLogin
  <2>2. x \in Person /\ x.lastLogin = day /\ x.channelFrom = member[u].channelFrom
    BY <1>0 DEF BillTyped, Person
  <2>. HIDE DEF x
  <2>3. BillTyped'
    BY <1>0, <2>1, <2>2 DEF BillTyped
  <2>4. LoginsKept'
    BY <1>0, <2>1, <2>2 DEF LoginsKept, BillTyped, B!MonthOf
  <2>. QED
    BY <1>0, <2>1, <2>2, <2>3, <2>4, ActivityKeepsFair DEF BillTyped
<1>2. ASSUME NEW u \in Members, B!Produce(u) PROVE FairInv'
  <2>1. /\ drafts' = [drafts EXCEPT ![u] = @ \cup {B!MonthOf(day)}]
        /\ UNCHANGED <<day, member, plan, logins>>
    BY <1>2 DEF B!Produce
  <2>2. BillTyped' /\ LoginsKept'
    BY <1>0, <2>1 DEF BillTyped, LoginsKept
  <2>. QED
    BY <1>0, <2>1, <2>2, ActivityKeepsFair DEF BillTyped
<1>3. ASSUME NEW u \in Members, NEW x \in Person, member' = [member EXCEPT ![u] = x],
             x.lastLogin = member[u].lastLogin, member[u].channelFrom # 0 => x.channelFrom # 0,
             UNCHANGED <<day, drafts, plan, logins>>
      PROVE  FairInv'
  <2>1. BillTyped'
    BY <1>0, <1>3 DEF BillTyped
  <2>2. LoginsKept'
    BY <1>0, <1>3 DEF BillTyped, LoginsKept
  <2>. QED
    BY <1>0, <1>3, <2>1, <2>2, ActivityKeepsFair DEF BillTyped
<1>4. ASSUME NEW u \in Members, B!Authorise(u) PROVE FairInv'
  <2>. DEFINE x == [member[u] EXCEPT !.channelFrom = day]
  <2>1. /\ x \in Person /\ x.lastLogin = member[u].lastLogin /\ x.channelFrom = day
        /\ member' = [member EXCEPT ![u] = x] /\ UNCHANGED <<day, drafts, plan, logins>>
    BY <1>0, <1>4 DEF B!Authorise, BillTyped, Person
  <2>. HIDE DEF x
  <2>. QED
    BY <1>0, <1>3, <2>1 DEF BillTyped
<1>5. ASSUME NEW u \in Members, B!Revoke(u) PROVE FairInv'
  <2>. DEFINE x == [member[u] EXCEPT !.revokedAt = day,
                                     !.channelTo = IF member[u].channelFrom = B!Never
                                                   THEN B!Never ELSE day]
  <2>1. /\ x \in Person /\ x.lastLogin = member[u].lastLogin
        /\ x.channelFrom = member[u].channelFrom
        /\ member' = [member EXCEPT ![u] = x] /\ UNCHANGED <<day, drafts, plan, logins>>
    BY <1>0, <1>5 DEF B!Revoke, BillTyped, Person, B!Never
  <2>. HIDE DEF x
  <2>. QED
    BY <1>3, <2>1
<1>6. ASSUME NEW u \in Members, B!Depart(u) PROVE FairInv'
  <2>. DEFINE x == [member[u] EXCEPT !.status = "ANONYMISED"]
  <2>1. /\ x \in Person /\ x.lastLogin = member[u].lastLogin
        /\ x.channelFrom = member[u].channelFrom
        /\ member' = [member EXCEPT ![u] = x] /\ UNCHANGED <<day, drafts, plan, logins>>
    BY <1>0, <1>6 DEF B!Depart, BillTyped, Person
  <2>. HIDE DEF x
  <2>. QED
    BY <1>3, <2>1
<1>7. ASSUME UNCHANGED <<member, drafts, logins>>, day' \in Nat \ {0}, plan' \in Plans
      PROVE  FairInv'
  <2>1. BillTyped' /\ LoginsKept'
    BY <1>0, <1>7 DEF BillTyped, LoginsKept
  <2>. QED
    BY <1>7, <2>1, <1>0, ActivityKeepsFair
<1>8. ASSUME NEW p \in Plans, B!updateTenantPlan(p) PROVE FairInv'
  BY <1>0, <1>7, <1>8 DEF B!updateTenantPlan, BillTyped
<1>9. CASE B!Tick
  BY <1>0, <1>7, <1>9 DEF B!Tick, BillTyped
<1>. QED
  BY <1>1, <1>2, <1>4, <1>5, <1>6, <1>8, <1>9

\* One closer moves on and writes nothing; what it takes along to write is fair.
LEMMA CloserMoves ==
    ASSUME FairInv, NEW c \in Closers, NEW x \in Closing, close' = [close EXCEPT ![c] = x],
           x.pc = "write" => OneEach(x.rows, x.month) /\ WereThere(x.rows),
           UNCHANGED <<day, member, drafts, plan, period, snapshots, logins>>
    PROVE  FairInv'
<1>1. BillTyped' /\ LoginsKept'
  BY DEF FairInv, BillTyped, LoginsKept
<1>2. ASSUME NEW e \in Closers, close'[e].pc = "write"
      PROVE  (OneEach(close[e].rows, close[e].month) /\ WereThere(close[e].rows))'
  <2>1. PICK y : y = close'[e] /\ OneEach(y.rows, y.month) /\ WereThere(y.rows)
    BY <1>2 DEF FairInv, BillTyped
  <2>. QED
    BY <2>1 DEF OneEach, WereThere, B!Billable, B!SalesIdUsers
<1>3. WereThere(snapshots)'
  BY DEF FairInv, WereThere, B!Billable
<1>4. ASSUME NEW m \in B!Months, B!Closed(m)'
      PROVE  /\ OneEach(B!SnapshotsOf(m), m)'
             /\ period'[m].totals = B!computeTotals(period'[m].plan, B!SnapshotsOf(m)', m)
  <2>1. B!Closed(m) /\ B!SnapshotsOf(m)' = B!SnapshotsOf(m) /\ period' = period
    BY <1>4 DEF B!Closed, B!SnapshotsOf
  <2>. QED
    BY <2>1 DEF FairInv, OneEach, B!SalesIdUsers, B!Billable
<1>. QED
  BY <1>1, <1>2, <1>3, <1>4 DEF FairInv

\* The first month, and what an idle close holds.
LEMMA Fresh ==
    ASSUME BillingAssumption
    PROVE  /\ 1 \in B!Months /\ B!Idle \in Closing /\ B!Idle.pc = "idle"
           /\ B!NoPlan.salesIdEnabled = FALSE
<1>1. Horizon - 1 \in Nat /\ (Horizon - 1) \div MonthLength \in Nat
  BY Quotient DEF BillingAssumption
<1>2. 1 \in B!Months
  BY <1>1 DEF B!Months, B!MonthOf
<1>. QED
  BY <1>2 DEF B!Idle, Closing, B!NoPlan

\* A close reads its month, the plan, the members.
LEMMA ReadingStep ==
    ASSUME BillingAssumption, FairInv, NEW c \in Closers,
           \/ B!closeAllDueBillingPeriods(c) \/ B!ForceClose(c)
           \/ B!planFromTenant(c) \/ B!Evaluate(c)
    PROVE  FairInv'
<1>0. BillTyped /\ LoginsKept /\ close[c] \in Closing
      /\ UNCHANGED <<day, member, drafts, plan, period, snapshots, logins>>
  BY DEF FairInv, BillTyped, B!closeAllDueBillingPeriods, B!ForceClose, B!closeBillingPeriod,
         B!planFromTenant, B!Evaluate
<1>1. ASSUME NEW m \in B!Months, B!closeBillingPeriod(c, m) PROVE FairInv'
  <2>. DEFINE x == [B!Idle EXCEPT !.pc = "plan", !.month = m]
  <2>1. x \in Closing /\ x.pc = "plan" /\ close' = [close EXCEPT ![c] = x]
    BY <1>1, Fresh DEF B!closeBillingPeriod, Closing
  <2>. HIDE DEF x
  <2>. QED
    BY <1>0, <2>1, CloserMoves
<1>2. CASE B!planFromTenant(c)
  <2>. DEFINE x == [close[c] EXCEPT !.pc = "evaluate", !.plan = plan]
  <2>1. x \in Closing /\ x.pc = "evaluate" /\ close' = [close EXCEPT ![c] = x]
    BY <1>0, <1>2 DEF B!planFromTenant, Closing, BillTyped
  <2>. HIDE DEF x
  <2>. QED
    BY <1>0, <2>1, CloserMoves
<1>3. CASE B!Evaluate(c)
  <2>1. PICK m \in B!Months, p \in Plans \cup {B!NoPlan} : m = close[c].month /\ p = close[c].plan
    BY <1>0 DEF Closing
  <2>2. p.salesIdEnabled \in BOOLEAN
    BY <2>1, Fresh DEF BillingAssumption
  <2>3. /\ B!evaluateActivity(m, p) \subseteq Snapshot
        /\ OneEach(B!evaluateActivity(m, p), m) /\ WereThere(B!evaluateActivity(m, p))
    <3>1. LoginsKept
      BY <1>0
    <3>2. BillTyped
      BY <1>0
    <3>. QED
      BY <2>2, <3>1, <3>2, EvaluationIsFair
  <2>4. PICK rows \in SUBSET Snapshot : /\ rows = B!evaluateActivity(m, p)
                                        /\ OneEach(rows, m) /\ WereThere(rows)
    BY <2>3
  <2>. DEFINE x == [close[c] EXCEPT !.pc = "write", !.rows = rows]
  <2>5. x \in Closing /\ x.rows = rows /\ x.month = m
    BY <1>0, <2>1 DEF Closing
  <2>6. close' = [close EXCEPT ![c] = x]
    BY <1>0, <1>3, <2>1, <2>4 DEF B!Evaluate, BillTyped
  <2>. HIDE DEF x
  <2>. QED
    BY <1>0, <2>4, <2>5, <2>6, CloserMoves
<1>. QED
  BY <1>1, <1>2, <1>3 DEF B!closeAllDueBillingPeriods, B!ForceClose

\* The transaction of a close.
LEMMA WriteStep ==
    ASSUME BillingAssumption, FairInv, NEW c \in Closers, B!WritePeriod(c)
    PROVE  FairInv'
<1>1. PICK m \in B!Months, rows \in SUBSET Snapshot :
         /\ m = close[c].month /\ rows = close[c].rows /\ OneEach(rows, m) /\ WereThere(rows)
  BY DEF FairInv, BillTyped, Closing, B!WritePeriod
<1>. DEFINE new == [status |-> "CLOSED", plan |-> close[c].plan,
                    totals |-> B!computeTotals(close[c].plan, rows, m)]
<1>2. /\ period' = [period EXCEPT ![m] = new]
      /\ snapshots' = B!OtherMonths(m) \cup rows
      /\ close' = [close EXCEPT ![c] = B!Idle]
      /\ UNCHANGED <<day, member, drafts, plan, logins>>
  BY <1>1 DEF B!WritePeriod
<1>3. /\ "status" \in DOMAIN new /\ new.plan = close[c].plan
      /\ new.totals = B!computeTotals(new.plan, rows, m)
  OBVIOUS
<1>. HIDE DEF new
<1>4. BillTyped' /\ LoginsKept'
  BY <1>1, <1>2, <1>3, Fresh DEF FairInv, BillTyped, LoginsKept, B!OtherMonths
<1>5. ASSUME NEW e \in Closers, close'[e].pc = "write"
      PROVE  (OneEach(close[e].rows, close[e].month) /\ WereThere(close[e].rows))'
  <2>1. close'[e] = close[e]
    BY <1>2, <1>5, Fresh DEF FairInv, BillTyped
  <2>. QED
    BY <1>2, <1>5, <2>1 DEF FairInv, OneEach, WereThere, B!Billable, B!SalesIdUsers
<1>6. WereThere(snapshots)'
  BY <1>1, <1>2 DEF FairInv, WereThere, B!Billable, B!OtherMonths
<1>7. B!SnapshotsOf(m)' = rows
  BY <1>1, <1>2 DEF B!SnapshotsOf, B!OtherMonths, OneEach
<1>8. \A n \in B!Months \ {m} : B!SnapshotsOf(n)' = B!SnapshotsOf(n) /\ period'[n] = period[n]
  BY <1>1, <1>2 DEF FairInv, BillTyped, B!SnapshotsOf, B!OtherMonths, OneEach
<1>9. ASSUME NEW n \in B!Months, B!Closed(n)'
      PROVE  /\ OneEach(B!SnapshotsOf(n), n)'
             /\ period'[n].totals = B!computeTotals(period'[n].plan, B!SnapshotsOf(n)', n)
  <2>1. CASE n = m
    <3>1. period'[m] = new
      BY <1>2 DEF FairInv, BillTyped
    <3>. QED
      BY <1>1, <1>3, <1>7, <2>1, <3>1 DEF OneEach, B!SalesIdUsers, B!Billable
  <2>2. CASE n # m
    <3>1. B!Closed(n)
      BY <1>8, <1>9, <2>2 DEF B!Closed
    <3>. QED
      BY <1>8, <2>2, <3>1 DEF FairInv, OneEach, B!SalesIdUsers, B!Billable
  <2>. QED
    BY <2>1, <2>2
<1>. QED
  BY <1>4, <1>5, <1>6, <1>9 DEF FairInv

\* A reopening.
LEMMA ReopenStep ==
    ASSUME BillingAssumption, FairInv, NEW m \in B!Months, B!reopenBillingPeriod(m)
    PROVE  FairInv'
<1>1. /\ period' = [period EXCEPT ![m].status = "DRAFT"]
      /\ UNCHANGED <<day, member, drafts, plan, snapshots, close, logins>>
  BY DEF B!reopenBillingPeriod
<1>2. BillTyped' /\ LoginsKept'
  BY <1>1 DEF FairInv, BillTyped, LoginsKept
<1>3. /\ period'[m].status = "DRAFT"
      /\ \A n \in B!Months \ {m} : period'[n] = period[n]
  BY <1>1 DEF FairInv, BillTyped
<1>4. ASSUME NEW n \in B!Months, B!Closed(n)'
      PROVE  /\ OneEach(B!SnapshotsOf(n), n)'
             /\ period'[n].totals = B!computeTotals(period'[n].plan, B!SnapshotsOf(n)', n)
  <2>1. n # m /\ B!Closed(n) /\ B!SnapshotsOf(n)' = B!SnapshotsOf(n)
    BY <1>1, <1>3, <1>4 DEF B!Closed, B!SnapshotsOf
  <2>. QED
    BY <1>3, <2>1 DEF FairInv, OneEach, B!SalesIdUsers, B!Billable
<1>5. WereThere(snapshots)'
  BY <1>1 DEF FairInv, WereThere, B!Billable
<1>6. ASSUME NEW c \in Closers, close'[c].pc = "write"
      PROVE  (OneEach(close[c].rows, close[c].month) /\ WereThere(close[c].rows))'
  BY <1>1, <1>6 DEF FairInv, OneEach, WereThere, B!Billable, B!SalesIdUsers
<1>. QED
  BY <1>2, <1>4, <1>5, <1>6 DEF FairInv

\* Billing counts by an instance of FiniteSets of its own.
LEMMA BillingCounts == \A T : B!Cardinality(T) = Cardinality(T)
  BY DEF B!Cardinality, Cardinality

\* A closed month adds up from its own plan and from one snapshot of each member, and bills
\* only who was there (closeBillingPeriod, evaluateActivity), however closes, reopenings,
\* changes of the plan and the members' activity interleave.
THEOREM ClosedMonthsAreFair == ASSUME BillingAssumption PROVE RacesSpec => []ClosedIsFair
<1>1. RacesInit => FairInv
  <2>. SUFFICES ASSUME RacesInit PROVE FairInv
    OBVIOUS
  <2>1. B!Init
    BY DEF RacesInit
  <2>2. B!NewMember \in Person /\ B!NewMember.lastLogin = 0
    BY DEF B!NewMember, Person, B!Never
  <2>3. BillTyped
    <3>1. day \in Nat \ {0} /\ member \in [Members -> Person] /\ plan \in Plans
          /\ drafts \in [Members -> SUBSET Nat] /\ logins \in [Members -> SUBSET Nat]
          /\ snapshots \subseteq Snapshot /\ close \in [Closers -> Closing]
      BY <2>1, <2>2, Fresh DEF B!Init
    <3>2. period = [m \in B!Months |-> period[m]] /\ \A m \in B!Months : "status" \in DOMAIN period[m]
      BY <2>1 DEF B!Init, B!NoPeriod
    <3>. QED
      BY <3>1, <3>2 DEF BillTyped
  <2>4. LoginsKept
    BY <2>1, <2>2 DEF B!Init, LoginsKept
  <2>5. \A m \in B!Months : ~ B!Closed(m)
    BY <2>1 DEF B!Init, B!Closed, B!NoPeriod, B!None
  <2>6. WereThere(snapshots) /\ \A c \in Closers : close[c].pc # "write"
    BY <2>1, Fresh DEF B!Init, WereThere, B!Billable
  <2>. QED
    BY <2>3, <2>4, <2>5, <2>6 DEF FairInv
<1>2. FairInv /\ [RacesNext]_<<scene, vars, OfB>> => FairInv'
  <2>. SUFFICES ASSUME FairInv, [RacesNext]_<<scene, vars, OfB>> PROVE FairInv'
    OBVIOUS
  <2>1. CASE UNCHANGED OfB
    <3>1. /\ UNCHANGED <<day, member, drafts, plan, period, snapshots, close, logins>>
          /\ BillTyped' /\ LoginsKept'
      BY <2>1 DEF OfB, FairInv, BillTyped, LoginsKept
    <3>. QED
      BY <3>1, ActivityKeepsFair
  <2>2. CASE B!Next
    BY <2>2, MemberStep, ReadingStep, WriteStep, ReopenStep DEF B!Next
  <2>. QED
    BY <2>1, <2>2 DEF RacesNext
<1>3. FairInv => ClosedIsFair
  <2>. SUFFICES ASSUME FairInv PROVE B!ClosedIsAccountable /\ B!BilledWasThere
    BY DEF ClosedIsFair, B!ClosedIsFair
  <2>1. B!ClosedIsAccountable
    BY BillingCounts DEF FairInv, OneEach, B!ClosedIsAccountable
  <2>2. B!BilledWasThere
    BY DEF FairInv, WereThere, B!BilledWasThere, B!Never
  <2>. QED
    BY <2>1, <2>2
<1>. QED
  BY <1>1, <1>2, <1>3, PTL DEF RacesSpec
=============================================================================
