--------------------------- MODULE AuditVerifyProofs ---------------------------
(***************************************************************************)
(* Proofs about AuditVerify, for every set of tenants and of passes, every *)
(* calendar and every number of tampers, crashes and failing queries.      *)
(* Then proofs about Termination, another scene of Sweeps.                 *)
(***************************************************************************)
EXTENDS Sweeps, Sequences, TLAPS

\* There is a tenant to verify, and the cron takes its lock.
LockAssumption == Tenants # {} /\ LockOn

Visiting == {"verify", "decide", "claim", "emit"}

\* One pass works at a time, on its own day, and the day does not end before it does.
LockInv == /\ \A p, q \in Passes : Active(p) /\ Active(q) => p = q
           /\ \A p \in Passes : Active(p) => day = DayOf[p]

\* A tenant that is still to be visited has no row in this pass, and the one that is being
\* visited has a row that says how far the visit is: it is stamped when the claim is made.
VisitInv ==
    \A p \in Passes :
       /\ \A t \in pass[p].todo : row[p][t] = NoRow
       /\ pass[p].pc \in Visiting =>
             LET t == pass[p].cur IN
             /\ t \notin pass[p].todo
             /\ pass[p].pc # "emit" => row[p][t].notifiedAt = 0
             /\ pass[p].pc = "emit" => row[p][t].notifiedAt # 0
             /\ pass[p].pc = "claim" => ~ RecentlyAlerted(p, t, row[p][t].failedAtSeq)
             /\ pass[p].pc # "verify" => row[p][t].status = "TAMPERED"

\* A stamp is that of a tamper, in the past, and two rows stamped for one tamper are more
\* than the window apart.
StampInv ==
    \A p \in Passes, t \in Tenants :
       /\ row[p][t].status = "TAMPERED" => row[p][t].failedAtSeq # 0
       /\ row[p][t].notifiedAt # 0 => row[p][t].status = "TAMPERED" /\ row[p][t].notifiedAt <= day
       /\ \A q \in Passes \ {p} :
             /\ row[p][t].notifiedAt # 0 /\ row[q][t].notifiedAt # 0
             /\ row[p][t].failedAtSeq = row[q][t].failedAtSeq
             => \/ row[p][t].notifiedAt > row[q][t].notifiedAt + ReAlert
                \/ row[q][t].notifiedAt > row[p][t].notifiedAt + ReAlert

\* An alert is that of a stamped row.
AlertInv ==
    \A a \in alerts : /\ row[a.by][a.tenant].notifiedAt = a.day
                      /\ row[a.by][a.tenant].failedAtSeq = a.seq

IInv == TypeOK /\ LockInv /\ VisitInv /\ StampInv /\ AlertInv

Rows == [status : {"none", "RUNNING", "OK", "TAMPERED", "ERRORED"},
         failedAtSeq : 0..MaxSeq, notifiedAt : 0..MaxDay]
Cursors == [pc : Pcs, todo : SUBSET Tenants, cur : Tenants]
-----------------------------------------------------------------------------
\* A pass moves on, and writes its row of the tenant it visits.
LEMMA Updates ==
    ASSUME TypeOK, NEW p \in Passes, NEW t \in Tenants
    PROVE  /\ pass[p] \in Cursors /\ row[p][t] \in Rows
           /\ \A x \in Cursors : pass' = [pass EXCEPT ![p] = x] =>
                 /\ pass' \in [Passes -> Cursors] /\ pass'[p] = x
                 /\ \A q \in Passes \ {p} : pass'[q] = pass[q]
           /\ \A r \in Rows : row' = [row EXCEPT ![p][t] = r] =>
                 /\ row' \in [Passes -> [Tenants -> Rows]] /\ row'[p][t] = r
                 /\ \A s \in Tenants \ {t} : row'[p][s] = row[p][s]
                 /\ \A q \in Passes \ {p} : row'[q] = row[q]
<1>1. pass \in [Passes -> Cursors] /\ row \in [Passes -> [Tenants -> Rows]]
  BY DEF TypeOK, Cursors, Rows
<1>. QED
  BY <1>1

LEMMA GotoIs ==
    ASSUME TypeOK, NEW p \in Passes, NEW pc \in Pcs, Goto(p, pc)
    PROVE  /\ [pass[p] EXCEPT !.pc = pc] \in Cursors
           /\ pass' = [pass EXCEPT ![p] = [pass[p] EXCEPT !.pc = pc]]
  BY DEF Goto, TypeOK, Cursors

\* The pass p, which has the lock, moves on to x and leaves the row r of the tenant t: what
\* is to show is about them alone.
LEMMA PassMoves ==
    ASSUME IInv, NEW p \in Passes, NEW t \in Tenants, NEW x \in Cursors, NEW r \in Rows,
           pass' = [pass EXCEPT ![p] = x], row' = [row EXCEPT ![p][t] = r],
           UNCHANGED <<day, failsAt>>, faults' \in 0..MaxFaults,
           \/ UNCHANGED alerts
           \/ /\ r.status = "TAMPERED" /\ r.notifiedAt # 0
              /\ alerts' = alerts \cup {[tenant |-> t, seq |-> r.failedAtSeq,
                                        day |-> r.notifiedAt, by |-> p]},
           Active(p),
           x.todo \subseteq pass[p].todo, t \notin x.todo \/ r = row[p][t],
           x.pc \in Visiting =>
              /\ x.cur = t /\ t \notin x.todo
              /\ x.pc # "emit" => r.notifiedAt = 0
              /\ x.pc = "emit" => r.notifiedAt # 0
              /\ x.pc = "claim" => ~ RecentlyAlerted(p, t, r.failedAtSeq)
              /\ x.pc # "verify" => r.status = "TAMPERED",
           row[p][t].notifiedAt # 0 => r = row[p][t],
           r.status = "TAMPERED" => r.failedAtSeq # 0,
           r # row[p][t] /\ r.notifiedAt # 0 =>
              /\ r.status = "TAMPERED" /\ r.notifiedAt = day
              /\ ~ RecentlyAlerted(p, t, r.failedAtSeq)
    PROVE  IInv'
<1>. USE DEF IInv
<1>1. /\ pass' \in [Passes -> Cursors] /\ pass'[p] = x
      /\ \A q \in Passes \ {p} : pass'[q] = pass[q]
      /\ row' \in [Passes -> [Tenants -> Rows]] /\ row'[p][t] = r
      /\ \A s \in Tenants \ {t} : row'[p][s] = row[p][s]
      /\ \A q \in Passes \ {p} : row'[q] = row[q]
  <2>1. TypeOK
    OBVIOUS
  <2>2. /\ pass' \in [Passes -> Cursors] /\ pass'[p] = x
        /\ \A q \in Passes \ {p} : pass'[q] = pass[q]
    BY <2>1, Updates
  <2>3. /\ row' \in [Passes -> [Tenants -> Rows]] /\ row'[p][t] = r
        /\ \A s \in Tenants \ {t} : row'[p][s] = row[p][s]
        /\ \A q \in Passes \ {p} : row'[q] = row[q]
    BY <2>1, Updates
  <2>. QED
    BY <2>2, <2>3
<1>. DEFINE alert == [tenant |-> t, seq |-> r.failedAtSeq, day |-> r.notifiedAt, by |-> p]
<1>2. TypeOK'
  <2>1. r.status = "TAMPERED" /\ r.notifiedAt # 0 =>
           alert \in [tenant : Tenants, seq : 1..MaxSeq, day : 1..MaxDay, by : Passes]
    BY BoundsAssumption DEF Rows
  <2>. QED
    BY <1>1, <2>1 DEF TypeOK, Cursors, Rows
<1>3. LockInv'
  BY <1>1 DEF LockInv, Active
<1>4. \A q \in Passes \ {p} : pass'[q] = pass[q] /\ pass[q].pc \notin Visiting
  BY <1>1 DEF LockInv, Active, Visiting
<1>5. RecentlyAlerted(p, t, r.failedAtSeq)' <=> RecentlyAlerted(p, t, r.failedAtSeq)
  BY <1>1 DEF RecentlyAlerted
<1>6. VisitInv'
  <2>1. \A q \in Passes : \A s \in pass'[q].todo : row'[q][s] = NoRow
    <3>1. \A s \in x.todo : row'[p][s] = NoRow
      BY <1>1 DEF VisitInv, Cursors
    <3>2. \A q \in Passes \ {p} : \A s \in pass'[q].todo : row'[q][s] = NoRow
      BY <1>1 DEF VisitInv
    <3>. QED
      BY <1>1, <3>1, <3>2
  <2>2. x.pc = "claim" => ~ RecentlyAlerted(p, x.cur, row[p][x.cur].failedAtSeq)'
    <3>. SUFFICES ASSUME x.pc = "claim" PROVE ~ RecentlyAlerted(p, x.cur, row[p][x.cur].failedAtSeq)'
      OBVIOUS
    <3>1. x.cur = t /\ ~ RecentlyAlerted(p, t, r.failedAtSeq)
      BY DEF Visiting
    <3>. QED
      BY <1>1, <1>5, <3>1 DEF RecentlyAlerted
  <2>3. ASSUME NEW q \in Passes, pass'[q].pc \in Visiting PROVE q = p /\ pass'[q] = x
    BY <1>1, <1>4, <2>3
  <2>4. x.pc \in Visiting => x.cur = t /\ row'[p][x.cur] = r
    BY <1>1
  <2>5. ASSUME NEW q \in Passes, pass'[q].pc \in Visiting
        PROVE  /\ pass'[q].cur \notin pass'[q].todo
               /\ pass'[q].pc # "emit" => row'[q][pass'[q].cur].notifiedAt = 0
               /\ pass'[q].pc = "emit" => row'[q][pass'[q].cur].notifiedAt # 0
               /\ pass'[q].pc # "verify" => row'[q][pass'[q].cur].status = "TAMPERED"
    BY <2>3, <2>4, <2>5
  <2>6. ASSUME NEW q \in Passes, pass'[q].pc = "claim"
        PROVE  ~ RecentlyAlerted(q, pass[q].cur, row[q][pass[q].cur].failedAtSeq)'
    <3>1. q = p /\ pass'[q] = x
      BY <2>3, <2>6 DEF Visiting
    <3>. QED
      BY <2>2, <2>6, <3>1 DEF RecentlyAlerted
  <2>. QED
    BY <2>1, <2>5, <2>6 DEF VisitInv
<1>7. \A q \in Passes, s \in Tenants :
         /\ row'[q][s] \in Rows /\ row[q][s] \in Rows /\ day \in Nat /\ ReAlert \in Nat
         /\ (q = p /\ s = t) \/ row'[q][s] = row[q][s]
  BY <1>1, BoundsAssumption DEF TypeOK, Rows
<1>8. StampInv'
  <2>1. ASSUME NEW q \in Passes \ {p}, r.notifiedAt # 0, row[q][t].notifiedAt # 0,
               r.failedAtSeq = row[q][t].failedAtSeq
        PROVE  \/ r.notifiedAt > row[q][t].notifiedAt + ReAlert
               \/ row[q][t].notifiedAt > r.notifiedAt + ReAlert
    <3>1. CASE r = row[p][t]
      BY <2>1, <3>1 DEF StampInv
    <3>2. CASE r # row[p][t]
      <4>1. row[q][t].status = "TAMPERED" /\ ~ (row[q][t].notifiedAt + ReAlert >= day) /\ r.notifiedAt = day
        BY <2>1, <3>2 DEF StampInv, RecentlyAlerted
      <4>. QED
        BY <1>7, <4>1 DEF Rows
    <3>. QED
      BY <3>1, <3>2
  <2>2. ASSUME NEW q \in Passes, NEW s \in Tenants
        PROVE  /\ row'[q][s].status = "TAMPERED" => row'[q][s].failedAtSeq # 0
               /\ row'[q][s].notifiedAt # 0 => row'[q][s].status = "TAMPERED" /\ row'[q][s].notifiedAt <= day'
    BY <1>1, <1>7 DEF StampInv
  <2>3. ASSUME NEW q \in Passes, NEW u \in Passes \ {q}, NEW s \in Tenants,
               row'[q][s].notifiedAt # 0, row'[u][s].notifiedAt # 0,
               row'[q][s].failedAtSeq = row'[u][s].failedAtSeq
        PROVE  \/ row'[q][s].notifiedAt > row'[u][s].notifiedAt + ReAlert
               \/ row'[u][s].notifiedAt > row'[q][s].notifiedAt + ReAlert
    <3>1. CASE q = p /\ s = t
      BY <1>1, <2>1, <2>3, <3>1
    <3>2. CASE u = p /\ s = t
      BY <1>1, <2>1, <2>3, <3>2
    <3>3. CASE row'[q][s] = row[q][s] /\ row'[u][s] = row[u][s]
      BY <2>3, <3>3 DEF StampInv
    <3>. QED
      BY <1>7, <3>1, <3>2, <3>3
  <2>. QED
    BY <2>2, <2>3 DEF StampInv
<1>9. AlertInv'
  <2>1. ASSUME NEW a \in alerts
        PROVE  row'[a.by][a.tenant].notifiedAt = a.day /\ row'[a.by][a.tenant].failedAtSeq = a.seq
    <3>1. a.by \in Passes /\ a.tenant \in Tenants /\ a.day # 0
      BY DEF TypeOK
    <3>. QED
      BY <1>1, <1>7, <3>1 DEF AlertInv
  <2>2. row'[alert.by][alert.tenant].notifiedAt = alert.day /\ row'[alert.by][alert.tenant].failedAtSeq = alert.seq
    BY <1>1
  <2>. QED
    BY <2>1, <2>2 DEF AlertInv
<1>. QED
  BY <1>2, <1>3, <1>6, <1>8, <1>9

LEMMA StartStep == ASSUME LockAssumption, IInv, NEW p \in Passes, Start(p) PROVE IInv'
<1>. USE DEF IInv
<1>. DEFINE pc == IF LockOn /\ \E q \in Passes : Active(q) THEN "over" ELSE "next"
            x == [pass[p] EXCEPT !.pc = pc]
<1>1. /\ pass[p].pc = "waiting" /\ day = DayOf[p] /\ Goto(p, pc) /\ pc \in Pcs
      /\ UNCHANGED <<day, failsAt, row, alerts, faults>>
  BY DEF Start, Pcs
<1>2. x \in Cursors /\ pass' = [pass EXCEPT ![p] = x]
  BY <1>1, GotoIs
<1>3. /\ pass' \in [Passes -> Cursors] /\ pass'[p] = x
      /\ \A q \in Passes \ {p} : pass'[q] = pass[q]
  <2>1. \E t : t \in Tenants
    BY DEF LockAssumption
  <2>2. TypeOK
    OBVIOUS
  <2>. HIDE DEF x
  <2>. QED
    BY <1>2, <2>1, <2>2, Updates
<1>4. x.pc = pc /\ x.todo = pass[p].todo
  <2>1. pass[p] \in Cursors
    BY DEF TypeOK, Cursors
  <2>. QED
    BY <2>1 DEF Cursors
<1>5. TypeOK'
  BY <1>1, <1>3 DEF TypeOK, Cursors
<1>6. LockInv'
  BY <1>1, <1>3, <1>4, ZenonT(60) DEF LockInv, Active, LockAssumption
<1>7. VisitInv'
  <2>1. \A q \in Passes : pass'[q].todo = pass[q].todo /\ (pass'[q] = pass[q] \/ pass'[q].pc \notin Visiting)
    <3>1. pc \notin Visiting
      BY DEF Visiting
    <3>2. \A q \in Passes : q = p \/ pass'[q] = pass[q]
      BY <1>3
    <3>3. pass'[p].pc = pc /\ pass'[p].todo = pass[p].todo
      BY <1>3, <1>4
    <3>. HIDE DEF x, pc
    <3>. QED
      BY <3>1, <3>2, <3>3
  <2>2. \A q \in Passes : \A t, seq : RecentlyAlerted(q, t, seq)' <=> RecentlyAlerted(q, t, seq)
    BY <1>1 DEF RecentlyAlerted
  <2>. QED
    BY <1>1, <2>1, <2>2 DEF VisitInv, RecentlyAlerted
<1>8. StampInv' /\ AlertInv'
  BY <1>1 DEF StampInv, AlertInv
<1>. QED
  BY <1>5, <1>6, <1>7, <1>8

\* What a pass that visits a tenant knows of its row.
LEMMA VisitKnows ==
    ASSUME IInv, NEW p \in Passes, pass[p].pc \in Visiting
    PROVE  LET t == pass[p].cur IN
           /\ Active(p) /\ t \in Tenants /\ t \notin pass[p].todo
           /\ row[p][t] \in Rows /\ pass[p] \in Cursors
           /\ pass[p].pc # "emit" => row[p][t].notifiedAt = 0
           /\ pass[p].pc = "emit" => row[p][t].notifiedAt # 0
           /\ pass[p].pc = "claim" => ~ RecentlyAlerted(p, t, row[p][t].failedAtSeq)
           /\ pass[p].pc # "verify" => row[p][t].status = "TAMPERED"
           /\ row[p][t].status = "TAMPERED" => row[p][t].failedAtSeq # 0
<1>1. pass[p] \in Cursors /\ row \in [Passes -> [Tenants -> Rows]]
  BY DEF IInv, TypeOK, Cursors, Rows
<1>. QED
  BY <1>1 DEF IInv, VisitInv, StampInv, Active, Visiting, Cursors

\* The row stays: the pass moves on within a visit, or leaves it.
LEMMA RowStays ==
    ASSUME IInv, NEW p \in Passes, Active(p), NEW pc \in Pcs \ {"verify", "emit", "decide"}, Goto(p, pc),
           pc = "claim" => /\ pass[p].pc = "decide"
                           /\ ~ RecentlyAlerted(p, pass[p].cur, row[p][pass[p].cur].failedAtSeq),
           UNCHANGED <<day, failsAt, row>>, faults' \in 0..MaxFaults,
           \/ UNCHANGED alerts
           \/ /\ pass[p].pc = "emit"
              /\ LET t == pass[p].cur IN
                 alerts' = alerts \cup {[tenant |-> t, seq |-> row[p][t].failedAtSeq,
                                         day |-> row[p][t].notifiedAt, by |-> p]}
    PROVE  IInv'
<1>. DEFINE x == [pass[p] EXCEPT !.pc = pc]
            t == pass[p].cur
            r == row[p][t]
<1>1. TypeOK /\ pass[p] \in Cursors /\ t \in Tenants /\ r \in Rows
  BY DEF IInv, TypeOK, Cursors, Rows
<1>2. x \in Cursors /\ pass' = [pass EXCEPT ![p] = x]
  BY <1>1, GotoIs
<1>3. x.pc = pc /\ x.todo = pass[p].todo /\ x.cur = t
  BY <1>1 DEF Cursors
<1>4. row' = [row EXCEPT ![p][t] = r]
  BY <1>1 DEF TypeOK
<1>5. r.status = "TAMPERED" => r.failedAtSeq # 0
  BY <1>1 DEF IInv, StampInv
<1>6. x.pc \in Visiting =>
        /\ x.cur = t /\ t \notin x.todo
        /\ x.pc # "emit" => r.notifiedAt = 0
        /\ x.pc = "emit" => r.notifiedAt # 0
        /\ x.pc = "claim" => ~ RecentlyAlerted(p, t, r.failedAtSeq)
        /\ x.pc # "verify" => r.status = "TAMPERED"
  <2>. SUFFICES ASSUME pc = "claim" PROVE
        /\ t \notin pass[p].todo /\ r.notifiedAt = 0 /\ r.status = "TAMPERED"
        /\ pc = "claim" => ~ RecentlyAlerted(p, t, r.failedAtSeq)
    BY <1>3 DEF Visiting
  <2>. QED
    BY VisitKnows DEF Visiting
<1>7. \/ UNCHANGED alerts
      \/ /\ r.status = "TAMPERED" /\ r.notifiedAt # 0
         /\ alerts' = alerts \cup {[tenant |-> t, seq |-> r.failedAtSeq, day |-> r.notifiedAt, by |-> p]}
  BY VisitKnows DEF Visiting
<1>. HIDE DEF x, t, r
<1>. QED
  BY <1>1, <1>2, <1>3, <1>4, <1>5, <1>6, <1>7, PassMoves DEF r

LEMMA PassMovesOn ==
    ASSUME LockAssumption, IInv, NEW p \in Passes,
           CreateRow(p) \/ Verify(p) \/ Decide(p) \/ Claim(p) \/ Emit(p) \/ Finish(p) \/ Errored(p) \/ Crash(p)
    PROVE  IInv'
<1>. DEFINE t == pass[p].cur
<1>0. /\ TypeOK /\ pass[p] \in Cursors /\ t \in Tenants /\ row[p][t] \in Rows
      /\ row \in [Passes -> [Tenants -> Rows]] /\ failsAt[t] \in 0..MaxSeq
      /\ faults \in 0..MaxFaults /\ MaxFaults \in Nat /\ day \in 1..MaxDay /\ MaxDay \in Nat
  BY BoundsAssumption DEF IInv, TypeOK, Cursors, Rows
<1>1. CASE CreateRow(p)
  <2>1. PICK s \in pass[p].todo :
           /\ row' = [row EXCEPT ![p][s].status = "RUNNING"]
           /\ pass' = [pass EXCEPT ![p].pc = "verify", ![p].todo = @ \ {s}, ![p].cur = s]
    BY <1>1 DEF CreateRow
  <2>. DEFINE x == [pass[p] EXCEPT !.pc = "verify", !.todo = pass[p].todo \ {s}, !.cur = s]
              r == [row[p][s] EXCEPT !.status = "RUNNING"]
  <2>2. s \in Tenants /\ row[p][s] = NoRow /\ Active(p)
    BY <1>0, <1>1 DEF IInv, VisitInv, Cursors, CreateRow, Active
  <2>3. pass' = [pass EXCEPT ![p] = x] /\ row' = [row EXCEPT ![p][s] = r]
    BY <2>1
  <2>4. x \in Cursors /\ x.todo \subseteq pass[p].todo /\ s \notin x.todo /\ x.cur = s /\ x.pc = "verify"
    BY <1>0, <2>2 DEF Cursors, Pcs
  <2>5. r \in Rows /\ r.status = "RUNNING" /\ r.notifiedAt = 0 /\ row[p][s].notifiedAt = 0
    BY <1>0, <2>2 DEF Rows, NoRow
  <2>6. UNCHANGED <<day, failsAt, alerts, faults>>
    BY <1>1 DEF CreateRow
  <2>. HIDE DEF x, r
  <2>. QED
    BY <1>0, <2>2, <2>3, <2>4, <2>5, <2>6, PassMoves
<1>2. CASE Verify(p)
  <2>0. /\ pass[p].pc = "verify" /\ Active(p) /\ t \notin pass[p].todo /\ row[p][t].notifiedAt = 0
        /\ UNCHANGED <<day, failsAt, alerts, faults>>
    BY <1>2, VisitKnows DEF Verify, Visiting
  <2>1. ASSUME NEW pc \in {"next", "decide"}, NEW r \in Rows, Goto(p, pc), row' = [row EXCEPT ![p][t] = r],
               r.notifiedAt = 0, r.status = "TAMPERED" => r.failedAtSeq # 0,
               pc = "decide" => r.status = "TAMPERED"
        PROVE  IInv'
    <3>. DEFINE x == [pass[p] EXCEPT !.pc = pc]
    <3>1. x \in Cursors /\ pass' = [pass EXCEPT ![p] = x]
      BY <1>0, <2>1, GotoIs DEF Pcs
    <3>2. x.pc = pc /\ x.todo = pass[p].todo /\ x.cur = t
      BY <1>0 DEF Cursors
    <3>. HIDE DEF x
    <3>. QED
      BY <1>0, <2>0, <2>1, <3>1, <3>2, PassMoves DEF Visiting
  <2>2. CASE failsAt[t] = 0
    <3>. DEFINE r == [row[p][t] EXCEPT !.status = "OK"]
    <3>1. r \in Rows /\ r.notifiedAt = 0 /\ r.status = "OK"
      BY <1>0, <2>0 DEF Rows
    <3>2. row' = [row EXCEPT ![p][t] = r] /\ Goto(p, "next")
      BY <1>0, <1>2, <2>2 DEF Verify
    <3>. HIDE DEF r
    <3>. QED
      BY <2>1, <3>1, <3>2
  <2>3. CASE failsAt[t] # 0
    <3>. DEFINE r == [row[p][t] EXCEPT !.status = "TAMPERED", !.failedAtSeq = failsAt[t]]
    <3>1. r \in Rows /\ r.notifiedAt = 0 /\ r.status = "TAMPERED" /\ r.failedAtSeq = failsAt[t]
      BY <1>0, <2>0 DEF Rows
    <3>2. row' = [row EXCEPT ![p][t] = r] /\ Goto(p, "decide")
      BY <1>0, <1>2, <2>3 DEF Verify
    <3>. HIDE DEF r
    <3>. QED
      BY <2>1, <2>3, <3>1, <3>2
  <2>. QED
    BY <2>2, <2>3
<1>3. CASE Decide(p)
  <2>1. /\ pass[p].pc = "decide" /\ Active(p) /\ UNCHANGED <<day, failsAt, row, alerts, faults>>
        /\ \/ Goto(p, "claim") /\ ~ RecentlyAlerted(p, t, row[p][t].failedAtSeq)
           \/ Goto(p, "next")
    BY <1>3 DEF Decide, Active
  <2>. QED
    BY <1>0, <2>1, RowStays DEF Pcs
<1>4. CASE Claim(p)
  <2>1. /\ pass[p].pc = "claim" /\ Active(p) /\ t \notin pass[p].todo /\ row[p][t].notifiedAt = 0
        /\ ~ RecentlyAlerted(p, t, row[p][t].failedAtSeq) /\ row[p][t].status = "TAMPERED"
        /\ row[p][t].failedAtSeq # 0
        /\ UNCHANGED <<day, failsAt, alerts, faults>>
    BY <1>4, VisitKnows DEF Claim, Visiting
  <2>. DEFINE r == [row[p][t] EXCEPT !.notifiedAt = day]
              x == [pass[p] EXCEPT !.pc = "emit"]
  <2>2. r \in Rows /\ r.notifiedAt = day /\ r.status = "TAMPERED" /\ r.failedAtSeq = row[p][t].failedAtSeq
    <3>1. day \in 0..MaxDay
      BY <1>0
    <3>. QED
      BY <1>0, <2>1, <3>1 DEF Rows
  <2>3. row' = [row EXCEPT ![p][t] = r] /\ Goto(p, "emit")
    BY <1>0, <1>4, <2>1 DEF Claim
  <2>4. x \in Cursors /\ pass' = [pass EXCEPT ![p] = x]
    BY <1>0, <2>3, GotoIs DEF Pcs
  <2>5. x.pc = "emit" /\ x.todo = pass[p].todo /\ x.cur = t
    BY <1>0 DEF Cursors
  <2>6. day # 0
    BY <1>0
  <2>. HIDE DEF x, r, t
  <2>. QED
    BY <1>0, <2>1, <2>2, <2>3, <2>4, <2>5, <2>6, PassMoves
<1>5. CASE Emit(p)
  <2>1. /\ pass[p].pc = "emit" /\ Active(p) /\ UNCHANGED <<day, failsAt, row>> /\ Goto(p, "next")
        /\ \/ UNCHANGED alerts
           \/ alerts' = alerts \cup {[tenant |-> t, seq |-> row[p][t].failedAtSeq,
                                      day |-> row[p][t].notifiedAt, by |-> p]}
        /\ faults' = faults \/ (faults < MaxFaults /\ faults' = faults + 1)
    BY <1>5 DEF Emit, Active
  <2>2. faults' \in 0..MaxFaults
    BY <1>0, <2>1
  <2>. QED
    BY <1>0, <2>1, <2>2, RowStays DEF Pcs
<1>6. CASE Finish(p)
  <2>1. Active(p) /\ UNCHANGED <<day, failsAt, row, alerts, faults>> /\ Goto(p, "over")
    BY <1>6 DEF Finish, Active
  <2>. QED
    BY <1>0, <2>1, RowStays DEF Pcs
<1>7. CASE Crash(p)
  <2>1. Active(p) /\ UNCHANGED <<day, failsAt, row, alerts>> /\ Goto(p, "over")
        /\ faults < MaxFaults /\ faults' = faults + 1
    BY <1>7 DEF Crash
  <2>2. faults' \in 0..MaxFaults
    BY <1>0, <2>1
  <2>. QED
    BY <1>0, <2>1, <2>2, RowStays DEF Pcs
<1>8. CASE Errored(p)
  <2>1. /\ Active(p) /\ t \notin pass[p].todo /\ row[p][t].notifiedAt = 0
        /\ UNCHANGED <<day, failsAt, alerts>> /\ faults < MaxFaults /\ faults' = faults + 1
        /\ row' = [row EXCEPT ![p][t].status = "ERRORED"] /\ Goto(p, "next")
    BY <1>8, VisitKnows DEF Errored, Visiting
  <2>. DEFINE r == [row[p][t] EXCEPT !.status = "ERRORED"]
              x == [pass[p] EXCEPT !.pc = "next"]
  <2>2. r \in Rows /\ r.notifiedAt = 0 /\ r.status = "ERRORED"
    BY <1>0, <2>1 DEF Rows
  <2>3. row' = [row EXCEPT ![p][t] = r]
    BY <1>0, <2>1
  <2>4. x \in Cursors /\ pass' = [pass EXCEPT ![p] = x]
    BY <1>0, <2>1, GotoIs DEF Pcs
  <2>5. x.pc = "next" /\ x.todo = pass[p].todo
    BY <1>0 DEF Cursors
  <2>6. faults' \in 0..MaxFaults
    BY <1>0, <2>1
  <2>. HIDE DEF x, r, t
  <2>. QED
    BY <1>0, <2>1, <2>2, <2>3, <2>4, <2>5, <2>6, PassMoves DEF Visiting
<1>. QED
  BY <1>1, <1>2, <1>3, <1>4, <1>5, <1>6, <1>7, <1>8

LEMMA InitInv == ASSUME LockAssumption, Init PROVE IInv
<1>. USE DEF Init
<1>1. (CHOOSE t \in Tenants : TRUE) \in Tenants
  BY DEF LockAssumption
<1>2. NoRow \in Rows /\ NoRow.notifiedAt = 0 /\ NoRow.status = "none" /\ "waiting" \in Pcs
  BY BoundsAssumption DEF NoRow, Rows, Pcs
<1>3. TypeOK
  BY <1>1, <1>2, BoundsAssumption DEF TypeOK, Rows
<1>4. LockInv /\ VisitInv /\ StampInv /\ AlertInv
  BY <1>1, <1>2 DEF LockInv, VisitInv, StampInv, AlertInv, Active, Visiting
<1>. QED
  BY <1>3, <1>4 DEF IInv

\* Chains are tampered with, and a day passes only when its passes are over.
LEMMA WorldStep == ASSUME IInv, NextDay \/ \E t \in Tenants : Tamper(t) PROVE IInv'
<1>. USE DEF IInv
<1>1. CASE \E t \in Tenants : Tamper(t)
  <2>1. UNCHANGED <<day, row, pass, alerts, faults>> /\ failsAt' \in [Tenants -> 0..MaxSeq]
    BY <1>1, BoundsAssumption DEF Tamper, TypeOK
  <2>2. \A q \in Passes : \A t, seq : RecentlyAlerted(q, t, seq)' <=> RecentlyAlerted(q, t, seq)
    BY <2>1 DEF RecentlyAlerted
  <2>. QED
    BY <2>1, <2>2, SMTT(30) DEF TypeOK, LockInv, VisitInv, StampInv, AlertInv, Active, RecentlyAlerted
<1>2. CASE NextDay
  <2>1. /\ UNCHANGED <<failsAt, row, pass, alerts, faults>> /\ day' = day + 1 /\ day' \in 1..MaxDay
        /\ day \in Nat /\ \A p \in Passes : ~ Active(p)
    BY <1>2, BoundsAssumption DEF NextDay, TypeOK, LockInv, Active
  <2>2. \A p \in Passes : pass[p].pc \notin Visiting
    BY <2>1 DEF Active, Visiting
  <2>3. \A p \in Passes, t \in Tenants : row[p][t].notifiedAt \in Nat
    BY BoundsAssumption DEF TypeOK
  <2>. QED
    BY <2>1, <2>2, <2>3 DEF TypeOK, LockInv, VisitInv, StampInv, AlertInv, Active
<1>. QED
  BY <1>1, <1>2

LEMMA Step == ASSUME LockAssumption PROVE IInv /\ [Next]_vars => IInv'
<1>. SUFFICES ASSUME IInv, [Next]_vars PROVE IInv'
  OBVIOUS
<1>1. CASE UNCHANGED vars
  <2>1. \A q \in Passes : \A t, seq : RecentlyAlerted(q, t, seq)' <=> RecentlyAlerted(q, t, seq)
    BY <1>1 DEF RecentlyAlerted, vars
  <2>. QED
    BY <1>1, <2>1 DEF vars, IInv, TypeOK, LockInv, VisitInv, StampInv, AlertInv, Active, RecentlyAlerted
<1>. QED
  BY <1>1, StartStep, PassMovesOn, WorldStep DEF Next, PassStep

\* Whatever passes the scheduler starts, on whatever days, and wherever one dies: one tamper
\* is not alerted on twice within the window, as long as the cron takes its lock.
THEOREM OneAlertInWindow == ASSUME LockAssumption PROVE Spec => []OneAlertPerTamper
<1>1. IInv => OneAlertPerTamper
  <2>. SUFFICES ASSUME IInv, NEW a \in alerts, NEW b \in alerts,
                       a.tenant = b.tenant, a.seq = b.seq, a # b
                PROVE  a.day > b.day + ReAlert \/ b.day > a.day + ReAlert
    BY DEF OneAlertPerTamper
  <2>1. /\ a \in [tenant : Tenants, seq : 1..MaxSeq, day : 1..MaxDay, by : Passes]
        /\ b \in [tenant : Tenants, seq : 1..MaxSeq, day : 1..MaxDay, by : Passes]
    BY DEF IInv, TypeOK
  <2>2. /\ row[a.by][a.tenant].notifiedAt = a.day /\ row[a.by][a.tenant].failedAtSeq = a.seq
        /\ row[b.by][b.tenant].notifiedAt = b.day /\ row[b.by][b.tenant].failedAtSeq = b.seq
    BY DEF IInv, AlertInv
  <2>3. a.by # b.by
    BY <2>1, <2>2
  <2>4. a.day # 0 /\ b.day # 0
    BY <2>1
  <2>. QED
    BY <2>1, <2>2, <2>3, <2>4 DEF IInv, StampInv
<1>. QED
  BY <1>1, InitInv, Step, PTL DEF Spec
-----------------------------------------------------------------------------
\* The deletions that the sweep has made, in the order of the code: what is there of those
\* tables was written meanwhile.
DeletedBefore(k) ==
    \A i \in 1..Len(T!DeletionOrder) :
       i < k /\ T!DeletionOrder[i] \in rows => T!DeletionOrder[i] \in written

\* The invariant: where the sweep is, and what it has behind it.
SweepInv ==
    /\ sweep.pc \in {"idle", "check", "delete", "complete"}
    /\ sweep.step \in 1..Len(T!DeletionOrder)
    /\ sweep = [pc |-> sweep.pc, step |-> sweep.step]
    /\ DOMAIN tenant = {"status", "effectiveAt", "completed"} /\ tenant.completed \in BOOLEAN
    /\ sweep.pc = "check" => sweep.step = 1
    /\ sweep.pc = "delete" => DeletedBefore(sweep.step)
    /\ sweep.pc = "complete" \/ tenant.completed => DeletedBefore(Len(T!DeletionOrder) + 1)

\* The order of the code: every exported table but the retained ones has its turn, and the
\* one table that the deletion of another may not leave behind has it before that one.
LEMMA OrderMatters ==
    /\ Len(T!DeletionOrder) = 27
    /\ T!Exported \ T!Retained \subseteq {T!DeletionOrder[i] : i \in 1..27}
    /\ \A c : \A k \in 1..27 : <<c, T!DeletionOrder[k]>> \in T!Restricts =>
          \E i \in 1..27 : i < k /\ T!DeletionOrder[i] = c
<1>1. Len(T!DeletionOrder) = 27
  BY DEF T!DeletionOrder
<1>2. /\ T!DeletionOrder[1] = "communicationAdherence" /\ T!DeletionOrder[2] = "adherenceScore"
      /\ T!DeletionOrder[3] = "sentimentSignal" /\ T!DeletionOrder[4] = "opportunityComment"
      /\ T!DeletionOrder[5] = "opportunityCandidate" /\ T!DeletionOrder[6] = "action"
      /\ T!DeletionOrder[7] = "draft" /\ T!DeletionOrder[8] = "ingestedMessage"
      /\ T!DeletionOrder[9] = "channelAuth" /\ T!DeletionOrder[10] = "channel"
      /\ T!DeletionOrder[11] = "meetingRecord" /\ T!DeletionOrder[12] = "meetingParticipant"
      /\ T!DeletionOrder[13] = "meeting" /\ T!DeletionOrder[14] = "complianceRuling"
      /\ T!DeletionOrder[15] = "ucgChatTurn" /\ T!DeletionOrder[16] = "ucgRule"
      /\ T!DeletionOrder[17] = "userCultureGuide" /\ T!DeletionOrder[18] = "fcgVote"
      /\ T!DeletionOrder[19] = "fcgChatTurn" /\ T!DeletionOrder[20] = "fcgProposal"
      /\ T!DeletionOrder[21] = "fcgRule" /\ T!DeletionOrder[22] = "firmCultureGuide"
      /\ T!DeletionOrder[23] = "noGoSubject" /\ T!DeletionOrder[24] = "billingUserSnapshot"
      /\ T!DeletionOrder[25] = "billingPeriod" /\ T!DeletionOrder[26] = "signOffQuestion"
      /\ T!DeletionOrder[27] = "dsarRequest"
  BY DEF T!DeletionOrder
<1>3. T!Exported \ T!Retained \subseteq {T!DeletionOrder[i] : i \in 1..27}
  BY <1>2 DEF T!Exported, T!Retained
<1>4. ASSUME NEW k \in 1..27, NEW c, <<c, T!DeletionOrder[k]>> \in T!Restricts
      PROVE  c = T!DeletionOrder[17] /\ 17 < k
  <2>1. c = "userCultureGuide" /\ T!DeletionOrder[k] = "firmCultureGuide"
    BY <1>4 DEF T!Restricts
  <2>2. k = 22
    BY <1>2, <2>1
  <2>. QED
    BY <1>2, <2>1, <2>2
<1>. QED
  BY <1>1, <1>3, <1>4

\* A table that is written to, by a member or not at all, leaves the deletions as they are.
LEMMA DeletionsKept ==
    ASSUME NEW k, DeletedBefore(k),
           \A t : t \in rows' => t \in rows \/ t \in written', written \subseteq written'
    PROVE  DeletedBefore(k)'
  BY DEF DeletedBefore, T!DeletionOrder

\* Steps that concern neither the tenant nor its tables.
LEMMA SweepStays ==
    ASSUME SweepInv, UNCHANGED <<tenant, rows, sweep, written>>
    PROVE  SweepInv'
  BY DEF SweepInv, DeletedBefore

\* Every step of the termination.
LEMMA SweepKept ==
    ASSUME SweepInv, T!Next
    PROVE  SweepInv'
<1>. USE OrderMatters
<1>1. ASSUME NEW r \in Requests, T!RequestStep(r) PROVE SweepInv'
  <2>1. /\ UNCHANGED <<rows, sweep, written>> /\ tenant'.completed = tenant.completed
        /\ DOMAIN tenant' = DOMAIN tenant
    BY <1>1 DEF T!RequestStep, T!Begin, T!noticeTermination, T!reverseTermination,
                T!ReadPackage, T!generateExportPackage, SweepInv
  <2>. QED
    BY <2>1 DEF SweepInv, DeletedBefore
<1>2. ASSUME NEW t \in Writable, T!Write(t) PROVE SweepInv'
  <2>1. \A k : DeletedBefore(k) => DeletedBefore(k)'
    BY <1>2, DeletionsKept DEF T!Write
  <2>. QED
    BY <1>2, <2>1 DEF T!Write, SweepInv
<1>3. CASE T!runHardDeletionSweep
  <2>1. sweep' = [pc |-> "check", step |-> 1] /\ UNCHANGED <<tenant, rows>> /\ ~ tenant.completed
    BY <1>3 DEF T!runHardDeletionSweep, T!Due
  <2>. QED
    BY <2>1 DEF SweepInv
<1>4. CASE T!hardDeleteTenant
  <2>1. /\ UNCHANGED <<tenant, rows, written>> /\ sweep.pc = "check"
        /\ (sweep' = T!NoSweep \/ sweep' = [sweep EXCEPT !.pc = "delete"])
    BY <1>4 DEF T!hardDeleteTenant
  <2>2. CASE sweep' = T!NoSweep
    BY <2>1, <2>2 DEF SweepInv, DeletedBefore, T!NoSweep
  <2>3. CASE sweep' = [sweep EXCEPT !.pc = "delete"]
    <3>1. sweep = [pc |-> "check", step |-> 1]
      BY <2>1 DEF SweepInv
    <3>2. sweep' = [pc |-> "delete", step |-> 1]
      BY <2>3, <3>1
    <3>3. DeletedBefore(1)' /\ (DeletedBefore(28) => DeletedBefore(28)')
      BY <2>1 DEF DeletedBefore
    <3>. QED
      BY <2>1, <3>2, <3>3 DEF SweepInv
  <2>. QED
    BY <2>1, <2>2, <2>3
<1>5. CASE T!DeleteTable
  <2>. DEFINE t == T!DeletionOrder[sweep.step]
  <2>1. sweep.pc = "delete" /\ UNCHANGED <<tenant, written>>
    BY <1>5 DEF T!DeleteTable
  <2>2. CASE sweep' = T!NoSweep /\ UNCHANGED rows
    BY <2>1, <2>2 DEF SweepInv, DeletedBefore, T!NoSweep
  <2>3. CASE /\ rows' = rows \ ({t} \cup T!ChildrenOf(t))
             /\ sweep' = IF T!MoreTables THEN [sweep EXCEPT !.step = @ + 1]
                                         ELSE [sweep EXCEPT !.pc = "complete"]
    <3>1. rows' \subseteq rows /\ t \notin rows'
      BY <2>3
    <3>2. \A k : DeletedBefore(k) => DeletedBefore(k)'
      BY <2>1, <3>1, DeletionsKept
    <3>3. PICK k \in 1..27 : k = sweep.step
      BY DEF SweepInv
    <3>4. sweep = [pc |-> "delete", step |-> k] /\ t = T!DeletionOrder[k]
      BY <2>1, <3>3 DEF SweepInv
    <3>5. DeletedBefore(k + 1)'
      <4>1. DeletedBefore(k)'
        BY <2>1, <3>2, <3>3 DEF SweepInv
      <4>. QED
        BY <3>1, <3>4, <4>1 DEF DeletedBefore
    <3>6. tenant.completed => DeletedBefore(28)'
      BY <3>2 DEF SweepInv
    <3>7. CASE T!MoreTables
      <4>1. sweep' = [sweep EXCEPT !.step = @ + 1] /\ sweep.step = k
        BY <2>3, <3>3, <3>7
      <4>2. k + 1 \in 1..27
        BY <3>3, <3>7 DEF T!MoreTables
      <4>3. sweep' = [pc |-> "delete", step |-> k + 1]
        BY <3>4, <4>1
      <4>. QED
        BY <2>1, <3>5, <3>6, <4>2, <4>3 DEF SweepInv
    <3>8. CASE ~ T!MoreTables
      <4>1. sweep' = [sweep EXCEPT !.pc = "complete"]
        BY <2>3, <3>8
      <4>2. k = 27
        BY <3>3, <3>8 DEF T!MoreTables
      <4>3. sweep' = [pc |-> "complete", step |-> k]
        BY <3>4, <4>1
      <4>. QED
        BY <2>1, <3>5, <3>6, <4>2, <4>3 DEF SweepInv
    <3>. QED
      BY <3>7, <3>8
  <2>. QED
    BY <1>5, <2>2, <2>3 DEF T!DeleteTable
<1>6. CASE T!Complete
  <2>1. sweep' = T!NoSweep /\ UNCHANGED <<rows, written>> /\ sweep.pc = "complete"
        /\ tenant' = [tenant EXCEPT !.status = "TERMINATED", !.completed = TRUE]
    BY <1>6 DEF T!Complete
  <2>. QED
    BY <2>1 DEF SweepInv, DeletedBefore, T!NoSweep
<1>7. CASE T!SweepDies
  BY <1>7 DEF SweepInv, DeletedBefore, T!SweepDies, T!NoSweep
<1>8. CASE T!Tick
  BY <1>8, SweepStays DEF T!Tick
<1>. QED
  BY <1>1, <1>2, <1>3, <1>4, <1>5, <1>6, <1>7, <1>8 DEF T!Next, T!SweepStep

\* The order of the deletions does its work: a foreign key stops the sweep only on account of
\* what members wrote meanwhile, and what a client could have exported and the law does not
\* retain is gone after it but for that (hardDeleteTenant), whoever writes, asks or dies.
THEOREM DeletionIsThorough == SweepsSpec => []SweepIsThorough
<1>1. SweepsInit => SweepInv
  BY OrderMatters DEF SweepsInit, T!Init, SweepInv, T!NoSweep, T!Live
<1>2. SweepInv /\ [SweepsNext]_all => SweepInv'
  <2>. SUFFICES ASSUME SweepInv, [SweepsNext]_all PROVE SweepInv'
    OBVIOUS
  <2>1. CASE T!Next
    BY <2>1, SweepKept
  <2>2. CASE UNCHANGED OfT
    BY <2>2, SweepStays DEF OfT
  <2>. QED
    BY <2>1, <2>2 DEF SweepsNext, all, Verifying, Checking, Terminating
<1>3. SweepInv => SweepIsThorough
  <2>. SUFFICES ASSUME SweepInv PROVE T!BlockedOnlyByWrites /\ T!NothingExportableStays
    BY DEF SweepIsThorough, T!SweepIsThorough
  <2>1. T!BlockedOnlyByWrites
    <3>. SUFFICES ASSUME sweep.pc = "delete", NEW c \in rows,
                         <<c, T!DeletionOrder[sweep.step]>> \in T!Restricts
                  PROVE  c \in written
      BY DEF T!BlockedOnlyByWrites, T!Blockers
    <3>1. PICK k \in 1..27 : k = sweep.step
      BY OrderMatters DEF SweepInv
    <3>2. <<c, T!DeletionOrder[k]>> \in T!Restricts
      BY <3>1
    <3>3. PICK i \in 1..27 : i < k /\ T!DeletionOrder[i] = c
      BY <3>2, OrderMatters
    <3>4. DeletedBefore(k)
      BY <3>1 DEF SweepInv
    <3>. QED
      BY <3>3, <3>4, OrderMatters DEF DeletedBefore
  <2>2. T!NothingExportableStays
    <3>. SUFFICES ASSUME tenant.completed, NEW t \in rows, t \in T!Exported \ T!Retained
                  PROVE  t \in written
      BY DEF T!NothingExportableStays
    <3>1. PICK i \in 1..27 : T!DeletionOrder[i] = t
      BY OrderMatters
    <3>. QED
      BY <3>1, OrderMatters DEF SweepInv, DeletedBefore
  <2>. QED
    BY <2>1, <2>2
<1>. QED
  BY <1>1, <1>2, <1>3, PTL DEF SweepsSpec
=============================================================================
