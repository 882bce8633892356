--------------------------- MODULE AuditChainProofs ---------------------------
(***************************************************************************)
(* Proofs about AuditChain, for every set of tenants, operations and       *)
(* subscriptions.                                                          *)
(***************************************************************************)
EXTENDS Events, Sequences, FiniteSetTheorems, TLAPS

\* Only a successful CreateEvent touches the chain, and it adds one row that no row
\* of the table has the tenant and sequence number of.
LEMMA StepsAppend ==
  ASSUME TypeOK, [Next]_vars
  PROVE  \/ auditEvent' = auditEvent
         \/ \E op \in Ops : /\ pc[op] = "read"
                            /\ Unique(NextEvent(op, last[op]))
                            /\ auditEvent' = auditEvent \cup {NextEvent(op, last[op])}
                            /\ CreateEvent(op)
<1>1. CASE UNCHANGED vars
  BY <1>1 DEF vars, chainVars
<1>2. ASSUME NEW op \in Ops, OpStep(op) \/ EnqueueFails(op) \/ Crash(op)
      PROVE  \/ auditEvent' = auditEvent
             \/ /\ pc[op] = "read"
                /\ Unique(NextEvent(op, last[op]))
                /\ auditEvent' = auditEvent \cup {NextEvent(op, last[op])}
                /\ CreateEvent(op)
  <2>1. CASE CreateEvent(op)
    BY <2>1 DEF CreateEvent
  <2>2. CASE ~ CreateEvent(op)
    BY <1>2, <2>2 DEF OpStep, Mutate, ReadTip, SelectSubscriptions, Enqueue, EnqueueFails, Crash, chainVars
  <2>3. QED BY <2>1, <2>2
<1>3. ASSUME NEW s \in Subs, SetEnabled(s) \/ DeleteSubscription(s)
      PROVE  auditEvent' = auditEvent
  BY <1>3 DEF SetEnabled, DeleteSubscription, chainVars
<1>4. QED BY <1>1, <1>2, <1>3 DEF Next

\* The tip, when the chain has one, is the row with the greatest sequence number.
LEMMA TipFacts ==
  ASSUME TypeOK, HasTip, NEW t \in Tenants
  PROVE  /\ Tip(t) = [seq |-> Tip(t).seq, hash |-> Tip(t).hash]
         /\ Tip(t).seq \in Nat
         /\ WasTip(Tip(t), t)
         /\ \A e \in EventsOf(t) : e.seq <= Tip(t).seq
         /\ EventsOf(t) # {} => \E e \in EventsOf(t) : e.seq = Tip(t).seq
<1>1. CASE EventsOf(t) = {}
  BY <1>1 DEF Tip, WasTip
<1>2. CASE EventsOf(t) # {}
  <2> DEFINE e == CHOOSE e \in EventsOf(t) : \A f \in EventsOf(t) : f.seq <= e.seq
  <2>1. e \in EventsOf(t) /\ \A f \in EventsOf(t) : f.seq <= e.seq
    BY <1>2 DEF HasTip
  <2>2. Tip(t) = [seq |-> e.seq, hash |-> e.hash]
    BY <1>2 DEF Tip
  <2>3. e.seq \in Nat
    BY <2>1 DEF TypeOK, EventsOf
  <2> HIDE DEF e
  <2>4. QED BY <2>1, <2>2, <2>3 DEF WasTip
<1>3. QED BY <1>1, <1>2

\* Typing is preserved; a tip is a row only because the chain has a greatest row.
LEMMA TypingStep ==
  ASSUME TypeOK, HasTip, [Next]_vars
  PROVE  TypeOK'
<1> USE DEF TypeOK
<1>1. CASE UNCHANGED vars
  BY <1>1 DEF vars, chainVars, hookVars
<1>2. ASSUME NEW op \in Ops, Mutate(op) PROVE TypeOK'
  BY <1>2 DEF Mutate, Goto, Stages, hookVars
<1>3. ASSUME NEW op \in Ops, ReadTip(op) PROVE TypeOK'
  <2>1. TenantOf[op] \in Tenants
    BY TypesAssumption
  <2>2. QED BY <1>3, <2>1, TipFacts DEF ReadTip, Goto, Stages, hookVars
<1>4. ASSUME NEW op \in Ops, CreateEvent(op) PROVE TypeOK'
  <2> DEFINE e == NextEvent(op, last[op])
  <2>1. /\ e = [tenantId |-> e.tenantId, seq |-> e.seq, event |-> e.event,
                prevHash |-> e.prevHash, hash |-> e.hash]
        /\ e.tenantId \in Tenants /\ e.seq \in Nat \ {0} /\ e.event \in Ops
    BY TypesAssumption DEF NextEvent
  <2>2. auditEvent' = auditEvent \/ auditEvent' = auditEvent \cup {e}
    BY <1>4 DEF CreateEvent
  <2>3. pc' \in [Ops -> Stages]
    BY <1>4 DEF CreateEvent, Goto, Stages
  <2> HIDE DEF e
  <2>4. QED BY <1>4, <2>1, <2>2, <2>3 DEF CreateEvent, hookVars
<1>5. ASSUME NEW op \in Ops, SelectSubscriptions(op) PROVE TypeOK'
  <2>1. pc' \in [Ops -> Stages]
    BY <1>5 DEF SelectSubscriptions, Goto, Stages
  <2>2. matching' \in [Ops -> SUBSET Subs]
    <3> DEFINE found == {s \in Subs : /\ SubTenant[s] = TenantOf[op]
                                      /\ subscription[s] = "enabled"
                                      /\ <<s, op>> \in Matches}
    <3>1. matching' = matching \/ matching' = [matching EXCEPT ![op] = found]
      BY <1>5 DEF SelectSubscriptions
    <3>2. found \in SUBSET Subs
      OBVIOUS
    <3> HIDE DEF found
    <3>3. QED BY <3>1, <3>2
  <2>3. QED BY <1>5, <2>1, <2>2 DEF SelectSubscriptions, chainVars
<1>6. ASSUME NEW op \in Ops, Enqueue(op) PROVE TypeOK'
  BY <1>6 DEF Enqueue, Goto, Stages, chainVars
<1>7. ASSUME NEW op \in Ops, Crash(op) PROVE TypeOK'
  BY <1>7 DEF Crash, Goto, Stages, chainVars, hookVars
<1>8. ASSUME NEW s \in Subs, SetEnabled(s) PROVE TypeOK'
  BY <1>8 DEF SetEnabled, chainVars
<1>11. ASSUME NEW op \in Ops, EnqueueFails(op) PROVE TypeOK'
  BY <1>11 DEF EnqueueFails, Goto, Stages, chainVars
<1>9. ASSUME NEW s \in Subs, DeleteSubscription(s) PROVE TypeOK'
  BY <1>9 DEF DeleteSubscription, chainVars
<1>10. QED BY <1>1, <1>2, <1>3, <1>4, <1>5, <1>6, <1>7, <1>8, <1>9, <1>11 DEF Next, OpStep

\* The structure of the rows survives an append: the row that was the tip when
\* it was read is still there, and the unique index refuses a second successor.
LEMMA AppendKeepsChain ==
  ASSUME TypeOK, Sealed, SeqUnique, Linked, GapFree, HasTip, TipsKnown,
         NEW op \in Ops,
         Unique(NextEvent(op, last[op])),
         auditEvent' = auditEvent \cup {NextEvent(op, last[op])}
  PROVE  /\ Sealed' /\ SeqUnique' /\ Linked' /\ GapFree' /\ HasTip'
<1> DEFINE t == TenantOf[op]
           new == NextEvent(op, last[op])
<1>1. /\ new.tenantId = t /\ new.seq = last[op].seq + 1
      /\ new.prevHash = last[op].hash /\ t \in Tenants
      /\ new.hash = Sha256(new.prevHash, new.tenantId, new.seq, new.event)
      /\ last[op] = [seq |-> last[op].seq, hash |-> last[op].hash]
      /\ last[op].seq \in Nat
  BY TypesAssumption DEF NextEvent, TypeOK
<1>2. /\ new \in auditEvent'
      /\ \A e \in auditEvent' : e \in auditEvent \/ e = new
      /\ \A e \in auditEvent : e \in auditEvent' /\ e.seq \in Nat \ {0}
  BY DEF TypeOK
<1>3. \A e \in auditEvent : ~ (e.tenantId = t /\ e.seq = new.seq)
  BY <1>1 DEF Unique
<1>4. \A tip, u : WasTip(tip, u) => WasTip(tip, u)'
  BY <1>2 DEF WasTip, EventsOf, genesisHash
<1> HIDE DEF new
<1>5. Sealed'
  BY <1>1, <1>2 DEF Sealed
<1>6. SeqUnique'
  BY <1>1, <1>2, <1>3 DEF SeqUnique
<1>7. Linked'
  <2> SUFFICES ASSUME NEW e \in auditEvent'
               PROVE  WasTip([seq |-> e.seq - 1, hash |-> e.prevHash], e.tenantId)'
    BY DEF Linked
  <2>1. CASE e \in auditEvent
    BY <2>1, <1>4 DEF Linked
  <2>2. CASE e = new
    <3>1. [seq |-> e.seq - 1, hash |-> e.prevHash] = last[op]
      BY <1>1, <2>2
    <3>2. QED BY <1>1, <2>2, <3>1, <1>4 DEF TipsKnown
  <2>3. QED BY <1>2, <2>1, <2>2
<1>8. GapFree'
  <2> SUFFICES ASSUME NEW e \in auditEvent', NEW n \in 1..e.seq
               PROVE  \E f \in EventsOf(e.tenantId)' : f.seq = n
    BY DEF GapFree
  <2>1. CASE e \in auditEvent
    BY <2>1, <1>2 DEF GapFree, EventsOf
  <2>2. CASE e = new /\ n = new.seq
    BY <2>2, <1>2 DEF EventsOf
  <2>3. CASE e = new /\ n # new.seq
    <3>1. n \in 1..last[op].seq
      BY <1>1, <2>3
    <3>2. PICK f \in EventsOf(t) : f.seq = last[op].seq
      BY <3>1, <1>1 DEF TipsKnown, WasTip
    <3>3. PICK g \in EventsOf(t) : g.seq = n
      BY <3>1, <3>2 DEF GapFree, EventsOf
    <3>4. QED BY <3>3, <2>3, <1>1, <1>2 DEF EventsOf
  <2>4. QED BY <1>2, <2>1, <2>2, <2>3
<1>9. HasTip'
  <2> SUFFICES ASSUME NEW u \in Tenants, EventsOf(u)' # {}
               PROVE  \E f \in EventsOf(u)' : \A g \in EventsOf(u)' : g.seq <= f.seq
    BY DEF HasTip
  <2>1. CASE u # t
    <3>1. EventsOf(u)' = EventsOf(u)
      BY <2>1, <1>1, <1>2 DEF EventsOf
    <3>2. QED BY <3>1 DEF HasTip
  <2>2. CASE u = t
    <3>1. EventsOf(u)' = EventsOf(t) \cup {new}
      BY <2>2, <1>1, <1>2 DEF EventsOf
    <3>2. CASE EventsOf(t) = {}
      BY <3>1, <3>2, <1>1
    <3>3. CASE EventsOf(t) # {}
      <4>1. PICK f \in EventsOf(t) : \A g \in EventsOf(t) : g.seq <= f.seq
        BY <3>3, <1>1 DEF HasTip
      <4>2. \A g \in EventsOf(t) \cup {new} : g.seq \in Nat
        BY <1>1, <1>2 DEF EventsOf
      <4>3. CASE new.seq <= f.seq
        BY <4>1, <4>3, <3>1
      <4>4. CASE f.seq < new.seq
        <5>1. \A g \in EventsOf(t) \cup {new} : g.seq <= new.seq
          BY <4>1, <4>2, <4>4
        <5>2. QED BY <5>1, <3>1
      <4>5. QED BY <4>2, <4>3, <4>4
    <3>4. QED BY <3>2, <3>3
  <2>3. QED BY <2>1, <2>2
<1>10. QED BY <1>5, <1>6, <1>7, <1>8, <1>9

\* Steps that append nothing keep every tip known and every chain as it is.
LEMMA NoAppendKeepsChain ==
  ASSUME Sealed, SeqUnique, Linked, GapFree, HasTip, auditEvent' = auditEvent
  PROVE  /\ Sealed' /\ SeqUnique' /\ Linked' /\ GapFree' /\ HasTip'
BY DEF Sealed, SeqUnique, Linked, GapFree, HasTip, WasTip, EventsOf, genesisHash

LEMMA TipsStayKnown ==
  ASSUME TypeOK, HasTip, TipsKnown, [Next]_vars
  PROVE  TipsKnown'
<1>1. auditEvent \subseteq auditEvent'
  BY StepsAppend
<1>2. \A tip, u : WasTip(tip, u) =>
         \/ tip.seq = 0 /\ tip.hash = genesisHash(u)
         \/ \E f \in EventsOf(u)' : f.seq = tip.seq /\ f.hash = tip.hash
  BY <1>1 DEF WasTip, EventsOf
<1>3. ASSUME NEW op \in Ops PROVE WasTip(last[op], TenantOf[op])'
  <2>1. CASE last'[op] = last[op]
    <3>1. WasTip(last[op], TenantOf[op])
      BY DEF TipsKnown
    <3>2. QED BY <1>2, <2>1, <3>1 DEF WasTip, genesisHash
  <2>2. CASE last'[op] # last[op]
    <3>1. PICK q \in Ops : ReadTip(q)
      BY <2>2 DEF Next, vars, OpStep, Mutate, CreateEvent, SelectSubscriptions, Enqueue, EnqueueFails, Crash,
                  SetEnabled, DeleteSubscription, chainVars
    <3>2. last'[op] = Tip(TenantOf[op])
      BY <3>1, <2>2 DEF ReadTip, TypeOK
    <3>3. WasTip(Tip(TenantOf[op]), TenantOf[op])
      BY TipFacts, TypesAssumption
    <3>4. QED BY <1>2, <3>2, <3>3 DEF WasTip, genesisHash
  <2>3. QED BY <2>1, <2>2
<1>4. QED BY <1>3 DEF TipsKnown

LEMMA OncePerOpStep ==
  ASSUME TypeOK, OncePerOp, [Next]_vars
  PROVE  OncePerOp'
<1>1. ASSUME NEW op \in Ops, pc[op] = "read", Unique(NextEvent(op, last[op])),
             auditEvent' = auditEvent \cup {NextEvent(op, last[op])}, CreateEvent(op)
      PROVE  OncePerOp'
  <2>1. pc' = [pc EXCEPT ![op] = "appended"]
    BY <1>1 DEF CreateEvent, Goto
  <2>2. \A e \in auditEvent : e.event # op
    BY <1>1 DEF OncePerOp
  <2>3. NextEvent(op, last[op]).event = op /\ NextEvent(op, last[op]).tenantId = TenantOf[op]
    BY DEF NextEvent
  <2>4. QED BY <1>1, <2>1, <2>2, <2>3 DEF OncePerOp, TypeOK
<1>2. CASE auditEvent' = auditEvent
  <2>1. \A op \in Ops : pc[op] \in {"appended", "selected", "done", "crashed"} =>
                           pc'[op] \in {"appended", "selected", "done", "crashed"}
    BY DEF Next, vars, OpStep, Mutate, ReadTip, CreateEvent, SelectSubscriptions, Enqueue, EnqueueFails, Crash,
           SetEnabled, DeleteSubscription, Goto, TypeOK
  <2>2. QED BY <1>2, <2>1 DEF OncePerOp, TypeOK
<1>3. QED BY <1>1, <1>2, StepsAppend

\* What has been selected for delivery has its row already, in the chain of the
\* tenant that owns the subscription.
LEMMA FanoutStep ==
  ASSUME TypeOK, OncePerOp, SelectedHaveRows, DeliveriesAnchored, [Next]_vars
  PROVE  SelectedHaveRows' /\ DeliveriesAnchored'
<1>1. \A e \in auditEvent : e \in auditEvent'
  BY StepsAppend
<1>2. SelectedHaveRows'
  <2>1. ASSUME NEW op \in Ops, pc'[op] \in {"appended", "selected"}
        PROVE  \E e \in auditEvent' : e.event = op
    <3>1. CASE pc[op] \in {"appended", "selected"}
      BY <3>1, <1>1 DEF SelectedHaveRows
    <3>2. CASE pc[op] \notin {"appended", "selected"}
      <4>1. CreateEvent(op)
        BY <2>1, <3>2 DEF Next, vars, OpStep, Mutate, ReadTip, CreateEvent, SelectSubscriptions,
                          Enqueue, EnqueueFails, Crash, SetEnabled, DeleteSubscription, Goto, TypeOK
      <4>2. NextEvent(op, last[op]) \in auditEvent'
        BY <4>1, <2>1 DEF CreateEvent, Goto, TypeOK
      <4>3. QED BY <4>2 DEF NextEvent
    <3>3. QED BY <3>1, <3>2
  <2>2. ASSUME NEW op \in Ops, NEW s \in matching'[op]
        PROVE  SubTenant[s] = TenantOf[op]
    <3>1. CASE matching'[op] = matching[op]
      BY <3>1 DEF SelectedHaveRows
    <3>2. CASE matching'[op] # matching[op]
      <4>1. SelectSubscriptions(op)
        BY <3>2 DEF Next, vars, chainVars, hookVars, OpStep, Mutate, ReadTip, CreateEvent,
                    SelectSubscriptions, Enqueue, EnqueueFails, Crash, SetEnabled, DeleteSubscription, TypeOK
      <4>2. QED BY <4>1, <3>2, ZenonT(60) DEF SelectSubscriptions, TypeOK
    <3>3. QED BY <3>1, <3>2
  <2>3. QED BY <2>1, <2>2 DEF SelectedHaveRows
<1>3. DeliveriesAnchored'
  <2> SUFFICES ASSUME NEW d \in webhookDelivery'
               PROVE  \E e \in auditEvent' : /\ e.event = d.auditEventId
                                             /\ e.tenantId = SubTenant[d.subscriptionId]
    BY DEF DeliveriesAnchored
  <2>1. CASE d \in webhookDelivery
    BY <2>1, <1>1 DEF DeliveriesAnchored
  <2>2. CASE d \notin webhookDelivery
    <3>1. PICK op \in Ops : Enqueue(op)
      BY <2>2 DEF Next, vars, chainVars, hookVars, OpStep, Mutate, ReadTip, CreateEvent,
                  SelectSubscriptions, Enqueue, EnqueueFails, Crash, SetEnabled, DeleteSubscription
    <3>2. PICK s \in matching[op] : d = [subscriptionId |-> s, auditEventId |-> op]
      BY <3>1, <2>2 DEF Enqueue
    <3>3. PICK e \in auditEvent : e.event = op
      BY <3>1 DEF Enqueue, SelectedHaveRows
    <3>4. e.tenantId = SubTenant[s]
      BY <3>2, <3>3 DEF OncePerOp, SelectedHaveRows
    <3>5. QED BY <1>1, <3>2, <3>3, <3>4
  <2>3. QED BY <2>1, <2>2
<1>4. QED BY <1>2, <1>3

\* The inductive invariant: typing together with the structure of the chain.
\* Neither is inductive alone, because the tip is a typed row only when the
\* chain has a greatest row.
THEOREM Inductive == Spec => [](TypeOK /\ ChainInv)
<1>1. Init => TypeOK /\ ChainInv
  <2> SUFFICES ASSUME Init PROVE TypeOK /\ ChainInv
    OBVIOUS
  <2>1. TypeOK
    BY TypesAssumption DEF Init, TypeOK, Stages, genesisHash
  <2>2. ChainInv
    BY DEF Init, ChainInv, Sealed, SeqUnique, Linked, GapFree, HasTip, TipsKnown, OncePerOp,
           SelectedHaveRows, DeliveriesAnchored, WasTip, EventsOf
  <2>3. QED BY <2>1, <2>2
<1>2. TypeOK /\ ChainInv /\ [Next]_vars => TypeOK' /\ ChainInv'
  <2> SUFFICES ASSUME TypeOK, ChainInv, [Next]_vars PROVE TypeOK' /\ ChainInv'
    OBVIOUS
  <2> USE DEF ChainInv
  <2>1. TypeOK'
    BY TypingStep
  <2>2. Sealed' /\ SeqUnique' /\ Linked' /\ GapFree' /\ HasTip'
    BY StepsAppend, AppendKeepsChain, NoAppendKeepsChain
  <2>3. TipsKnown' /\ OncePerOp' /\ SelectedHaveRows' /\ DeliveriesAnchored'
    BY TipsStayKnown, OncePerOpStep, FanoutStep
  <2>4. QED BY <2>1, <2>2, <2>3
<1>3. QED BY <1>1, <1>2, PTL DEF Spec

\* A walk over a chain that satisfies the invariant finds nothing wrong.
LEMMA InvariantVerifies ==
  ASSUME TypeOK, ChainInv
  PROVE  ChainVerifies
<1> USE DEF ChainInv
<1> SUFFICES ASSUME NEW t \in Tenants, NEW e \in EventsOf(t)
             PROVE  RowVerifies(e)
  BY DEF ChainVerifies, verifyAuditChain
<1> DEFINE before == {f \in EventsOf(e.tenantId) : f.seq < e.seq}
<1>1. e \in auditEvent /\ e.seq \in Nat \ {0} /\ \A f \in before : f \in auditEvent /\ f.seq \in Nat
  BY DEF EventsOf, TypeOK
<1>2. e.prevHash = HashBefore(e)
  <2>1. CASE e.seq = 1
    <3>1. before = {}
      BY <1>1, <2>1 DEF EventsOf, TypeOK
    <3>2. \A f \in EventsOf(e.tenantId) : f.seq # e.seq - 1
      BY <2>1 DEF EventsOf, TypeOK
    <3>3. e.prevHash = genesisHash(e.tenantId)
      BY <1>1, <2>1, <3>2 DEF Linked, WasTip
    <3>4. QED BY <3>1, <3>3 DEF HashBefore
  <2>2. CASE e.seq # 1
    <3>1. PICK f \in EventsOf(e.tenantId) : f.seq = e.seq - 1 /\ f.hash = e.prevHash
      BY <1>1, <2>2 DEF Linked, WasTip
    <3>2. f \in before /\ \A g \in before : g.seq <= f.seq
      BY <1>1, <3>1
    <3>3. \A g \in before : (\A h \in before : h.seq <= g.seq) => g = f
      BY <1>1, <3>2 DEF SeqUnique, EventsOf
    <3>4. f = CHOOSE g \in before : \A h \in before : h.seq <= g.seq
      BY <3>2, <3>3
    <3>5. before # {}
      BY <3>2
    <3>6. HashBefore(e) = (CHOOSE g \in before : \A h \in before : h.seq <= g.seq).hash
      BY <3>5 DEF HashBefore
    <3>7. QED BY <3>1, <3>4, <3>6
  <2>3. QED BY <2>1, <2>2
<1>3. e.hash = Sha256(HashBefore(e), e.tenantId, e.seq, e.event)
  BY <1>1, <1>2 DEF Sealed
<1>4. QED BY <1>2, <1>3 DEF RowVerifies

\* No interleaving of writers, no lost race and no crash makes verifyAuditChain
\* (audit.ts) report a tampered chain.
THEOREM ChainAlwaysVerifies == Spec => []ChainVerifies
BY Inductive, InvariantVerifies, PTL

\* Every delivery dispatch.ts creates carries an event of its own tenant that is
\* already in the chain.
THEOREM AlwaysAnchored == Spec => []DeliveriesAnchored
<1>1. ChainInv => DeliveriesAnchored
  BY DEF ChainInv
<1>2. QED BY Inductive, <1>1, PTL
\* An operation has selected subscriptions only since it looked for them, and has rows only
\* when its fan-out is over: no row is there when the selection is made.
FanoutIsLate ==
    /\ \A op \in Ops : matching[op] # {} => pc[op] \in {"selected", "done", "crashed"}
    /\ \A op \in Ops, s \in Subs : HasDelivery(s, op) => pc[op] = "done"

\* The rows of one step, subscription by subscription: they stay, they go with their
\* subscription, or they are those of the operation that inserts.
LEMMA RowsOfStep ==
  ASSUME TypeOK, [Next]_vars, NEW op \in Ops, NEW s \in Subs
  PROVE  /\ HasDelivery(s, op)' /\ ~ HasDelivery(s, op) =>
               /\ pc[op] = "selected" /\ pc'[op] = "done" /\ s \in matching[op]
               /\ \A r \in matching[op] : HasDelivery(r, op)'
         /\ HasDelivery(s, op) /\ ~ HasDelivery(s, op)' => subscription'[s] = "deleted"
         /\ subscription[s] = "deleted" => subscription'[s] = "deleted"
<1> USE DEF HasDelivery
<1>1. CASE UNCHANGED vars
  BY <1>1 DEF vars, hookVars
<1>2. ASSUME NEW p \in Ops,
             \/ Mutate(p) \/ ReadTip(p) \/ CreateEvent(p) \/ Crash(p)
             \/ SelectSubscriptions(p) \/ EnqueueFails(p)
      PROVE  webhookDelivery' = webhookDelivery /\ subscription' = subscription
  BY <1>2 DEF Mutate, ReadTip, CreateEvent, Crash, SelectSubscriptions, EnqueueFails, hookVars
<1>3. ASSUME NEW p \in Ops, Enqueue(p)
      PROVE  /\ HasDelivery(s, op)' /\ ~ HasDelivery(s, op) =>
                   /\ pc[op] = "selected" /\ pc'[op] = "done" /\ s \in matching[op]
                   /\ \A r \in matching[op] : HasDelivery(r, op)'
             /\ HasDelivery(s, op) => HasDelivery(s, op)'
             /\ subscription' = subscription
  BY <1>3 DEF TypeOK, Enqueue, Goto
<1>4. ASSUME NEW r \in Subs, SetEnabled(r)
      PROVE  /\ webhookDelivery' = webhookDelivery
             /\ subscription[s] = "deleted" => subscription'[s] = "deleted"
  BY <1>4 DEF TypeOK, SetEnabled
<1>5. ASSUME NEW r \in Subs, DeleteSubscription(r)
      PROVE  /\ HasDelivery(s, op)' => HasDelivery(s, op)
             /\ HasDelivery(s, op) /\ ~ HasDelivery(s, op)' => subscription'[s] = "deleted"
             /\ subscription[s] = "deleted" => subscription'[s] = "deleted"
  BY <1>5 DEF TypeOK, DeleteSubscription
<1>6. QED BY <1>1, <1>2, <1>3, <1>4, <1>5 DEF Next, OpStep

\* What a step does to the stage and the selection of an operation.
LEMMA StagesOfStep ==
  ASSUME TypeOK, FanoutIsLate, [Next]_vars, NEW op \in Ops
  PROVE  /\ pc[op] = "done" => pc'[op] = "done" /\ matching'[op] = matching[op]
         /\ \/ matching'[op] = matching[op]
            \/ matching[op] = {} /\ pc[op] = "appended" /\ pc'[op] = "selected"
         /\ pc[op] = "selected" => pc'[op] \in {"selected", "done", "crashed"}
         /\ pc[op] = "crashed" => pc'[op] = "crashed"
         /\ matching'[op] \subseteq Subs
         /\ pc[op] = "selected" /\ pc'[op] = "done" =>
               \/ op \in swallowed'
               \/ /\ \A s \in matching[op] : HasDelivery(s, op)'
                  /\ matching'[op] = matching[op]
               \/ \E r \in matching[op] : subscription'[r] = "deleted"
         /\ op \in swallowed => op \in swallowed'
<1>1. ASSUME UNCHANGED vars
      PROVE  pc' = pc /\ matching' = matching /\ swallowed' = swallowed
  BY <1>1 DEF vars, hookVars
<1>2. ASSUME NEW p \in Ops,
             Mutate(p) \/ ReadTip(p) \/ CreateEvent(p) \/ Crash(p)
      PROVE  /\ matching' = matching /\ swallowed' = swallowed
             /\ pc[op] = "done" => pc'[op] = "done"
             /\ pc[op] = "selected" => pc'[op] \in {"selected", "done", "crashed"}
             /\ pc[op] = "crashed" => pc'[op] = "crashed"
             /\ ~ (pc[op] = "selected" /\ pc'[op] = "done")
  BY <1>2 DEF TypeOK, Mutate, ReadTip, CreateEvent, Crash, Goto, hookVars
<1>3. ASSUME NEW p \in Ops, SelectSubscriptions(p)
      PROVE  /\ swallowed' = swallowed
             /\ \/ matching'[op] = matching[op]
                \/ matching[op] = {} /\ pc[op] = "appended" /\ pc'[op] = "selected"
             /\ pc[op] # "appended" => pc'[op] = pc[op]
             /\ pc[op] = "done" => matching'[op] = matching[op]
             /\ matching'[op] \subseteq Subs
  BY <1>3, ZenonT(60) DEF TypeOK, SelectSubscriptions, Goto, FanoutIsLate
<1>4. ASSUME NEW p \in Ops, Enqueue(p)
      PROVE  /\ swallowed' = swallowed /\ matching' = matching
             /\ op # p => pc'[op] = pc[op]
             /\ pc[p] = "selected" /\ pc'[p] = "done"
             /\ \/ \A s \in matching[p] : HasDelivery(s, p)'
                \/ \E r \in matching[p] : subscription'[r] = "deleted"
  BY <1>4 DEF TypeOK, Enqueue, Goto, HasDelivery
<1>5. ASSUME NEW p \in Ops, EnqueueFails(p)
      PROVE  /\ swallowed' = swallowed \cup {p} /\ matching' = matching
             /\ op # p => pc'[op] = pc[op]
             /\ pc[p] \in {"selected", "appended"} /\ pc'[p] = "done"
  BY <1>5 DEF TypeOK, EnqueueFails, FanningOut, Goto
<1>6. ASSUME NEW r \in Subs, SetEnabled(r) \/ DeleteSubscription(r)
      PROVE  pc' = pc /\ matching' = matching /\ swallowed' = swallowed
  BY <1>6 DEF SetEnabled, DeleteSubscription
<1>7. matching[op] \subseteq Subs
  BY DEF TypeOK
<1>8. QED BY <1>1, <1>2, <1>3, <1>4, <1>5, <1>6, <1>7 DEF Next, OpStep

\* One step, in the words of the fan-out.
LEMMA FanoutRowsStep ==
  ASSUME TypeOK, FanoutIsLate, FanoutIsWhole, [Next]_vars
  PROVE  FanoutIsLate' /\ FanoutIsWhole'
<1>1. \A op \in Ops : matching[op] \subseteq Subs
  BY DEF TypeOK
<1>2. FanoutIsLate'
  <2>1. ASSUME NEW op \in Ops, matching'[op] # {}
        PROVE  pc'[op] \in {"selected", "done", "crashed"}
    BY <2>1, StagesOfStep DEF FanoutIsLate
  <2>2. ASSUME NEW op \in Ops, NEW s \in Subs, HasDelivery(s, op)'
        PROVE  pc'[op] = "done"
    BY <2>2, RowsOfStep, StagesOfStep DEF FanoutIsLate
  <2>3. QED BY <2>1, <2>2 DEF FanoutIsLate
<1>3. ASSUME NEW op \in Ops, NEW s \in matching'[op], NEW r \in matching'[op], HasDelivery(s, op)'
      PROVE  HasDelivery(r, op)' \/ subscription'[r] = "deleted"
  <2>1. matching'[op] = matching[op]
    <3>1. s \in Subs
      BY <1>3, StagesOfStep
    <3>2. pc'[op] = "done"
      BY <1>2, <1>3, <3>1 DEF FanoutIsLate
    <3>3. QED BY <3>2, StagesOfStep
  <2>2. s \in Subs /\ r \in Subs
    BY <1>1, <2>1
  <2>3. CASE HasDelivery(s, op)
    BY <2>1, <2>2, <2>3, RowsOfStep DEF FanoutIsWhole
  <2>4. CASE ~ HasDelivery(s, op)
    BY <1>3, <2>1, <2>2, <2>4, RowsOfStep
  <2>5. QED BY <2>3, <2>4
<1>4. ASSUME NEW op \in Ops, NEW s \in matching'[op], pc'[op] = "done", op \notin swallowed'
      PROVE  \/ HasDelivery(s, op)'
             \/ \E r \in matching'[op] : subscription'[r] = "deleted"
  <2>1. matching'[op] = matching[op] /\ pc[op] \in {"selected", "done"} /\ op \notin swallowed
    BY <1>4, StagesOfStep DEF FanoutIsLate
  <2>2. CASE pc[op] = "done"
    BY <1>1, <2>1, <2>2, RowsOfStep DEF FanoutIsWhole
  <2>3. CASE pc[op] = "selected"
    BY <1>4, <2>1, <2>3, StagesOfStep
  <2>4. QED BY <2>1, <2>2, <2>3
<1>5. QED BY <1>2, <1>3, <1>4 DEF FanoutIsWhole

\* dispatch.ts: however subscriptions are toggled, queries fail and processes die meanwhile, a
\* fan-out gives its event to all the subscriptions it selected that still exist or to none of
\* them, and to none only when a query threw or one of them was deleted.
THEOREM FanoutAllOrNothing == Spec => []FanoutIsWhole
<1>1. Init => FanoutIsLate /\ FanoutIsWhole
  BY DEF Init, FanoutIsLate, FanoutIsWhole, HasDelivery
<1>2. QED BY <1>1, FanoutRowsStep, Inductive, PTL DEF Spec

\* Sequence numbers of a chain are exactly 1 up to that of its tip.
LEMMA SeqsAreInterval ==
  ASSUME TypeOK, ChainInv, NEW t \in Tenants
  PROVE  /\ \A e \in EventsOf(t) : e.seq \in 1..Tip(t).seq
         /\ \A i \in 1..Tip(t).seq : \E e \in EventsOf(t) : e.seq = i
         /\ \A e, f \in EventsOf(t) : e.seq = f.seq => e = f
         /\ Tip(t).seq \in Nat
<1> USE DEF ChainInv
<1>1. /\ Tip(t).seq \in Nat
      /\ \A e \in EventsOf(t) : e.seq <= Tip(t).seq
      /\ EventsOf(t) # {} => \E e \in EventsOf(t) : e.seq = Tip(t).seq
  BY TipFacts
<1>2. \A e \in EventsOf(t) : e \in auditEvent /\ e.tenantId = t /\ e.seq \in Nat \ {0}
  BY DEF EventsOf, TypeOK
<1>3. ASSUME NEW i \in 1..Tip(t).seq PROVE \E e \in EventsOf(t) : e.seq = i
  <2>1. EventsOf(t) # {}
    BY <1>1, <1>3 DEF Tip
  <2>2. PICK e \in EventsOf(t) : e.seq = Tip(t).seq
    BY <1>1, <2>1
  <2>3. QED BY <1>2, <2>2 DEF GapFree
<1>4. QED BY <1>1, <1>2, <1>3 DEF SeqUnique

\* latest.seq, which audit-verify/run.ts and api/audit/verify report as the number
\* of events, is the number of events.
THEOREM EventCount == Spec => []EventCountIsTipSeq
<1>1. ASSUME TypeOK, ChainInv PROVE EventCountIsTipSeq
  <2> SUFFICES ASSUME NEW t \in Tenants
               PROVE  /\ {e.seq : e \in EventsOf(t)} = 1..Tip(t).seq
                      /\ Cardinality(EventsOf(t)) = Tip(t).seq
    BY DEF EventCountIsTipSeq
  <2> DEFINE n == Tip(t).seq
             f == [i \in 1..n |-> CHOOSE e \in EventsOf(t) : e.seq = i]
  <2>1. /\ \A e \in EventsOf(t) : e.seq \in 1..n
        /\ \A i \in 1..n : \E e \in EventsOf(t) : e.seq = i
        /\ \A e, g \in EventsOf(t) : e.seq = g.seq => e = g
        /\ n \in Nat
    BY <1>1, SeqsAreInterval
  <2>2. {e.seq : e \in EventsOf(t)} = 1..n
    BY <2>1
  <2> HIDE DEF n
  <2>3. \A i \in 1..n : f[i] \in EventsOf(t) /\ f[i].seq = i
    BY <2>1
  <2>4. f \in Bijection(1..n, EventsOf(t))
    <3>1. f \in [1..n -> EventsOf(t)]
      BY <2>3
    <3>2. \A i, j \in 1..n : f[i] = f[j] => i = j
      BY <2>3
    <3>3. \A e \in EventsOf(t) : \E i \in 1..n : f[i] = e
      <4> SUFFICES ASSUME NEW e \in EventsOf(t) PROVE \E i \in 1..n : f[i] = e
        OBVIOUS
      <4>1. e.seq \in 1..n
        BY <2>1
      <4>2. f[e.seq] \in EventsOf(t) /\ f[e.seq].seq = e.seq
        BY <2>3, <4>1
      <4>3. f[e.seq] = e
        BY <2>1, <4>2
      <4>4. QED BY <4>1, <4>3
    <3>4. QED BY <3>1, <3>2, <3>3 DEF Bijection, Injection, Surjection, IsInjective
  <2>5. IsFiniteSet(1..n) /\ Cardinality(1..n) = n
    BY <2>1, FS_Interval
  <2>6. Cardinality(EventsOf(t)) = n
    BY <2>4, <2>5, FS_Bijection DEF ExistsBijection
  <2>7. QED BY <2>2, <2>6 DEF n
<1>2. QED BY Inductive, <1>1, PTL

\* A writer whose row is accepted read the tip that is still the tip.
LEMMA AcceptedReadTheTip ==
  ASSUME TypeOK, ChainInv, NEW op \in Ops, Unique(NextEvent(op, last[op]))
  PROVE  last[op].seq = Tip(TenantOf[op]).seq
<1> DEFINE t == TenantOf[op]
<1>1. t \in Tenants /\ last[op].seq \in Nat
  BY TypesAssumption DEF TypeOK
<1>2. last[op].seq = 0 \/ \E f \in EventsOf(t) : f.seq = last[op].seq
  BY DEF ChainInv, TipsKnown, WasTip
<1>3. \A f \in EventsOf(t) : f.seq # last[op].seq + 1
  BY DEF Unique, NextEvent, EventsOf
<1>4. QED BY <1>1, <1>2, <1>3, SeqsAreInterval

\* The tenant's log after a row is created: the old log and the new event.
LEMMA CreateEventAppends ==
  ASSUME TypeOK, ChainInv,
         NEW op \in Ops, NEW t \in Tenants,
         Unique(NextEvent(op, last[op])),
         auditEvent' = auditEvent \cup {NextEvent(op, last[op])}
  PROVE  /\ t # TenantOf[op] => EventsOf(t)' = EventsOf(t)
         /\ t = TenantOf[op] =>
               /\ Tip(t)'.seq = Tip(t).seq + 1
               /\ \A i \in 1..Tip(t).seq : (CHOOSE e \in EventsOf(t)' : e.seq = i)
                                             = (CHOOSE e \in EventsOf(t) : e.seq = i)
               /\ (CHOOSE e \in EventsOf(t)' : e.seq = Tip(t).seq + 1).event = op
<1> DEFINE new == NextEvent(op, last[op])
<1>1. new.tenantId = TenantOf[op] /\ new.seq = last[op].seq + 1 /\ new.event = op
  BY DEF NextEvent
<1>2. CASE t # TenantOf[op]
  BY <1>1, <1>2 DEF EventsOf
<1>3. CASE t = TenantOf[op]
  <2>1. last[op].seq = Tip(t).seq
    BY <1>3, AcceptedReadTheTip
  <2>2. EventsOf(t)' = EventsOf(t) \cup {new}
    BY <1>1, <1>3 DEF EventsOf
  <2> HIDE DEF new
  <2>3. /\ \A e \in EventsOf(t) : e.seq \in 1..Tip(t).seq
        /\ \A i \in 1..Tip(t).seq : \E e \in EventsOf(t) : e.seq = i
        /\ \A e, f \in EventsOf(t) : e.seq = f.seq => e = f
        /\ Tip(t).seq \in Nat
    BY SeqsAreInterval
  <2>4. new = CHOOSE e \in EventsOf(t)' : \A f \in EventsOf(t)' : f.seq <= e.seq
    <3>1. /\ new \in EventsOf(t)'
          /\ \A f \in EventsOf(t)' : f.seq <= new.seq
          /\ \A f \in EventsOf(t) : ~ (new.seq <= f.seq)
      BY <1>1, <2>1, <2>2, <2>3
    <3>2. QED BY <2>2, <3>1
  <2>5. Tip(t)'.seq = Tip(t).seq + 1
    BY <1>1, <2>1, <2>2, <2>4 DEF Tip
  <2>6. ASSUME NEW i \in 1..Tip(t).seq
        PROVE  (CHOOSE e \in EventsOf(t)' : e.seq = i) = (CHOOSE e \in EventsOf(t) : e.seq = i)
    <3>1. \A e : (e \in EventsOf(t)' /\ e.seq = i) <=> (e \in EventsOf(t) /\ e.seq = i)
      BY <1>1, <2>1, <2>2, <2>3
    <3>2. QED BY <3>1
  <2>7. (CHOOSE e \in EventsOf(t)' : e.seq = Tip(t).seq + 1) = new
    <3>1. \A e : (e \in EventsOf(t)' /\ e.seq = Tip(t).seq + 1) <=> e = new
      BY <1>1, <2>1, <2>2, <2>3
    <3>2. QED BY <3>1
  <2>8. QED BY <1>1, <1>3, <2>5, <2>6, <2>7
<1>4. QED BY <1>2, <1>3

\* The chain implements one append-only log per tenant (EventLog): every step of
\* every interleaving records one new operation at the end of one tenant's log,
\* or changes no log.
THEOREM ImplementsEventLog == Spec => LogSpec
<1> DEFINE logOf == [t \in Tenants |-> [i \in 1..Tip(t).seq |->
                        (CHOOSE e \in EventsOf(t) : e.seq = i).event]]
<1>1. Init => Log!Init
  <2> SUFFICES ASSUME Init PROVE logOf = [t \in Tenants |-> <<>>]
    BY DEF Log!Init
  <2>1. \A t \in Tenants : Tip(t).seq = 0
    BY DEF Init, Tip, EventsOf
  <2>2. QED BY <2>1
<1>2. TypeOK /\ ChainInv /\ [Next]_vars => [Log!Next]_logOf
  <2> SUFFICES ASSUME TypeOK, ChainInv, [Next]_vars PROVE [Log!Next]_logOf
    OBVIOUS
  <2>1. CASE auditEvent' = auditEvent
    <3>1. logOf' = logOf
      BY <2>1 DEF Tip, EventsOf, genesisHash
    <3>2. QED BY <3>1
  <2>2. ASSUME NEW op \in Ops, pc[op] = "read", Unique(NextEvent(op, last[op])),
               auditEvent' = auditEvent \cup {NextEvent(op, last[op])}
        PROVE  Log!Record(op)
    <3> DEFINE u == TenantOf[op]
    <3>1. u \in Tenants
      BY TypesAssumption
    <3> DEFINE n == Tip(u).seq
               rowAt(i) == CHOOSE e \in EventsOf(u) : e.seq = i
    <3>2. n \in Nat /\ \A i \in 1..n : rowAt(i) \in EventsOf(u)
      BY <3>1, SeqsAreInterval
    <3>3. logOf[u] = [i \in 1..n |-> rowAt(i).event]
      BY <3>1
    <3>4. \A i \in 1..n : rowAt(i) \in auditEvent /\ rowAt(i).event \in Ops
      BY <3>2 DEF EventsOf, TypeOK
    <3> HIDE DEF rowAt, n
    <3>a. PICK s : s = logOf[u] /\ s = [i \in 1..n |-> rowAt(i).event]
      BY <3>3
    <3>b. Log!Logged(op) => \E i \in 1..Len(s) : s[i] = op
      BY <3>a DEF Log!Logged
    <3> HIDE DEF logOf
    <3>5. s \in Seq(Ops) /\ Len(s) = n
      BY <3>2, <3>4, <3>a
    <3>6. ~ Log!Logged(op)
      <4>1. \A e \in auditEvent : e.event # op
        BY <2>2 DEF ChainInv, OncePerOp
      <4>2. QED BY <4>1, <3>4, <3>5, <3>a, <3>b
    <3>7. logOf'[u] = Append(logOf[u], op)
      <4>1. logOf'[u] = [i \in 1..n + 1 |-> IF i = n + 1 THEN op ELSE rowAt(i).event]
        <5>1. logOf'[u] = [i \in 1..Tip(u)'.seq |-> (CHOOSE e \in EventsOf(u)' : e.seq = i).event]
          BY <3>1 DEF logOf
        <5>2. /\ Tip(u)'.seq = n + 1
              /\ \A i \in 1..n : (CHOOSE e \in EventsOf(u)' : e.seq = i) = rowAt(i)
              /\ (CHOOSE e \in EventsOf(u)' : e.seq = n + 1).event = op
          BY <2>2, <3>1, CreateEventAppends DEF n, rowAt
        <5>3. QED BY <3>2, <5>1, <5>2
      <4>2. QED BY <3>2, <3>4, <3>5, <3>a, <4>1
    <3>8. ASSUME NEW t \in Tenants, t # u PROVE logOf'[t] = logOf[t]
      <4>1. EventsOf(t)' = EventsOf(t)
        BY <2>2, <3>8, CreateEventAppends
      <4>2. Tip(t)' = Tip(t)
        BY <4>1 DEF Tip, genesisHash
      <4>3. QED BY <4>1, <4>2 DEF logOf
    <3>9. logOf' = [logOf EXCEPT ![u] = Append(logOf[u], op)]
      BY <3>1, <3>7, <3>8 DEF logOf
    <3>10. QED BY <3>6, <3>9 DEF Log!Record, logOf
  <2>3. QED BY <2>1, <2>2, StepsAppend DEF Log!Next
<1>3. QED BY <1>1, <1>2, Inductive, PTL DEF Spec, LogSpec, Log!Spec
-----------------------------------------------------------------------------
\* In Events the worker takes the steps of WebhookDelivery, or none.
WP == INSTANCE WebhookDeliveryProofs WITH Subs <- Hooks, SubOf <- HookOf

LEMMA EventsDeliver == EventsSpec => WP!Spec
<1>1. EventsInit => WP!Init
  BY DEF EventsInit, WP!Init, W!Init, WP!Idle, W!Idle, WP!NoRow, W!NoRow
<1>2. W!Next => WP!Next
  BY DEF W!Next, WP!Next, W!WorkerStep, WP!WorkerStep, W!Fault, WP!Fault,
         W!StartBatch, WP!StartBatch, W!Select, WP!Select, W!LockDelivery, WP!LockDelivery,
         W!EndBatch, WP!EndBatch, W!Load, WP!Load, W!Post, WP!Post, W!Retry, WP!Retry,
         W!FinaliseDelivered, WP!FinaliseDelivered, W!FinaliseDeadLetter, WP!FinaliseDeadLetter,
         W!AuditOutcome, WP!AuditOutcome, W!CheckAutoDisable, WP!CheckAutoDisable,
         W!AutoDisable, WP!AutoDisable, W!ThrowMissing, WP!ThrowMissing,
         W!Enqueue, WP!Enqueue, W!BackoffElapses, WP!BackoffElapses, W!GoesStale, WP!GoesStale,
         W!Reap, WP!Reap, W!ReadForUpdate, WP!ReadForUpdate,
         W!UpdateSubscription, WP!UpdateSubscription,
         W!DeleteSubscription, WP!DeleteSubscription,
         W!Step, WP!Step, W!Holds, WP!Holds, W!Deleted, WP!Deleted, W!LastAttempt, WP!LastAttempt,
         W!SettleRow, WP!SettleRow, W!Tripped, WP!Tripped, W!Throws, WP!Throws,
         W!Abandon, WP!Abandon, W!Terminal, WP!Terminal, W!Idle, WP!Idle,
         W!NoRow, WP!NoRow, W!GoneRow, WP!GoneRow
<1>3. [EventsNext]_all => [WP!Next]_WP!vars
  BY <1>2 DEF EventsNext, WP!vars, all, OfW, Appending
<1>. QED
  BY <1>1, <1>3, PTL DEF EventsSpec, WP!Spec

\* Events keeps what the worker promises: a row that a batch has locked is in the hands of
\* that worker alone (lockDelivery, reclaimStaleInFlight).
THEOREM EventsLockRows == ASSUME WP!DeliveryAssumption PROVE EventsSpec => []RowLockInv
<1>1. WP!RowLockInv => W!RowLockInv
  BY DEF WP!RowLockInv, W!RowLockInv, WP!TypeOK, W!TypeOK, WP!OneWorkerPerRow, W!OneWorkerPerRow,
         WP!InFlightIsHeld, W!InFlightIsHeld, WP!Holds, W!Holds, WP!Deleted, W!Deleted,
         WP!Statuses, W!Statuses, WP!Terminal, W!Terminal, WP!Pcs, W!Pcs,
         WP!Cardinality, W!Cardinality
<1>2. WP!Spec => []WP!RowLockInv
  BY WP!RowLocked
<1>3. W!RowLockInv => RowLockInv
  BY DEF RowLockInv
<1>. QED
  BY <1>1, <1>2, <1>3, EventsDeliver, PTL

\* ... a receiver sees a delivery twice only when an acceptance went unrecorded
\* (attemptDelivery) ...
THEOREM EventsExplainDuplicates ==
    ASSUME WP!DeliveryAssumption PROVE EventsSpec => []DuplicateHasCause
<1>1. WP!DuplicateHasCause => DuplicateHasCause
  BY DEF WP!DuplicateHasCause, W!DuplicateHasCause, DuplicateHasCause
<1>2. WP!Spec => []WP!DuplicateHasCause
  BY WP!DuplicatesHaveCauses
<1>. QED
  BY <1>1, <1>2, EventsDeliver, PTL

\* ... and a delivery settles once, after an acceptance if it settles as delivered
\* (finaliseDelivered, finaliseDeadLetter).
THEOREM EventsKeepLedger == ASSUME WP!DeliveryAssumption PROVE EventsSpec => LedgerSpec
<1>1. WP!outcome = W!outcome
  BY DEF WP!outcome, W!outcome
<1>2. WP!Ledger!Init => W!Ledger!Init
  BY <1>1 DEF WP!Ledger!Init, W!Ledger!Init
<1>3. [WP!Ledger!Next]_<<WP!outcome, received>> => [W!Ledger!Next]_<<W!outcome, received>>
  BY DEF WP!Ledger!Next, W!Ledger!Next, WP!Ledger!Open, W!Ledger!Open,
         WP!Ledger!Accept, W!Ledger!Accept, WP!Ledger!AcceptLate, W!Ledger!AcceptLate,
         WP!Ledger!Settle, W!Ledger!Settle, WP!Ledger!Remove, W!Ledger!Remove,
         WP!outcome, W!outcome
<1>4. WP!Spec => WP!LedgerSpec
  BY WP!ImplementsLedger
<1>. QED
  BY <1>2, <1>3, <1>4, EventsDeliver, PTL
     DEF LedgerSpec, W!LedgerSpec, WP!LedgerSpec, WP!Ledger!Spec, W!Ledger!Spec
=============================================================================
