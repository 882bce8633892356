------------------------------ MODULE AuditChain ------------------------------
(***************************************************************************)
(* The per-tenant hash chain of src/lib/audit.ts and the webhook fan-out   *)
(* that follows every append (src/lib/webhooks/dispatch.ts).               *)
(*                                                                         *)
(* An operation is one request or cron step that changes some row, then    *)
(* calls writeAuditEvent.  That call is a READ COMMITTED transaction of two *)
(* statements, so operations of one tenant interleave between the read of  *)
(* the tip and the insert; @@unique([tenantId, seq]) decides the race, and *)
(* the loser's exception is not retried.  A process may die at any await.  *)
(***************************************************************************)
EXTENDS Naturals, FiniteSets

CONSTANTS Tenants,            \* tenants, each with a chain of its own
          Ops,                \* operations; each appends one event
          Subs,               \* webhook subscriptions
          TenantOf,           \* operation -> tenant
          SubTenant,          \* subscription -> tenant
          SelfOps,            \* operations whose event is in WEBHOOK_SELF_EVENT_TYPES
          Matches             \* pairs <<sub, op>>: eventTypes of sub includes the event

ASSUME TypesAssumption == /\ TenantOf \in [Ops -> Tenants]
                          /\ SubTenant \in [Subs -> Tenants]
                          /\ SelfOps \subseteq Ops
                          /\ Matches \subseteq Subs \X Ops

VARIABLES auditEvent,         \* table AuditEvent, a set of rows
          mutated,            \* operations whose own write has committed
          pc,                 \* where each operation is
          last,               \* the tip each operation has read
          subscription,       \* "enabled", "disabled" or "deleted"
          matching,           \* subscriptions each operation has selected
          swallowed,          \* operations whose fan-out threw, and was swallowed
          webhookDelivery     \* table WebhookDelivery, rows [subscriptionId, auditEventId]

chainVars == <<auditEvent, mutated, last>>
hookVars == <<subscription, matching, swallowed, webhookDelivery>>
vars == <<chainVars, pc, hookVars>>

Stages == {"start", "mutated", "read", "rejected", "appended", "selected",
           "done", "crashed"}

\* sha256 as a free constructor: equal digests only for equal inputs.
Sha256(prevHash, tenantId, seq, event) == <<prevHash, tenantId, seq, event>>

genesisHash(t) == <<"genesis", t>>

EventsOf(t) == {e \in auditEvent : e.tenantId = t}

\* Mutation of Tip: the where clause of the query loses its tenantId.
TipOfAnyTenant(t) ==
    IF auditEvent = {} THEN [seq |-> 0, hash |-> genesisHash(t)]
    ELSE LET e == CHOOSE e \in auditEvent : \A f \in auditEvent : f.seq <= e.seq
         IN  [seq |-> e.seq, hash |-> e.hash]

\* findFirst({ tenantId }, orderBy seq desc): seq and hash of the tip.  An empty
\* chain counts as seq 0 with the genesis hash, the defaults the code falls to.
Tip(t) == IF EventsOf(t) = {} THEN [seq |-> 0, hash |-> genesisHash(t)]
          ELSE LET e == CHOOSE e \in EventsOf(t) : \A f \in EventsOf(t) : f.seq <= e.seq
               IN  [seq |-> e.seq, hash |-> e.hash]

\* The row writeAuditEvent builds for op on top of the tip it read.
NextEvent(op, tip) ==
    [tenantId |-> TenantOf[op], seq |-> tip.seq + 1, event |-> op,
     prevHash |-> tip.hash,
     hash |-> Sha256(tip.hash, TenantOf[op], tip.seq + 1, op)]

\* Mutations of Unique: the constraint is missing, or lacks the tenant.
UniqueMissing(e) == TRUE
UniqueSeqOnly(e) == ~ \E f \in auditEvent : f.seq = e.seq

\* @@unique([tenantId, seq])
Unique(e) == ~ \E f \in auditEvent : f.tenantId = e.tenantId /\ f.seq = e.seq
-----------------------------------------------------------------------------
Init == /\ auditEvent = {}
        /\ mutated = {}
        /\ pc = [op \in Ops |-> "start"]
        /\ last = [op \in Ops |-> [seq |-> 0, hash |-> genesisHash(TenantOf[op])]]
        /\ subscription \in [Subs -> {"enabled", "disabled"}]
        /\ matching = [op \in Ops |-> {}]
        /\ swallowed = {}
        /\ webhookDelivery = {}

Goto(op, stage) == pc' = [pc EXCEPT ![op] = stage]

\* The caller's own write commits before it asks for the audit row.
Mutate(op) == /\ pc[op] = "start"
              /\ mutated' = mutated \cup {op}
              /\ Goto(op, "mutated")
              /\ UNCHANGED <<auditEvent, last, hookVars>>

\* First statement of the transaction.
ReadTip(op) == /\ pc[op] = "mutated"
               /\ last' = [last EXCEPT ![op] = Tip(TenantOf[op])]
               /\ Goto(op, "read")
               /\ UNCHANGED <<auditEvent, mutated, hookVars>>

\* Second statement and commit, or P2002 thrown to the caller.
CreateEvent(op) ==
    /\ pc[op] = "read"
    /\ LET e == NextEvent(op, last[op])
       IN  \/ /\ Unique(e)
              /\ auditEvent' = auditEvent \cup {e}
              /\ Goto(op, "appended")
           \/ /\ ~ Unique(e)
              /\ Goto(op, "rejected")
              /\ UNCHANGED auditEvent
    /\ UNCHANGED <<mutated, last, hookVars>>

\* Mutation of SelectSubscriptions: the query is not scoped to the tenant.
SelectAnyTenant(op) ==
    /\ pc[op] = "appended"
    /\ LET found == {s \in Subs : subscription[s] = "enabled" /\ <<s, op>> \in Matches}
       IN  IF op \in SelfOps \/ found = {}
           THEN Goto(op, "done") /\ UNCHANGED matching
           ELSE Goto(op, "selected") /\ matching' = [matching EXCEPT ![op] = found]
    /\ UNCHANGED <<chainVars, subscription, swallowed, webhookDelivery>>

\* enqueueWebhooks, first query: the enabled subscriptions that match, at that
\* moment.  Self events are not fanned out.
SelectSubscriptions(op) ==
    /\ pc[op] = "appended"
    /\ LET found == {s \in Subs : /\ SubTenant[s] = TenantOf[op]
                                  /\ subscription[s] = "enabled"
                                  /\ <<s, op>> \in Matches}
       IN  IF op \in SelfOps \/ found = {}
           THEN Goto(op, "done") /\ UNCHANGED matching
           ELSE Goto(op, "selected") /\ matching' = [matching EXCEPT ![op] = found]
    /\ UNCHANGED <<chainVars, subscription, swallowed, webhookDelivery>>

\* enqueueWebhooks, createMany: one statement, all rows or none.  A subscription
\* deleted meanwhile violates the foreign key; the error is swallowed.
Enqueue(op) ==
    /\ pc[op] = "selected"
    /\ \/ /\ \A s \in matching[op] : subscription[s] # "deleted"
          /\ webhookDelivery' = webhookDelivery \cup
                 {[subscriptionId |-> s, auditEventId |-> op] : s \in matching[op]}
       \/ /\ \E s \in matching[op] : subscription[s] = "deleted"
          /\ UNCHANGED webhookDelivery
    /\ Goto(op, "done")
    /\ UNCHANGED <<chainVars, subscription, swallowed, matching>>

\* A query of enqueueWebhooks is under way: self events do not get here.
FanningOut(op) == pc[op] = "selected" \/ (pc[op] = "appended" /\ op \notin SelfOps)

\* Mutation of EnqueueFails: the rows are inserted one by one, and the catch keeps
\* those there were when a statement failed.
EnqueueFailsMidway(op) ==
    /\ FanningOut(op)
    /\ \E some \in SUBSET {s \in matching[op] : subscription[s] # "deleted"} :
           webhookDelivery' = webhookDelivery \cup
               {[subscriptionId |-> s, auditEventId |-> op] : s \in some}
    /\ swallowed' = swallowed \cup {op}
    /\ Goto(op, "done")
    /\ UNCHANGED <<chainVars, subscription, matching>>

\* The catch of enqueueWebhooks: the subscription query, the tenant lookup or the
\* insert throws (a timeout, a lost connection), the event goes to nobody and the
\* caller is told nothing.
EnqueueFails(op) ==
    /\ FanningOut(op)
    /\ swallowed' = swallowed \cup {op}
    /\ Goto(op, "done")
    /\ UNCHANGED <<chainVars, subscription, matching, webhookDelivery>>

\* The process that runs op dies between two awaits.
Crash(op) == /\ pc[op] \notin {"start", "done", "rejected", "crashed"}
             /\ Goto(op, "crashed")
             /\ UNCHANGED <<chainVars, hookVars>>

\* updateSubscription / auto-disable / deleteSubscription, as seen from here.
SetEnabled(s) ==
    /\ subscription[s] # "deleted"
    /\ \E v \in {"enabled", "disabled"} \ {subscription[s]} :
           subscription' = [subscription EXCEPT ![s] = v]
    /\ UNCHANGED <<chainVars, pc, matching, swallowed, webhookDelivery>>

\* onDelete: Cascade takes the subscription's deliveries with it.
DeleteSubscription(s) ==
    /\ subscription[s] # "deleted"
    /\ subscription' = [subscription EXCEPT ![s] = "deleted"]
    /\ webhookDelivery' = {d \in webhookDelivery : d.subscriptionId # s}
    /\ UNCHANGED <<chainVars, pc, matching, swallowed>>

OpStep(op) == \/ Mutate(op) \/ ReadTip(op) \/ CreateEvent(op)
              \/ SelectSubscriptions(op) \/ Enqueue(op)

Next == \/ \E op \in Ops : OpStep(op) \/ EnqueueFails(op) \/ Crash(op)
        \/ \E s \in Subs : SetEnabled(s) \/ DeleteSubscription(s)

Spec == Init /\ [][Next]_vars

\* A process that is not killed runs its handler to the end.
FairSpec == Spec /\ \A op \in Ops : WF_vars(OpStep(op))
-----------------------------------------------------------------------------
\* verifyAuditChain walks the rows by seq, carrying the hash of the row before.
HashBefore(e) ==
    LET before == {f \in EventsOf(e.tenantId) : f.seq < e.seq}
    IN  IF before = {} THEN genesisHash(e.tenantId)
        ELSE (CHOOSE f \in before : \A g \in before : g.seq <= f.seq).hash

RowVerifies(e) ==
    /\ e.prevHash = HashBefore(e)
    /\ e.hash = Sha256(HashBefore(e), e.tenantId, e.seq, e.event)

verifyAuditChain(t) == \A e \in EventsOf(t) : RowVerifies(e)

TypeOK ==
    /\ \A e \in auditEvent :
          /\ e = [tenantId |-> e.tenantId, seq |-> e.seq, event |-> e.event,
                  prevHash |-> e.prevHash, hash |-> e.hash]
          /\ e.tenantId \in Tenants /\ e.seq \in Nat \ {0} /\ e.event \in Ops
    /\ mutated \subseteq Ops
    /\ pc \in [Ops -> Stages]
    /\ DOMAIN last = Ops
    /\ \A op \in Ops : /\ last[op] = [seq |-> last[op].seq, hash |-> last[op].hash]
                       /\ last[op].seq \in Nat
    /\ subscription \in [Subs -> {"enabled", "disabled", "deleted"}]
    /\ matching \in [Ops -> SUBSET Subs]
    /\ swallowed \subseteq Ops
    /\ webhookDelivery \subseteq [subscriptionId : Subs, auditEventId : Ops]

\* However the writers of a tenant interleave, die or lose races, a chain nobody
\* tampered with verifies at every moment: a TAMPERED verdict of
\* audit-verify/run.ts is never a false alarm caused by concurrency.
ChainVerifies == \A t \in Tenants : verifyAuditChain(t)

\* Sequence numbers of a tenant are 1..n without a gap or a repetition; the
\* verification pages report latest.seq as the number of events because of it.
EventCountIsTipSeq ==
    \A t \in Tenants : /\ {e.seq : e \in EventsOf(t)} = 1..Tip(t).seq
                       /\ Cardinality(EventsOf(t)) = Tip(t).seq

\* dispatch.ts: the receiver always sees a payload that has been hash-anchored,
\* and only a receiver of the tenant whose chain holds the event.
DeliveriesAnchored ==
    \A d \in webhookDelivery :
        \E e \in auditEvent : /\ e.event = d.auditEventId
                              /\ e.tenantId = SubTenant[d.subscriptionId]

HasDelivery(s, op) == [subscriptionId |-> s, auditEventId |-> op] \in webhookDelivery

\* A fan-out is whole.  Whatever is toggled, fails or dies meanwhile, an event that one
\* of the selected subscriptions gets has a row for each of them that still exists; and
\* one that ended with a row missing was lost to one of two things, a subscription
\* deleted after it was selected or a query that threw (enqueueWebhooks).
FanoutIsWhole ==
    \A op \in Ops : \A s \in matching[op] :
        /\ HasDelivery(s, op) =>
              \A r \in matching[op] : HasDelivery(r, op) \/ subscription[r] = "deleted"
        /\ pc[op] = "done" =>
              \/ HasDelivery(s, op)
              \/ op \in swallowed
              \/ \E r \in matching[op] : subscription[r] = "deleted"

\* The inductive invariant behind the safety properties, conjunct by conjunct.
Sealed == \A e \in auditEvent :
              e.hash = Sha256(e.prevHash, e.tenantId, e.seq, e.event)

SeqUnique == \A e, f \in auditEvent :
                 e.tenantId = f.tenantId /\ e.seq = f.seq => e = f

\* tip was the tip of t's chain at some time, and rows never go away.
WasTip(tip, t) == \/ tip.seq = 0 /\ tip.hash = genesisHash(t)
                  \/ \E f \in EventsOf(t) : f.seq = tip.seq /\ f.hash = tip.hash

Linked == \A e \in auditEvent :
              WasTip([seq |-> e.seq - 1, hash |-> e.prevHash], e.tenantId)

GapFree == \A e \in auditEvent : \A n \in 1..e.seq :
               \E f \in EventsOf(e.tenantId) : f.seq = n

HasTip == \A t \in Tenants : EventsOf(t) # {} =>
              \E f \in EventsOf(t) : \A g \in EventsOf(t) : g.seq <= f.seq

TipsKnown == \A op \in Ops : WasTip(last[op], TenantOf[op])

OncePerOp == /\ \A e, f \in auditEvent : e.event = f.event => e = f
             /\ \A e \in auditEvent :
                   /\ e.tenantId = TenantOf[e.event]
                   /\ pc[e.event] \in {"appended", "selected", "done", "crashed"}

SelectedHaveRows ==
    \A op \in Ops :
        /\ pc[op] \in {"appended", "selected"} => \E e \in auditEvent : e.event = op
        /\ \A s \in matching[op] : SubTenant[s] = TenantOf[op]

ChainInv == /\ Sealed /\ SeqUnique /\ Linked /\ GapFree /\ HasTip
            /\ TipsKnown /\ OncePerOp
            /\ SelectedHaveRows /\ DeliveriesAnchored

\* HANDOVER.md: "Every consequential action is recorded on a per-tenant,
\* hash-chained, immutable audit log".  An operation that has changed the
\* database and has returned, or thrown, to its caller has its row.
EveryActionRecorded ==
    \A op \in mutated : pc[op] \in {"rejected", "done"} =>
                            \E e \in auditEvent : e.event = op

\* Lock-freedom: among the writers that read the same tip one gets its row in,
\* unless processes die; the others cannot keep one another out.
RaceHasWinner ==
    \A t \in Tenants, n \in 1..Cardinality(Ops) :
        (\E op \in Ops : /\ TenantOf[op] = t /\ pc[op] = "read"
                         /\ NextEvent(op, last[op]).seq = n)
          ~> \/ \E e \in EventsOf(t) : e.seq = n
             \/ \E op \in Ops : pc[op] = "crashed"

\* The chain implements one append-only log per tenant.
Log == INSTANCE EventLog WITH
           log <- [t \in Tenants |-> [i \in 1..Tip(t).seq |->
                      (CHOOSE e \in EventsOf(t) : e.seq = i).event]]

LogSpec == Log!Spec
=============================================================================
