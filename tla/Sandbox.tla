--------------------------------- MODULE Sandbox ---------------------------------
(***************************************************************************)
(* Sandboxes of a firm, src/lib/sandbox/index.ts: a tenant beside the      *)
(* firm's own, a cohort that tries a guide out in it, and an outcome.      *)
(* Each operation reads, decides and writes in statements of its own.  The *)
(* firm's guide proposals are the rows that a promotion stages.            *)
(***************************************************************************)
EXTENDS Naturals, FiniteSets

CONSTANTS Sandboxes,           \* the tenants that may be provisioned
          People,              \* users of the platform
          Operators,           \* the administrators' requests
          CohortLimit,         \* sandboxCohortLimit
          MaxFaults            \* bound: requests that die

VARIABLES sandbox,             \* the tenant rows
          cohort,              \* membership of each person in each sandbox
          proposals,           \* the proposals staged on the firm: which sandbox's guide
          op, faults

vars == <<sandbox, cohort, proposals, op, faults>>

None == "none"
Outcomes == {"PENDING", "PROMOTED", "ITERATING", "DECLINED"}
NoTenant == [status |-> None, outcome |-> None, elapsed |-> FALSE, proposal |-> None]
Opened == [status |-> "SANDBOX", outcome |-> "PENDING", elapsed |-> FALSE, proposal |-> None]
Idle == [pc |-> "idle", s |-> None, who |-> None, outcome |-> None, proposal |-> None]

Init == /\ sandbox = [s \in Sandboxes |-> NoTenant]
        /\ cohort = [s \in Sandboxes |-> [p \in People |-> None]]
        /\ proposals = {}
        /\ op = [o \in Operators |-> Idle]
        /\ faults = 0

Provisioned == {s \in Sandboxes : sandbox[s] # NoTenant}
Open(s) == sandbox[s].outcome = "PENDING"
Cohort(s) == {p \in People : cohort[s][p] = "ACTIVE"}
Finish(o) == op' = [op EXCEPT ![o] = Idle]
-----------------------------------------------------------------------------
\* "an open sandbox already exists"
provisionSandbox(o) ==
    /\ op[o].pc = "idle" /\ ~ \E s \in Sandboxes : Open(s)
    /\ op' = [op EXCEPT ![o].pc = "create"]
    /\ UNCHANGED <<sandbox, cohort, proposals, faults>>

\* The slug is the first that is free; the unique index refuses one taken meanwhile.
CreateTenant(o) ==
    /\ op[o].pc = "create"
    /\ \E s \in Sandboxes \ Provisioned : sandbox' = [sandbox EXCEPT ![s] = Opened]
    /\ Finish(o)
    /\ UNCHANGED <<cohort, proposals, faults>>

\* Mutation of HasRoom: the cohort may be one over.
HasRoomLate(s) == Cardinality(Cohort(s)) <= CohortLimit

HasRoom(s) == Cardinality(Cohort(s)) < CohortLimit

addCohortMember(o, s, p) ==
    /\ op[o].pc = "idle" /\ s \in Provisioned
    /\ Open(s) /\ ~ sandbox[s].elapsed /\ HasRoom(s)
    /\ op' = [op EXCEPT ![o].pc = "add", ![o].s = s, ![o].who = p]
    /\ UNCHANGED <<sandbox, cohort, proposals, faults>>

\* Created, or put back to active, or already there.
AddMember(o) ==
    /\ op[o].pc = "add"
    /\ cohort' = [cohort EXCEPT ![op[o].s][op[o].who] = "ACTIVE"]
    /\ Finish(o)
    /\ UNCHANGED <<sandbox, proposals, faults>>

concludeSandbox(o, s, outcome) ==
    /\ op[o].pc = "idle" /\ s \in Provisioned /\ Open(s)
    /\ op' = [op EXCEPT ![o].pc = IF outcome = "PROMOTED" THEN "stage" ELSE "conclude",
                        ![o].s = s, ![o].outcome = outcome]
    /\ UNCHANGED <<sandbox, cohort, proposals, faults>>

stagePromotionProposal(o) ==
    /\ op[o].pc = "stage"
    /\ proposals' = proposals \cup {op[o].s}
    /\ op' = [op EXCEPT ![o].pc = "conclude", ![o].proposal = op[o].s]
    /\ UNCHANGED <<sandbox, cohort, faults>>

\* Mutation of RecordedOutcome: what a former conclusion left is kept.
MergedOutcome(row, o) ==
    [row EXCEPT !.outcome = op[o].outcome,
                !.proposal = IF op[o].proposal = None THEN @ ELSE op[o].proposal,
                !.status = IF op[o].outcome = "DECLINED" THEN "TERMINATED" ELSE @]

\* A declined sandbox is terminated; any other keeps the status it has.
RecordedOutcome(row, o) ==
    [row EXCEPT !.outcome = op[o].outcome,
                !.proposal = op[o].proposal,
                !.status = IF op[o].outcome = "DECLINED" THEN "TERMINATED" ELSE @]

RecordOutcome(o) ==
    /\ op[o].pc = "conclude"
    /\ sandbox' = [sandbox EXCEPT ![op[o].s] = RecordedOutcome(@, o)]
    /\ Finish(o)
    /\ UNCHANGED <<cohort, proposals, faults>>

WindowElapses(s) ==
    /\ s \in Provisioned /\ ~ sandbox[s].elapsed
    /\ sandbox' = [sandbox EXCEPT ![s].elapsed = TRUE]
    /\ UNCHANGED <<cohort, proposals, op, faults>>

Dies(o) == /\ op[o].pc # "idle" /\ faults < MaxFaults
           /\ faults' = faults + 1
           /\ Finish(o)
           /\ UNCHANGED <<sandbox, cohort, proposals>>

Next == \/ \E o \in Operators :
              \/ provisionSandbox(o) \/ CreateTenant(o)
              \/ \E s \in Sandboxes :
                    \/ \E p \in People : addCohortMember(o, s, p)
                    \/ \E x \in Outcomes \ {"PENDING"} : concludeSandbox(o, s, x)
              \/ AddMember(o) \/ stagePromotionProposal(o) \/ RecordOutcome(o)
              \/ Dies(o)
        \/ \E s \in Sandboxes : WindowElapses(s)

Spec == Init /\ [][Next]_vars
-----------------------------------------------------------------------------
TypeOK ==
    /\ sandbox \in [Sandboxes -> [status : {None, "SANDBOX", "TERMINATED"},
                                  outcome : Outcomes \cup {None}, elapsed : BOOLEAN,
                                  proposal : Sandboxes \cup {None}]]
    /\ cohort \in [Sandboxes -> [People -> {None, "ACTIVE"}]]
    /\ proposals \subseteq Sandboxes

\* Promotion is never silent: a promoted sandbox names a proposal that was staged for the
\* firm to vote on, and no other outcome names one, however conclusions race or die.
PromotionIsStaged ==
    \A s \in Sandboxes :
        /\ sandbox[s].outcome = "PROMOTED" => sandbox[s].proposal = s /\ s \in proposals
        /\ sandbox[s].outcome # "PROMOTED" => sandbox[s].proposal = None

\* The cohort exceeds its limit by no more than the additions that were under way together.
CohortBounded ==
    \A s \in Sandboxes :
        Cardinality(Cohort(s)) <= CohortLimit + Cardinality(Operators) - 1
=============================================================================
