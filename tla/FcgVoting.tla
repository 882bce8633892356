------------------------------- MODULE FcgVoting -------------------------------
(***************************************************************************)
(* The vote that commits a new version of a tenant's Firm Culture Guide:   *)
(* proposals drafted and opened (api/ai/fcg-chat, api/fcg/proposals/open), *)
(* votes cast and counted (api/fcg/proposals/vote, lib/voting), the        *)
(* transaction that commits the guide.                                     *)
(*                                                                         *)
(* Every vote is a request of its own.  It reads the proposal and the      *)
(* electorate, records its vote, reads all votes, evaluates them against   *)
(* what it read first, and commits or settles; requests interleave at      *)
(* every await.  The texts of proposals and guides are left out.           *)
(***************************************************************************)
EXTENDS Naturals, FiniteSets, FiniteSetsExt

CONSTANTS Voters,             \* memberships with role FCT_MEMBER or FIRM_ADMIN
          Proposals,
          QuorumPct,          \* Tenant.quorumPct
          MaxOpeners,         \* bound: open requests of a proposal at a time
          MaxFaults           \* bound: requests that die or whose audit write fails,
                              \* and members that leave or return

VARIABLES proposal,           \* table FCGProposal
          openers,            \* open requests that have read DRAFTING
          vote,               \* table FCGVote
          eligible,           \* members that are ACTIVE and have a voting role
          guide,              \* table FirmCultureGuide, a set of rows
          req,                \* each member's vote request
          calm,               \* in this behaviour no two votes overlap, nor two openings
                              \* of a proposal, and no member leaves: an assumption of
                              \* DecisionJustified alone
          faults

vars == <<proposal, openers, vote, eligible, guide, req, calm, faults>>

Decisions == {"APPROVE", "REJECT", "ABSTAIN"}
Decided == {"PASSED", "FAILED", "EXPIRED"}
NoProposal == [state |-> "none", closed |-> FALSE, newFcg |-> 0, parent |-> 0]
Idle == [pc |-> "idle", p |-> CHOOSE p \in Proposals : TRUE, n |-> 0, outcome |-> "none", version |-> 0]

Init == /\ proposal = [p \in Proposals |-> NoProposal]
        /\ openers = [p \in Proposals |-> 0]
        /\ vote = [p \in Proposals |-> [v \in Voters |-> "none"]]
        /\ eligible = Voters
        /\ guide = {}
        /\ req = [v \in Voters |-> Idle]
        /\ calm \in BOOLEAN
        /\ faults = 0

Goto(v, pc) == req' = [req EXCEPT ![v].pc = pc]
EndRequest(v) == req' = [req EXCEPT ![v] = Idle]
Decide(v, pc, outcome) == req' = [req EXCEPT ![v] = [@ EXCEPT !.pc = pc, !.outcome = outcome]]
-----------------------------------------------------------------------------
Versions == {g.version : g \in guide}
LastVersion == IF guide = {} THEN 0 ELSE Max(Versions)
Committed == {g \in guide : g.status = "COMMITTED"}
Current == IF Committed = {} THEN 0 ELSE Max({g.version : g \in Committed})

Count(votes, decision) == Cardinality({v \in Voters : votes[v] = decision})

\* Mutation of Evaluate: a tie at the close passes.
EvaluateTiePasses(closed, votes, n) ==
    LET a == Count(votes, "APPROVE")
        r == Count(votes, "REJECT")
        cast == a + r + Count(votes, "ABSTAIN")
    IN  CASE 2 * a > n -> "PASSED"
          [] 2 * a <= n /\ 2 * r > n -> "FAILED"
          [] OTHER -> IF ~ closed THEN "OPEN_FOR_VOTE"
                      ELSE IF 100 * cast < n * QuorumPct THEN "EXPIRED"
                      ELSE IF a >= r THEN "PASSED" ELSE "FAILED"

\* evaluate: votes are counted whoever cast them, n is the electorate of the request.
\* cast >= ceil(n * quorumPct / 100) is 100 * cast >= n * quorumPct.
Evaluate(closed, votes, n) ==
    LET a == Count(votes, "APPROVE")
        r == Count(votes, "REJECT")
        cast == a + r + Count(votes, "ABSTAIN")
    IN  CASE 2 * a > n -> "PASSED"
          [] 2 * a <= n /\ 2 * r > n -> "FAILED"
          [] OTHER -> IF ~ closed THEN "OPEN_FOR_VOTE"
                      ELSE IF 100 * cast < n * QuorumPct THEN "EXPIRED"
                      ELSE IF a > r THEN "PASSED" ELSE "FAILED"
-----------------------------------------------------------------------------
\* A proposal amends the guide that is current when it is drafted.
Draft(p) == /\ proposal[p].state = "none"
            /\ proposal' = [proposal EXCEPT ![p] = [@ EXCEPT !.state = "DRAFTING", !.parent = Current]]
            /\ UNCHANGED <<openers, vote, eligible, guide, req, calm, faults>>

\* The open request reads the proposal, then writes the new state.
OpenRead(p) == /\ proposal[p].state = "DRAFTING" /\ openers[p] < MaxOpeners
               /\ calm => openers[p] = 0
               /\ openers' = [openers EXCEPT ![p] = @ + 1]
               /\ UNCHANGED <<proposal, vote, eligible, guide, req, calm, faults>>

OpenWrite(p) == /\ openers[p] > 0
                /\ openers' = [openers EXCEPT ![p] = @ - 1]
                /\ proposal' = [proposal EXCEPT ![p] = [@ EXCEPT !.state = "OPEN_FOR_VOTE", !.closed = FALSE]]
                /\ UNCHANGED <<vote, eligible, guide, req, calm, faults>>

\* votingClosesAt passes.
WindowCloses(p) == /\ proposal[p].state = "OPEN_FOR_VOTE" /\ ~ proposal[p].closed
                   /\ proposal' = [proposal EXCEPT ![p].closed = TRUE]
                   /\ UNCHANGED <<openers, vote, eligible, guide, req, calm, faults>>

\* A vote request: the proposal is open, the caller is in eligibleVoterIds.
Begin(v) ==
    /\ req[v].pc = "idle" /\ v \in eligible
    /\ calm => \A u \in Voters : req[u].pc = "idle"
    /\ \E p \in Proposals :
          /\ proposal[p].state = "OPEN_FOR_VOTE"
          /\ req' = [req EXCEPT ![v] = [Idle EXCEPT !.pc = "cast", !.p = p, !.n = Cardinality(eligible)]]
    /\ UNCHANGED <<proposal, openers, vote, eligible, guide, calm, faults>>

\* The upsert keyed on (proposal, membership).
Cast(v) ==
    /\ req[v].pc = "cast"
    /\ \E d \in Decisions : vote' = [vote EXCEPT ![req[v].p][v] = d]
    /\ Goto(v, "tally")
    /\ UNCHANGED <<proposal, openers, eligible, guide, calm, faults>>

\* After its audit row: read the votes and evaluate.
Tally(v) ==
    /\ req[v].pc = "tally"
    /\ LET p == req[v].p
           outcome == Evaluate(proposal[p].closed, vote[p], req[v].n)
       IN  \/ outcome = "PASSED" /\ Decide(v, "version", outcome)
           \/ outcome \in {"FAILED", "EXPIRED"} /\ Decide(v, "settle", outcome)
           \/ outcome = "OPEN_FOR_VOTE" /\ EndRequest(v)
    /\ UNCHANGED <<proposal, openers, vote, eligible, guide, calm, faults>>

\* commitProposal, a READ COMMITTED transaction: read the last version ...
ReadVersion(v) ==
    /\ req[v].pc = "version"
    /\ req' = [req EXCEPT ![v] = [@ EXCEPT !.pc = "commit", !.version = LastVersion + 1]]
    /\ UNCHANGED <<proposal, openers, vote, eligible, guide, calm, faults>>

UniqueVersion(n) == n \notin Versions

Supersede(parent) == {IF g.version = parent THEN [g EXCEPT !.status = "SUPERSEDED"] ELSE g : g \in guide}

NewGuide(v) == [version |-> req[v].version, status |-> "COMMITTED",
                parent |-> proposal[req[v].p].parent, from |-> req[v].p]

\* Mutation of CommitGuide: a failed transaction is not noticed.
CommitIgnoresFailure(v) ==
    /\ req[v].pc = "commit"
    /\ guide' = IF UniqueVersion(req[v].version)
                THEN Supersede(proposal[req[v].p].parent) \cup {NewGuide(v)}
                ELSE guide
    /\ Goto(v, "pass")
    /\ UNCHANGED <<proposal, openers, vote, eligible, calm, faults>>

\* ... and insert the new guide and supersede the parent, or fail on the constraint.
CommitGuide(v) ==
    /\ req[v].pc = "commit"
    /\ LET p == req[v].p
       IN  \/ /\ UniqueVersion(req[v].version)
              /\ guide' = Supersede(proposal[p].parent) \cup {NewGuide(v)}
              /\ Goto(v, "pass")
           \/ /\ ~ UniqueVersion(req[v].version)
              /\ EndRequest(v)
              /\ UNCHANGED guide
    /\ UNCHANGED <<proposal, openers, vote, eligible, calm, faults>>

\* The guide's audit row is written; the proposal is updated unconditionally.
Pass(v) ==
    /\ req[v].pc = "pass"
    /\ proposal' = [proposal EXCEPT ![req[v].p] = [@ EXCEPT !.state = "PASSED", !.newFcg = req[v].version]]
    /\ EndRequest(v)
    /\ UNCHANGED <<openers, vote, eligible, guide, calm, faults>>

\* FAILED or EXPIRED, written unconditionally.
Settle(v) ==
    /\ req[v].pc = "settle"
    /\ proposal' = [proposal EXCEPT ![req[v].p].state = req[v].outcome]
    /\ EndRequest(v)
    /\ UNCHANGED <<openers, vote, eligible, guide, calm, faults>>

\* The process dies or an audit write throws; what was written stays.
Fault(v) == /\ req[v].pc # "idle" /\ faults < MaxFaults
            /\ faults' = faults + 1
            /\ EndRequest(v)
            /\ UNCHANGED <<proposal, openers, vote, eligible, guide, calm>>

\* Members leave, are frozen or change role, and come back.
Departure(v) == /\ ~ calm /\ faults < MaxFaults
                /\ faults' = faults + 1
                /\ eligible' = IF v \in eligible THEN eligible \ {v} ELSE eligible \cup {v}
                /\ UNCHANGED <<proposal, openers, vote, guide, req, calm>>

RequestStep(v) == \/ Cast(v) \/ Tally(v) \/ ReadVersion(v) \/ CommitGuide(v) \/ Pass(v) \/ Settle(v)

Next == \/ \E p \in Proposals : Draft(p) \/ OpenRead(p) \/ OpenWrite(p) \/ WindowCloses(p)
        \/ \E v \in Voters : Begin(v) \/ RequestStep(v) \/ Fault(v) \/ Departure(v)

Spec == Init /\ [][Next]_vars
-----------------------------------------------------------------------------
ProposalRows == [state : {"none", "DRAFTING", "OPEN_FOR_VOTE"} \cup Decided,
                 closed : BOOLEAN, newFcg : Nat, parent : Nat]
Guides == [version : Nat, status : {"COMMITTED", "SUPERSEDED"}, parent : Nat, from : Proposals]
VoteRequests == [pc : {"idle", "cast", "tally", "version", "commit", "pass", "settle"},
                 p : Proposals, n : Nat, outcome : Decided \cup {"none"}, version : Nat]

TypeOK ==
    /\ proposal \in [Proposals -> ProposalRows]
    /\ openers \in [Proposals -> 0..MaxOpeners]
    /\ vote \in [Proposals -> [Voters -> Decisions \cup {"none"}]]
    /\ eligible \subseteq Voters
    /\ guide \subseteq Guides
    /\ req \in [Voters -> VoteRequests]
    /\ calm \in BOOLEAN /\ faults \in 0..MaxFaults

\* Guides have the versions 1, 2, 3, ... without gap or duplicate, though votes race to
\* commit and commits fail.
VersionsDense == Versions = 1..Cardinality(guide)

\* A guide that was amended is never left in force beside its successor.
ParentSuperseded == \A g, h \in guide : g.version = h.parent => g.status = "SUPERSEDED"

\* A passed proposal names the guide that was built from it.
PassedHasGuide ==
    \A p \in Proposals : proposal[p].state = "PASSED"
                         => \E g \in guide : g.version = proposal[p].newFcg /\ g.from = p

\* The guides form one line, and a passed proposal has its place in it, however votes race.
GuideInv == TypeOK /\ VersionsDense /\ ParentSuperseded /\ PassedHasGuide

\* With a fixed electorate and votes that do not overlap, the recorded outcome is the
\* one PRD 6.1 gives the votes (state-machine.ts): passed by a majority of all members,
\* or at the close by more approvals than rejections with quorum; expired without it.
DecisionJustified ==
    calm => \A p \in Proposals :
       LET a == Count(vote[p], "APPROVE")
           r == Count(vote[p], "REJECT")
           quorum == 100 * (a + r + Count(vote[p], "ABSTAIN")) >= Cardinality(Voters) * QuorumPct
       IN  /\ proposal[p].state = "PASSED" => 2 * a > Cardinality(Voters) \/ (proposal[p].closed /\ quorum /\ a > r)
           /\ proposal[p].state = "FAILED" => 2 * r > Cardinality(Voters) \/ (proposal[p].closed /\ quorum /\ a <= r)
           /\ proposal[p].state = "EXPIRED" => proposal[p].closed /\ ~ quorum
=============================================================================
