---------------------------- MODULE FcgVotingProofs ----------------------------
(***************************************************************************)
(* Proofs about FcgVoting, for every set of voters and of proposals, every *)
(* quorum and any number of races, lost transactions and crashes; and      *)
(* about the sandboxes of MCTenant, for any people, requests and limits.   *)
(***************************************************************************)
EXTENDS MCTenant, FiniteSetTheorems, TLAPS

\* There is a proposal to make, and the electorate can be counted.
VotingAssumption == /\ IsFiniteSet(Voters) /\ Proposals # {}
                    /\ MaxOpeners \in Nat /\ MaxFaults \in Nat

\* No two guides have one version, and the last of them is in force: so a proposal that
\* is drafted amends the last guide there is.
LastInForce == /\ IsFiniteSet(guide)
               /\ \A g, h \in guide : g.version = h.version => g = h
               /\ \A g \in guide : g.version = Cardinality(guide) => g.status = "COMMITTED"

\* What is amended exists, unless it is the first guide that is made.
ParentsKnown == /\ \A p \in Proposals : proposal[p].parent <= Cardinality(guide)
                /\ \A g \in guide : g.parent < g.version

\* What a request that is about to write has established.
RequestsKnow ==
    \A v \in Voters :
       /\ req[v].pc = "commit" => req[v].version \in 1..(Cardinality(guide) + 1)
       /\ req[v].pc = "pass" => \E g \in guide : g.version = req[v].version /\ g.from = req[v].p
       /\ req[v].pc = "settle" => req[v].outcome \in {"FAILED", "EXPIRED"}

IInv == GuideInv /\ LastInForce /\ ParentsKnown /\ RequestsKnow
-----------------------------------------------------------------------------
\* As many guides as versions: they are counted by their numbers.
LEMMA CountedByVersion ==
    ASSUME NEW S, NEW n \in Nat, {g.version : g \in S} = 1..n,
           \A g, h \in S : g.version = h.version => g = h
    PROVE  IsFiniteSet(S) /\ Cardinality(S) = n
<1>. DEFINE at == [i \in 1..n |-> CHOOSE g \in S : g.version = i]
<1>1. \A i \in 1..n : at[i] \in S /\ at[i].version = i
  OBVIOUS
<1>2. at \in Bijection(1..n, S)
  <2>1. at \in [1..n -> S]
    BY <1>1
  <2>2. \A i, j \in 1..n : at[i] = at[j] => i = j
    BY <1>1
  <2>3. \A g \in S : \E i \in 1..n : at[i] = g
    BY <1>1
  <2>. QED
    BY <2>1, <2>2, <2>3 DEF Bijection, Injection, Surjection, IsInjective
<1>. QED
  BY <1>2, FS_CountingElements, FS_NatBijection DEF ExistsBijection

\* What the invariant says of versions.
LEMMA Numbers ==
    ASSUME IInv
    PROVE  /\ Cardinality(guide) \in Nat
           /\ Versions = 1..Cardinality(guide)
           /\ \A g \in guide : g.version \in 1..Cardinality(guide)
           /\ \A i \in 1..Cardinality(guide) : \E g \in guide : g.version = i
<1>1. Versions = 1..Cardinality(guide)
  BY DEF IInv, GuideInv, VersionsDense
<1>2. Cardinality(guide) \in Nat
  BY FS_CardinalityType DEF IInv, LastInForce
<1>. QED
  BY <1>1, <1>2 DEF Versions

LEMMA LastIsCount == ASSUME IInv PROVE LastVersion = Cardinality(guide)
<1>. DEFINE n == Cardinality(guide)
<1>1. n \in Nat /\ Versions = 1..n
  BY Numbers
<1>2. CASE guide = {}
  BY <1>2, FS_EmptySet DEF LastVersion
<1>3. CASE guide # {}
  <2>1. n \in 1..n
    BY <1>1, <1>3 DEF Versions
  <2>2. \A x \in 1..n : (\A y \in 1..n : x >= y) => x = n
    BY <1>1, <2>1
  <2>3. \A y \in 1..n : n >= y
    BY <1>1
  <2>4. Max(1..n) = n
    BY <2>1, <2>2, <2>3 DEF Max
  <2>. QED
    BY <1>1, <1>3, <2>4 DEF LastVersion
<1>. QED
  BY <1>2, <1>3

\* The guide in force with the greatest version is the last guide.
LEMMA CurrentIsCount == ASSUME IInv PROVE Current = Cardinality(guide)
<1>. DEFINE n == Cardinality(guide)
            S == {g.version : g \in Committed}
<1>1. n \in Nat /\ Versions = 1..n
  BY Numbers
<1>2. CASE guide = {}
  BY <1>2, FS_EmptySet DEF Current, Committed
<1>3. CASE guide # {}
  <2>1. n \in 1..n
    BY <1>1, <1>3 DEF Versions
  <2>2. n \in S
    <3>1. PICK g \in guide : g.version = n
      BY <2>1, Numbers
    <3>2. g \in Committed
      BY <3>1 DEF IInv, LastInForce, Committed
    <3>. QED
      BY <3>1, <3>2
  <2>3. S \subseteq 1..n
    BY Numbers DEF Committed
  <2>4. Max(S) = n
    <3>. HIDE DEF S, n
    <3>1. \A x \in S : (\A y \in S : x >= y) => x = n
      BY <1>1, <2>2, <2>3
    <3>2. \A y \in S : n >= y
      BY <1>1, <2>3
    <3>. QED
      BY <2>2, <3>1, <3>2 DEF Max
  <2>5. Committed # {}
    BY <2>2
  <2>. QED
    BY <2>4, <2>5 DEF Current
<1>. QED
  BY <1>2, <1>3

\* The transaction that commits finds its version free only if it is the next one.
LEMMA CommitIsNext ==
    ASSUME IInv, NEW v \in Voters, req[v].pc = "commit", UniqueVersion(req[v].version)
    PROVE  req[v].version = Cardinality(guide) + 1
  BY Numbers DEF IInv, RequestsKnow, UniqueVersion

\* Superseding the parent changes no version and no origin.
LEMMA SupersedeKeeps ==
    ASSUME NEW n
    PROVE  /\ \A h \in Supersede(n) : \E g \in guide :
                 /\ h = IF g.version = n THEN [g EXCEPT !.status = "SUPERSEDED"] ELSE g
           /\ \A g \in guide : (IF g.version = n THEN [g EXCEPT !.status = "SUPERSEDED"] ELSE g)
                                  \in Supersede(n)
  BY DEF Supersede

\* The commit adds the next version, in force, and leaves all others in place.
LEMMA CommitAdds ==
    ASSUME IInv, NEW v \in Voters, CommitGuide(v), UniqueVersion(req[v].version)
    PROVE  /\ guide' \subseteq Guides
           /\ IsFiniteSet(guide') /\ Cardinality(guide') = Cardinality(guide) + 1
           /\ Versions' = 1..Cardinality(guide')
           /\ \A g, h \in guide' : g.version = h.version => g = h
           /\ NewGuide(v) \in guide'
           /\ \A h \in guide' \ {NewGuide(v)} : \E g \in guide :
                 /\ h.version = g.version /\ h.parent = g.parent /\ h.from = g.from
                 /\ h.status = IF g.version = proposal[req[v].p].parent THEN "SUPERSEDED"
                               ELSE g.status
           /\ \A g \in guide : \E h \in guide' : h.version = g.version /\ h.from = g.from
<1>. DEFINE n == Cardinality(guide)
            q == proposal[req[v].p].parent
<1>1. /\ req[v].pc = "commit" /\ req[v].version = n + 1 /\ n \in Nat
      /\ guide' = Supersede(q) \cup {NewGuide(v)}
  BY CommitIsNext, Numbers DEF CommitGuide
<1>2. req[v].p \in Proposals /\ q \in Nat /\ guide \subseteq Guides
  BY DEF IInv, GuideInv, TypeOK, VoteRequests, ProposalRows
<1>3. NewGuide(v) \in Guides /\ NewGuide(v).version = n + 1
  BY <1>1, <1>2 DEF NewGuide, Guides
<1>4. \A g \in guide : /\ [g EXCEPT !.status = "SUPERSEDED"] \in Guides
                       /\ [g EXCEPT !.status = "SUPERSEDED"].version = g.version
                       /\ [g EXCEPT !.status = "SUPERSEDED"].parent = g.parent
                       /\ [g EXCEPT !.status = "SUPERSEDED"].from = g.from
                       /\ [g EXCEPT !.status = "SUPERSEDED"].status = "SUPERSEDED"
  BY <1>2 DEF Guides
<1>5. \A h \in Supersede(q) : \E g \in guide :
         /\ h \in Guides
         /\ h.version = g.version /\ h.parent = g.parent /\ h.from = g.from
         /\ h.status = IF g.version = q THEN "SUPERSEDED" ELSE g.status
  <2>. SUFFICES ASSUME NEW h \in Supersede(q)
                PROVE  \E g \in guide :
                          /\ h \in Guides
                          /\ h.version = g.version /\ h.parent = g.parent /\ h.from = g.from
                          /\ h.status = IF g.version = q THEN "SUPERSEDED" ELSE g.status
    OBVIOUS
  <2>1. PICK g \in guide : h = IF g.version = q THEN [g EXCEPT !.status = "SUPERSEDED"] ELSE g
    BY DEF Supersede
  <2>2. CASE g.version = q
    BY <1>4, <2>1, <2>2
  <2>3. CASE g.version # q
    BY <1>2, <2>1, <2>3
  <2>. QED
    BY <2>2, <2>3
<1>6. \A g \in guide : \E h \in Supersede(q) : h.version = g.version /\ h.from = g.from
  BY <1>4 DEF Supersede
<1>7. \A g, h \in Supersede(q) : g.version = h.version => g = h
  <2>. SUFFICES ASSUME NEW h1 \in Supersede(q), NEW h2 \in Supersede(q),
                       h1.version = h2.version
                PROVE  h1 = h2
    OBVIOUS
  <2>1. PICK g1 \in guide : h1 = IF g1.version = q THEN [g1 EXCEPT !.status = "SUPERSEDED"] ELSE g1
    BY DEF Supersede
  <2>2. PICK g2 \in guide : h2 = IF g2.version = q THEN [g2 EXCEPT !.status = "SUPERSEDED"] ELSE g2
    BY DEF Supersede
  <2>3. g1.version = h1.version /\ g2.version = h2.version
    BY <1>4, <2>1, <2>2
  <2>4. g1 = g2
    BY <2>3 DEF IInv, LastInForce
  <2>. QED
    BY <2>1, <2>2, <2>4
<1>8. \A h \in Supersede(q) : h.version \in 1..n
  BY <1>5, Numbers
<1>9. {g.version : g \in guide'} = 1..(n + 1)
  <2>1. \A h \in guide' : h.version \in 1..(n + 1)
    BY <1>1, <1>3, <1>8
  <2>2. \A i \in 1..(n + 1) : \E h \in guide' : h.version = i
    <3>1. \A i \in 1..n : \E g \in guide : g.version = i
      BY Numbers
    <3>. QED
      BY <1>1, <1>3, <1>6, <3>1
  <2>. QED
    BY <2>1, <2>2
<1>10. \A g, h \in guide' : g.version = h.version => g = h
  BY <1>1, <1>3, <1>7, <1>8
<1>11. IsFiniteSet(guide') /\ Cardinality(guide') = n + 1
  <2>1. n + 1 \in Nat
    BY <1>1
  <2>. QED
    BY <1>9, <1>10, <2>1, CountedByVersion
<1>. QED
  BY <1>1, <1>2, <1>3, <1>5, <1>6, <1>9, <1>10, <1>11 DEF Versions
-----------------------------------------------------------------------------
LEMMA InitInv == ASSUME VotingAssumption, Init PROVE IInv
<1>. USE DEF Init, VotingAssumption
<1>1. TypeOK
  <2>1. NoProposal \in ProposalRows /\ Idle \in VoteRequests
    BY DEF NoProposal, ProposalRows, Idle, VoteRequests
  <2>. QED
    BY <2>1 DEF TypeOK, Decisions
<1>2. Cardinality(guide) = 0 /\ IsFiniteSet(guide)
  BY FS_EmptySet
<1>3. VersionsDense
  BY <1>2 DEF VersionsDense, Versions
<1>4. ParentSuperseded /\ PassedHasGuide
  BY DEF ParentSuperseded, PassedHasGuide, NoProposal
<1>5. LastInForce /\ ParentsKnown /\ RequestsKnow
  BY <1>2 DEF LastInForce, ParentsKnown, RequestsKnow, NoProposal, Idle
<1>. QED
  BY <1>1, <1>3, <1>4, <1>5 DEF IInv, GuideInv

\* What the updates of a request and of a proposal leave of their types.
LEMMA Updates ==
    ASSUME TypeOK, VotingAssumption
    PROVE  /\ Idle \in VoteRequests
           /\ \A v \in Voters : \A x \in VoteRequests :
                 /\ [req EXCEPT ![v] = x] \in [Voters -> VoteRequests]
                 /\ [req EXCEPT ![v] = x][v] = x
                 /\ \A u \in Voters \ {v} : [req EXCEPT ![v] = x][u] = req[u]
           /\ \A p \in Proposals : \A x \in ProposalRows :
                 /\ [proposal EXCEPT ![p] = x] \in [Proposals -> ProposalRows]
                 /\ [proposal EXCEPT ![p] = x][p] = x
                 /\ \A s \in Proposals \ {p} : [proposal EXCEPT ![p] = x][s] = proposal[s]
<1>1. Idle \in VoteRequests
  BY DEF Idle, VoteRequests, VotingAssumption
<1>. QED
  BY <1>1 DEF TypeOK

\* A step that changes no guide keeps what is said of guides alone.
LEMMA GuidesStay ==
    ASSUME IInv, UNCHANGED guide
    PROVE  VersionsDense' /\ ParentSuperseded' /\ LastInForce' /\ (\A g \in guide' : g.parent < g.version)
  BY DEF IInv, GuideInv, VersionsDense, Versions, ParentSuperseded, LastInForce, ParentsKnown

LEMMA DraftStep == ASSUME IInv, VotingAssumption, NEW p \in Proposals, Draft(p) PROVE IInv'
<1>. DEFINE x == [proposal[p] EXCEPT !.state = "DRAFTING", !.parent = Current]
<1>1. /\ proposal' = [proposal EXCEPT ![p] = x]
      /\ UNCHANGED <<openers, vote, eligible, guide, req, calm, faults>>
  BY DEF Draft
<1>2. x \in ProposalRows /\ x.state = "DRAFTING" /\ x.parent = Cardinality(guide)
  BY CurrentIsCount, Numbers, ZenonT(60) DEF IInv, GuideInv, TypeOK, ProposalRows
<1>3. TypeOK /\ TypeOK'
  BY <1>1, <1>2, Updates DEF IInv, GuideInv, TypeOK
<1>4. PassedHasGuide' /\ RequestsKnow' /\ ParentsKnown'
  BY <1>1, <1>2, <1>3, Updates, Numbers
     DEF IInv, GuideInv, PassedHasGuide, RequestsKnow, ParentsKnown
<1>. QED
  BY <1>1, <1>3, <1>4, GuidesStay DEF IInv, GuideInv

\* A row of FCGProposal is written, by a request or by none, and no guide.
LEMMA ProposalMoves ==
    ASSUME IInv, VotingAssumption, NEW p \in Proposals, NEW x \in ProposalRows,
           proposal' = [proposal EXCEPT ![p] = x], x.parent = proposal[p].parent,
           x.state = "PASSED" => \E g \in guide : g.version = x.newFcg /\ g.from = p,
           openers' \in [Proposals -> 0..MaxOpeners],
           (UNCHANGED req) \/ \E v \in Voters : EndRequest(v),
           UNCHANGED <<vote, eligible, guide, calm, faults>>
    PROVE  IInv'
<1>1. TypeOK
  BY DEF IInv, GuideInv
<1>2. req' \in [Voters -> VoteRequests] /\ \A v \in Voters : req'[v] = req[v] \/ req'[v] = Idle
  <2>1. CASE UNCHANGED req
    BY <1>1, <2>1 DEF TypeOK
  <2>2. ASSUME NEW v \in Voters, EndRequest(v)
        PROVE  req' \in [Voters -> VoteRequests] /\ \A u \in Voters : req'[u] = req[u] \/ req'[u] = Idle
    BY <1>1, <2>2, Updates DEF EndRequest
  <2>. QED
    BY <2>1, <2>2
<1>3. TypeOK'
  BY <1>1, <1>2, Updates DEF TypeOK
<1>4. PassedHasGuide' /\ ParentsKnown'
  BY <1>1, Updates DEF IInv, GuideInv, PassedHasGuide, ParentsKnown
<1>5. RequestsKnow'
  BY <1>2 DEF IInv, RequestsKnow, Idle
<1>. QED
  BY <1>3, <1>4, <1>5, GuidesStay DEF IInv, GuideInv

\* A request moves on, and writes neither a proposal nor a guide.
LEMMA RequestMoves ==
    ASSUME IInv, VotingAssumption, NEW v \in Voters, NEW x \in VoteRequests,
           req' = [req EXCEPT ![v] = x],
           x.pc = "commit" => x.version \in 1..(Cardinality(guide) + 1),
           x.pc = "settle" => x.outcome \in {"FAILED", "EXPIRED"},
           x.pc # "pass",
           vote' \in [Proposals -> [Voters -> Decisions \cup {"none"}]],
           faults' \in 0..MaxFaults,
           UNCHANGED <<proposal, openers, eligible, guide, calm>>
    PROVE  IInv'
<1>1. TypeOK
  BY DEF IInv, GuideInv
<1>2. TypeOK'
  BY <1>1, Updates DEF TypeOK
<1>3. PassedHasGuide' /\ ParentsKnown'
  BY DEF IInv, GuideInv, PassedHasGuide, ParentsKnown
<1>4. RequestsKnow'
  BY <1>1, Updates DEF IInv, RequestsKnow
<1>. QED
  BY <1>2, <1>3, <1>4, GuidesStay DEF IInv, GuideInv

LEMMA ProposalStep ==
    ASSUME IInv, VotingAssumption, NEW p \in Proposals,
           Draft(p) \/ OpenRead(p) \/ OpenWrite(p) \/ WindowCloses(p)
    PROVE  IInv'
<1>. USE DEF IInv, GuideInv
<1>0. TypeOK
  OBVIOUS
<1>1. CASE OpenRead(p)
  <2>1. openers' \in [Proposals -> 0..MaxOpeners]
    BY <1>0, <1>1 DEF OpenRead, TypeOK, VotingAssumption
  <2>. QED
    BY <1>0, <1>1, <2>1, GuidesStay
       DEF OpenRead, TypeOK, PassedHasGuide, ParentsKnown, RequestsKnow
<1>2. CASE OpenWrite(p)
  <2>. DEFINE x == [proposal[p] EXCEPT !.state = "OPEN_FOR_VOTE", !.closed = FALSE]
  <2>1. x \in ProposalRows /\ x.state = "OPEN_FOR_VOTE" /\ x.parent = proposal[p].parent
    BY <1>0 DEF TypeOK, ProposalRows
  <2>2. openers' \in [Proposals -> 0..MaxOpeners]
    BY <1>0, <1>2 DEF OpenWrite, TypeOK, VotingAssumption
  <2>. QED
    BY <1>2, <2>1, <2>2, ProposalMoves DEF OpenWrite
<1>3. CASE WindowCloses(p)
  <2>. DEFINE x == [proposal[p] EXCEPT !.closed = TRUE]
  <2>1. x \in ProposalRows /\ x.state = proposal[p].state /\ x.parent = proposal[p].parent
    BY <1>0 DEF TypeOK, ProposalRows
  <2>2. x.state # "PASSED"
    BY <1>3, <2>1 DEF WindowCloses
  <2>. QED
    BY <1>0, <1>3, <2>1, <2>2, ProposalMoves DEF WindowCloses, TypeOK
<1>. QED
  BY <1>1, <1>2, <1>3, DraftStep

\* CommitGuide, when the version is still free.
LEMMA CommitStep ==
    ASSUME IInv, VotingAssumption, NEW v \in Voters, CommitGuide(v), UniqueVersion(req[v].version)
    PROVE  IInv'
<1>. DEFINE n == Cardinality(guide)
            x == [req[v] EXCEPT !.pc = "pass"]
<1>0. TypeOK
  BY DEF IInv, GuideInv
<1>1. /\ req[v].pc = "commit" /\ req[v].version = n + 1 /\ n \in Nat
      /\ req' = [req EXCEPT ![v] = x]
      /\ UNCHANGED <<proposal, openers, vote, eligible, calm, faults>>
  BY CommitIsNext, Numbers DEF CommitGuide, Goto
<1>2. x \in VoteRequests /\ x.pc = "pass" /\ x.version = n + 1 /\ x.p = req[v].p
  BY <1>0, <1>1 DEF TypeOK, VoteRequests
<1>3. TypeOK'
  BY <1>0, <1>1, <1>2, Updates, CommitAdds DEF TypeOK
<1>4. NewGuide(v).version = n + 1 /\ NewGuide(v).status = "COMMITTED" /\ NewGuide(v).from = req[v].p
      /\ NewGuide(v).parent = proposal[req[v].p].parent
  BY <1>1 DEF NewGuide
<1>5. VersionsDense' /\ LastInForce'
  BY <1>1, <1>4, CommitAdds DEF VersionsDense, LastInForce
<1>6. req[v].p \in Proposals /\ NewGuide(v).parent <= n /\ NewGuide(v).parent \in Nat
  BY <1>0, <1>4 DEF TypeOK, VoteRequests, ProposalRows, IInv, ParentsKnown
<1>7. ParentsKnown'
  <2>1. \A g \in guide : g.parent < g.version
    BY DEF IInv, ParentsKnown
  <2>2. \A h \in guide' : h.parent < h.version
    BY <1>1, <1>4, <1>6, <2>1, CommitAdds
  <2>3. \A p \in Proposals : proposal[p].parent <= n /\ proposal[p].parent \in Nat
    BY <1>0 DEF IInv, ParentsKnown, TypeOK, ProposalRows
  <2>. QED
    BY <1>1, <2>2, <2>3, CommitAdds DEF ParentsKnown
<1>8. ParentSuperseded'
  <2>. SUFFICES ASSUME NEW g \in guide', NEW h \in guide', g.version = h.parent
                PROVE  g.status = "SUPERSEDED"
    BY DEF ParentSuperseded
  <2>1. \A k \in guide : k.version \in 1..n /\ k.parent < k.version /\ k.parent \in Nat
    BY <1>0, Numbers DEF IInv, ParentsKnown, TypeOK, Guides
  <2>2. g # NewGuide(v)
    <3>1. h.parent <= n
      BY <1>1, <1>6, <2>1, CommitAdds
    <3>. QED
      BY <1>1, <1>4, <3>1
  <2>3. PICK k \in guide : /\ g.version = k.version
                           /\ g.status = IF k.version = proposal[req[v].p].parent
                                         THEN "SUPERSEDED" ELSE k.status
    BY <2>2, CommitAdds
  <2>4. CASE h = NewGuide(v)
    BY <1>4, <2>3, <2>4
  <2>5. CASE h # NewGuide(v)
    <3>1. PICK l \in guide : h.parent = l.parent
      BY <2>5, CommitAdds
    <3>2. k.status = "SUPERSEDED"
      BY <2>3, <3>1 DEF IInv, GuideInv, ParentSuperseded
    <3>. QED
      BY <2>3, <3>2
  <2>. QED
    BY <2>4, <2>5
<1>9. PassedHasGuide'
  BY <1>1, CommitAdds DEF IInv, GuideInv, PassedHasGuide
<1>10. RequestsKnow'
  <2>1. /\ req'[v] = x
        /\ \A u \in Voters \ {v} : req'[u] = req[u]
    BY <1>0, <1>1, <1>2, Updates
  <2>2. \E g \in guide' : g.version = x.version /\ g.from = x.p
    BY <1>2, <1>4, CommitAdds
  <2>3. ASSUME NEW u \in Voters \ {v}
        PROVE  /\ req[u].pc = "commit" => req[u].version \in 1..(n + 2)
               /\ req[u].pc = "pass" => \E g \in guide' : g.version = req[u].version /\ g.from = req[u].p
               /\ req[u].pc = "settle" => req[u].outcome \in {"FAILED", "EXPIRED"}
    BY <1>1, CommitAdds DEF IInv, RequestsKnow
  <2>. QED
    BY <1>1, <1>2, <2>1, <2>2, <2>3, CommitAdds DEF RequestsKnow
<1>. QED
  BY <1>3, <1>5, <1>7, <1>8, <1>9, <1>10 DEF IInv, GuideInv

LEMMA RequestKeeps ==
    ASSUME IInv, VotingAssumption, NEW v \in Voters,
           Begin(v) \/ RequestStep(v) \/ Fault(v) \/ Departure(v)
    PROVE  IInv'
<1>0. TypeOK /\ req[v] \in VoteRequests /\ Idle \in VoteRequests /\ Idle.pc = "idle"
  BY Updates DEF IInv, GuideInv, TypeOK, Idle
<1>1. vote \in [Proposals -> [Voters -> Decisions \cup {"none"}]] /\ faults \in 0..MaxFaults
  BY <1>0 DEF TypeOK
<1>2. CASE Begin(v)
  <2>1. PICK p \in Proposals :
           req' = [req EXCEPT ![v] = [Idle EXCEPT !.pc = "cast", !.p = p, !.n = Cardinality(eligible)]]
    BY <1>2 DEF Begin
  <2>. DEFINE x == [Idle EXCEPT !.pc = "cast", !.p = p, !.n = Cardinality(eligible)]
  <2>2. Cardinality(eligible) \in Nat
    BY <1>0, FS_Subset, FS_CardinalityType DEF VotingAssumption, TypeOK
  <2>3. x \in VoteRequests /\ x.pc = "cast"
    BY <1>0, <2>2 DEF VoteRequests, Idle
  <2>. HIDE DEF x
  <2>. QED
    BY <1>1, <1>2, <2>1, <2>3, RequestMoves DEF Begin, x
<1>3. CASE Cast(v)
  <2>. DEFINE x == [req[v] EXCEPT !.pc = "tally"]
  <2>1. x \in VoteRequests /\ x.pc = "tally"
    BY <1>0 DEF VoteRequests
  <2>2. vote' \in [Proposals -> [Voters -> Decisions \cup {"none"}]]
    BY <1>0, <1>1, <1>3 DEF Cast, VoteRequests
  <2>. QED
    BY <1>1, <1>3, <2>1, <2>2, RequestMoves DEF Cast, Goto
<1>4. CASE Tally(v)
  <2>. DEFINE o == Evaluate(proposal[req[v].p].closed, vote[req[v].p], req[v].n)
  <2>1. CASE o = "PASSED" /\ Decide(v, "version", o)
    <3>. DEFINE x == [req[v] EXCEPT !.pc = "version", !.outcome = "PASSED"]
    <3>1. x \in VoteRequests /\ x.pc = "version"
      BY <1>0 DEF VoteRequests, Decided
    <3>. QED
      BY <1>1, <1>4, <2>1, <3>1, RequestMoves DEF Tally, Decide
  <2>2. CASE o \in {"FAILED", "EXPIRED"} /\ Decide(v, "settle", o)
    <3>. DEFINE x == [req[v] EXCEPT !.pc = "settle", !.outcome = o]
    <3>. HIDE DEF o
    <3>1. x \in VoteRequests /\ x.pc = "settle" /\ x.outcome = o
      BY <1>0, <2>2 DEF VoteRequests, Decided
    <3>2. UNCHANGED <<proposal, openers, vote, eligible, guide, calm, faults>>
      BY <1>4 DEF Tally
    <3>. QED
      BY <1>1, <2>2, <3>1, <3>2, RequestMoves DEF Decide
  <2>3. CASE EndRequest(v)
    BY <1>0, <1>1, <1>4, <2>3, RequestMoves DEF Tally, EndRequest
  <2>. QED
    BY <1>4, <2>1, <2>2, <2>3 DEF Tally
<1>5. CASE ReadVersion(v)
  <2>. DEFINE x == [req[v] EXCEPT !.pc = "commit", !.version = LastVersion + 1]
  <2>1. LastVersion + 1 \in 1..(Cardinality(guide) + 1) /\ LastVersion + 1 \in Nat
    BY LastIsCount, Numbers
  <2>2. x \in VoteRequests /\ x.pc = "commit" /\ x.version = LastVersion + 1
    BY <1>0, <2>1 DEF VoteRequests
  <2>. QED
    BY <1>1, <1>5, <2>1, <2>2, RequestMoves DEF ReadVersion
<1>6. CASE CommitGuide(v)
  <2>1. CASE EndRequest(v) /\ UNCHANGED guide
    BY <1>0, <1>1, <1>6, <2>1, RequestMoves DEF CommitGuide, EndRequest
  <2>. QED
    BY <1>6, <2>1, CommitStep DEF CommitGuide
<1>7. CASE Pass(v)
  <2>. DEFINE p == req[v].p
              x == [proposal[p] EXCEPT !.state = "PASSED", !.newFcg = req[v].version]
  <2>1. p \in Proposals /\ proposal[p] \in ProposalRows /\ req[v].version \in Nat
    BY <1>0 DEF TypeOK, VoteRequests
  <2>2. x \in ProposalRows /\ x.parent = proposal[p].parent /\ x.newFcg = req[v].version
    BY <2>1 DEF ProposalRows, Decided
  <2>3. \E g \in guide : g.version = x.newFcg /\ g.from = p
    BY <1>7, <2>2 DEF Pass, IInv, RequestsKnow
  <2>4. openers' \in [Proposals -> 0..MaxOpeners]
    BY <1>0, <1>7 DEF Pass, TypeOK
  <2>. HIDE DEF x, p
  <2>. QED
    BY <1>7, <2>1, <2>2, <2>3, <2>4, ProposalMoves DEF Pass, x, p
<1>8. CASE Settle(v)
  <2>. DEFINE p == req[v].p
              x == [proposal[p] EXCEPT !.state = req[v].outcome]
  <2>1. p \in Proposals /\ proposal[p] \in ProposalRows /\ req[v].outcome \in {"FAILED", "EXPIRED"}
    BY <1>0, <1>8 DEF TypeOK, VoteRequests, Settle, IInv, RequestsKnow
  <2>2. x \in ProposalRows /\ x.parent = proposal[p].parent /\ x.state # "PASSED"
    BY <2>1 DEF ProposalRows, Decided
  <2>4. openers' \in [Proposals -> 0..MaxOpeners]
    BY <1>0, <1>8 DEF Settle, TypeOK
  <2>. QED
    BY <1>8, <2>1, <2>2, <2>4, ProposalMoves DEF Settle
<1>9. CASE Fault(v)
  <2>1. faults' \in 0..MaxFaults
    BY <1>1, <1>9 DEF Fault, VotingAssumption
  <2>. QED
    BY <1>0, <1>1, <1>9, <2>1, RequestMoves DEF Fault, EndRequest
<1>10. CASE Departure(v)
  <2>1. TypeOK'
    BY <1>0, <1>10 DEF Departure, TypeOK, VotingAssumption
  <2>. QED
    BY <1>10, <2>1, GuidesStay
       DEF Departure, IInv, GuideInv, PassedHasGuide, ParentsKnown, RequestsKnow
<1>. QED
  BY <1>2, <1>3, <1>4, <1>5, <1>6, <1>7, <1>8, <1>9, <1>10 DEF RequestStep

LEMMA Step == ASSUME VotingAssumption PROVE IInv /\ [Next]_vars => IInv'
<1>. SUFFICES ASSUME IInv, [Next]_vars PROVE IInv'
  OBVIOUS
<1>1. CASE UNCHANGED vars
  BY <1>1, GuidesStay
     DEF vars, IInv, GuideInv, TypeOK, PassedHasGuide, ParentsKnown, RequestsKnow
<1>. QED
  BY <1>1, ProposalStep, RequestKeeps DEF Next

\* However votes race to commit: guides are numbered without gap or duplicate, an amended
\* guide is superseded, and a passed proposal names the guide that was built from it.
THEOREM GuidesFormOneLine == ASSUME VotingAssumption PROVE Spec => []GuideInv
<1>1. IInv => GuideInv
  BY DEF IInv
<1>. QED
  BY <1>1, InitInv, Step, PTL DEF Spec

\* A proposal that is drafted amends the last guide there is, and that one is in force.
THEOREM DraftsAmendTheLast ==
    ASSUME VotingAssumption PROVE Spec => [](Current = LastVersion /\ Current = Cardinality(guide))
<1>1. IInv => Current = LastVersion /\ Current = Cardinality(guide)
  BY CurrentIsCount, LastIsCount
<1>. QED
  BY <1>1, InitInv, Step, PTL DEF Spec
-----------------------------------------------------------------------------
\* The outcome o is the one PRD 6.1 gives these votes of all members.
Right(closed, votes, o) ==
    LET a == Count(votes, "APPROVE")
        r == Count(votes, "REJECT")
        quorum == 100 * (a + r + Count(votes, "ABSTAIN")) >= Cardinality(Voters) * QuorumPct
    IN  /\ o = "PASSED" => 2 * a > Cardinality(Voters) \/ (closed /\ quorum /\ a > r)
        /\ o = "FAILED" => 2 * r > Cardinality(Voters) \/ (closed /\ quorum /\ a <= r)
        /\ o = "EXPIRED" => closed /\ ~ quorum

\* A calm vote counts all members, holds its proposal open until it writes, and writes what
\* the votes, which nobody changes meanwhile, still say.
Undisturbed ==
    calm =>
       /\ eligible = Voters
       /\ \A u, v \in Voters : req[u].pc # "idle" /\ req[v].pc # "idle" => u = v
       /\ \A p \in Proposals : openers[p] > 0 => openers[p] = 1 /\ proposal[p].state = "DRAFTING"
       /\ \A v \in Voters : req[v].pc # "idle" =>
             LET p == req[v].p IN
             /\ req[v].n = Cardinality(Voters)
             /\ proposal[p].state = "OPEN_FOR_VOTE"
             /\ req[v].pc \in {"version", "commit", "pass"} =>
                   Right(proposal[p].closed, vote[p], "PASSED")
             /\ req[v].pc = "settle" => Right(proposal[p].closed, vote[p], req[v].outcome)

DInv == Undisturbed /\ DecisionJustified

\* What evaluate says of the votes, counted against all members, is right.
LEMMA EvaluateIsRight ==
    ASSUME VotingAssumption, QuorumPct \in Nat, NEW closed \in BOOLEAN, NEW votes
    PROVE  Right(closed, votes, Evaluate(closed, votes, Cardinality(Voters)))
<1>. DEFINE n == Cardinality(Voters)
            c(d) == Count(votes, d)
<1>1. \A d : c(d) \in Nat
  BY FS_Subset, FS_CardinalityType DEF Count, VotingAssumption
<1>2. n \in Nat /\ n * QuorumPct \in Nat
  BY FS_CardinalityType DEF VotingAssumption
<1>. DEFINE q == n * QuorumPct
            o == Evaluate(closed, votes, n)
<1>3. /\ o = "PASSED" => \/ 2 * c("APPROVE") > n
                         \/ /\ closed /\ c("APPROVE") > c("REJECT")
                            /\ ~ (100 * (c("APPROVE") + c("REJECT") + c("ABSTAIN")) < q)
      /\ o = "FAILED" => \/ 2 * c("REJECT") > n
                         \/ /\ closed /\ ~ (c("APPROVE") > c("REJECT"))
                            /\ ~ (100 * (c("APPROVE") + c("REJECT") + c("ABSTAIN")) < q)
      /\ o = "EXPIRED" => /\ closed
                          /\ 100 * (c("APPROVE") + c("REJECT") + c("ABSTAIN")) < q
  BY DEF Evaluate
<1>4. c("APPROVE") \in Nat /\ c("REJECT") \in Nat /\ c("ABSTAIN") \in Nat /\ q \in Nat
  BY <1>1, <1>2
<1>5. Right(closed, votes, o) <=>
        /\ o = "PASSED" => \/ 2 * c("APPROVE") > n
                           \/ /\ closed /\ c("APPROVE") > c("REJECT")
                              /\ 100 * (c("APPROVE") + c("REJECT") + c("ABSTAIN")) >= q
        /\ o = "FAILED" => \/ 2 * c("REJECT") > n
                           \/ /\ closed /\ c("APPROVE") <= c("REJECT")
                              /\ 100 * (c("APPROVE") + c("REJECT") + c("ABSTAIN")) >= q
        /\ o = "EXPIRED" => /\ closed
                            /\ ~ (100 * (c("APPROVE") + c("REJECT") + c("ABSTAIN")) >= q)
  BY DEF Right
<1>. HIDE DEF c, q, o
<1>. QED
  BY <1>3, <1>4, <1>5 DEF o

\* What is right before the close is right after it.
LEMMA RightAtTheClose ==
    ASSUME NEW closed, NEW votes, NEW o, Right(closed, votes, o), o # "EXPIRED" \/ closed
    PROVE  Right(TRUE, votes, o)
  BY DEF Right

LEMMA NothingDecided ==
    ASSUME NEW closed, NEW votes, NEW o, o \notin Decided PROVE Right(closed, votes, o)
  BY DEF Right, Decided

LEMMA JustifiedMeans ==
    DecisionJustified <=>
       (calm => \A p \in Proposals : Right(proposal[p].closed, vote[p], proposal[p].state))
  BY DEF DecisionJustified, Right

\* A step about a proposal that nobody votes on.
LEMMA JustifiedProposalStep ==
    ASSUME VotingAssumption, TypeOK, DInv, NEW p \in Proposals,
           Draft(p) \/ OpenRead(p) \/ OpenWrite(p) \/ WindowCloses(p)
    PROVE  DInv'
<1>. SUFFICES ASSUME calm PROVE DInv'
  <2>1. calm' = calm
    BY DEF Draft, OpenRead, OpenWrite, WindowCloses
  <2>. QED
    BY <2>1, JustifiedMeans DEF DInv, Undisturbed, DecisionJustified
<1>1. /\ UNCHANGED <<vote, eligible, req, calm>>
      /\ DOMAIN proposal = Proposals /\ DOMAIN openers = Proposals
  BY DEF Draft, OpenRead, OpenWrite, WindowCloses, TypeOK
<1>2. \A q \in Proposals \ {p} : proposal'[q] = proposal[q] /\ openers'[q] = openers[q]
  BY <1>1 DEF Draft, OpenRead, OpenWrite, WindowCloses
<1>3. /\ openers[p] \in Nat /\ proposal[p] \in ProposalRows
      /\ openers[p] > 0 => openers[p] = 1 /\ proposal[p].state = "DRAFTING"
  BY DEF TypeOK, VotingAssumption, DInv, Undisturbed
<1>. DEFINE Moves == /\ openers'[p] > 0 => openers'[p] = 1 /\ proposal'[p].state = "DRAFTING"
                     /\ proposal'[p].state \notin Decided \/ proposal'[p] = proposal[p]
                     /\ proposal[p].state = "OPEN_FOR_VOTE" =>
                           /\ proposal'[p].state = "OPEN_FOR_VOTE"
                           /\ proposal'[p].closed \in {proposal[p].closed, TRUE}
<1>4. Moves
  <2>1. CASE Draft(p)
    <3>1. proposal[p].state = "none" /\ openers'[p] = openers[p] /\ proposal'[p].state = "DRAFTING"
      BY <1>1, <1>3, <2>1 DEF Draft, ProposalRows
    <3>. QED
      BY <1>3, <3>1 DEF Decided
  <2>2. CASE OpenRead(p)
    <3>1. proposal[p].state = "DRAFTING" /\ openers[p] = 0 /\ openers'[p] = openers[p] + 1
          /\ proposal'[p] = proposal[p]
      BY <1>1, <2>2 DEF OpenRead
    <3>. QED
      BY <3>1
  <2>3. CASE OpenWrite(p)
    <3>1. openers[p] = 1 /\ proposal[p].state = "DRAFTING"
      BY <1>3, <2>3 DEF OpenWrite
    <3>2. openers'[p] = 0 /\ proposal'[p].state = "OPEN_FOR_VOTE"
      BY <1>1, <1>3, <2>3, <3>1 DEF OpenWrite, ProposalRows
    <3>. QED
      BY <3>1, <3>2 DEF Decided
  <2>4. CASE WindowCloses(p)
    <3>1. proposal[p].state = "OPEN_FOR_VOTE" /\ openers'[p] = openers[p]
          /\ proposal'[p].state = "OPEN_FOR_VOTE" /\ proposal'[p].closed = TRUE
      BY <1>1, <1>3, <2>4 DEF WindowCloses, ProposalRows
    <3>. QED
      BY <1>3, <3>1 DEF Decided
  <2>. QED
    BY <2>1, <2>2, <2>3, <2>4
<1>5. DecisionJustified'
  <2>. SUFFICES ASSUME NEW q \in Proposals
                PROVE  Right(proposal'[q].closed, vote'[q], proposal'[q].state)
    BY <1>1, JustifiedMeans DEF Right, DecisionJustified
  <2>1. CASE proposal'[q] = proposal[q]
    BY <1>1, <2>1, JustifiedMeans DEF DInv
  <2>. QED
    BY <1>2, <1>4, <2>1, NothingDecided
<1>6. Undisturbed'
  <2>. SUFFICES ASSUME NEW v \in Voters, req[v].pc # "idle"
                PROVE  LET q == req[v].p IN
                       /\ req[v].n = Cardinality(Voters)
                       /\ proposal'[q].state = "OPEN_FOR_VOTE"
                       /\ req[v].pc \in {"version", "commit", "pass"} =>
                             Right(proposal'[q].closed, vote[q], "PASSED")
                       /\ req[v].pc = "settle" => Right(proposal'[q].closed, vote[q], req[v].outcome)
    BY <1>1, <1>2, <1>4 DEF DInv, Undisturbed
  <2>. DEFINE q == req[v].p
  <2>1. q \in Proposals /\ proposal[q].state = "OPEN_FOR_VOTE" /\ req[v].n = Cardinality(Voters)
        /\ (req[v].pc \in {"version", "commit", "pass"} => Right(proposal[q].closed, vote[q], "PASSED"))
        /\ (req[v].pc = "settle" => Right(proposal[q].closed, vote[q], req[v].outcome))
    BY DEF DInv, Undisturbed, TypeOK, VoteRequests
  <2>2. proposal'[q].state = "OPEN_FOR_VOTE" /\ proposal'[q].closed \in {proposal[q].closed, TRUE}
    BY <1>2, <1>4, <2>1
  <2>. QED
    BY <2>1, <2>2, RightAtTheClose DEF Right
<1>. QED
  BY <1>5, <1>6 DEF DInv

\* The one request that is under way, v, moves to x: all that is to show is about the
\* proposal p it votes on.
LEMMA JustifiedMove ==
    ASSUME TypeOK, DInv, calm, NEW v \in Voters, NEW x, NEW p \in Proposals,
           p = req[v].p, req[v].pc # "idle",
           req' = [req EXCEPT ![v] = x],
           \A q \in Proposals \ {p} : proposal'[q] = proposal[q] /\ vote'[q] = vote[q],
           Right(proposal'[p].closed, vote'[p], proposal'[p].state),
           x.pc # "idle" =>
              /\ x.p = p /\ x.n = Cardinality(Voters)
              /\ proposal'[p].state = "OPEN_FOR_VOTE"
              /\ x.pc \in {"version", "commit", "pass"} => Right(proposal'[p].closed, vote'[p], "PASSED")
              /\ x.pc = "settle" => Right(proposal'[p].closed, vote'[p], x.outcome),
           UNCHANGED <<openers, eligible, calm>>
    PROVE  DInv'
<1>1. DOMAIN req = Voters /\ req'[v] = x /\ \A u \in Voters \ {v} : req'[u] = req[u] /\ req'[u].pc = "idle"
  BY DEF TypeOK, DInv, Undisturbed
<1>2. DecisionJustified'
  <2>. SUFFICES ASSUME NEW q \in Proposals
                PROVE  Right(proposal'[q].closed, vote'[q], proposal'[q].state)
    BY DEF Right, DecisionJustified
  <2>1. CASE q = p
    BY <2>1
  <2>2. CASE q # p
    BY <2>2, JustifiedMeans DEF DInv
  <2>. QED
    BY <2>1, <2>2
<1>3. \A q \in Proposals : openers'[q] > 0 => openers'[q] = 1 /\ proposal'[q].state = "DRAFTING"
  BY DEF DInv, Undisturbed
<1>4. Undisturbed'
  <2>1. \A u, w \in Voters : req'[u].pc # "idle" /\ req'[w].pc # "idle" => u = w
    BY <1>1
  <2>2. ASSUME NEW u \in Voters, req'[u].pc # "idle"
        PROVE  u = v /\ req'[u] = x
    BY <1>1, <2>2
  <2>3. eligible' = Voters
    BY DEF DInv, Undisturbed
  <2>. QED
    BY <1>3, <2>1, <2>2, <2>3 DEF Undisturbed, Right
<1>. QED
  BY <1>2, <1>4 DEF DInv

\* A step of the one request that is under way.
LEMMA JustifiedRequestStep ==
    ASSUME VotingAssumption, QuorumPct \in Nat, TypeOK, DInv, RequestsKnow, NEW v \in Voters,
           Begin(v) \/ RequestStep(v) \/ Fault(v) \/ Departure(v)
    PROVE  DInv'
<1>. SUFFICES ASSUME calm PROVE DInv'
  <2>1. calm' = calm
    BY DEF Begin, RequestStep, Fault, Departure, Cast, Tally, ReadVersion, CommitGuide, Pass, Settle
  <2>. QED
    BY <2>1 DEF DInv, Undisturbed, DecisionJustified
<1>. DEFINE p == req[v].p
<1>0. /\ p \in Proposals /\ DOMAIN req = Voters /\ DOMAIN proposal = Proposals
      /\ req[v] \in VoteRequests /\ proposal[p] \in ProposalRows
      /\ vote \in [Proposals -> [Voters -> Decisions \cup {"none"}]]
      /\ Idle.pc = "idle" /\ Idle \in VoteRequests
  BY Updates DEF TypeOK, VoteRequests, Idle
<1>x. req[v].pc # "idle" =>
         /\ req[v].n = Cardinality(Voters) /\ proposal[p].state = "OPEN_FOR_VOTE"
         /\ req[v].pc \in {"version", "commit", "pass"} => Right(proposal[p].closed, vote[p], "PASSED")
         /\ req[v].pc = "settle" => Right(proposal[p].closed, vote[p], req[v].outcome)
         /\ Right(proposal[p].closed, vote[p], proposal[p].state)
  BY <1>0, JustifiedMeans DEF DInv, Undisturbed
<1>1. CASE Begin(v)
  <2>1. PICK q \in Proposals : /\ proposal[q].state = "OPEN_FOR_VOTE"
           /\ req' = [req EXCEPT ![v] = [Idle EXCEPT !.pc = "cast", !.p = q, !.n = Cardinality(eligible)]]
    BY <1>1 DEF Begin
  <2>2. /\ \A u \in Voters : req[u].pc = "idle"
        /\ UNCHANGED <<proposal, openers, vote, eligible, calm>> /\ eligible = Voters
    BY <1>1 DEF Begin, DInv, Undisturbed
  <2>3. /\ req'[v].pc = "cast" /\ req'[v].p = q /\ req'[v].n = Cardinality(Voters)
        /\ \A u \in Voters \ {v} : req'[u].pc = "idle"
    BY <1>0, <2>1, <2>2 DEF VoteRequests
  <2>4. Undisturbed'
    BY <2>1, <2>2, <2>3 DEF DInv, Undisturbed
  <2>. QED
    BY <2>2, <2>4 DEF DInv, DecisionJustified
<1>2. CASE Cast(v)
  <2>. DEFINE x == [req[v] EXCEPT !.pc = "tally"]
  <2>1. /\ req[v].pc = "cast" /\ req' = [req EXCEPT ![v] = x]
        /\ \A q \in Proposals \ {p} : proposal'[q] = proposal[q] /\ vote'[q] = vote[q]
        /\ proposal' = proposal /\ UNCHANGED <<openers, eligible, calm>>
    BY <1>0, <1>2 DEF Cast, Goto
  <2>2. x.pc = "tally" /\ x.p = p /\ x.n = req[v].n
    BY <1>0 DEF VoteRequests
  <2>3. Right(proposal'[p].closed, vote'[p], proposal'[p].state)
    BY <1>x, <2>1, NothingDecided DEF Decided
  <2>. HIDE DEF x, p
  <2>. QED
    BY <1>0, <1>x, <2>1, <2>2, <2>3, JustifiedMove DEF p
<1>3. CASE Tally(v)
  <2>. DEFINE o == Evaluate(proposal[p].closed, vote[p], req[v].n)
  <2>1. req[v].pc = "tally" /\ UNCHANGED <<proposal, openers, vote, eligible, calm>>
    BY <1>3 DEF Tally
  <2>2. Right(proposal[p].closed, vote[p], o)
    <3>1. proposal[p].closed \in BOOLEAN
      BY <1>0 DEF ProposalRows
    <3>. QED
      BY <1>x, <2>1, <3>1, EvaluateIsRight
  <2>. HIDE DEF o
  <2>3. CASE o = "PASSED" /\ Decide(v, "version", o)
    <3>. DEFINE x == [req[v] EXCEPT !.pc = "version", !.outcome = o]
    <3>1. req' = [req EXCEPT ![v] = x] /\ x.pc = "version" /\ x.p = p /\ x.n = req[v].n
      BY <1>0, <2>3 DEF Decide, VoteRequests
    <3>. HIDE DEF x, p
    <3>. QED
      BY <1>0, <1>x, <2>1, <2>2, <2>3, <3>1, JustifiedMove DEF p
  <2>4. CASE o \in {"FAILED", "EXPIRED"} /\ Decide(v, "settle", o)
    <3>. DEFINE x == [req[v] EXCEPT !.pc = "settle", !.outcome = o]
    <3>1. req' = [req EXCEPT ![v] = x] /\ x.pc = "settle" /\ x.p = p /\ x.n = req[v].n /\ x.outcome = o
      BY <1>0, <2>4 DEF Decide, VoteRequests
    <3>. HIDE DEF x, p
    <3>. QED
      BY <1>0, <1>x, <2>1, <2>2, <2>4, <3>1, JustifiedMove DEF p
  <2>5. CASE EndRequest(v)
    BY <1>0, <1>x, <2>1, <2>5, JustifiedMove DEF EndRequest
  <2>. QED
    BY <1>3, <2>3, <2>4, <2>5 DEF Tally, o
<1>4. CASE ReadVersion(v)
  <2>. DEFINE x == [req[v] EXCEPT !.pc = "commit", !.version = LastVersion + 1]
  <2>1. req[v].pc = "version" /\ UNCHANGED <<proposal, openers, vote, eligible, calm>>
    BY <1>4 DEF ReadVersion
  <2>2. req' = [req EXCEPT ![v] = x] /\ x.pc = "commit" /\ x.p = p /\ x.n = req[v].n
    BY <1>0, <1>4 DEF ReadVersion, VoteRequests
  <2>. HIDE DEF x, p
  <2>. QED
    BY <1>0, <1>x, <2>1, <2>2, JustifiedMove DEF p
<1>5. CASE CommitGuide(v)
  <2>. DEFINE x == [req[v] EXCEPT !.pc = "pass"]
  <2>1. req[v].pc = "commit" /\ UNCHANGED <<proposal, openers, vote, eligible, calm>>
    BY <1>5 DEF CommitGuide
  <2>2. x.pc = "pass" /\ x.p = p /\ x.n = req[v].n
    BY <1>0 DEF VoteRequests
  <2>3. CASE Goto(v, "pass")
    <3>1. req' = [req EXCEPT ![v] = x]
      BY <1>0, <2>3 DEF Goto
    <3>. HIDE DEF x, p
    <3>. QED
      BY <1>0, <1>x, <2>1, <2>2, <3>1, JustifiedMove DEF p
  <2>4. CASE EndRequest(v)
    BY <1>0, <1>x, <2>1, <2>4, JustifiedMove DEF EndRequest
  <2>. QED
    BY <1>5, <2>3, <2>4 DEF CommitGuide
<1>6. CASE Pass(v)
  <2>1. /\ req[v].pc = "pass" /\ EndRequest(v) /\ UNCHANGED <<openers, vote, eligible, calm>>
        /\ proposal' = [proposal EXCEPT ![p] = [@ EXCEPT !.state = "PASSED", !.newFcg = req[v].version]]
    BY <1>6 DEF Pass
  <2>2. proposal'[p].state = "PASSED" /\ proposal'[p].closed = proposal[p].closed
    BY <1>0, <2>1 DEF ProposalRows
  <2>3. Right(proposal'[p].closed, vote'[p], proposal'[p].state)
    BY <1>x, <2>1, <2>2
  <2>4. \A q \in Proposals \ {p} : proposal'[q] = proposal[q] /\ vote'[q] = vote[q]
    BY <1>0, <2>1
  <2>. QED
    BY <1>0, <2>1, <2>3, <2>4, JustifiedMove DEF EndRequest
<1>7. CASE Settle(v)
  <2>1. /\ req[v].pc = "settle" /\ EndRequest(v) /\ UNCHANGED <<openers, vote, eligible, calm>>
        /\ proposal' = [proposal EXCEPT ![p].state = req[v].outcome]
    BY <1>7 DEF Settle
  <2>2. proposal'[p].state = req[v].outcome /\ proposal'[p].closed = proposal[p].closed
    BY <1>0, <2>1 DEF ProposalRows
  <2>3. Right(proposal'[p].closed, vote'[p], proposal'[p].state)
    BY <1>x, <2>1, <2>2
  <2>4. \A q \in Proposals \ {p} : proposal'[q] = proposal[q] /\ vote'[q] = vote[q]
    BY <1>0, <2>1
  <2>. QED
    BY <1>0, <2>1, <2>3, <2>4, JustifiedMove DEF EndRequest
<1>8. CASE Fault(v)
  <2>1. req[v].pc # "idle" /\ EndRequest(v) /\ UNCHANGED <<proposal, openers, vote, eligible, calm>>
    BY <1>8 DEF Fault
  <2>. QED
    BY <1>0, <1>x, <2>1, JustifiedMove DEF EndRequest
<1>9. CASE Departure(v)
  BY <1>9 DEF Departure
<1>. QED
  BY <1>1, <1>2, <1>3, <1>4, <1>5, <1>6, <1>7, <1>8, <1>9 DEF RequestStep

\* What a proposal records is what PRD 6.1 makes of its votes, for every electorate, every
\* quorum and every number of proposals, as long as no two votes overlap and no member leaves.
THEOREM DecisionsAreJustified ==
    ASSUME VotingAssumption, QuorumPct \in Nat PROVE Spec => []DecisionJustified
<1>1. Init => DInv
  <2>. SUFFICES ASSUME Init PROVE DInv
    OBVIOUS
  <2>1. /\ \A p \in Proposals : openers[p] = 0 /\ proposal[p].state = "none"
        /\ \A v \in Voters : req[v].pc = "idle"
        /\ eligible = Voters
    BY DEF Init, NoProposal, Idle
  <2>2. DecisionJustified
    BY <2>1, NothingDecided, JustifiedMeans DEF Decided
  <2>. QED
    BY <2>1, <2>2 DEF DInv, Undisturbed
<1>2. IInv /\ DInv /\ [Next]_vars => DInv'
  <2>. SUFFICES ASSUME IInv, DInv, [Next]_vars PROVE DInv'
    OBVIOUS
  <2>1. TypeOK /\ RequestsKnow
    BY DEF IInv, GuideInv
  <2>2. CASE UNCHANGED vars
    BY <2>2 DEF vars, DInv, Undisturbed, DecisionJustified, Right
  <2>. QED
    BY <2>1, <2>2, JustifiedProposalStep, JustifiedRequestStep DEF Next
<1>3. DInv => DecisionJustified
  BY DEF DInv
<1>. QED
  BY <1>1, <1>2, <1>3, InitInv, Step, PTL DEF Spec
-----------------------------------------------------------------------------
\* The sandboxes: an administrator's request knows which sandbox it is about, a conclusion
\* that promotes has its proposal, and members and additions under way are bounded together.
SandboxAssumption ==
    /\ IsFiniteSet(People) /\ IsFiniteSet(Operators) /\ Operators # {}
    /\ CohortLimit \in Nat

Operation == [pc : {"idle", "create", "add", "stage", "conclude"}, s : Sandboxes \cup {"none"},
              who : People \cup {"none"}, outcome : SB!Outcomes \cup {"none"},
              proposal : Sandboxes \cup {"none"}]

Adding(s) == {o \in Operators : op[o].pc = "add" /\ op[o].s = s}

OperationOK(o) ==
    /\ op[o].pc \in {"add", "stage", "conclude"} => op[o].s \in Sandboxes
    /\ op[o].pc = "add" => op[o].who \in People
    /\ op[o].pc # "conclude" => op[o].proposal = "none"
    /\ op[o].pc = "stage" => op[o].outcome = "PROMOTED"
    /\ op[o].pc = "conclude" =>
          IF op[o].outcome = "PROMOTED" THEN op[o].proposal = op[o].s /\ op[o].s \in proposals
                                        ELSE op[o].proposal = "none" /\ op[o].outcome \in SB!Outcomes

Staged == /\ SB!TypeOK /\ op \in [Operators -> Operation]
          /\ \A o \in Operators : OperationOK(o)
          /\ SB!PromotionIsStaged

Bound == \A s \in Sandboxes :
            Cardinality(SB!Cohort(s)) + Cardinality(Adding(s)) <= CohortLimit + Cardinality(Operators) - 1

\* One request moves on, and the others stay as they are.
LEMMA OneMoves ==
    ASSUME NEW o \in Operators, NEW x \in Operation, op \in [Operators -> Operation],
           op' = [op EXCEPT ![o] = x],
           \A q \in Operators : OperationOK(q), proposals \subseteq proposals',
           x.pc \in {"add", "stage", "conclude"} => x.s \in Sandboxes,
           x.pc = "add" => x.who \in People,
           x.pc # "conclude" => x.proposal = "none",
           x.pc = "stage" => x.outcome = "PROMOTED",
           x.pc = "conclude" =>
              IF x.outcome = "PROMOTED" THEN x.proposal = x.s /\ x.s \in proposals'
                                        ELSE x.proposal = "none" /\ x.outcome \in SB!Outcomes
    PROVE  op' \in [Operators -> Operation] /\ \A q \in Operators : OperationOK(q)'
<1>1. op'[o] = x /\ \A q \in Operators \ {o} : op'[q] = op[q]
  OBVIOUS
<1>2. OperationOK(o)'
  BY <1>1 DEF OperationOK
<1>3. \A q \in Operators \ {o} : OperationOK(q)'
  BY <1>1 DEF OperationOK
<1>. QED
  BY <1>2, <1>3

LEMMA IdleOperation ==
    SB!Idle \in Operation /\ SB!Idle.pc = "idle" /\ SB!Idle.proposal = "none"
  BY DEF SB!Idle, Operation, SB!None

LEMMA StagedStep ==
    ASSUME Staged, SB!Next PROVE Staged'
<1>0. /\ SB!TypeOK /\ op \in [Operators -> Operation] /\ SB!PromotionIsStaged
      /\ \A o \in Operators : OperationOK(o)
  BY DEF Staged
<1>1. ASSUME NEW o \in Operators, SB!provisionSandbox(o) PROVE Staged'
  <2>. DEFINE x == [op[o] EXCEPT !.pc = "create"]
  <2>1. x \in Operation /\ x.pc = "create" /\ x.proposal = "none" /\ op' = [op EXCEPT ![o] = x]
        /\ UNCHANGED <<sandbox, cohort, proposals>>
    BY <1>0, <1>1 DEF SB!provisionSandbox, Operation, OperationOK
  <2>. HIDE DEF x
  <2>. QED
    BY <1>0, <2>1, OneMoves DEF Staged, SB!TypeOK, SB!PromotionIsStaged
<1>2. ASSUME NEW o \in Operators, SB!CreateTenant(o) PROVE Staged'
  <2>1. PICK s \in Sandboxes : sandbox' = [sandbox EXCEPT ![s] = SB!Opened]
    BY <1>2 DEF SB!CreateTenant
  <2>2. op' = [op EXCEPT ![o] = SB!Idle] /\ UNCHANGED <<cohort, proposals>>
    BY <1>2 DEF SB!CreateTenant, SB!Finish
  <2>3. SB!TypeOK'
    BY <1>0, <2>1, <2>2 DEF SB!TypeOK, SB!Opened, SB!Outcomes, SB!None
  <2>4. SB!PromotionIsStaged'
    BY <1>0, <2>1, <2>2 DEF SB!TypeOK, SB!PromotionIsStaged, SB!Opened, SB!None
  <2>. QED
    BY <1>0, <2>2, <2>3, <2>4, OneMoves, IdleOperation DEF Staged
<1>3. ASSUME NEW o \in Operators, NEW s \in Sandboxes, NEW p \in People, SB!addCohortMember(o, s, p)
      PROVE  Staged'
  <2>. DEFINE x == [op[o] EXCEPT !.pc = "add", !.s = s, !.who = p]
  <2>1. x \in Operation /\ x.pc = "add" /\ x.s = s /\ x.who = p /\ x.proposal = "none" /\ op' = [op EXCEPT ![o] = x]
        /\ UNCHANGED <<sandbox, cohort, proposals>>
    BY <1>0, <1>3 DEF SB!addCohortMember, Operation, OperationOK
  <2>. HIDE DEF x
  <2>. QED
    BY <1>0, <2>1, OneMoves DEF Staged, SB!TypeOK, SB!PromotionIsStaged
<1>4. ASSUME NEW o \in Operators, NEW s \in Sandboxes, NEW r \in SB!Outcomes \ {"PENDING"},
             SB!concludeSandbox(o, s, r)
      PROVE  Staged'
  <2>. DEFINE x == [op[o] EXCEPT !.pc = IF r = "PROMOTED" THEN "stage" ELSE "conclude",
                                 !.s = s, !.outcome = r]
  <2>0. op[o].proposal = "none"
    BY <1>0, <1>4 DEF SB!concludeSandbox, OperationOK
  <2>1. x \in Operation /\ x.s = s /\ x.outcome = r /\ op' = [op EXCEPT ![o] = x]
        /\ x.proposal = "none" /\ x.pc = (IF r = "PROMOTED" THEN "stage" ELSE "conclude")
        /\ UNCHANGED <<sandbox, cohort, proposals>>
    BY <1>0, <1>4, <2>0 DEF SB!concludeSandbox, Operation
  <2>. HIDE DEF x
  <2>. QED
    BY <1>0, <2>1, OneMoves DEF Staged, SB!TypeOK, SB!PromotionIsStaged
<1>5. ASSUME NEW o \in Operators, SB!AddMember(o) PROVE Staged'
  <2>1. op[o].s \in Sandboxes /\ op[o].who \in People
    BY <1>0, <1>5 DEF SB!AddMember, OperationOK
  <2>2. /\ cohort' = [cohort EXCEPT ![op[o].s][op[o].who] = "ACTIVE"]
        /\ op' = [op EXCEPT ![o] = SB!Idle] /\ UNCHANGED <<sandbox, proposals>>
    BY <1>5 DEF SB!AddMember, SB!Finish
  <2>3. SB!TypeOK' /\ SB!PromotionIsStaged'
    BY <1>0, <2>1, <2>2 DEF SB!TypeOK, SB!PromotionIsStaged
  <2>. QED
    BY <1>0, <2>2, <2>3, OneMoves, IdleOperation DEF Staged
<1>6. ASSUME NEW o \in Operators, SB!stagePromotionProposal(o) PROVE Staged'
  <2>. DEFINE x == [op[o] EXCEPT !.pc = "conclude", !.proposal = op[o].s]
  <2>1. op[o].s \in Sandboxes /\ op[o].outcome = "PROMOTED"
    BY <1>0, <1>6 DEF SB!stagePromotionProposal, OperationOK
  <2>2. /\ op' = [op EXCEPT ![o] = x] /\ proposals' = proposals \cup {op[o].s}
        /\ UNCHANGED <<sandbox, cohort>>
    BY <1>0, <1>6 DEF SB!stagePromotionProposal
  <2>3. /\ x \in Operation /\ x.pc = "conclude" /\ x.s = op[o].s /\ x.proposal = op[o].s
        /\ x.outcome = "PROMOTED"
    BY <1>0, <2>1 DEF Operation
  <2>4. SB!TypeOK' /\ SB!PromotionIsStaged'
    BY <1>0, <2>1, <2>2 DEF SB!TypeOK, SB!PromotionIsStaged
  <2>. HIDE DEF x
  <2>. QED
    BY <1>0, <2>1, <2>2, <2>3, <2>4, OneMoves DEF Staged
<1>7. ASSUME NEW o \in Operators, SB!RecordOutcome(o) PROVE Staged'
  <2>1. /\ op[o].s \in Sandboxes
        /\ IF op[o].outcome = "PROMOTED" THEN op[o].proposal = op[o].s /\ op[o].s \in proposals
           ELSE op[o].proposal = "none" /\ op[o].outcome \in SB!Outcomes
    BY <1>0, <1>7 DEF SB!RecordOutcome, OperationOK
  <2>2. PICK s \in Sandboxes : s = op[o].s
    BY <2>1
  <2>. DEFINE r == SB!RecordedOutcome(sandbox[s], o)
  <2>3. /\ sandbox' = [sandbox EXCEPT ![s] = r]
        /\ op' = [op EXCEPT ![o] = SB!Idle] /\ UNCHANGED <<cohort, proposals>>
    BY <1>0, <1>7, <2>2 DEF SB!RecordOutcome, SB!Finish, SB!TypeOK
  <2>4. /\ r.outcome = op[o].outcome /\ r.proposal = op[o].proposal
        /\ r \in [status : {"none", "SANDBOX", "TERMINATED"},
                  outcome : SB!Outcomes \cup {"none"}, elapsed : BOOLEAN,
                  proposal : Sandboxes \cup {"none"}]
    <3>1. sandbox[s] \in [status : {"none", "SANDBOX", "TERMINATED"},
                          outcome : SB!Outcomes \cup {"none"}, elapsed : BOOLEAN,
                          proposal : Sandboxes \cup {"none"}]
      BY <1>0 DEF SB!TypeOK, SB!None
    <3>2. op[o].outcome \in SB!Outcomes /\ op[o].proposal \in Sandboxes \cup {"none"}
      BY <2>1 DEF SB!Outcomes
    <3>. QED
      BY <3>1, <3>2 DEF SB!RecordedOutcome
  <2>. HIDE DEF r
  <2>5. SB!TypeOK'
    BY <1>0, <2>3, <2>4 DEF SB!TypeOK, SB!None
  <2>6. SB!PromotionIsStaged'
    BY <1>0, <2>1, <2>2, <2>3, <2>4 DEF SB!TypeOK, SB!PromotionIsStaged, SB!None
  <2>. QED
    BY <1>0, <2>3, <2>5, <2>6, OneMoves, IdleOperation DEF Staged
<1>8. ASSUME NEW s \in Sandboxes, SB!WindowElapses(s) PROVE Staged'
  <2>1. sandbox' = [sandbox EXCEPT ![s].elapsed = TRUE] /\ UNCHANGED <<cohort, proposals, op>>
    BY <1>8 DEF SB!WindowElapses
  <2>2. SB!TypeOK'
    BY <1>0, <2>1 DEF SB!TypeOK
  <2>3. \A t \in Sandboxes : /\ sandbox'[t].outcome = sandbox[t].outcome
                             /\ sandbox'[t].proposal = sandbox[t].proposal
    BY <1>0, <2>1 DEF SB!TypeOK
  <2>4. SB!PromotionIsStaged'
    BY <1>0, <2>1, <2>3 DEF SB!PromotionIsStaged
  <2>. QED
    BY <1>0, <2>1, <2>2, <2>4 DEF Staged, OperationOK
<1>9. ASSUME NEW o \in Operators, SB!Dies(o) PROVE Staged'
  <2>1. op' = [op EXCEPT ![o] = SB!Idle] /\ UNCHANGED <<sandbox, cohort, proposals>>
    BY <1>9 DEF SB!Dies, SB!Finish
  <2>. QED
    BY <1>0, <2>1, OneMoves, IdleOperation DEF Staged, SB!TypeOK, SB!PromotionIsStaged
<1>. QED
  BY <1>1, <1>2, <1>3, <1>4, <1>5, <1>6, <1>7, <1>8, <1>9 DEF SB!Next

LEMMA StagedAlways == TenantSpec => []Staged
<1>1. TenantInit => Staged
  <2>. SUFFICES ASSUME TenantInit PROVE Staged
    OBVIOUS
  <2>1. /\ sandbox = [s \in Sandboxes |-> SB!NoTenant]
        /\ cohort = [s \in Sandboxes |-> [p \in People |-> "none"]]
        /\ proposals = {} /\ op = [o \in Operators |-> SB!Idle]
    BY DEF TenantInit, SB!Init, SB!None
  <2>2. SB!TypeOK /\ SB!PromotionIsStaged
    BY <2>1 DEF SB!TypeOK, SB!PromotionIsStaged, SB!NoTenant, SB!None
  <2>. QED
    BY <2>1, <2>2, IdleOperation DEF Staged, OperationOK
<1>2. Staged /\ [TenantNext]_<<scene, vars, OfSB>> => Staged'
  <2>. SUFFICES ASSUME Staged, [TenantNext]_<<scene, vars, OfSB>> PROVE Staged'
    OBVIOUS
  <2>1. CASE UNCHANGED OfSB
    BY <2>1 DEF OfSB, Staged, OperationOK, SB!TypeOK, SB!PromotionIsStaged
  <2>. QED
    BY <2>1, StagedStep DEF TenantNext
<1>. QED
  BY <1>1, <1>2, PTL DEF TenantSpec

\* What promotion names was staged (stagePromotionProposal comes before the update that
\* records the outcome), whoever concludes what at the same time.
THEOREM PromotionsAreStaged == TenantSpec => []PromotionIsStaged
<1>1. Staged => PromotionIsStaged
  BY DEF Staged, PromotionIsStaged
<1>. QED
  BY <1>1, StagedAlways, PTL
-----------------------------------------------------------------------------
\* Sandbox counts by an instance of FiniteSets of its own.
LEMMA SameCount == \A T : SB!Cardinality(T) = Cardinality(T)
  BY DEF SB!Cardinality, Cardinality

LEMMA Counted ==
    ASSUME SandboxAssumption, NEW s \in Sandboxes
    PROVE  /\ IsFiniteSet(SB!Cohort(s)) /\ Cardinality(SB!Cohort(s)) \in Nat
           /\ IsFiniteSet(Adding(s)) /\ Cardinality(Adding(s)) \in Nat
           /\ Cardinality(Adding(s)) <= Cardinality(Operators)
           /\ Cardinality(Operators) \in Nat \ {0}
<1>1. SB!Cohort(s) \subseteq People /\ Adding(s) \subseteq Operators
  BY DEF SB!Cohort, Adding
<1>2. /\ IsFiniteSet(SB!Cohort(s)) /\ IsFiniteSet(Adding(s))
      /\ Cardinality(Adding(s)) <= Cardinality(Operators)
  BY <1>1, FS_Subset DEF SandboxAssumption
<1>3. Cardinality(Operators) # 0
  BY FS_EmptySet DEF SandboxAssumption
<1>. QED
  BY <1>2, <1>3, FS_CardinalityType DEF SandboxAssumption

\* Neither the cohort nor the additions under way grow.
LEMMA NobodyAdds ==
    ASSUME SandboxAssumption, NEW s \in Sandboxes,
           Cardinality(SB!Cohort(s)) + Cardinality(Adding(s))
              <= CohortLimit + Cardinality(Operators) - 1,
           SB!Cohort(s)' \subseteq SB!Cohort(s), Adding(s)' \subseteq Adding(s)
    PROVE  Cardinality(SB!Cohort(s)') + Cardinality(Adding(s)')
              <= CohortLimit + Cardinality(Operators) - 1
<1>1. /\ Cardinality(SB!Cohort(s)') <= Cardinality(SB!Cohort(s))
      /\ Cardinality(Adding(s)') <= Cardinality(Adding(s))
      /\ IsFiniteSet(SB!Cohort(s)') /\ IsFiniteSet(Adding(s)')
  BY Counted, FS_Subset
<1>. QED
  BY <1>1, Counted, FS_CardinalityType DEF SandboxAssumption

LEMMA BoundStep ==
    ASSUME SandboxAssumption, Staged, Bound, SB!Next PROVE Bound'
<1>0. /\ op \in [Operators -> Operation]
      /\ cohort \in [Sandboxes -> [People -> {"none", "ACTIVE"}]]
      /\ \A o \in Operators : OperationOK(o)
  BY DEF Staged, SB!TypeOK, SB!None
<1>1. ASSUME NEW o \in Operators, NEW x \in Operation, op' = [op EXCEPT ![o] = x],
             x.pc # "add", UNCHANGED cohort
      PROVE  Bound'
  <2>1. \A s \in Sandboxes : SB!Cohort(s)' = SB!Cohort(s) /\ Adding(s)' \subseteq Adding(s)
    BY <1>0, <1>1 DEF SB!Cohort, Adding
  <2>. QED
    BY <2>1, NobodyAdds DEF Bound
<1>2. ASSUME NEW o \in Operators,
             SB!provisionSandbox(o) \/ SB!CreateTenant(o) \/ SB!stagePromotionProposal(o)
                \/ SB!RecordOutcome(o) \/ SB!Dies(o)
                \/ \E s \in Sandboxes, r \in SB!Outcomes \ {"PENDING"} : SB!concludeSandbox(o, s, r)
      PROVE  Bound'
  <2>1. CASE SB!provisionSandbox(o)
    <3>. DEFINE x == [op[o] EXCEPT !.pc = "create"]
    <3>1. x \in Operation /\ x.pc # "add" /\ op' = [op EXCEPT ![o] = x] /\ UNCHANGED cohort
      BY <1>0, <2>1 DEF SB!provisionSandbox, Operation
    <3>. QED
      BY <1>1, <3>1
  <2>2. CASE SB!stagePromotionProposal(o)
    <3>. DEFINE x == [op[o] EXCEPT !.pc = "conclude", !.proposal = op[o].s]
    <3>1. x \in Operation /\ x.pc # "add" /\ op' = [op EXCEPT ![o] = x] /\ UNCHANGED cohort
      BY <1>0, <2>2 DEF SB!stagePromotionProposal, Operation
    <3>. QED
      BY <1>1, <3>1
  <2>3. CASE SB!CreateTenant(o) \/ SB!RecordOutcome(o) \/ SB!Dies(o)
    <3>1. op' = [op EXCEPT ![o] = SB!Idle] /\ UNCHANGED cohort
      BY <2>3 DEF SB!CreateTenant, SB!RecordOutcome, SB!Dies, SB!Finish
    <3>. QED
      BY <1>1, <3>1, IdleOperation
  <2>4. ASSUME NEW s \in Sandboxes, NEW r \in SB!Outcomes \ {"PENDING"}, SB!concludeSandbox(o, s, r)
        PROVE  Bound'
    <3>. DEFINE x == [op[o] EXCEPT !.pc = IF r = "PROMOTED" THEN "stage" ELSE "conclude",
                                   !.s = s, !.outcome = r]
    <3>1. x \in Operation /\ x.pc # "add" /\ op' = [op EXCEPT ![o] = x] /\ UNCHANGED cohort
      BY <1>0, <2>4 DEF SB!concludeSandbox, Operation
    <3>. HIDE DEF x
    <3>. QED
      BY <1>1, <3>1
  <2>. QED
    BY <1>2, <2>1, <2>2, <2>3, <2>4
<1>3. ASSUME NEW o \in Operators, NEW t \in Sandboxes, NEW p \in People, SB!addCohortMember(o, t, p)
      PROVE  Bound'
  <2>. DEFINE x == [op[o] EXCEPT !.pc = "add", !.s = t, !.who = p]
  <2>1. x.s = t /\ op' = [op EXCEPT ![o] = x] /\ UNCHANGED cohort /\ SB!HasRoom(t)
    BY <1>0, <1>3 DEF SB!addCohortMember, Operation
  <2>. HIDE DEF x
  <2>2. \A s \in Sandboxes : SB!Cohort(s)' = SB!Cohort(s)
    BY <2>1 DEF SB!Cohort
  <2>3. Cardinality(SB!Cohort(t)') + Cardinality(Adding(t)')
           <= CohortLimit + Cardinality(Operators) - 1
    <3>1. Cardinality(SB!Cohort(t)) < CohortLimit
      BY <2>1, SameCount DEF SB!HasRoom
    <3>2. Cardinality(Adding(t)') <= Cardinality(Operators) /\ Cardinality(Adding(t)') \in Nat
      <4>1. Adding(t)' \subseteq Operators
        BY DEF Adding
      <4>. QED
        BY <4>1, FS_Subset, FS_CardinalityType DEF SandboxAssumption
    <3>3. Cardinality(SB!Cohort(t)') = Cardinality(SB!Cohort(t))
      BY <2>2
    <3>. QED
      BY <3>1, <3>2, <3>3, Counted DEF SandboxAssumption
  <2>4. \A s \in Sandboxes \ {t} : Adding(s)' \subseteq Adding(s)
    BY <1>0, <2>1 DEF Adding
  <2>5. \A s \in Sandboxes \ {t} : Cardinality(SB!Cohort(s)') + Cardinality(Adding(s)')
                                      <= CohortLimit + Cardinality(Operators) - 1
    BY <2>2, <2>4, NobodyAdds DEF Bound
  <2>. QED
    BY <2>3, <2>5 DEF Bound
<1>4. ASSUME NEW o \in Operators, SB!AddMember(o) PROVE Bound'
  <2>1. PICK t \in Sandboxes, p \in People : t = op[o].s /\ p = op[o].who
    BY <1>0, <1>4 DEF SB!AddMember, OperationOK
  <2>2. op' = [op EXCEPT ![o] = SB!Idle] /\ cohort' = [cohort EXCEPT ![t][p] = "ACTIVE"]
        /\ op[o].pc = "add"
    BY <1>4, <2>1 DEF SB!AddMember, SB!Finish
  <2>3. /\ SB!Cohort(t)' \subseteq SB!Cohort(t) \cup {p}
        /\ o \in Adding(t) /\ Adding(t)' \subseteq Adding(t) \ {o}
    BY <1>0, <2>1, <2>2, IdleOperation DEF SB!Cohort, Adding
  <2>4. /\ IsFiniteSet(SB!Cohort(t) \cup {p})
        /\ Cardinality(SB!Cohort(t) \cup {p}) <= Cardinality(SB!Cohort(t)) + 1
        /\ Cardinality(SB!Cohort(t) \cup {p}) \in Nat
    BY Counted, FS_AddElement, FS_CardinalityType, SMTT(30)
  <2>5. /\ Cardinality(SB!Cohort(t)') <= Cardinality(SB!Cohort(t)) + 1
        /\ Cardinality(SB!Cohort(t)') \in Nat
    BY <2>3, <2>4, Counted, FS_Subset, FS_CardinalityType
  <2>6. IsFiniteSet(Adding(t) \ {o}) /\ Cardinality(Adding(t) \ {o}) = Cardinality(Adding(t)) - 1
    BY <2>3, Counted, FS_RemoveElement
  <2>7. /\ Cardinality(Adding(t)') <= Cardinality(Adding(t)) - 1
        /\ Cardinality(Adding(t)') \in Nat
    BY <2>3, <2>6, FS_Subset, FS_CardinalityType
  <2>8. Cardinality(SB!Cohort(t)') + Cardinality(Adding(t)')
           <= CohortLimit + Cardinality(Operators) - 1
    BY <2>5, <2>7, Counted DEF Bound, SandboxAssumption
  <2>9. \A s \in Sandboxes \ {t} : SB!Cohort(s)' = SB!Cohort(s) /\ Adding(s)' \subseteq Adding(s)
    BY <1>0, <2>2, IdleOperation DEF SB!Cohort, Adding
  <2>10. \A s \in Sandboxes \ {t} : Cardinality(SB!Cohort(s)') + Cardinality(Adding(s)')
                                       <= CohortLimit + Cardinality(Operators) - 1
    BY <2>9, NobodyAdds DEF Bound
  <2>. QED
    BY <2>8, <2>10 DEF Bound
<1>5. ASSUME UNCHANGED <<op, cohort>> PROVE Bound'
  BY <1>5 DEF Bound, SB!Cohort, Adding
<1>. QED
  BY <1>2, <1>3, <1>4, <1>5 DEF SB!Next, SB!WindowElapses

\* The cohort's limit, which addCohortMember checks before it writes, is passed by no more
\* than the other requests that were between check and write.
THEOREM CohortsAreBounded == ASSUME SandboxAssumption PROVE TenantSpec => []CohortBounded
<1>1. TenantInit => Bound
  <2>. SUFFICES ASSUME TenantInit PROVE Bound
    OBVIOUS
  <2>1. \A s \in Sandboxes : SB!Cohort(s) = {} /\ Adding(s) = {}
    BY IdleOperation DEF TenantInit, SB!Init, SB!Cohort, Adding, SB!None
  <2>2. Cardinality({}) = 0
    BY FS_EmptySet
  <2>3. \A s \in Sandboxes : Cardinality(Operators) \in Nat \ {0}
    BY Counted
  <2>. QED
    BY <2>1, <2>2, <2>3 DEF Bound, SandboxAssumption
<1>2. Staged /\ Bound /\ [TenantNext]_<<scene, vars, OfSB>> => Bound'
  <2>. SUFFICES ASSUME Staged, Bound, [TenantNext]_<<scene, vars, OfSB>> PROVE Bound'
    OBVIOUS
  <2>1. CASE UNCHANGED OfSB
    BY <2>1 DEF OfSB, Bound, SB!Cohort, Adding
  <2>. QED
    BY <2>1, BoundStep DEF TenantNext
<1>3. Bound => CohortBounded
  <2>. SUFFICES ASSUME Bound, NEW s \in Sandboxes
       PROVE  SB!Cardinality(SB!Cohort(s)) <= CohortLimit + SB!Cardinality(Operators) - 1
    BY DEF CohortBounded, SB!CohortBounded
  <2>. QED
    BY Counted, SameCount DEF Bound, SandboxAssumption
<1>. QED
  BY <1>1, <1>2, <1>3, StagedAlways, PTL DEF TenantSpec
=============================================================================
