--------------------------------- MODULE MCTenant ---------------------------------
(***************************************************************************)
(* What people of a firm decide about it in requests that race: votes on   *)
(* its guide and the sandboxes in which a guide is tried out.  A behaviour *)
(* moves one of them, the scene, and leaves the other as it began: what a  *)
(* sandbox hands to the vote is a proposal in DRAFTING, as Draft makes.    *)
(***************************************************************************)
EXTENDS FcgVoting, TLC

CONSTANTS Sandboxes, People, Operators, CohortLimit

VARIABLES scene,
          sandbox, cohort, proposals, op, sandboxFaults

SB == INSTANCE Sandbox WITH faults <- sandboxFaults

OfSB == <<sandbox, cohort, proposals, op, sandboxFaults>>

TenantInit == /\ scene \in {"votes", "sandbox"}
              /\ Init /\ SB!Init
              /\ calm \/ scene = "votes"

TenantNext == /\ UNCHANGED scene
              /\ \/ scene = "votes" /\ Next /\ UNCHANGED OfSB
                 \/ scene = "sandbox" /\ SB!Next /\ UNCHANGED vars

TenantSpec == TenantInit /\ [][TenantNext]_<<scene, vars, OfSB>>

TenantSymmetry == Permutations(Voters) \cup Permutations(Operators)
-----------------------------------------------------------------------------
\* Sandbox.tla states these, of its scene.
PromotionIsStaged == scene = "sandbox" => SB!PromotionIsStaged
CohortBounded == scene = "sandbox" => SB!CohortBounded
=============================================================================
