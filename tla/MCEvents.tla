---------------------------------- MODULE MCEvents ----------------------------------
(***************************************************************************)
(* The chain has two writers of tenant a and one of tenant b, one of them  *)
(* emitting an event that is not fanned out, and two subscriptions of a,   *)
(* which ask for the events of b's writer too; overlapping batches w1, w2  *)
(* meet on one delivery d1 of one subscription h1.                         *)
(***************************************************************************)
EXTENDS Events, TLC

CONSTANTS a, b, o1, o2, o3, s1, s2, h1, d1

CheckTenantOf == o1 :> a @@ o2 :> a @@ o3 :> b
CheckSubTenant == s1 :> a @@ s2 :> a
CheckMatches == Subs \X {o1, o3} \cup {<<s2, o2>>}
CheckHookOf == d1 :> h1
=============================================================================
