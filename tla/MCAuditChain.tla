----------------------------- MODULE MCAuditChain -----------------------------
(***************************************************************************)
(* A pair of writers of one tenant, without subscriptions.                 *)
(***************************************************************************)
EXTENDS AuditChain, TLC

CONSTANTS a, o1, o2

PairTenantOf == o1 :> a @@ o2 :> a
NoFunction == <<>>
NoPairs == {}
=============================================================================
