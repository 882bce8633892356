------------------------------- MODULE EventLog -------------------------------
(***************************************************************************)
(* What the audit chain promises, without hashes, sequence numbers or      *)
(* races: every tenant has one totally ordered log, an operation appears   *)
(* in the log of its own tenant at most once, and nothing that has been    *)
(* logged is ever moved, changed or removed.  AuditChain implements it.    *)
(***************************************************************************)
EXTENDS Naturals, Sequences

CONSTANTS Tenants, Ops, TenantOf

VARIABLE log                  \* tenant -> sequence of operations

Logged(op) == \E i \in 1..Len(log[TenantOf[op]]) : log[TenantOf[op]][i] = op

Init == log = [t \in Tenants |-> <<>>]

Record(op) == /\ ~ Logged(op)
              /\ log' = [log EXCEPT ![TenantOf[op]] = Append(@, op)]

Next == \E op \in Ops : Record(op)

Spec == Init /\ [][Next]_log
=============================================================================
