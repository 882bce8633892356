----------------------------- MODULE DeliveryLedger -----------------------------
(***************************************************************************)
(* What the webhook worker promises about one delivery, without workers,   *)
(* locks, retries or clocks.  A delivery is open until it is settled, once *)
(* and for all; it settles as delivered only if the receiver accepted it;  *)
(* the receiver is called only while it is open.  Deleting a subscription  *)
(* removes its deliveries.  WebhookDelivery implements it.                 *)
(***************************************************************************)
EXTENDS Naturals

CONSTANT Deliveries

VARIABLES outcome,            \* "none", "open", "delivered", "dead" or "gone"
          accepted            \* how often the receiver accepted the payload

Init == /\ outcome = [d \in Deliveries |-> "none"]
        /\ accepted = [d \in Deliveries |-> 0]

Open(d) == /\ outcome[d] = "none"
           /\ outcome' = [outcome EXCEPT ![d] = "open"]
           /\ UNCHANGED accepted

Accept(d) == /\ outcome[d] = "open"
             /\ accepted' = [accepted EXCEPT ![d] = @ + 1]
             /\ UNCHANGED outcome

Settle(d) == /\ outcome[d] = "open"
             /\ \/ accepted[d] > 0 /\ outcome' = [outcome EXCEPT ![d] = "delivered"]
                \/ outcome' = [outcome EXCEPT ![d] = "dead"]
             /\ UNCHANGED accepted

\* onDelete: Cascade, and the sweep that prunes settled deliveries.  A call already
\* on its way may still be accepted.
Remove(D) == /\ outcome' = [d \in Deliveries |-> IF d \in D THEN "gone" ELSE outcome[d]]
             /\ \A d \in D : outcome[d] # "none"
             /\ UNCHANGED accepted

AcceptLate(d) == /\ outcome[d] = "gone"
                 /\ accepted' = [accepted EXCEPT ![d] = @ + 1]
                 /\ UNCHANGED outcome

Next == \/ \E d \in Deliveries : Open(d) \/ Accept(d) \/ AcceptLate(d) \/ Settle(d)
        \/ \E D \in SUBSET Deliveries : Remove(D)

Spec == Init /\ [][Next]_<<outcome, accepted>>
=============================================================================
