--------------------------- MODULE MCWebhookDelivery ---------------------------
(***************************************************************************)
(* One worker and one delivery of one subscription.                        *)
(***************************************************************************)
EXTENDS WebhookDelivery, TLC

CONSTANTS s1, d1

OneDelivery == d1 :> s1
=============================================================================
