-------------------------- MODULE MCWebhookIngest --------------------------
(***************************************************************************)
(* WebhookIngest for TLC.  The gateway tells of payments "a" and "b"; every*)
(* notification about a payment carries the id of the payment.             *)
(***************************************************************************)
EXTENDS WebhookIngest, TLC

MCKeyOf ==
  [n \in Notes |-> IF n \in {"b_captured", "b_authorized"} THEN "b" ELSE "a"]

Symmetry == Permutations(Workers) \cup Permutations(Requests)
=============================================================================
