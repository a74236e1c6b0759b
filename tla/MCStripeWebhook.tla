--------------------------- MODULE MCStripeWebhook ---------------------------
(* Small instances of StripeWebhook for TLC. *)
EXTENDS StripeWebhook, TLC

Symmetry == Permutations(Deliveries) \cup Permutations(Sessions)
=============================================================================
