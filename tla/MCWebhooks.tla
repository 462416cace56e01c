----------------------------- MODULE MCWebhooks -----------------------------
(* Instances of Webhooks for TLC.                                           *)
EXTENDS Webhooks, TLC

CONSTANTS m1, m2, w1, w2

=============================================================================
