---------------------------- MODULE MCEdgeOtp ------------------------------
(* Instances of EdgeOtp for TLC.                                            *)
EXTENDS EdgeOtp

CONSTANTS s1, v1, v2, r1, w1, w2

=============================================================================
