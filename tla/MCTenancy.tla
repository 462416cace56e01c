----------------------------- MODULE MCTenancy -----------------------------
(* Instances of Tenancy for TLC.                                            *)
EXTENDS Tenancy

CONSTANTS g1, g2, a1, d1, k1, r1, s1, s2, e1, e2

=============================================================================
