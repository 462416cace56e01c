-------------------------- MODULE MCRefreshTokens --------------------------
(* Instances of RefreshTokens for TLC: one session, or those of two users,   *)
(* and enough tokens for every call to rotate one.                         *)
EXTENDS RefreshTokens, TLC

CONSTANTS f1, f2, u1, u2, t1, t2, t3, t4, t5, p1, p2, p3

MCUserOf == [f \in Families |-> IF f = f1 THEN u1 ELSE u2]

(* Tokens and calls are interchangeable.                                   *)
Symmetry == Permutations(Tokens) \cup Permutations(Calls)

=============================================================================
