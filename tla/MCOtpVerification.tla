------------------------- MODULE MCOtpVerification -------------------------
(* Instances of OtpVerification for TLC: interchangeable calls of each kind. *)
EXTENDS OtpVerification, TLC

Symmetry == Permutations(Issuers) \cup Permutations(Verifiers) \cup Permutations(Nodes)

(* States are told apart by what can still be read, by an action or by a     *)
(* property: only a call that has not begun looks at the rows and env, only  *)
(* one in progress at what it was asked, and nobody at their attempts.      *)
Read(p) ==
    IF Holds(p) THEN <<got[p], found[p], p \in overlapped>>
    ELSE IF pc[p] \in {"invalid", "maxed", "verified"}
         THEN <<got[p].code, found[p] # Redis, p \in overlapped>>
         ELSE <<>>

Live ==
    <<store, memory, faults, pc,
      IF \E p \in Issuers : pc[p] = "idle" THEN <<status, env>> ELSE <<>>,
      [p \in {q \in Calls : pc[q] \in Verifying \cup Issuing} |-> req[p]],
      [p \in Verifiers |-> Read(p)]>>

=============================================================================
