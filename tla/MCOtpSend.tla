----------------------------- MODULE MCOtpSend -----------------------------
(* Instances of OtpSend for TLC.                                            *)
EXTENDS OtpSend, TLC

CONSTANTS s1, s2, r1, k1, n1, n2

(* Every reference of a request is stored as NULL (wallet.service.ts:8).     *)
MCNullRef == [r \in OtpRequests |-> None]

(* Sends and nodes are interchangeable.                                    *)
Symmetry == Permutations(Sends) \cup Permutations(Nodes)

Before(statements) == {c \in Calls : pc[c] \in {"ready"} \cup statements}

(* What a later step or a property can read of the request of a call: its    *)
(* node while it runs, its key until it has ended without an answer.        *)
Asked(c) ==
    <<req[c].of,
      IF pc[c] \in Running THEN req[c].node ELSE None,
      IF pc[c] \in Running \cup {"accepted"} THEN req[c].key ELSE None>>

(* States are told apart by what can still be read: the stores of the        *)
(* answers, the limit and the cooldown only while a call is before them.    *)
Live ==
    <<pc, [c \in Calls |-> Asked(c)], stored, money, fates, admitted, repeats,
      IF Sends \cap Before({"lookup"}) # {} THEN answers ELSE <<>>,
      IF Sends \cap Before({"lookup", "limit"}) # {} THEN hits ELSE <<>>,
      IF Before({"lookup", "limit", "cooldown"}) # {} THEN cooldown ELSE {},
      IF Resends \cap Before({}) # {} THEN created ELSE {}>>

=============================================================================
