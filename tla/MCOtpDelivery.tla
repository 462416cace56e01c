--------------------------- MODULE MCOtpDelivery ---------------------------
(* Instances of OtpDelivery for TLC.                                        *)
EXTENDS OtpDelivery, TLC

CONSTANTS j1, j2, r1, r2, w1, w2, Null

(* Every job is about a request of its own.                                *)
MCRequestOf == [j \in Jobs |-> IF j = j1 THEN r1 ELSE r2]

(* A request_id ("req_" and hexadecimal digits) is stored as NULL            *)
(* (wallet.service.ts:8).                                                  *)
MCNullRef == [r \in OtpRequests |-> Null]

=============================================================================
