------------------------------ MODULE MCWallet ------------------------------
(* Instances of Wallet for TLC: three calls about one customer whose        *)
(* balance allows some orders of the debits and refuses others.            *)
EXTENDS Wallet, TLC

CONSTANTS c1, row1, req1, req2, p1, p2, p3

Call(k, c, a, t, id) ==
    [kind |-> k, cust |-> c, amount |-> a, rtype |-> t, ref |-> id]

(* The production callers debit under the id of a row, a UUID, and refund     *)
(* under req_ ids, which are not; the tests refund under a UUID.             *)
MCRequests ==
    {Call("debit", c1, 1, "otp_request", row1),
     Call("debit", c1, 2, "otp_request", row1),
     Call("refund", c1, 1, "otp_request_failure", row1),
     Call("refund", c1, 1, "otp_request_failure", req1),
     Call("refund", c1, 1, "otp_request_failure", req2),
     Call("topup", c1, 2, "payment", req1),
     Call("read", c1, 0, "payment", req1)}

MCRefTypes == {"otp_request", "otp_request_failure", "payment"}

MCInitialCredits == 2

=============================================================================
