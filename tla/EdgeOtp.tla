------------------------------ MODULE EdgeOtp ------------------------------
(***************************************************************************)
(* The second implementation of the service, as Supabase edge functions:     *)
(* send, verify and resend (supabase/functions/otp/index.ts) and delivery    *)
(* receipts (supabase/functions/meta-webhook/index.ts), over the stored      *)
(* procedures of migrations/legacy-scripts/deploy_supabase_rpcs.py.  Only     *)
(* these fit the calls: those of supabase/migrations take a p_reference_id   *)
(* that the functions do not pass.                                          *)
(*                                                                          *)
(* A call stands before its next statement.  supabase-js returns an error    *)
(* and does not throw it, and most statements are not asked for theirs: a    *)
(* statement that fails, or whose answer is lost, is passed over.  A stored  *)
(* procedure locks its row and is an atomic step.  A code is its comparison  *)
(* with the hash that was read.  Idempotency is left out: the columns that   *)
(* are asked for are not those of prisma/schema.prisma, whose lookup finds   *)
(* nothing.                                                                 *)
(***************************************************************************)
EXTENDS Naturals, FiniteSets

CONSTANTS
    Sends,          \* calls of /send; an OTP request is named by its send
    Verifies,       \* calls of /verify
    Resends,        \* calls of /resend
    Receipts,       \* deliveries of a status event by Meta
    MaxAttempts,    \* otp_requests.max_attempts
    MaxCredits,     \* largest balance at first, in units of OTP_CREDIT_COST
    MaxFaults,      \* how many statements fail and calls are cut off
    None            \* no request

Calls == Sends \cup Verifies \cup Resends \cup Receipts

ASSUME EdgeOtpAssumption ==
    /\ Sends \cap (Verifies \cup Resends \cup Receipts) = {}
    /\ IsFiniteSet(Receipts)
    /\ MaxAttempts \in Nat \ {0}
    /\ MaxCredits \in Nat
    /\ MaxFaults \in Nat
    /\ None \notin Calls

VARIABLES
    pc,         \* where a call is, or its outcome
    of,         \* the request of a call
    event,      \* what a receipt reports
    right,      \* verifications whose code has the hash they have read
    status,     \* otp_requests.status, "none" before the insert
    attempts,   \* otp_requests.attempts
    expired,    \* requests whose expires_at has passed
    success,    \* sends whose message Meta accepted, as far as they know
    sent,       \* sends whose message Meta accepted
    logged,     \* the messages row of a send
    balance,    \* wallets.balance
    debited,    \* sends whose debit was committed
    refunds,    \* number of refunds of a request
    lost,       \* history: sends with a debit or refund that seemed to fail
    compared,   \* history: codes compared after a counted attempt
    overtaken,  \* history: calls that read a request that was then verified
    faults      \* number of faults so far

calls == <<pc, of, event, right>>
request == <<status, attempts, expired>>
dispatch == <<success, sent, logged>>
wallet == <<balance, debited, refunds>>
history == <<lost, compared, overtaken>>
vars == <<calls, request, dispatch, wallet, history, faults>>

Events == {"delivered", "failed"}
Statuses == {"none", "sent", "failed", "delivered", "verified", "expired"}
Waiting == {"dispatch", "insert", "refundSend", "expire", "attempt", "mark", "update",
            "read", "write", "refund"}
Outcomes == {"insufficient", "unrecorded", "answered", "refused", "exceeded", "wrong",
             "accepted", "cooling", "resent", "handled", "cutOff"}

Init ==
    /\ pc = [c \in Calls |-> "ready"]
    /\ of = [c \in Calls |-> IF c \in Sends THEN c ELSE None]
    /\ event = [w \in Receipts |-> None]
    /\ right = {}
    /\ status = [r \in Sends |-> "none"]
    /\ attempts = [r \in Sends |-> 0]
    /\ expired = {}
    /\ success = {}
    /\ sent = {}
    /\ logged = [s \in Sends |-> "no"]
    /\ balance \in 0..MaxCredits
    /\ debited = {}
    /\ refunds = [r \in Sends |-> 0]
    /\ lost = {}
    /\ compared = [r \in Sends |-> 0]
    /\ overtaken = {}
    /\ faults = 0

Goto(c, label) == pc' = [pc EXCEPT ![c] = label]

Fault ==
    /\ faults < MaxFaults
    /\ faults' = faults + 1

SetStatus(r, value) == status' = [status EXCEPT ![r] = value]

-----------------------------------------------------------------------------
(* POST /send *)

(* Mutant: the procedure does not look at the balance.                     *)
DeductCreditUnguarded(s) ==
    /\ balance' = balance - 1
    /\ debited' = debited \cup {s}
    /\ UNCHANGED refunds

(* deduct_wallet_credit                                                    *)
DeductCredit(s) ==
    /\ balance > 0
    /\ balance' = balance - 1
    /\ debited' = debited \cup {s}
    /\ UNCHANGED refunds

(* refund_wallet_credit                                                    *)
RefundCredit(r) ==
    /\ balance' = balance + 1
    /\ refunds' = [refunds EXCEPT ![r] = @ + 1]
    /\ UNCHANGED debited

Deduct(s) ==
    /\ pc[s] = "ready"
    /\ DeductCredit(s)
    /\ Goto(s, "dispatch")
    /\ UNCHANGED <<of, event, right, request, dispatch, history, faults>>

Insufficient(s) ==
    /\ pc[s] = "ready"
    /\ balance = 0
    /\ Goto(s, "insufficient")
    /\ UNCHANGED <<of, event, right, request, dispatch, wallet, history, faults>>

(* An error is answered like an insufficient balance.                      *)
DeductFails(s) ==
    /\ pc[s] = "ready"
    /\ Fault
    /\ DeductCredit(s) \/ UNCHANGED wallet
    /\ lost' = lost \cup {s}
    /\ Goto(s, "insufficient")
    /\ UNCHANGED <<of, event, right, request, dispatch, compared, overtaken>>

(* sendWhatsAppOtp: a request that Meta refused, or did not answer, is a      *)
(* failure.                                                                 *)
Dispatch(s) ==
    /\ pc[s] = "dispatch"
    /\ \/ success' = success \cup {s} /\ sent' = sent \cup {s}
       \/ UNCHANGED <<success, sent>>
       \/ UNCHANGED success /\ sent' = sent \cup {s}
    /\ Goto(s, "insert")
    /\ UNCHANGED <<of, event, right, request, logged, wallet, history, faults>>

InsertRow(s) == SetStatus(s, IF s \in success THEN "sent" ELSE "failed")

(* The row is inserted and the call answered with a 200, whether the message *)
(* was sent or not.  The insert of the messages row is begun and not waited  *)
(* for.                                                                     *)
Insert(s) ==
    /\ pc[s] = "insert"
    /\ InsertRow(s)
    /\ logged' = [logged EXCEPT ![s] = IF s \in success THEN "begun" ELSE "no"]
    /\ Goto(s, "answered")
    /\ UNCHANGED <<of, event, right, attempts, expired, success, sent, wallet, history, faults>>

InsertFails(s) ==
    /\ pc[s] = "insert"
    /\ Fault
    /\ InsertRow(s) \/ UNCHANGED status
    /\ Goto(s, "refundSend")
    /\ UNCHANGED <<of, event, right, attempts, expired, dispatch, wallet, history>>

(* Mutant: a send whose message was accepted is not refunded.              *)
RefundSendFailed(s) ==
    /\ pc[s] = "refundSend"
    /\ IF s \in success THEN UNCHANGED wallet ELSE RefundCredit(s)
    /\ Goto(s, "unrecorded")
    /\ UNCHANGED <<of, event, right, request, dispatch, history, faults>>

RefundSend(s) ==
    /\ pc[s] = "refundSend"
    /\ RefundCredit(s)
    /\ Goto(s, "unrecorded")
    /\ UNCHANGED <<of, event, right, request, dispatch, history, faults>>

(* What broke the insert may break the refund: it is the same fault.        *)
RefundSendFails(s) ==
    /\ pc[s] = "refundSend"
    /\ RefundCredit(s) \/ UNCHANGED wallet
    /\ lost' = lost \cup {s}
    /\ Goto(s, "unrecorded")
    /\ UNCHANGED <<of, event, right, request, dispatch, compared, overtaken, faults>>

(* The messages row appears, or it never does.                             *)
LogMessage(s) ==
    /\ logged[s] = "begun"
    /\ \E outcome \in {"row", "no"} : logged' = [logged EXCEPT ![s] = outcome]
    /\ UNCHANGED <<calls, request, success, sent, wallet, history, faults>>

-----------------------------------------------------------------------------
(* POST /verify *)

Requests == {r \in Sends : pc[r] = "answered"}

(* The row is read, and the code may be the one it has the hash of.         *)
SelectForVerify(v) ==
    /\ pc[v] = "ready"
    /\ \E r \in Requests :
          /\ of' = [of EXCEPT ![v] = r]
          /\ Goto(v, IF status[r] = "verified" THEN "refused"
                     ELSE IF r \in expired THEN "expire" ELSE "attempt")
    /\ right' = right \/ right' = right \cup {v}
    /\ UNCHANGED <<event, request, dispatch, wallet, history, faults>>

MarkExpired(v) ==
    /\ pc[v] = "expire"
    /\ SetStatus(of[v], "expired")
    /\ Goto(v, "refused")
    /\ UNCHANGED <<of, event, right, attempts, expired, dispatch, wallet, history, faults>>

(* Mutant: the limit is compared with the count before the attempt.         *)
ExceedsLate(r) == attempts[r] >= MaxAttempts

(* record_otp_attempt, which the last attempt already exceeds.              *)
Exceeds(r) == attempts[r] + 1 >= MaxAttempts

RecordAttempt(r) ==
    /\ attempts' = [attempts EXCEPT ![r] = @ + 1]
    /\ IF Exceeds(r) THEN SetStatus(r, "failed") ELSE UNCHANGED status
    /\ UNCHANGED expired

Compare(v) == Goto(v, IF v \in right THEN "mark" ELSE "wrong")

Attempt(v) ==
    /\ pc[v] = "attempt"
    /\ RecordAttempt(of[v])
    /\ IF Exceeds(of[v])
       THEN Goto(v, "exceeded") /\ UNCHANGED compared
       ELSE Compare(v) /\ compared' = [compared EXCEPT ![of[v]] = @ + 1]
    /\ UNCHANGED <<of, event, right, dispatch, wallet, lost, overtaken, faults>>

(* Without an answer of the procedure the code is compared all the same.    *)
AttemptFails(v) ==
    /\ pc[v] = "attempt"
    /\ Fault
    /\ RecordAttempt(of[v]) \/ UNCHANGED request
    /\ Compare(v)
    /\ UNCHANGED <<of, event, right, dispatch, wallet, history>>

(* Calls that have read a request and have not yet done with it.            *)
UnderWay(r) ==
    {c \in Calls \ Sends :
        of[c] = r /\ pc[c] \in {"expire", "attempt", "mark", "update", "write", "refund"}}

MarkVerified(v) ==
    /\ pc[v] = "mark"
    /\ SetStatus(of[v], "verified")
    /\ overtaken' = overtaken \cup (UnderWay(of[v]) \ {v})
    /\ Goto(v, "accepted")
    /\ UNCHANGED <<of, event, right, attempts, expired, dispatch, wallet, lost, compared, faults>>

-----------------------------------------------------------------------------
(* POST /resend *)

(* Mutant: a request that is verified is sent again.                       *)
SelectForResendAny(c) ==
    /\ pc[c] = "ready"
    /\ \E r \in Requests, label \in {"cooling", "update"} :
          of' = [of EXCEPT ![c] = r] /\ Goto(c, label)
    /\ UNCHANGED <<event, right, request, dispatch, wallet, history, faults>>

(* A minute may or may not have passed since the request was created, other  *)
(* resends do not count.  The new code is dispatched then, without a debit   *)
(* and whatever becomes of it.                                              *)
SelectForResend(c) ==
    /\ pc[c] = "ready"
    /\ \E r \in Requests :
          /\ of' = [of EXCEPT ![c] = r]
          /\ IF status[r] = "verified"
             THEN Goto(c, "refused")
             ELSE \E label \in {"cooling", "update"} : Goto(c, label)
    /\ UNCHANGED <<event, right, request, dispatch, wallet, history, faults>>

(* Its hash and expiry replace those of the row; the attempts remain.       *)
Update(c) ==
    /\ pc[c] = "update"
    /\ SetStatus(of[c], "sent")
    /\ expired' = expired \ {of[c]}
    /\ Goto(c, "resent")
    /\ UNCHANGED <<of, event, right, attempts, dispatch, wallet, history, faults>>

-----------------------------------------------------------------------------
(* A delivery receipt; "sent" and "read" change the messages row alone *)

(* The messages row is looked up.  Meta knows the first message only: the id *)
(* of a resent one is not kept.                                             *)
Receive(w) ==
    /\ pc[w] = "ready"
    /\ \E s \in sent, e \in Events :
          /\ of' = [of EXCEPT ![w] = s]
          /\ event' = [event EXCEPT ![w] = e]
          /\ Goto(w, IF logged[s] = "row" THEN "read" ELSE "handled")
    /\ UNCHANGED <<right, request, dispatch, wallet, history, faults>>

(* The status of the messages row is set, which nothing here reads, and the  *)
(* request is read.                                                         *)
ReadRequest(w) ==
    /\ pc[w] = "read"
    /\ Goto(w, IF status[of[w]] = "verified" THEN "handled" ELSE "write")
    /\ UNCHANGED <<of, event, right, request, dispatch, wallet, history, faults>>

(* Mutant: every receipt refunds.                                          *)
WriteRequestRefund(w) ==
    /\ pc[w] = "write"
    /\ SetStatus(of[w], event[w])
    /\ Goto(w, "refund")
    /\ UNCHANGED <<of, event, right, attempts, expired, dispatch, wallet, history, faults>>

AfterWrite(w) == IF event[w] = "failed" THEN "refund" ELSE "handled"

WriteRequest(w) ==
    /\ pc[w] = "write"
    /\ SetStatus(of[w], event[w])
    /\ Goto(w, AfterWrite(w))
    /\ UNCHANGED <<of, event, right, attempts, expired, dispatch, wallet, history, faults>>

RefundReceipt(w) ==
    /\ pc[w] = "refund"
    /\ RefundCredit(of[w])
    /\ Goto(w, "handled")
    /\ UNCHANGED <<of, event, right, request, dispatch, history, faults>>

-----------------------------------------------------------------------------
(* Faults and time *)

(* A write fails, nobody asks, and the call goes on.                       *)
WriteFails(c) ==
    /\ Fault
    /\ \/ pc[c] = "expire" /\ Goto(c, "refused")
       \/ pc[c] = "mark" /\ Goto(c, "accepted")
       \/ pc[c] = "update" /\ Goto(c, "resent")
       \/ pc[c] = "write" /\ Goto(c, AfterWrite(c))
       \/ pc[c] = "refund" /\ Goto(c, "handled")
    /\ UNCHANGED <<of, event, right, request, dispatch, wallet, history>>

(* The isolate is shut down.                                               *)
CutOff(c) ==
    /\ pc[c] \in Waiting
    /\ Fault
    /\ Goto(c, "cutOff")
    /\ UNCHANGED <<of, event, right, request, dispatch, wallet, history>>

(* OTP_EXPIRY_SECONDS have passed.                                         *)
Expire(r) ==
    /\ r \in Requests \ expired
    /\ expired' = expired \cup {r}
    /\ UNCHANGED <<calls, status, attempts, dispatch, wallet, history, faults>>

Next ==
    \/ \E s \in Sends :
          \/ Deduct(s) \/ Insufficient(s) \/ DeductFails(s)
          \/ Dispatch(s)
          \/ Insert(s) \/ InsertFails(s)
          \/ RefundSend(s) \/ RefundSendFails(s)
          \/ LogMessage(s) \/ Expire(s)
    \/ \E v \in Verifies :
          \/ SelectForVerify(v) \/ MarkExpired(v)
          \/ Attempt(v) \/ AttemptFails(v)
          \/ MarkVerified(v)
    \/ \E c \in Resends : SelectForResend(c) \/ Update(c)
    \/ \E w \in Receipts :
          Receive(w) \/ ReadRequest(w) \/ WriteRequest(w) \/ RefundReceipt(w)
    \/ \E c \in Calls : WriteFails(c) \/ CutOff(c)

Spec == Init /\ [][Next]_vars

-----------------------------------------------------------------------------

(* Every variable has its type.                                            *)
TypeOK ==
    /\ pc \in [Calls -> {"ready"} \cup Waiting \cup Outcomes]
    /\ of \in [Calls -> Sends \cup {None}]
    /\ event \in [Receipts -> Events \cup {None}]
    /\ right \subseteq Verifies
    /\ status \in [Sends -> Statuses]
    /\ attempts \in [Sends -> Nat]
    /\ expired \subseteq Sends
    /\ success \subseteq Sends
    /\ sent \subseteq Sends
    /\ logged \in [Sends -> {"no", "begun", "row"}]
    /\ balance \in Nat
    /\ debited \subseteq Sends
    /\ refunds \in [Sends -> Nat]
    /\ lost \subseteq Sends
    /\ compared \in [Sends -> Nat]
    /\ overtaken \subseteq Calls
    /\ faults \in 0..MaxFaults

(* Only debited messages leave; a send that is answered with an error costs  *)
(* nothing, unless the error is that of the wallet itself                   *)
(* (otp/index.ts:157-215).                                                  *)
SendSettles ==
    \A s \in Sends :
        /\ s \in sent => s \in debited
        /\ pc[s] \in {"insufficient", "unrecorded"} =>
              s \in lost \/ (s \in debited <=> refunds[s] > 0)

(* However verifications and resends overlap, fewer than max_attempts codes  *)
(* of a request are compared, but for those whose attempt could not be       *)
(* counted (otp/index.ts:308-327, 408-415, deploy_supabase_rpcs.py:128-161). *)
GuessesAreBounded == \A r \in Sends : compared[r] < MaxAttempts

(* Only a debited send is refunded: once if its row could not be recorded,   *)
(* or else by receipts of a failure, once by each.  The "at-most-one refund"  *)
(* of API_DOCUMENTATION.md:79 is not kept: Meta repeats receipts, and neither *)
(* the function nor refund_wallet_credit looks for an earlier refund         *)
(* (otp/index.ts:208-215, meta-webhook/index.ts:117-135).                    *)
RefundsFollowFailures ==
    \A r \in Sends :
        /\ refunds[r] > 0 => r \in debited
        /\ refunds[r] <=
              IF pc[r] = "answered"
              THEN Cardinality({w \in Receipts : of[w] = r /\ event[w] = "failed"})
              ELSE IF pc[r] = "unrecorded" THEN 1 ELSE 0

(* A verified request gets no other status and no refund, except by a call   *)
(* that had read it before it was verified                                  *)
(* (otp/index.ts:296-337, 382-415, meta-webhook/index.ts:111-135).           *)
VerifiedIsSettled ==
    [][\A r \in Sends :
          status[r] = "verified" /\ <<status[r], refunds[r]>>' # <<status[r], refunds[r]>>
          => \E c \in overtaken : of[c] = r /\ pc'[c] # pc[c]]_vars

=============================================================================
