------------------------------ MODULE OtpSend ------------------------------
(***************************************************************************)
(* POST /v1/otp/send and /v1/otp/resend (src/src/modules/otp/otp.routes.ts)  *)
(* of one customer and one phone number: idempotency (idempotency.ts), the   *)
(* rate limit of the number (rate-limit.ts), cooldown, debit, and the        *)
(* dispatch to the queue or, if the queue is down, to the provider itself.   *)
(*                                                                          *)
(* A call stands before its next statement.  Redis may fail at every         *)
(* command; idempotency, limit and cooldown then fall back to the memory of  *)
(* the node that serves the call, so they are kept in several stores.  The   *)
(* queries of the idempotency table may fail too, silently.  A debit and a   *)
(* refund are atomic steps, as WalletProofs shows; the attempts of a job are *)
(* in OtpDelivery, here only that it sends, gives up, refunds, is tried      *)
(* again or is lost.  Blocks, the state of a code, and what a resend asks of *)
(* the status and the expiry of its request are in OtpVerification; the      *)
(* other three limits are the same operation on other keys.                 *)
(***************************************************************************)
EXTENDS Naturals, FiniteSets

CONSTANTS
    Sends,          \* calls of /send
    Resends,        \* calls of /resend
    Keys,           \* values of the Idempotency-Key header
    Nodes,          \* API processes
    Redis,          \* the store the nodes share
    StoredRef,      \* the reference_id stored for the refund of a request
    PhoneLimit,     \* sends for one number in a window of ten minutes
    InitialCredits, \* balance in units of OTP_CREDIT_COST
    RedisFails,     \* whether commands of Redis fail
    MaxFaulty,      \* bound: jobs that a fault meets
    None            \* no key, no request, no store

Calls == Sends \cup Resends
OtpRequests == Sends            \* a row of otp_requests is named by its send
Stores == Nodes \cup {Redis}

ASSUME OtpSendAssumption ==
    /\ Sends \cap Resends = {}
    /\ Redis \notin Nodes
    /\ None \notin Keys \cup Stores \cup Calls
    /\ DOMAIN StoredRef = OtpRequests
    /\ PhoneLimit \in Nat
    /\ InitialCredits \in Nat
    /\ RedisFails \in BOOLEAN
    /\ MaxFaulty \in Nat

VARIABLES
    pc,         \* where a call is, or its outcome
    req,        \* key, node and OTP request of a call
    saved,      \* keys whose response is in a store
    rows,       \* idempotency_keys: keys whose response is in the database
    hits,       \* calls counted for the number in a store
    cooldown,   \* stores that hold a cooldown of the number
    created,    \* rows of otp_requests
    stored,     \* calls that have stored their code
    balance,    \* credits of the customer
    debited,    \* calls whose debit was committed
    credited,   \* requests with a refund row
    message,    \* what became of the message of a call
    givenUp,    \* history: calls whose message was given up
    faulty,     \* history: calls whose job a fault has met
    admitted,   \* history: calls a store has admitted
    repeats     \* history: sends that began when their key had been answered and
                \* its row kept, and whose query of the table did not fail

limits == <<hits, cooldown, admitted>>
answers == <<saved, rows>>
money == <<balance, debited, credited>>
fates == <<message, givenUp, faulty>>
vars == <<pc, req, answers, limits, created, stored, money, fates, repeats>>

Running == {"lookup", "limit", "cooldown", "create", "debit", "store",
            "queue", "direct", "refund", "save", "saveRow"}
Outcomes == {"accepted", "cached", "limited", "cooling", "insufficient", "aborted"}
Messages == {"none", "queued", "sent", "failed", "refunded", "refused", "lost"}

NoReq == [key |-> None, node |-> None, of |-> None]

Init ==
    /\ pc = [c \in Calls |-> "ready"]
    /\ req = [c \in Calls |-> NoReq]
    /\ saved = [s \in Stores |-> {}]
    /\ rows = {}
    /\ hits = [s \in Stores |-> 0]
    /\ cooldown = {}
    /\ created = {}
    /\ stored = {}
    /\ balance = InitialCredits
    /\ debited = {}
    /\ credited = {}
    /\ message = [c \in Calls |-> "none"]
    /\ givenUp = {} /\ faulty = {}
    /\ admitted = [s \in Stores |-> 0]
    /\ repeats = {}

Goto(c, label) == pc' = [pc EXCEPT ![c] = label]

(* The store a command of a call reaches: Redis, or the memory of its node.  *)
Reached(c) == {Redis} \cup (IF RedisFails THEN {req[c].node} ELSE {})

-----------------------------------------------------------------------------
(* Admission *)

Begin(c, k, n, of) ==
    /\ pc[c] = "ready"
    /\ req' = [req EXCEPT ![c] = [key |-> k, node |-> n, of |-> of]]
    /\ repeats' = IF k # None /\ k \in rows
                       /\ \E d \in Sends : req[d].key = k /\ pc[d] = "accepted"
                  THEN repeats \cup {c} ELSE repeats
    /\ Goto(c, IF c \in Resends THEN "cooldown" ELSE IF k = None THEN "limit" ELSE "lookup")
    /\ UNCHANGED <<answers, limits, created, stored, money, fates>>

Start(c) ==
    \E n \in Nodes :
        \/ c \in Sends /\ \E k \in Keys \cup {None} : Begin(c, k, n, c)
        \/ c \in Resends /\ \E r \in created : Begin(c, None, n, r)

(* Mutant: the database is not asked.                                      *)
LookupCached(c) ==
    /\ pc[c] = "lookup"
    /\ \E s \in Reached(c) :
          Goto(c, IF req[c].key \in saved[s] \cup saved[req[c].node] THEN "cached" ELSE "limit")
    /\ UNCHANGED <<req, answers, limits, created, stored, money, fates, repeats>>

(* getIdempotentResponse: Redis, memory, database.  One step, because a      *)
(* response that one of them has is not taken away before the last is asked. *)
(* A query that fails finds nothing.                                        *)
Lookup(c) ==
    /\ pc[c] = "lookup"
    /\ \E s \in Reached(c), fails \in BOOLEAN :
          /\ Goto(c, IF req[c].key \in saved[s] \cup saved[req[c].node]
                                       \cup (IF fails THEN {} ELSE rows)
                     THEN "cached" ELSE "limit")
          /\ repeats' = IF fails THEN repeats \ {c} ELSE repeats
    /\ UNCHANGED <<req, answers, limits, created, stored, money, fates>>

(* Mutant: the count before this call is compared.                         *)
LimitBefore(c) ==
    /\ pc[c] = "limit"
    /\ \E s \in Reached(c) :
          /\ hits' = [hits EXCEPT ![s] = @ + 1]
          /\ IF hits[s] > PhoneLimit
             THEN Goto(c, "limited") /\ UNCHANGED admitted
             ELSE Goto(c, "cooldown") /\ admitted' = [admitted EXCEPT ![s] = @ + 1]
    /\ UNCHANGED <<req, answers, cooldown, created, stored, money, fates, repeats>>

(* isRateLimited: the call is added to the log, refused or not, and counted. *)
Limit(c) ==
    /\ pc[c] = "limit"
    /\ \E s \in Reached(c) :
          /\ hits' = [hits EXCEPT ![s] = @ + 1]
          /\ IF hits[s] + 1 > PhoneLimit
             THEN Goto(c, "limited") /\ UNCHANGED admitted
             ELSE Goto(c, "cooldown") /\ admitted' = [admitted EXCEPT ![s] = @ + 1]
    /\ UNCHANGED <<req, answers, cooldown, created, stored, money, fates, repeats>>

(* checkPhoneCooldown asks Redis, then the memory of the node.             *)
CheckCooldown(c) ==
    /\ pc[c] = "cooldown"
    /\ \E s \in Reached(c) :
          Goto(c, IF {s, req[c].node} \cap cooldown # {} THEN "cooling"
                  ELSE IF c \in Resends THEN "debit" ELSE "create")
    /\ UNCHANGED <<req, answers, limits, created, stored, money, fates, repeats>>

-----------------------------------------------------------------------------
(* Debit and code *)

(* otp_requests.create                                                     *)
CreateRow(c) ==
    /\ pc[c] = "create"
    /\ created' = created \cup {c}
    /\ Goto(c, "debit")
    /\ UNCHANGED <<req, answers, limits, stored, money, fates, repeats>>

(* Mutant: the balance is not looked at.                                   *)
DebitUnguarded(c) ==
    /\ pc[c] = "debit"
    /\ balance' = balance - 1
    /\ debited' = debited \cup {c}
    /\ Goto(c, "store")
    /\ UNCHANGED <<req, answers, limits, created, stored, credited, fates, repeats>>

(* Mutant: an insufficient balance is only reported.                       *)
DebitIfAny(c) ==
    /\ pc[c] = "debit"
    /\ IF balance > 0
       THEN balance' = balance - 1 /\ debited' = debited \cup {c}
       ELSE UNCHANGED <<balance, debited>>
    /\ Goto(c, "store")
    /\ UNCHANGED <<req, answers, limits, created, stored, credited, fates, repeats>>

(* deductCreditsAtomic                                                     *)
Debit(c) ==
    /\ pc[c] = "debit"
    /\ balance > 0
    /\ balance' = balance - 1
    /\ debited' = debited \cup {c}
    /\ Goto(c, "store")
    /\ UNCHANGED <<req, answers, limits, created, stored, credited, fates, repeats>>

Insufficient(c) ==
    /\ pc[c] = "debit"
    /\ balance = 0
    /\ Goto(c, "insufficient")
    /\ UNCHANGED <<req, answers, limits, created, stored, money, fates, repeats>>

(* storeOtp (in a resend after the update of the row) and setPhoneCooldown.  *)
(* One step: the code is read by verifications only.                       *)
Store(c) ==
    /\ pc[c] = "store"
    /\ stored' = stored \cup {c}
    /\ \E s \in Reached(c) : cooldown' = cooldown \cup {s}
    /\ Goto(c, "queue")
    /\ UNCHANGED <<req, answers, hits, admitted, created, money, fates, repeats>>

-----------------------------------------------------------------------------
(* Dispatch and answer *)

Answer(c) == Goto(c, IF req[c].key = None THEN "accepted" ELSE "save")

(* otpQueue.add                                                            *)
Enqueue(c) ==
    /\ pc[c] = "queue"
    /\ message' = [message EXCEPT ![c] = "queued"]
    /\ Answer(c)
    /\ UNCHANGED <<req, answers, limits, created, stored, money, givenUp, faulty, repeats>>

EnqueueFails(c) ==
    /\ pc[c] = "queue"
    /\ Goto(c, "direct")
    /\ UNCHANGED <<req, answers, limits, created, stored, money, fates, repeats>>

(* Mutant: the refund follows in either case.                              *)
DirectSentRefunded(c) ==
    /\ pc[c] = "direct"
    /\ message' = [message EXCEPT ![c] = "sent"]
    /\ Goto(c, "refund")
    /\ UNCHANGED <<req, answers, limits, created, stored, money, givenUp, faulty, repeats>>

(* The provider is called directly and accepts, and the row is marked.      *)
DirectSent(c) ==
    /\ pc[c] = "direct"
    /\ message' = [message EXCEPT ![c] = "sent"]
    /\ Answer(c)
    /\ UNCHANGED <<req, answers, limits, created, stored, money, givenUp, faulty, repeats>>

(* Mutant: nobody refunds.                                                 *)
DirectRefusedQuietly(c) ==
    /\ pc[c] = "direct"
    /\ message' = [message EXCEPT ![c] = "refused"]
    /\ givenUp' = givenUp \cup {c}
    /\ Answer(c)
    /\ UNCHANGED <<req, answers, limits, created, stored, money, faulty, repeats>>

(* It refuses.  A send marks the row and refunds, a resend does neither.    *)
DirectRefused(c) ==
    /\ pc[c] = "direct"
    /\ message' = [message EXCEPT ![c] = "refused"]
    /\ givenUp' = givenUp \cup {c}
    /\ IF c \in Sends THEN Goto(c, "refund") ELSE Answer(c)
    /\ UNCHANGED <<req, answers, limits, created, stored, money, faulty, repeats>>

Refunded(r) == \E s \in credited : StoredRef[s] = StoredRef[r]

(* refundCredits (WalletLedger, Apply and Duplicate)                        *)
RefundCredits(r) ==
    IF Refunded(r)
    THEN UNCHANGED <<balance, credited>>
    ELSE balance' = balance + 1 /\ credited' = credited \cup {r}

Refund(c) ==
    /\ pc[c] = "refund"
    /\ RefundCredits(req[c].of)
    /\ Answer(c)
    /\ UNCHANGED <<req, answers, limits, created, stored, debited, fates, repeats>>

(* saveIdempotentResponse: Redis if it is up, then the memory of the node,   *)
Save(c) ==
    /\ pc[c] = "save"
    /\ \E s \in Reached(c) :
          saved' = [t \in Stores |-> IF t \in {s, req[c].node}
                                     THEN saved[t] \cup {req[c].key} ELSE saved[t]]
    /\ Goto(c, "saveRow")
    /\ UNCHANGED <<req, rows, limits, created, stored, money, fates, repeats>>

(* and idempotency_keys.create, whose failure is swallowed.                 *)
SaveRow(c) ==
    /\ pc[c] = "saveRow"
    /\ rows' \in {rows, rows \cup {req[c].key}}
    /\ Goto(c, "accepted")
    /\ UNCHANGED <<req, saved, limits, created, stored, money, fates, repeats>>

(* An exception (the answer is a 500), or the end of the process.           *)
Abort(c) ==
    /\ pc[c] \in Running
    /\ Goto(c, "aborted")
    /\ UNCHANGED <<req, answers, limits, created, stored, money, fates, repeats>>

-----------------------------------------------------------------------------
(* Meanwhile *)

(* The job of a message changes what has become of it.                      *)
Turns(c, from, to) ==
    /\ message[c] \in from
    /\ message' = [message EXCEPT ![c] = to]
    /\ UNCHANGED <<pc, req, answers, limits, created, stored, debited, repeats>>

(* The delivery worker has sent the message of a job ...                   *)
JobSent(c) ==
    /\ Turns(c, {"queued"}, "sent")
    /\ UNCHANGED <<balance, credited, givenUp, faulty>>

(* ... or gives it up: it was refused for good, or in the last attempt,     *)
JobFailed(c) ==
    /\ Turns(c, {"queued"}, "failed")
    /\ givenUp' = givenUp \cup {c}
    /\ UNCHANGED <<balance, credited, faulty>>

(* and refunds the request.                                                *)
JobRefund(c) ==
    /\ Turns(c, {"failed"}, "refunded")
    /\ RefundCredits(req[c].of)
    /\ UNCHANGED <<givenUp, faulty>>

(* A fault meets the job of a message.                                      *)
Meets(c) ==
    /\ faulty' = faulty \cup {c}
    /\ Cardinality(faulty') <= MaxFaulty

(* A statement throws or the worker is lost, and the job is tried again: also *)
(* before the refund, or behind it, before the job is over.                 *)
JobRetried(c) ==
    /\ Turns(c, {"failed", "refunded"}, "queued")
    /\ Meets(c)
    /\ UNCHANGED <<balance, credited, givenUp>>

(* The job fails without a refund: it stalled too often, or the refund of    *)
(* the last attempt threw, which is only logged.                            *)
JobLost(c) ==
    /\ Turns(c, {"queued", "failed"}, "lost")
    /\ Meets(c)
    /\ UNCHANGED <<balance, credited, givenUp>>

(* 24 hours have passed.                                                   *)
KeyExpires(k) ==
    /\ k \in saved[Redis]
    /\ saved' = [saved EXCEPT ![Redis] = @ \ {k}]
    /\ UNCHANGED <<pc, req, rows, limits, created, stored, money, fates, repeats>>

(* 60 seconds have passed.                                                 *)
CooldownExpires(s) ==
    /\ s \in cooldown
    /\ cooldown' = cooldown \ {s}
    /\ UNCHANGED <<pc, req, answers, hits, admitted, created, stored, money, fates, repeats>>

Step(c) ==
    \/ Lookup(c) \/ Limit(c) \/ CheckCooldown(c) \/ CreateRow(c)
    \/ Debit(c) \/ Insufficient(c)
    \/ Store(c)
    \/ Enqueue(c) \/ EnqueueFails(c) \/ DirectSent(c) \/ DirectRefused(c) \/ Refund(c)
    \/ Save(c) \/ SaveRow(c)

Job(c) ==
    \/ JobSent(c) \/ JobFailed(c) \/ JobRefund(c) \/ JobRetried(c) \/ JobLost(c)

Next ==
    \/ \E c \in Calls : Start(c) \/ Step(c) \/ Abort(c) \/ Job(c)
    \/ \E k \in Keys : KeyExpires(k)
    \/ \E s \in Stores : CooldownExpires(s)

Spec == Init /\ [][Next]_vars

-----------------------------------------------------------------------------

(* Every variable has its type; the balance is never negative               *)
(* (otp.routes.ts:241-247).                                                *)
TypeOK ==
    /\ pc \in [Calls -> {"ready"} \cup Running \cup Outcomes]
    /\ req \in [Calls -> [key: Keys \cup {None}, node: Nodes \cup {None},
                          of: OtpRequests \cup {None}]]
    /\ saved \in [Stores -> SUBSET Keys]
    /\ rows \subseteq Keys
    /\ hits \in [Stores -> Nat]
    /\ cooldown \subseteq Stores
    /\ created \subseteq OtpRequests
    /\ stored \subseteq Calls
    /\ balance \in Nat
    /\ debited \subseteq Calls
    /\ credited \subseteq OtpRequests
    /\ message \in [Calls -> Messages]
    /\ givenUp \subseteq Calls /\ faulty \subseteq Calls
    /\ admitted \in [Stores -> Nat]
    /\ repeats \subseteq Sends

(* A send is not debited if it is the repetition, with the same key, of one  *)
(* that was answered: on whatever node, and whether Redis is up or not.      *)
(* Only the idempotency table has to work: the errors of its insert and of   *)
(* its query are swallowed, and then the repetition is debited              *)
(* (otp.routes.ts:152-162 and 312-322, idempotency.ts:13-91).               *)
RepeatedKeyIsNotDebited == repeats \cap debited = {}

(* What API_DOCUMENTATION.md:523 says of the key ("prevents double billing   *)
(* on network retry"), whenever the retry comes.                           *)
KeyIsDebitedOnce ==
    \A c, d \in Sends \cap debited :
        req[c].key # None /\ req[c].key = req[d].key => c = d

(* No message leaves without its debit and a code that can be verified, in   *)
(* whatever way it leaves (otp.routes.ts:242-280, 453-502).                 *)
NoMessageUnpaid ==
    \A c \in Calls : message[c] # "none" => c \in debited /\ c \in stored

(* When a message is given up, a refund under the stored reference of its    *)
(* request is there before the worker is through with the job, unless a      *)
(* fault has met it, or, when the queue was down, before the send answers; a *)
(* resend that is refused directly is not refunded.  That the refund is its  *)
(* own the code does not promise: req_ references are all stored as NULL     *)
(* (otp.routes.ts:286-298 and 496-509, otp.worker.ts:97-103 and 131-139).    *)
GivenUpIsRefunded ==
    \A c \in givenUp \ faulty :
        \/ message[c] = "failed"
        \/ message[c] = "refused" /\ (c \in Resends \/ pc[c] \in {"refund", "aborted"})
        \/ Refunded(req[c].of)

(* Only a request with a debited message that was given up is refunded       *)
(* (otp.routes.ts:281-298, otp.worker.ts:97-103 and 131-139).               *)
RefundIsEarned ==
    \A r \in credited : \E c \in debited \cap givenUp : req[c].of = r

(* Refused calls count too, so that no more than the limit is ever admitted  *)
(* by one store: by Redis, and by each node while Redis is down             *)
(* (rate-limit.ts:11-49).                                                  *)
AdmittedWithinLimit ==
    \A s \in Stores : admitted[s] <= PhoneLimit

=============================================================================
