------------------------------ MODULE Webhooks ------------------------------
(***************************************************************************)
(* Delivery receipts: their ingestion (webhooks.routes.ts), the webhooks     *)
(* queue, and processWebhookJob (webhook.worker.ts), executed by the slots   *)
(* of the workers; with the other writers of the status of the one OTP       *)
(* request the messages are about: the delivery worker, the direct dispatch  *)
(* of the handlers, a verification, the last failed attempt of another, and  *)
(* getOtpStatus and resend, which expire a request lazily.                  *)
(*                                                                          *)
(* An attempt of the delivery worker, or of a handler that could not queue   *)
(* the message, is named by the message id it gets from Meta.  Meta reports what happens to a message by receipts, each delivered *)
(* once or more often and in any order.  BullMQ is modelled as in            *)
(* OtpDelivery, without the delay of a retry: a job whose execution throws   *)
(* is tried up to MaxTries times; a job whose slot was lost, or is late, is  *)
(* given to another slot.                                                   *)
(***************************************************************************)
EXTENDS Naturals, FiniteSets

CONSTANTS
    Messages,       \* provider_message_ids of one OTP request
    Types,          \* the receipts of the instance: subset of AllTypes
    Slots,          \* concurrent executions, over all worker processes
    MaxTries,       \* defaultJobOptions.attempts
    MaxStalls,      \* BullMQ's maxStalledCount
    MaxFaults,      \* how many statements fail, locks and processes are lost
    None            \* no slot, no receipt

AllTypes == {"sent", "delivered", "read", "failed"}
Receipts == Messages \X Types

ASSUME WebhooksAssumption ==
    /\ Types \subseteq AllTypes
    /\ MaxTries \in Nat \ {0}
    /\ MaxStalls \in Nat
    /\ IsFiniteSet(Slots)
    /\ MaxFaults \in Nat
    /\ None \notin Receipts \cup Slots

VARIABLES
    receipt,    \* its webhook_events row and its job
    made,       \* attemptsMade of the job of a receipt
    stalls,     \* how often the job was found stalled
    owner,      \* the slot whose lock token the job carries
    pc,         \* where the execution of a slot is
    exec,       \* its receipt
    attempt,    \* where the delivery attempt of a message is
    rows,       \* number of message_events rows of a message and type
    shown,      \* messages.status of the messages that have a row
    unmatched,  \* history: receipts whose message had no row when looked up
    status,     \* otp_requests.status
    verify,     \* where the verification is
    overtaken,  \* history: the slots, and None for who expires the request, that
                \* had read the request when it was verified
    expiry,     \* whether expires_at has passed, and somebody is about to say so
    faults      \* number of faults so far

queue == <<receipt, made, stalls, owner>>
slots == <<pc, exec>>
tables == <<rows, shown, unmatched>>
request == <<status, verify, overtaken, expiry>>
vars == <<queue, slots, attempt, tables, request, faults>>

Statuses == {"created", "sent", "delivered", "failed", "verified", "expired"}

Working == {"find", "update", "event", "request", "write", "mark"}

Init ==
    /\ receipt = [r \in Receipts |-> "none"]
    /\ made = [r \in Receipts |-> 0]
    /\ stalls = [r \in Receipts |-> 0]
    /\ owner = [r \in Receipts |-> None]
    /\ pc = [w \in Slots |-> "idle"]
    /\ exec = [w \in Slots |-> None]
    /\ attempt = [m \in Messages |-> "send"]
    /\ rows = [r \in Messages \X AllTypes |-> 0]
    /\ shown = [m \in Messages |-> "none"]
    /\ unmatched = {}
    /\ status = "created"
    /\ verify = "none"
    /\ overtaken = {}
    /\ expiry = "live"
    /\ faults = 0

Goto(w, label) == pc' = [pc EXCEPT ![w] = label]

-----------------------------------------------------------------------------
(* Meta, the delivery worker and the direct dispatch *)

(* sendOtp: Meta has accepted the message.                                 *)
Send(m) ==
    /\ attempt[m] = "send"
    /\ attempt' = [attempt EXCEPT ![m] = "message"]
    /\ UNCHANGED <<faults, queue, slots, tables, request>>

(* The queue is down and the handler calls sendOtp itself: no row of the    *)
(* message, only the status of the request follows.                        *)
SendDirect(m) ==
    /\ attempt[m] = "send"
    /\ attempt' = [attempt EXCEPT ![m] = "mark"]
    /\ UNCHANGED <<faults, queue, slots, tables, request>>

(* messages.create                                                         *)
RecordMessage(m) ==
    /\ attempt[m] = "message"
    /\ shown' = [shown EXCEPT ![m] = "sent"]
    /\ attempt' = [attempt EXCEPT ![m] = "event"]
    /\ UNCHANGED <<faults, queue, slots, rows, unmatched, request>>

(* message_events.create                                                   *)
RecordSent(m) ==
    /\ attempt[m] = "event"
    /\ rows' = [rows EXCEPT ![<<m, "sent">>] = @ + 1]
    /\ attempt' = [attempt EXCEPT ![m] = "mark"]
    /\ UNCHANGED <<faults, queue, slots, shown, unmatched, request>>

(* otp_requests.update, whatever the status is by now.                     *)
MarkSent(m) ==
    /\ attempt[m] = "mark"
    /\ status' = "sent"
    /\ attempt' = [attempt EXCEPT ![m] = "done"]
    /\ UNCHANGED <<faults, queue, slots, tables, verify, overtaken, expiry>>

(* Meta refuses the message, for good or in the last of the tries ...       *)
Refuse(m) ==
    /\ attempt[m] = "send"
    /\ attempt' = [attempt EXCEPT ![m] = "refused"]
    /\ UNCHANGED <<faults, queue, slots, tables, request>>

(* ... and the request is marked, whatever its status is by now.            *)
MarkFailed(m) ==
    /\ attempt[m] = "refused"
    /\ status' = "failed"
    /\ attempt' = [attempt EXCEPT ![m] = "closed"]
    /\ UNCHANGED <<faults, queue, slots, tables, verify, overtaken, expiry>>

(* A direct resend that Meta refuses leaves the request as it is.            *)
ResendRefused(m) ==
    /\ attempt[m] = "send"
    /\ attempt' = [attempt EXCEPT ![m] = "closed"]
    /\ UNCHANGED <<faults, queue, slots, tables, request>>

(* A statement of the attempt throws, or its process is lost: the job is    *)
(* tried again, with another message.                                      *)
AttemptLost(m) ==
    /\ attempt[m] \in {"message", "event", "mark", "refused"}
    /\ attempt' = [attempt EXCEPT ![m] = IF @ = "refused" THEN "closed" ELSE "done"]
    /\ UNCHANGED <<queue, slots, tables, request>>

(* Meta has accepted the message.                                          *)
Accepted(m) == attempt[m] \in {"message", "event", "mark", "done"}

(* What Meta may report of an accepted message, in any order: that it was    *)
(* sent, and then delivered and read, or that it failed.                   *)
Reported(r) ==
    LET m == r[1]
        Seen(t) == t \in Types /\ receipt[<<m, t>>] # "none"
    IN  /\ Accepted(m)
        /\ r[2] \in {"delivered", "read"} => ~Seen("failed")
        /\ r[2] = "failed" => ~Seen("delivered") /\ ~Seen("read") /\ verify = "none"

-----------------------------------------------------------------------------
(* POST /v1/webhooks/meta *)

(* Mutant: a receipt that comes again is stored again.                     *)
IngestAgain(r) ==
    /\ Reported(r)
    /\ receipt' = [receipt EXCEPT ![r] = "stored"]
    /\ UNCHANGED <<faults, made, stalls, owner, slots, attempt, tables, request>>

(* webhook_events.create.  Meta delivers a receipt once or more often; when *)
(* it comes again, the unique external_event_id refuses it and nothing      *)
(* changes.                                                                *)
Ingest(r) ==
    /\ Reported(r)
    /\ receipt[r] = "none"
    /\ receipt' = [receipt EXCEPT ![r] = "stored"]
    /\ UNCHANGED <<faults, made, stalls, owner, slots, attempt, tables, request>>

(* Mutant: receipts of unknown messages are not queued.                     *)
EnqueueMatched(r) ==
    /\ receipt[r] = "stored"
    /\ shown[r[1]] # "none"
    /\ receipt' = [receipt EXCEPT ![r] = "waiting"]
    /\ UNCHANGED <<faults, made, stalls, owner, slots, attempt, tables, request>>

(* webhookQueue.add                                                        *)
Enqueue(r) ==
    /\ receipt[r] = "stored"
    /\ receipt' = [receipt EXCEPT ![r] = "waiting"]
    /\ UNCHANGED <<faults, made, stalls, owner, slots, attempt, tables, request>>

(* webhookQueue.add throws, which is logged, or the process is lost.       *)
EnqueueFails(r) ==
    /\ receipt[r] = "stored"
    /\ receipt' = [receipt EXCEPT ![r] = "unqueued"]
    /\ UNCHANGED <<made, stalls, owner, slots, attempt, tables, request>>

-----------------------------------------------------------------------------
(* BullMQ *)

Executes(w, r) == pc[w] # "idle" /\ exec[w] = r

Pick(w, r) ==
    /\ pc[w] = "idle"
    /\ receipt[r] = "waiting"
    /\ receipt' = [receipt EXCEPT ![r] = "active"]
    /\ owner' = [owner EXCEPT ![r] = w]
    /\ exec' = [exec EXCEPT ![w] = r]
    /\ Goto(w, "find")
    /\ UNCHANGED <<faults, made, stalls, attempt, tables, request>>

(* The lock of an active job has not been renewed.                         *)
Stall(r) ==
    /\ receipt[r] = "active"
    /\ stalls' = [stalls EXCEPT ![r] = @ + 1]
    /\ receipt' = [receipt EXCEPT ![r] = IF stalls[r] < MaxStalls THEN "waiting" ELSE "failed"]
    /\ owner' = [owner EXCEPT ![r] = None]
    /\ UNCHANGED <<made, slots, attempt, tables, request>>

(* The owner was lost with its process, or it is alive but late.           *)
StallDead(r) ==
    /\ \A w \in Slots : ~(owner[r] = w /\ Executes(w, r))
    /\ Stall(r)
    /\ UNCHANGED faults
StallLate(r) ==
    /\ \E w \in Slots : owner[r] = w /\ Executes(w, r)
    /\ Stall(r)

(* webhook_events.update, whose exception is swallowed (nobody reads the      *)
(* processing_status), and the return.                                     *)
Complete(w) ==
    LET r == exec[w]
    IN  /\ pc[w] = "mark"
        /\ IF owner[r] = w
           THEN /\ receipt' = [receipt EXCEPT ![r] = "completed"]
                /\ owner' = [owner EXCEPT ![r] = None]
           ELSE UNCHANGED <<receipt, owner>>
        /\ exec' = [exec EXCEPT ![w] = None]
        /\ Goto(w, "idle")
        /\ UNCHANGED <<faults, made, stalls, attempt, tables, request>>

(* A statement throws: the one before, whose answer was lost, or the next.  *)
Throw(w) ==
    LET r == exec[w]
    IN  /\ pc[w] \in Working
        /\ IF owner[r] = w
           THEN /\ made' = [made EXCEPT ![r] = @ + 1]
                /\ receipt' = [receipt EXCEPT ![r] =
                                  IF made[r] + 1 < MaxTries THEN "waiting" ELSE "failed"]
                /\ owner' = [owner EXCEPT ![r] = None]
           ELSE UNCHANGED <<made, receipt, owner>>
        /\ exec' = [exec EXCEPT ![w] = None]
        /\ Goto(w, "idle")
        /\ UNCHANGED <<stalls, attempt, tables, request>>

Crash(w) ==
    /\ pc[w] # "idle"
    /\ exec' = [exec EXCEPT ![w] = None]
    /\ Goto(w, "idle")
    /\ UNCHANGED <<queue, attempt, tables, request>>

-----------------------------------------------------------------------------
(* processWebhookJob *)

(* Mutant: the event is not looked for.                                    *)
FindMessageOnly(w) ==
    LET r == exec[w]
    IN  /\ pc[w] = "find"
        /\ IF shown[r[1]] = "none"
           THEN Goto(w, "mark") /\ unmatched' = unmatched \cup {r}
           ELSE Goto(w, "update") /\ UNCHANGED unmatched
        /\ UNCHANGED <<faults, queue, exec, attempt, rows, shown, request>>

(* messages.findFirst by provider_message_id, then message_events.findFirst: *)
(* one step, since a message that was found is still there afterwards.      *)
FindMessage(w) ==
    LET r == exec[w]
    IN  /\ pc[w] = "find"
        /\ IF shown[r[1]] = "none"
           THEN Goto(w, "mark") /\ unmatched' = unmatched \cup {r}
           ELSE Goto(w, IF rows[r] > 0 THEN "request" ELSE "update") /\ UNCHANGED unmatched
        /\ UNCHANGED <<faults, queue, exec, attempt, rows, shown, request>>

(* messages.update                                                         *)
UpdateMessage(w) ==
    LET r == exec[w]
    IN  /\ pc[w] = "update"
        /\ shown' = [shown EXCEPT ![r[1]] = r[2]]
        /\ Goto(w, "event")
        /\ UNCHANGED <<faults, queue, exec, attempt, rows, unmatched, request>>

(* Mutant: the event is left to the delivery worker.                       *)
RecordEventNot(w) ==
    /\ pc[w] = "event"
    /\ Goto(w, "request")
    /\ UNCHANGED <<faults, queue, exec, attempt, tables, request>>

(* message_events.create                                                   *)
RecordEvent(w) ==
    /\ pc[w] = "event"
    /\ rows' = [rows EXCEPT ![exec[w]] = @ + 1]
    /\ Goto(w, "request")
    /\ UNCHANGED <<faults, queue, exec, attempt, shown, unmatched, request>>

(* Mutant: a verified request is updated like any other.                   *)
ReadRequestAny(w) ==
    /\ pc[w] = "request"
    /\ Goto(w, IF exec[w][2] # "read" THEN "write" ELSE "mark")
    /\ UNCHANGED <<faults, queue, exec, attempt, tables, request>>

(* Mutant: every receipt is taken for a status of the request.              *)
ReadRequestUnmapped(w) ==
    /\ pc[w] = "request"
    /\ Goto(w, IF status # "verified" THEN "write" ELSE "mark")
    /\ UNCHANGED <<faults, queue, exec, attempt, tables, request>>

(* otp_requests.findUnique; no status of a request stands for "read".       *)
ReadRequest(w) ==
    /\ pc[w] = "request"
    /\ Goto(w, IF status # "verified" /\ exec[w][2] # "read" THEN "write" ELSE "mark")
    /\ UNCHANGED <<faults, queue, exec, attempt, tables, request>>

(* otp_requests.update                                                     *)
WriteRequest(w) ==
    /\ pc[w] = "write"
    /\ status' = exec[w][2]
    /\ Goto(w, "mark")
    /\ UNCHANGED <<faults, queue, exec, attempt, tables, verify, overtaken, expiry>>

-----------------------------------------------------------------------------
(* The other writers of otp_requests.status *)

Expire ==
    /\ expiry = "live"
    /\ expiry' = "over"
    /\ UNCHANGED <<faults, queue, slots, attempt, tables, status, verify, overtaken>>

(* getOtpStatus reads the row ...                                          *)
StatusRead ==
    /\ expiry = "over"
    /\ status \notin {"verified", "expired", "failed"}
    /\ expiry' = "read"
    /\ UNCHANGED <<faults, queue, slots, attempt, tables, status, verify, overtaken>>

(* ... as does a resend ...                                                *)
ResendRead ==
    /\ expiry = "over"
    /\ status # "verified"
    /\ expiry' = "read"
    /\ UNCHANGED <<faults, queue, slots, attempt, tables, status, verify, overtaken>>

(* ... and both write what they have concluded.                            *)
StatusExpire ==
    /\ expiry = "read"
    /\ status' = "expired"
    /\ expiry' = "over"
    /\ UNCHANGED <<faults, queue, slots, attempt, tables, verify, overtaken>>

(* verifyOtp has found the right code in Redis, which reached the phone.    *)
VerifyGet ==
    /\ verify = "none"
    /\ expiry = "live"
    /\ \E m \in Messages :
          Accepted(m) /\ ("failed" \in Types => receipt[<<m, "failed">>] = "none")
    /\ verify' = "correct"
    /\ UNCHANGED <<faults, queue, slots, attempt, tables, status, overtaken, expiry>>

(* Who has read the request and is about to write it.                      *)
Readers == {w \in Slots : pc[w] = "write"} \cup {e \in {None} : expiry = "read"}

VerifyMark ==
    /\ verify = "correct"
    /\ verify' = "done"
    /\ status' = "verified"
    /\ overtaken' = Readers
    /\ UNCHANGED <<faults, queue, slots, attempt, tables, expiry>>

(* verifyOtp marks the request after the last failed attempt for one of its *)
(* codes, whatever its status is by now.  The entry was read at some time    *)
(* before; after a verification there still is one if a resend stored a new  *)
(* code, or a node holds an earlier one in its memory.                      *)
VerifyExpire ==
    /\ status' = "expired"
    /\ UNCHANGED <<faults, queue, slots, attempt, tables, verify, overtaken, expiry>>

-----------------------------------------------------------------------------

Step(w) ==
    \/ FindMessage(w)
    \/ UpdateMessage(w)
    \/ RecordEvent(w)
    \/ ReadRequest(w)
    \/ WriteRequest(w)
    \/ Complete(w)

Deliver(m) ==
    \/ Send(m)
    \/ SendDirect(m)
    \/ RecordMessage(m)
    \/ RecordSent(m)
    \/ MarkSent(m)
    \/ Refuse(m)
    \/ MarkFailed(m)
    \/ ResendRefused(m)

Fault ==
    /\ faults < MaxFaults
    /\ faults' = faults + 1
    /\ \/ \E m \in Messages : AttemptLost(m)
       \/ \E r \in Receipts : EnqueueFails(r) \/ StallLate(r)
       \/ \E w \in Slots : Throw(w) \/ Crash(w)

Next ==
    \/ \E m \in Messages : Deliver(m)
    \/ \E r \in Receipts : Ingest(r) \/ Enqueue(r)
    \/ \E w \in Slots, r \in Receipts : Pick(w, r)
    \/ \E r \in Receipts : StallDead(r)
    \/ \E w \in Slots : Step(w)
    \/ Expire \/ StatusRead \/ ResendRead \/ StatusExpire
    \/ VerifyGet \/ VerifyMark \/ VerifyExpire
    \/ Fault

Spec == Init /\ [][Next]_vars

(* As in OtpDelivery; and the handler that has stored an event goes on.     *)
Fairness ==
    /\ \A w \in Slots : WF_vars(Step(w))
    /\ \A r \in Receipts : /\ WF_vars(Enqueue(r))
                           /\ WF_vars(\E w \in Slots : Pick(w, r))
                           /\ WF_vars(StallDead(r))

FairSpec == Spec /\ Fairness

-----------------------------------------------------------------------------

(* Every variable has its type; a job is never tried more than MaxTries     *)
(* times (queue.ts:17-28).                                                 *)
TypeOK ==
    /\ receipt \in [Receipts -> {"none", "stored", "unqueued", "waiting", "active",
                                 "completed", "failed"}]
    /\ made \in [Receipts -> 0..MaxTries]
    /\ stalls \in [Receipts -> 0..MaxStalls+1]
    /\ owner \in [Receipts -> Slots \cup {None}]
    /\ pc \in [Slots -> {"idle"} \cup Working]
    /\ exec \in [Slots -> Receipts \cup {None}]
    /\ attempt \in [Messages -> {"send", "message", "event", "mark", "refused", "closed", "done"}]
    /\ rows \in [Messages \X AllTypes -> Nat]
    /\ shown \in [Messages -> AllTypes \cup {"none"}]
    /\ unmatched \subseteq Receipts
    /\ status \in Statuses
    /\ verify \in {"none", "correct", "done"}
    /\ overtaken \subseteq Slots \cup {None}
    /\ expiry \in {"live", "over", "read"}
    /\ faults \in 0..MaxFaults

(* However often a receipt is delivered, thrown back or stalled, its event  *)
(* is recorded once, plus once per execution that lost its lock and went    *)
(* on; "sent" is recorded by the delivery worker, too                       *)
(* (webhooks.routes.ts:99-131, webhook.worker.ts:41-68).                    *)
EventsAreCounted ==
    \A r \in Receipts :
        rows[r] <= 1 + stalls[r] + (IF r[2] = "sent" THEN 1 ELSE 0)

(* A receipt whose job has completed is recorded at its message, unless the *)
(* message itself was not recorded yet (webhook.worker.ts:39-105).          *)
CompletedIsRecorded ==
    \A r \in Receipts : receipt[r] = "completed" => rows[r] > 0 \/ r \in unmatched

(* A repeated receipt, or the retry of one, does not set the message back   *)
(* to what it was before a later receipt: once its event is recorded, only  *)
(* an execution beside its successor may (webhook.worker.ts:41-60).         *)
NoReceiptIsReapplied ==
    [][\A r \in Receipts :
         /\ shown[r[1]] \notin {"none", r[2]} /\ shown'[r[1]] = r[2]
         => rows[r] = 0 \/ stalls[r] > 0 \/ r[2] = "sent"]_vars

(* A verification is undone by nobody who reads the request after it: only   *)
(* by a receipt, a getOtpStatus or a resend that had read it before, or by   *)
(* one of those that write without reading: the delivery worker, the direct  *)
(* dispatch and the last failed attempt of another verification             *)
(* (webhook.worker.ts:72-89, otp.service.ts:150-156 and 247-258,            *)
(* otp.routes.ts:418-437).                                                 *)
OnlyOvertakenUndoVerified ==
    [][ status = "verified" /\ status' # "verified" =>
          \/ \E w \in Slots \cap overtaken : pc[w] = "write" /\ pc'[w] = "mark"
          \/ None \in overtaken /\ expiry = "read" /\ expiry' = "over"
          \/ \E m \in Messages : \/ attempt[m] = "mark" /\ attempt'[m] = "done"
                                 \/ attempt[m] = "refused" /\ attempt'[m] = "closed"
          \/ status' = "expired" /\ UNCHANGED expiry ]_vars

(* Every receipt that is stored is processed in the end, or its job has     *)
(* failed, or it could not be queued (webhooks.routes.ts:103-130,           *)
(* queue.ts:17-28).                                                        *)
ReceiptsSettle ==
    \A r \in Receipts :
        receipt[r] = "stored" ~> receipt[r] \in {"completed", "failed", "unqueued"}

=============================================================================
