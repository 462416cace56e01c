---------------------------- MODULE OtpDelivery ----------------------------
(***************************************************************************)
(* Delivery of OTP messages: the otp_messages queue and processSendOtpJob   *)
(* (src/src/queues/workers/otp.worker.ts), executed by the slots of one or  *)
(* more worker processes.                                                   *)
(*                                                                          *)
(* An execution stands before its next call to the provider, the database   *)
(* or a queue; each such call may succeed, fail with an exception, or be    *)
(* the last thing its process does.  BullMQ and Meta are external: a job is *)
(* retried when its execution throws, up to MaxTries times, and is given to *)
(* another slot when the lock of its slot is lost (a "stalled" job), whether *)
(* that slot is dead or merely late.  A refund is one atomic step, as       *)
(* WalletProofs shows it is.                                                *)
(***************************************************************************)
EXTENDS Naturals, FiniteSets

CONSTANTS
    Jobs,           \* jobs added by /send and /resend
    OtpRequests,    \* rows of otp_requests, all of one customer
    RequestOf,      \* the request a job is about
    StoredRef,      \* the reference_id stored for the refund of a request
    Slots,          \* concurrent executions, over all worker processes
    MaxTries,       \* defaultJobOptions.attempts
    MaxStalls,      \* BullMQ's maxStalledCount
    Faults,         \* whether statements fail and processes are lost
    None            \* no slot, no job

Replies == {"accepted", "temporary", "permanent"}

ASSUME OtpDeliveryAssumption ==
    /\ RequestOf \in [Jobs -> OtpRequests]
    /\ DOMAIN StoredRef = OtpRequests
    /\ MaxTries \in Nat \ {0}
    /\ MaxStalls \in Nat
    /\ IsFiniteSet(Slots)
    /\ Faults \in BOOLEAN
    /\ None \notin Jobs \cup Slots

VARIABLES
    state,      \* state of every job in its queue
    made,       \* attemptsMade of every job
    stalls,     \* how often a job was found stalled
    owner,      \* the slot whose lock token a job carries
    exec,       \* the job a slot executes, its attemptsMade and provider reply
    pc,         \* where the execution of a slot is
    status,     \* otp_requests.status
    sends,      \* messages of a job the provider has accepted
    credited,   \* requests whose debit was refunded
    dead,       \* requests with a job in the dead_letter queue
    faulty      \* history: jobs one of whose executions met a fault

queue == <<state, made, stalls, owner>>
effects == <<status, sends, credited, dead>>
vars == <<queue, exec, pc, effects, faulty>>

NoExec == [job |-> None, made |-> 0, reply |-> "none"]

InTry == {"message", "event", "sent", "failed", "refund", "dead"}
InCatch == {"catch", "catchFailed", "catchRefund", "catchDead"}
Running == {"send"} \cup InTry \cup InCatch \cup {"return", "throw"}

Init ==
    /\ state = [j \in Jobs |-> "waiting"]
    /\ made = [j \in Jobs |-> 0]
    /\ stalls = [j \in Jobs |-> 0]
    /\ owner = [j \in Jobs |-> None]
    /\ exec = [w \in Slots |-> NoExec]
    /\ pc = [w \in Slots |-> "idle"]
    /\ status = [r \in OtpRequests |-> "created"]
    /\ sends = [j \in Jobs |-> 0]
    /\ credited = {}
    /\ dead = {}
    /\ faulty = {}

Goto(w, label) == pc' = [pc EXCEPT ![w] = label]

Request(w) == RequestOf[exec[w].job]

-----------------------------------------------------------------------------
(* BullMQ *)

(* A free slot takes a waiting job.                                        *)
Pick(w, j) ==
    /\ pc[w] = "idle"
    /\ state[j] = "waiting"
    /\ state' = [state EXCEPT ![j] = "active"]
    /\ owner' = [owner EXCEPT ![j] = w]
    /\ exec' = [exec EXCEPT ![w] = [job |-> j, made |-> made[j], reply |-> "none"]]
    /\ Goto(w, "send")
    /\ UNCHANGED <<made, stalls, effects, faulty>>

(* Mutant: the last retry is never started.                                *)
BackoffNotLast(j) ==
    /\ state[j] = "delayed"
    /\ made[j] + 1 < MaxTries
    /\ state' = [state EXCEPT ![j] = "waiting"]
    /\ UNCHANGED <<made, stalls, owner, exec, pc, effects, faulty>>

(* The exponential delay of a retry is over.                               *)
Backoff(j) ==
    /\ state[j] = "delayed"
    /\ state' = [state EXCEPT ![j] = "waiting"]
    /\ UNCHANGED <<made, stalls, owner, exec, pc, effects, faulty>>

(* The lock of an active job has not been renewed: the job waits again, or  *)
(* fails for good, in which case the processor is not called.              *)
Stall(j) ==
    /\ state[j] = "active"
    /\ stalls' = [stalls EXCEPT ![j] = @ + 1]
    /\ state' = [state EXCEPT ![j] = IF stalls[j] < MaxStalls THEN "waiting" ELSE "failed"]
    /\ owner' = [owner EXCEPT ![j] = None]
    /\ UNCHANGED <<made, exec, pc, effects>>

Executes(w, j) == pc[w] # "idle" /\ exec[w].job = j

(* The owner was lost with its process.                                    *)
StallDead(j) ==
    /\ \A w \in Slots : ~(owner[j] = w /\ Executes(w, j))
    /\ Stall(j)
    /\ UNCHANGED faulty

(* The owner is alive but did not renew the lock in time.                  *)
StallLate(j) ==
    /\ \E w \in Slots : owner[j] = w /\ Executes(w, j)
    /\ Stall(j)
    /\ faulty' = faulty \cup {j}

(* The processor returned.  A slot that lost the lock changes nothing.     *)
Complete(w) ==
    LET j == exec[w].job
    IN  /\ pc[w] = "return"
        /\ IF owner[j] = w
           THEN /\ state' = [state EXCEPT ![j] = "completed"]
                /\ owner' = [owner EXCEPT ![j] = None]
           ELSE UNCHANGED <<state, owner>>
        /\ exec' = [exec EXCEPT ![w] = NoExec]
        /\ Goto(w, "idle")
        /\ UNCHANGED <<made, stalls, effects>>

(* Mutant: attemptsMade does not advance.                                  *)
FailUncounted(w) ==
    LET j == exec[w].job
    IN  /\ pc[w] = "throw"
        /\ IF owner[j] = w
           THEN /\ state' = [state EXCEPT ![j] =
                                IF made[j] + 1 < MaxTries THEN "delayed" ELSE "failed"]
                /\ owner' = [owner EXCEPT ![j] = None]
           ELSE UNCHANGED <<state, owner>>
        /\ exec' = [exec EXCEPT ![w] = NoExec]
        /\ Goto(w, "idle")
        /\ UNCHANGED <<made, stalls, effects>>

(* Mutant: one attempt more than MaxTries.                                 *)
FailOneMore(w) ==
    LET j == exec[w].job
    IN  /\ pc[w] = "throw"
        /\ IF owner[j] = w
           THEN /\ made' = [made EXCEPT ![j] = @ + 1]
                /\ state' = [state EXCEPT ![j] =
                                IF made[j] < MaxTries THEN "delayed" ELSE "failed"]
                /\ owner' = [owner EXCEPT ![j] = None]
           ELSE UNCHANGED <<state, made, owner>>
        /\ exec' = [exec EXCEPT ![w] = NoExec]
        /\ Goto(w, "idle")
        /\ UNCHANGED <<stalls, effects>>

(* The processor threw: the job is retried later, or has failed.           *)
Fail(w) ==
    LET j == exec[w].job
    IN  /\ pc[w] = "throw"
        /\ IF owner[j] = w
           THEN /\ made' = [made EXCEPT ![j] = @ + 1]
                /\ state' = [state EXCEPT ![j] =
                                IF made[j] + 1 < MaxTries THEN "delayed" ELSE "failed"]
                /\ owner' = [owner EXCEPT ![j] = None]
           ELSE UNCHANGED <<state, made, owner>>
        /\ exec' = [exec EXCEPT ![w] = NoExec]
        /\ Goto(w, "idle")
        /\ UNCHANGED <<stalls, effects>>

-----------------------------------------------------------------------------
(* processSendOtpJob, the try block *)

(* whatsappProvider.sendOtp; sent: whether Meta accepted the message.      *)
SendReply(w, reply, sent) ==
    /\ pc[w] = "send"
    /\ exec' = [exec EXCEPT ![w].reply = reply]
    /\ sends' = [sends EXCEPT ![exec[w].job] = IF sent THEN @ + 1 ELSE @]
    /\ Goto(w, "message")
    /\ UNCHANGED <<queue, status, credited, dead>>

Send(w) == \E reply \in Replies : SendReply(w, reply, reply = "accepted")

(* A network error after Meta accepted the message is reported as temporary. *)
SendLost(w) == SendReply(w, "temporary", TRUE)

(* messages.create                                                         *)
RecordMessage(w) ==
    /\ pc[w] = "message"
    /\ Goto(w, "event")
    /\ UNCHANGED <<queue, exec, effects>>

(* message_events.create, then the three ways on.                          *)
RecordEvent(w) ==
    /\ pc[w] = "event"
    /\ Goto(w, CASE exec[w].reply = "accepted"  -> "sent"
                 [] exec[w].reply = "temporary" -> "catch"
                 [] exec[w].reply = "permanent" -> "failed")
    /\ UNCHANGED <<queue, exec, effects>>

MarkSent(w) ==
    /\ pc[w] = "sent"
    /\ status' = [status EXCEPT ![Request(w)] = "sent"]
    /\ Goto(w, "return")
    /\ UNCHANGED <<queue, exec, sends, credited, dead>>

MarkFailed(w) ==
    /\ pc[w] = "failed"
    /\ status' = [status EXCEPT ![Request(w)] = "failed"]
    /\ Goto(w, "refund")
    /\ UNCHANGED <<queue, exec, sends, credited, dead>>

(* refundCredits finds a refund row with the same stored reference, or adds *)
(* one (WalletLedger, Apply and Duplicate).                                *)
RefundCredits(r) ==
    credited' = IF \E s \in credited : StoredRef[s] = StoredRef[r]
                THEN credited ELSE credited \cup {r}

Refund(w) ==
    /\ pc[w] = "refund"
    /\ RefundCredits(Request(w))
    /\ Goto(w, "dead")
    /\ UNCHANGED <<queue, exec, status, sends, dead>>

DeadLetter(w) ==
    /\ pc[w] = "dead"
    /\ dead' = dead \cup {Request(w)}
    /\ Goto(w, "return")
    /\ UNCHANGED <<queue, exec, status, sends, credited>>

(* A statement of the try block throws: the next one, without effect, or    *)
(* the last one, whose effect was applied but whose answer was lost.       *)
Throw(w) ==
    /\ pc[w] \in InTry \cup {"return"}
    /\ Goto(w, "catch")
    /\ UNCHANGED <<queue, exec, effects>>

-----------------------------------------------------------------------------
(* processSendOtpJob, the catch block *)

(* Mutant: attemptsMade is taken for the number of the current attempt.     *)
CatchLate(w) ==
    /\ pc[w] = "catch"
    /\ Goto(w, IF exec[w].made >= MaxTries THEN "catchFailed" ELSE "throw")
    /\ UNCHANGED <<queue, exec, effects>>

(* Only the last attempt gives up the request.                             *)
Catch(w) ==
    /\ pc[w] = "catch"
    /\ Goto(w, IF exec[w].made + 1 >= MaxTries THEN "catchFailed" ELSE "throw")
    /\ UNCHANGED <<queue, exec, effects>>

CatchFailed(w) ==
    /\ pc[w] = "catchFailed"
    /\ status' = [status EXCEPT ![Request(w)] = "failed"]
    /\ Goto(w, "catchRefund")
    /\ UNCHANGED <<queue, exec, sends, credited, dead>>

CatchRefund(w) ==
    /\ pc[w] = "catchRefund"
    /\ RefundCredits(Request(w))
    /\ Goto(w, "catchDead")
    /\ UNCHANGED <<queue, exec, status, sends, dead>>

CatchDead(w) ==
    /\ pc[w] = "catchDead"
    /\ dead' = dead \cup {Request(w)}
    /\ Goto(w, "throw")
    /\ UNCHANGED <<queue, exec, status, sends, credited>>

(* An exception of one of the three is swallowed: the block goes on.        *)
CatchLost(w) ==
    /\ pc[w] \in {"catchFailed", "catchRefund", "catchDead"}
    /\ Goto(w, CASE pc[w] = "catchFailed" -> "catchRefund"
                 [] pc[w] = "catchRefund" -> "catchDead"
                 [] pc[w] = "catchDead"   -> "throw")
    /\ UNCHANGED <<queue, exec, effects>>

-----------------------------------------------------------------------------

(* The process of a slot is lost (and another takes its place).            *)
Crash(w) ==
    /\ pc[w] \in Running
    /\ exec' = [exec EXCEPT ![w] = NoExec]
    /\ Goto(w, "idle")
    /\ UNCHANGED <<queue, effects>>

Step(w) ==
    /\ UNCHANGED faulty
    /\ \/ Send(w)
       \/ RecordMessage(w)
       \/ RecordEvent(w)
       \/ MarkSent(w)
       \/ MarkFailed(w)
       \/ Refund(w)
       \/ DeadLetter(w)
       \/ Catch(w)
       \/ CatchFailed(w)
       \/ CatchRefund(w)
       \/ CatchDead(w)
       \/ Complete(w)
       \/ Fail(w)

Fault(w) ==
    /\ faulty' = faulty \cup {exec[w].job}
    /\ SendLost(w) \/ Throw(w) \/ CatchLost(w) \/ Crash(w)

Next ==
    \/ \E w \in Slots : Step(w)
    \/ \E w \in Slots, j \in Jobs : Pick(w, j)
    \/ \E j \in Jobs : Backoff(j) \/ StallDead(j)
    \/ Faults /\ ((\E w \in Slots : Fault(w)) \/ (\E j \in Jobs : StallLate(j)))

Spec == Init /\ [][Next]_vars

(* The event loop of a live process runs on, BullMQ delays a retry for a    *)
(* bounded time, looks for stalled jobs periodically and hands waiting jobs *)
(* to free slots.  A slot may always be busy with another job when this one *)
(* waits, but the jobs are finitely many: weak fairness is enough.         *)
Fairness ==
    /\ \A w \in Slots : WF_vars(Step(w))
    /\ \A j \in Jobs : /\ WF_vars(\E w \in Slots : Pick(w, j))
                       /\ WF_vars(Backoff(j))
                       /\ WF_vars(StallDead(j))

FairSpec == Spec /\ Fairness

-----------------------------------------------------------------------------

(* Every variable has its type; a job is never tried more than MaxTries     *)
(* times (queue.ts:6-7).                                                   *)
TypeOK ==
    /\ state \in [Jobs -> {"waiting", "active", "delayed", "completed", "failed"}]
    /\ made \in [Jobs -> 0..MaxTries]
    /\ stalls \in [Jobs -> 0..MaxStalls+1]
    /\ owner \in [Jobs -> Slots \cup {None}]
    /\ exec \in [Slots -> [job: Jobs \cup {None}, made: 0..MaxTries-1,
                           reply: {"none", "accepted", "temporary", "permanent"}]]
    /\ pc \in [Slots -> {"idle"} \cup Running]
    /\ status \in [OtpRequests -> {"created", "sent", "failed"}]
    /\ sends \in [Jobs -> 0..MaxTries+MaxStalls]
    /\ credited \subseteq OtpRequests
    /\ dead \subseteq OtpRequests
    /\ faulty \subseteq Jobs

Settled(j) == state[j] \in {"completed", "failed"} /\ \A w \in Slots : ~Executes(w, j)

(* A job whose request no other job is about: one of /send that is not       *)
(* resent while it is in the queue.                                         *)
OwnRequest(j) == \A k \in Jobs : RequestOf[k] = RequestOf[j] => k = j

(* What a refund leaves behind: a credit that is stored under the reference  *)
(* of the request, be it this one's or, as when references are stored as     *)
(* NULL, an earlier one's.                                                  *)
Refunded(j) == \E s \in credited : StoredRef[s] = StoredRef[RequestOf[j]]

(* When a job is over, met no fault and is the only one about its request,   *)
(* its four effects agree (otp.worker.ts:79-112 and 118-149): either the     *)
(* message was accepted, the request is "sent" and the debit stands; or it   *)
(* was not, and the request is "failed", in the dead-letter queue, and a     *)
(* credit is stored under its reference.  That the credit is its own the     *)
(* code does not promise (TerminalFailureIsRefunded, below).                *)
OutcomeIsConsistent ==
    \A j \in Jobs : Settled(j) /\ j \notin faulty /\ OwnRequest(j) =>
        LET r == RequestOf[j]
        IN  IF sends[j] > 0
            THEN state[j] = "completed" /\ status[r] = "sent"
                 /\ r \notin credited /\ r \notin dead
            ELSE status[r] = "failed" /\ Refunded(j) /\ r \in dead

(* Whatever fails, a message is accepted at most once per attempt that was  *)
(* counted, per stall, and for the attempt in progress or completed: no     *)
(* execution goes uncounted (queue.ts:6-11).                               *)
SendsAreCounted ==
    \A j \in Jobs :
        sends[j] <= made[j] + stalls[j]
                    + (IF state[j] \in {"active", "completed"} THEN 1 ELSE 0)

(* Every job ends, whatever fails (queue.ts:4-15).                         *)
JobsSettle == \A j \in Jobs : <>[](state[j] \in {"completed", "failed"})

(* What the log line of otp.worker.ts:121 and API_DOCUMENTATION.md:79 say:  *)
(* a job that has failed for good was refunded.                            *)
TerminalFailureIsRefunded ==
    \A j \in Jobs : state[j] = "failed" /\ Settled(j) => RequestOf[j] \in credited

=============================================================================
