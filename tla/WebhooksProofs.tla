--------------------------- MODULE WebhooksProofs ---------------------------
(* Theorems about Webhooks: its safety properties, for any number of         *)
(* messages, slots, tries, stalls and faults.                               *)
EXTENDS Webhooks, FiniteSetTheorems, TLAPS

(* A job that can still be executed has tries left and was not stalled too   *)
(* often; only an active job has an owner.                                  *)
JobInv ==
    \A r \in Receipts :
        /\ receipt[r] \notin {"completed", "failed"} => made[r] < MaxTries /\ stalls[r] <= MaxStalls
        /\ owner[r] # None => receipt[r] = "active"

(* What an execution has done by the time it is about to read or write the   *)
(* request.                                                                *)
Recorded(r) == rows[r] > 0 \/ r \in unmatched

SlotInv ==
    \A w \in Slots :
        /\ pc[w] # "idle" => exec[w] \in Receipts
        /\ pc[w] \in {"request", "write", "mark"} => Recorded(exec[w])
        /\ pc[w] = "write" => exec[w][2] # "read"

(* While a request is verified, whoever has read it had read it before.      *)
VerifyInv == status = "verified" => Readers \subseteq overtaken

TypeInv == TypeOK /\ JobInv /\ SlotInv /\ CompletedIsRecorded /\ VerifyInv

-----------------------------------------------------------------------------

(* The executions of a job, and those of them that will record its event.    *)
Executing(r) == {w \in Slots : Executes(w, r)}
Recording(r) == {w \in Slots : Executes(w, r) /\ pc[w] \in {"update", "event"}}

Allowed(r) == stalls[r] + (IF receipt[r] = "active" THEN 1 ELSE 0)

(* The row that the delivery worker adds.                                   *)
Delivered(r) ==
    IF r[2] = "sent" /\ attempt[r[1]] \notin {"send", "message", "event"} THEN 1 ELSE 0

(* A job is executed beside its successor only after a stall; all the rows   *)
(* that its executions have added and will add are bounded by the stalls.    *)
CountInv ==
    \A r \in Receipts :
        /\ Cardinality(Executing(r)) <= Allowed(r)
        /\ rows[r] + Cardinality(Recording(r)) <= 1 + stalls[r] + Delivered(r)

IInv == TypeInv /\ CountInv

USE DEF Goto, queue, slots, tables, request, Receipts, AllTypes, Statuses, Working

-----------------------------------------------------------------------------
(* Types *)

LEMMA TypeInit == Init => TypeInv
<1> SUFFICES ASSUME Init PROVE TypeInv
  OBVIOUS
<1> USE WebhooksAssumption DEF Init
<1>1. TypeOK
  BY DEF TypeOK
<1>2. JobInv
  BY DEF JobInv
<1>3. SlotInv
  BY DEF SlotInv
<1>4. CompletedIsRecorded /\ VerifyInv
  BY DEF CompletedIsRecorded, VerifyInv
<1> QED BY <1>1, <1>2, <1>3, <1>4 DEF TypeInv

(* What is recorded stays.                                                 *)
StaysRecorded == \A r \in Receipts : Recorded(r) => Recorded(r)'

(* An execution goes on ...                                                *)
LEMMA SlotMoves ==
    ASSUME TypeInv, StaysRecorded, NEW w \in Slots, pc[w] # "idle",
           NEW label \in Working, Goto(w, label), UNCHANGED exec,
           label \in {"request", "write", "mark"} => Recorded(exec[w])',
           label = "write" => exec[w][2] # "read"
    PROVE  SlotInv' /\ pc' \in [Slots -> {"idle"} \cup Working] /\ exec[w] \in Receipts
<1>1. pc'[w] = label /\ \A v \in Slots \ {w} : pc'[v] = pc[v]
  BY DEF TypeInv, TypeOK
<1>2. exec[w] \in Receipts
  BY DEF TypeInv, SlotInv
<1>3. pc' \in [Slots -> {"idle"} \cup Working]
  BY DEF TypeInv, TypeOK
<1>4. SlotInv'
  <2> SUFFICES ASSUME NEW v \in Slots
               PROVE  /\ pc'[v] # "idle" => exec[v] \in Receipts
                      /\ pc'[v] \in {"request", "write", "mark"} => Recorded(exec[v])'
                      /\ pc'[v] = "write" => exec[v][2] # "read"
    BY DEF SlotInv
  <2>1. CASE v = w
    BY <1>1, <1>2, <2>1
  <2>2. CASE v # w
    BY <1>1, <2>2 DEF TypeInv, SlotInv, StaysRecorded
  <2> QED BY <2>1, <2>2
<1> QED BY <1>2, <1>3, <1>4

(* ... or ends ...                                                         *)
LEMMA SlotEnds ==
    ASSUME TypeInv, StaysRecorded, NEW w \in Slots, Goto(w, "idle"),
           exec' = [exec EXCEPT ![w] = None]
    PROVE  /\ SlotInv' /\ pc' \in [Slots -> {"idle"} \cup Working]
           /\ exec' \in [Slots -> Receipts \cup {None}]
<1>1. pc'[w] = "idle" /\ \A v \in Slots \ {w} : pc'[v] = pc[v] /\ exec'[v] = exec[v]
  BY DEF TypeInv, TypeOK
<1>2. SlotInv'
  BY <1>1 DEF TypeInv, SlotInv, StaysRecorded
<1> QED BY <1>2 DEF TypeInv, TypeOK

(* ... or none does anything.                                              *)
LEMMA SlotsStay ==
    ASSUME TypeInv, StaysRecorded, UNCHANGED slots PROVE SlotInv'
BY DEF TypeInv, SlotInv, StaysRecorded

LEMMA DeliverType ==
    ASSUME TypeInv, NEW m \in Messages, Deliver(m) PROVE TypeInv'
<1> USE WebhooksAssumption DEF TypeInv
<1>1. /\ UNCHANGED <<queue, slots, unmatched, verify, overtaken, expiry, faults>>
      /\ attempt[m] \notin {"done", "closed"} /\ status' \in {status, "sent", "failed"}
      /\ attempt[m] \notin {"mark", "refused"} => status' = status
  BY DEF Deliver, Send, RecordMessage, RecordSent, MarkSent, Refuse, MarkFailed,
         SendDirect, ResendRefused, TypeOK
<1>2. \E label \in {"message", "event", "mark", "done", "refused", "closed"} :
         attempt' = [attempt EXCEPT ![m] = label]
  BY DEF Deliver, Send, RecordMessage, RecordSent, MarkSent, Refuse, MarkFailed,
         SendDirect, ResendRefused
<1>3. attempt' \in [Messages -> {"send", "message", "event", "mark", "refused", "closed", "done"}]
  BY <1>2 DEF TypeOK
<1>4. shown' \in [Messages -> AllTypes \cup {"none"}]
  BY DEF Deliver, Send, RecordMessage, RecordSent, MarkSent, Refuse, MarkFailed,
         SendDirect, ResendRefused, TypeOK
<1>5. rows' \in [Messages \X AllTypes -> Nat] /\ \A r \in Receipts : rows[r] > 0 => rows'[r] > 0
  <2>1. CASE rows' = rows
    BY <2>1 DEF TypeOK
  <2>2. CASE RecordSent(m)
    <3>1. PICK s \in Messages \X AllTypes : s = <<m, "sent">>
      <4>1. <<m, "sent">> \in Messages \X AllTypes
        OBVIOUS
      <4> QED BY <4>1
    <3>2. rows' = [rows EXCEPT ![s] = @ + 1] /\ rows[s] \in Nat
      BY <2>2, <3>1 DEF RecordSent, TypeOK
    <3>3. rows' \in [Messages \X AllTypes -> Nat] /\ rows'[s] = rows[s] + 1
      BY <3>1, <3>2 DEF TypeOK
    <3>4. \A r \in Receipts : r # s => rows'[r] = rows[r]
      BY <3>2 DEF TypeOK
    <3> QED BY <3>2, <3>3, <3>4
  <2> QED BY <2>1, <2>2 DEF Deliver, Send, RecordMessage, MarkSent, Refuse, MarkFailed,
         SendDirect, ResendRefused
<1>6. StaysRecorded
  BY <1>1, <1>5 DEF StaysRecorded, Recorded, TypeOK
<1>7. TypeOK'
  BY <1>1, <1>3, <1>4, <1>5 DEF TypeOK
<1>8. JobInv'
  BY <1>1 DEF JobInv
<1>9. SlotInv'
  BY <1>1, <1>6, SlotsStay
<1>10. CompletedIsRecorded'
  BY <1>1, <1>6 DEF CompletedIsRecorded, StaysRecorded, Recorded
<1>11. VerifyInv'
  BY <1>1 DEF VerifyInv, Readers
<1> QED BY <1>7, <1>8, <1>9, <1>10, <1>11

(* The queue changes, and nothing that is recorded.                         *)
LEMMA QueueType ==
    ASSUME TypeInv, TypeOK', UNCHANGED <<attempt, rows, unmatched, status, verify, overtaken, expiry>>,
           JobInv', SlotInv',
           \A w \in Slots : pc'[w] = "write" => pc[w] = "write",
           \A r \in Receipts : receipt'[r] = "completed" => receipt[r] = "completed" \/ Recorded(r)
    PROVE  TypeInv'
<1>1. CompletedIsRecorded'
  BY DEF TypeInv, CompletedIsRecorded, Recorded
<1>2. VerifyInv'
  BY DEF TypeInv, VerifyInv, Readers
<1> QED BY <1>1, <1>2 DEF TypeInv

LEMMA IngestType ==
    ASSUME TypeInv, NEW r \in Receipts, faults' \in 0..MaxFaults,
           Ingest(r) \/ Enqueue(r) \/ EnqueueFails(r)
    PROVE  TypeInv'
<1> USE DEF TypeInv
<1>1. PICK to \in {"stored", "waiting", "unqueued"} : receipt' = [receipt EXCEPT ![r] = to]
  BY DEF Ingest, Enqueue, EnqueueFails
<1>2. /\ UNCHANGED <<made, stalls, owner, slots, attempt, tables, request>>
      /\ receipt[r] \in {"none", "stored"}
  BY DEF Ingest, Enqueue, EnqueueFails
<1>3. receipt'[r] = to /\ \A s \in Receipts \ {r} : receipt'[s] = receipt[s]
  BY <1>1 DEF TypeOK
<1>4. TypeOK'
  BY <1>1, <1>2 DEF TypeOK
<1>5. JobInv'
  BY <1>2, <1>3 DEF JobInv
<1>6. SlotInv'
  BY <1>2, SlotsStay DEF StaysRecorded, Recorded
<1> QED BY <1>2, <1>3, <1>4, <1>5, <1>6, QueueType

LEMMA PickType ==
    ASSUME TypeInv, NEW w \in Slots, NEW r \in Receipts, Pick(w, r) PROVE TypeInv'
<1> USE DEF TypeInv, Pick
<1>1. receipt'[r] = "active" /\ \A s \in Receipts \ {r} : receipt'[s] = receipt[s]
  BY DEF TypeOK
<1>2. \A s \in Receipts \ {r} : owner'[s] = owner[s]
  BY DEF TypeOK
<1>3. pc'[w] = "find" /\ \A v \in Slots \ {w} : pc'[v] = pc[v] /\ exec'[v] = exec[v]
  BY DEF TypeOK
<1>4. exec'[w] = r
  BY DEF TypeOK
<1>5. TypeOK'
  BY DEF TypeOK
<1>6. JobInv'
  BY <1>1, <1>2 DEF JobInv
<1>7. SlotInv'
  BY <1>3, <1>4 DEF SlotInv, Recorded
<1> QED BY <1>1, <1>3, <1>5, <1>6, <1>7, QueueType

LEMMA StallType ==
    ASSUME TypeInv, NEW r \in Receipts, faults' \in 0..MaxFaults, Stall(r) PROVE TypeInv'
<1> USE WebhooksAssumption DEF TypeInv, Stall
<1>1. /\ receipt[r] = "active" /\ made[r] < MaxTries
      /\ stalls[r] \in Nat /\ stalls[r] <= MaxStalls
  BY DEF JobInv, TypeOK
<1>2. PICK to : receipt' = [receipt EXCEPT ![r] = to] /\
                \/ to = "waiting" /\ stalls[r] < MaxStalls
                \/ to = "failed"
  BY <1>1
<1>3. receipt'[r] = to /\ \A s \in Receipts \ {r} : receipt'[s] = receipt[s]
  BY <1>2 DEF TypeOK
<1>4. stalls'[r] = stalls[r] + 1 /\ \A s \in Receipts \ {r} : stalls'[s] = stalls[s]
  BY DEF TypeOK
<1>5. owner'[r] = None /\ \A s \in Receipts \ {r} : owner'[s] = owner[s]
  BY DEF TypeOK
<1>6. TypeOK'
  <2>1. receipt' \in [Receipts -> {"none", "stored", "unqueued", "waiting", "active",
                                   "completed", "failed"}]
    BY <1>2 DEF TypeOK
  <2>2. stalls' \in [Receipts -> 0..MaxStalls+1]
    BY <1>1 DEF TypeOK
  <2> QED BY <2>1, <2>2 DEF TypeOK
<1>7. JobInv'
  <2> SUFFICES ASSUME NEW s \in Receipts
               PROVE  /\ receipt'[s] \notin {"completed", "failed"} =>
                            made'[s] < MaxTries /\ stalls'[s] <= MaxStalls
                      /\ owner'[s] # None => receipt'[s] = "active"
    BY DEF JobInv
  <2>1. CASE s = r
    BY <1>1, <1>2, <1>3, <1>4, <1>5, <2>1
  <2>2. CASE s # r
    BY <1>3, <1>4, <1>5, <2>2 DEF JobInv
  <2> QED BY <2>1, <2>2
<1>8. SlotInv'
  BY SlotsStay DEF StaysRecorded, Recorded
<1> QED BY <1>2, <1>3, <1>6, <1>7, <1>8, QueueType

(* An execution ends; if it owns the job, the job is over or tried again.    *)
LEMMA EndType ==
    ASSUME TypeInv, NEW w \in Slots, faults' \in 0..MaxFaults,
           (Complete(w) /\ faults' = faults) \/ Throw(w) \/ Crash(w)
    PROVE  TypeInv'
<1> USE WebhooksAssumption DEF TypeInv
<1>1. pc[w] # "idle" /\ exec[w] \in Receipts
  BY DEF Complete, Throw, Crash, SlotInv
<1>2. PICK r \in Receipts : r = exec[w]
  BY <1>1
<1>3. /\ Goto(w, "idle") /\ exec' = [exec EXCEPT ![w] = None]
      /\ UNCHANGED <<stalls, attempt, tables, request>>
  BY DEF Complete, Throw, Crash
<1>4. SlotInv' /\ pc' \in [Slots -> {"idle"} \cup Working] /\ exec' \in [Slots -> Receipts \cup {None}]
  BY <1>3, SlotEnds DEF StaysRecorded, Recorded
<1>5. \A v \in Slots : pc'[v] = "write" => pc[v] = "write"
  BY <1>3 DEF TypeOK
<1>6. CASE UNCHANGED queue
  <2>1. TypeOK'
    BY <1>3, <1>4, <1>6 DEF TypeOK
  <2>2. JobInv'
    BY <1>6 DEF JobInv
  <2> QED BY <1>3, <1>4, <1>5, <1>6, <2>1, <2>2, QueueType
<1>7. ASSUME owner[r] = w, owner' = [owner EXCEPT ![r] = None],
             NEW to \in {"completed", "waiting", "failed"}, receipt' = [receipt EXCEPT ![r] = to],
             \/ to = "completed" /\ UNCHANGED made /\ Recorded(r)
             \/ /\ made' = [made EXCEPT ![r] = @ + 1]
                /\ to # "completed" /\ (to = "waiting" => made[r] + 1 < MaxTries)
      PROVE  TypeInv'
  <2>1. receipt[r] = "active" /\ made[r] < MaxTries /\ stalls[r] <= MaxStalls /\ made[r] \in Nat
    BY <1>7 DEF JobInv, TypeOK
  <2>2. receipt'[r] = to /\ \A s \in Receipts \ {r} : receipt'[s] = receipt[s]
    BY <1>7 DEF TypeOK
  <2>3. owner'[r] = None /\ \A s \in Receipts \ {r} : owner'[s] = owner[s] /\ made'[s] = made[s]
    BY <1>7 DEF TypeOK
  <2>4. made' \in [Receipts -> 0..MaxTries] /\ (to = "waiting" => made'[r] < MaxTries)
    BY <1>7, <2>1 DEF TypeOK
  <2>5. TypeOK'
    BY <1>3, <1>4, <1>7, <2>4 DEF TypeOK
  <2>6. JobInv'
    BY <1>3, <2>1, <2>2, <2>3, <2>4 DEF JobInv
  <2> QED BY <1>3, <1>4, <1>5, <1>7, <2>2, <2>5, <2>6, QueueType
<1>8. CASE Complete(w) /\ owner[r] = w
  <2>1. Recorded(r) /\ "completed" \in {"completed", "waiting", "failed"}
    BY <1>2, <1>8 DEF Complete, SlotInv
  <2>2. /\ owner' = [owner EXCEPT ![r] = None] /\ UNCHANGED made
        /\ receipt' = [receipt EXCEPT ![r] = "completed"]
    BY <1>2, <1>8 DEF Complete
  <2> QED BY <1>7, <1>8, <2>1, <2>2
<1>9. CASE Throw(w) /\ owner[r] = w
  <2>1. PICK to \in {"completed", "waiting", "failed"} :
           /\ receipt' = [receipt EXCEPT ![r] = to] /\ to # "completed"
           /\ to = "waiting" => made[r] + 1 < MaxTries
    BY <1>2, <1>9 DEF Throw
  <2>2. owner' = [owner EXCEPT ![r] = None] /\ made' = [made EXCEPT ![r] = @ + 1]
    BY <1>2, <1>9 DEF Throw
  <2> QED BY <1>7, <1>9, <2>1, <2>2
<1> QED BY <1>2, <1>6, <1>8, <1>9 DEF Complete, Throw, Crash

LEMMA StepType ==
    ASSUME TypeInv, NEW w \in Slots, Step(w) PROVE TypeInv'
<1> USE WebhooksAssumption DEF TypeInv
<1>1. PICK r : r = exec[w]
  OBVIOUS
<1>2. pc[w] # "idle" => r \in Receipts /\ r[1] \in Messages /\ r[2] \in AllTypes /\ rows[r] \in Nat
  BY <1>1 DEF SlotInv, TypeOK
<1>3. ASSUME pc[w] # "idle", StaysRecorded, UNCHANGED <<queue, attempt, faults, verify, overtaken, expiry>>,
             SlotInv', pc' \in [Slots -> {"idle"} \cup Working], UNCHANGED exec,
             rows' \in [Messages \X AllTypes -> Nat],
             shown' \in [Messages -> AllTypes \cup {"none"}], unmatched' \subseteq Receipts,
             status' \in Statuses, status' = "verified" => status = "verified",
             \A v \in Slots : pc'[v] = "write" => pc[v] = "write" \/ status # "verified"
      PROVE  TypeInv'
  <2>1. TypeOK'
    BY <1>3 DEF TypeOK
  <2>2. JobInv'
    BY <1>3 DEF JobInv
  <2>3. CompletedIsRecorded'
    BY <1>3 DEF CompletedIsRecorded, StaysRecorded, Recorded
  <2>4. VerifyInv'
    BY <1>3 DEF VerifyInv, Readers
  <2> QED BY <1>3, <2>1, <2>2, <2>3, <2>4
<1>4. CASE FindMessage(w)
  <2>1. PICK label \in Working : Goto(w, label) /\
           \/ label = "mark" /\ unmatched' = unmatched \cup {r}
           \/ label = "request" /\ rows[r] > 0 /\ unmatched' = unmatched
           \/ label = "update" /\ unmatched' = unmatched
    BY <1>1, <1>4 DEF FindMessage
  <2>2. pc[w] = "find" /\ UNCHANGED <<faults, queue, exec, attempt, rows, shown, request>>
    BY <1>4 DEF FindMessage
  <2>3. StaysRecorded /\ unmatched' \subseteq Receipts
    BY <1>2, <2>1, <2>2 DEF StaysRecorded, Recorded, TypeOK
  <2>4. label \in {"request", "write", "mark"} => Recorded(exec[w])'
    BY <1>1, <2>1, <2>2 DEF Recorded
  <2>5. SlotInv' /\ pc' \in [Slots -> {"idle"} \cup Working]
    BY <2>1, <2>2, <2>3, <2>4, SlotMoves
  <2>6. \A v \in Slots : pc'[v] = "write" => pc[v] = "write"
    BY <2>1 DEF TypeOK
  <2> QED BY <1>3, <2>2, <2>3, <2>5, <2>6 DEF TypeOK
<1>5. CASE UpdateMessage(w)
  <2>1. /\ Goto(w, "event") /\ "event" \in Working /\ pc[w] = "update"
        /\ UNCHANGED <<faults, queue, exec, attempt, rows, unmatched, request>>
        /\ shown' = [shown EXCEPT ![r[1]] = r[2]]
    BY <1>1, <1>5 DEF UpdateMessage
  <2>2. StaysRecorded
    BY <2>1 DEF StaysRecorded, Recorded
  <2>3. SlotInv' /\ pc' \in [Slots -> {"idle"} \cup Working]
    BY <2>1, <2>2, SlotMoves
  <2>4. shown' \in [Messages -> AllTypes \cup {"none"}]
    BY <1>2, <2>1 DEF TypeOK
  <2>5. \A v \in Slots : pc'[v] = "write" => pc[v] = "write"
    BY <2>1 DEF TypeOK
  <2> QED BY <1>3, <2>1, <2>2, <2>3, <2>4, <2>5 DEF TypeOK
<1>6. CASE RecordEvent(w)
  <2>1. /\ Goto(w, "request") /\ "request" \in Working /\ pc[w] = "event"
        /\ UNCHANGED <<faults, queue, exec, attempt, shown, unmatched, request>>
        /\ rows' = [rows EXCEPT ![r] = @ + 1]
    BY <1>1, <1>6 DEF RecordEvent
  <2>2. rows' \in [Messages \X AllTypes -> Nat] /\ rows'[r] = rows[r] + 1
        /\ \A s \in Receipts \ {r} : rows'[s] = rows[s]
    BY <1>2, <2>1 DEF TypeOK
  <2>3. StaysRecorded
    BY <1>2, <2>1, <2>2 DEF StaysRecorded, Recorded
  <2>4. Recorded(exec[w])'
    BY <1>1, <1>2, <2>1, <2>2 DEF Recorded
  <2>5. SlotInv' /\ pc' \in [Slots -> {"idle"} \cup Working]
    BY <2>1, <2>3, <2>4, SlotMoves
  <2>6. \A v \in Slots : pc'[v] = "write" => pc[v] = "write"
    BY <2>1 DEF TypeOK
  <2> QED BY <1>3, <2>1, <2>2, <2>3, <2>5, <2>6 DEF TypeOK
<1>7. CASE ReadRequest(w)
  <2>1. PICK label \in Working : Goto(w, label) /\
           (label = "mark" \/ (label = "write" /\ status # "verified" /\ exec[w][2] # "read"))
    BY <1>7 DEF ReadRequest
  <2>2. pc[w] = "request" /\ UNCHANGED <<faults, queue, exec, attempt, tables, request>>
    BY <1>7 DEF ReadRequest
  <2>3. StaysRecorded /\ Recorded(exec[w])'
    BY <2>2 DEF StaysRecorded, Recorded, SlotInv
  <2>4. SlotInv' /\ pc' \in [Slots -> {"idle"} \cup Working]
    BY <2>1, <2>2, <2>3, SlotMoves
  <2>5. \A v \in Slots : pc'[v] = "write" => pc[v] = "write" \/ status # "verified"
    BY <2>1 DEF TypeOK
  <2> QED BY <1>3, <2>2, <2>3, <2>4, <2>5 DEF TypeOK
<1>8. CASE WriteRequest(w)
  <2>1. /\ Goto(w, "mark") /\ "mark" \in Working /\ pc[w] = "write" /\ status' = r[2]
        /\ UNCHANGED <<faults, queue, exec, attempt, tables, verify, overtaken, expiry>>
    BY <1>1, <1>8 DEF WriteRequest
  <2>2. StaysRecorded /\ Recorded(exec[w])'
    BY <2>1 DEF StaysRecorded, Recorded, SlotInv
  <2>3. SlotInv' /\ pc' \in [Slots -> {"idle"} \cup Working]
    BY <2>1, <2>2, SlotMoves
  <2>4. \A v \in Slots : pc'[v] = "write" => pc[v] = "write"
    BY <2>1 DEF TypeOK
  <2>5. status' \in Statuses /\ status' # "verified"
    BY <1>1, <1>2, <2>1 DEF SlotInv
  <2> QED BY <1>3, <2>1, <2>2, <2>3, <2>4, <2>5 DEF TypeOK
<1>9. CASE Complete(w)
  <2>1. faults' \in 0..MaxFaults /\ faults' = faults
    BY <1>9 DEF Complete, TypeOK
  <2> QED BY <1>9, <2>1, EndType
<1> QED BY <1>4, <1>5, <1>6, <1>7, <1>8, <1>9 DEF Step

(* The other writers look at the status first, except when it was read.      *)
LEMMA RequestType ==
    ASSUME TypeInv,
           \/ Expire \/ StatusRead \/ ResendRead \/ StatusExpire
           \/ VerifyGet \/ VerifyMark \/ VerifyExpire
    PROVE  TypeInv'
<1> USE DEF TypeInv
<1>1. UNCHANGED <<faults, queue, slots, attempt, tables>>
  BY DEF Expire, StatusRead, ResendRead, StatusExpire, VerifyGet, VerifyMark,
       VerifyExpire
<1>2. TypeOK'
  BY <1>1 DEF TypeOK, Expire, StatusRead, ResendRead, StatusExpire, VerifyGet, VerifyMark,
       VerifyExpire, Readers
<1>3. JobInv' /\ CompletedIsRecorded'
  BY <1>1 DEF JobInv, CompletedIsRecorded
<1>4. SlotInv'
  BY <1>1, SlotsStay DEF StaysRecorded, Recorded
<1>5. VerifyInv'
  BY <1>1 DEF VerifyInv, Readers, Expire, StatusRead, ResendRead, StatusExpire, VerifyGet,
       VerifyMark, VerifyExpire
<1> QED BY <1>2, <1>3, <1>4, <1>5

LEMMA FaultType ==
    ASSUME TypeInv, Fault PROVE TypeInv'
<1> USE WebhooksAssumption DEF TypeInv
<1>1. faults' \in 0..MaxFaults
  BY DEF Fault, TypeOK
<1>2. ASSUME NEW m \in Messages, AttemptLost(m) PROVE TypeInv'
  <2>1. /\ UNCHANGED <<queue, slots, tables, request>>
        /\ attempt[m] \in {"message", "event", "mark", "refused"}
        /\ \E label \in {"closed", "done"} : attempt' = [attempt EXCEPT ![m] = label]
    BY <1>2 DEF AttemptLost
  <2>2. TypeOK'
    BY <1>1, <2>1 DEF TypeOK
  <2>3. JobInv' /\ CompletedIsRecorded'
    BY <2>1 DEF JobInv, CompletedIsRecorded
  <2>4. SlotInv'
    BY <2>1, SlotsStay DEF StaysRecorded, Recorded
  <2>5. VerifyInv'
    BY <2>1 DEF VerifyInv, Readers
  <2> QED BY <2>2, <2>3, <2>4, <2>5
<1>3. ASSUME NEW r \in Receipts, EnqueueFails(r) \/ StallLate(r) PROVE TypeInv'
  BY <1>1, <1>3, IngestType, StallType DEF StallLate
<1>4. ASSUME NEW w \in Slots, Throw(w) \/ Crash(w) PROVE TypeInv'
  BY <1>1, <1>4, EndType
<1> QED BY <1>2, <1>3, <1>4 DEF Fault

LEMMA TypeNext == TypeInv /\ [Next]_vars => TypeInv'
<1> SUFFICES ASSUME TypeInv, [Next]_vars PROVE TypeInv'
  OBVIOUS
<1>1. ASSUME NEW m \in Messages, Deliver(m) PROVE TypeInv'
  BY <1>1, DeliverType
<1>2. ASSUME UNCHANGED faults PROVE faults' \in 0..MaxFaults
  BY <1>2 DEF TypeInv, TypeOK
<1>3. ASSUME NEW r \in Receipts, Ingest(r) \/ Enqueue(r) PROVE TypeInv'
  <2>1. UNCHANGED faults
    BY <1>3 DEF Ingest, Enqueue
  <2> QED BY <1>2, <1>3, <2>1, IngestType
<1>4. ASSUME NEW w \in Slots, NEW r \in Receipts, Pick(w, r) PROVE TypeInv'
  BY <1>4, PickType
<1>5. ASSUME NEW r \in Receipts, StallDead(r) PROVE TypeInv'
  BY <1>2, <1>5, StallType DEF StallDead
<1>6. ASSUME NEW w \in Slots, Step(w) PROVE TypeInv'
  BY <1>6, StepType
<1>7. CASE UNCHANGED vars
  <2>1. TypeOK'
    BY <1>7 DEF vars, TypeInv, TypeOK
  <2>2. JobInv' /\ SlotInv' /\ CompletedIsRecorded' /\ VerifyInv'
    BY <1>7 DEF vars, TypeInv, JobInv, SlotInv, Recorded, CompletedIsRecorded, VerifyInv, Readers
  <2> QED BY <2>1, <2>2 DEF TypeInv
<1> QED BY <1>1, <1>3, <1>4, <1>5, <1>6, <1>7, RequestType, FaultType DEF Next

-----------------------------------------------------------------------------
(* Executions of a job *)

LEMMA CountsAreNat ==
    ASSUME NEW r
    PROVE  /\ IsFiniteSet(Executing(r)) /\ IsFiniteSet(Recording(r))
           /\ Cardinality(Executing(r)) \in Nat /\ Cardinality(Recording(r)) \in Nat
           /\ Cardinality(Recording(r)) <= Cardinality(Executing(r))
<1>1. Executing(r) \subseteq Slots /\ Recording(r) \subseteq Executing(r)
  BY DEF Executing, Recording
<1>2. IsFiniteSet(Executing(r)) /\ IsFiniteSet(Recording(r))
  BY <1>1, WebhooksAssumption, FS_Subset
<1> QED BY <1>1, <1>2, FS_CardinalityType, FS_Subset

LEMMA CountInit == Init => CountInv
<1> SUFFICES ASSUME Init, NEW r \in Receipts
             PROVE  /\ Cardinality(Executing(r)) <= Allowed(r)
                    /\ rows[r] + Cardinality(Recording(r)) <= 1 + stalls[r] + Delivered(r)
  BY DEF CountInv
<1> USE WebhooksAssumption DEF Init
<1>1. Executing(r) = {} /\ Recording(r) = {}
  BY DEF Executing, Recording, Executes
<1>2. rows[r] = 0
  <2>1. r \in Messages \X AllTypes
    OBVIOUS
  <2> QED BY <2>1
<1>3. stalls[r] = 0 /\ Allowed(r) = 0
  BY DEF Allowed
<1> QED BY <1>1, <1>2, <1>3, FS_EmptySet DEF Delivered

(* Nobody begins to execute a job or to record an event.                    *)
KeepsCounts ==
    /\ \A r \in Receipts :
          /\ Allowed(r) <= Allowed(r)' /\ stalls[r] <= stalls'[r]
          /\ rows'[r] + Delivered(r) <= rows[r] + Delivered(r)'
    /\ \A w \in Slots : pc'[w] # "idle" => pc[w] # "idle" /\ exec'[w] = exec[w]
    /\ \A w \in Slots : pc'[w] \in {"update", "event"} => pc[w] \in {"update", "event"}

LEMMA NumbersAreNat ==
    ASSUME TypeOK, NEW r \in Receipts
    PROVE  /\ stalls[r] \in Nat /\ Allowed(r) \in Nat /\ rows[r] \in Nat /\ Delivered(r) \in {0, 1}
           /\ Allowed(r) <= stalls[r] + 1
<1>1. stalls[r] \in Nat
  BY WebhooksAssumption DEF TypeOK
<1>2. r \in Messages \X AllTypes
  BY WebhooksAssumption
<1>3. rows[r] \in Nat
  BY <1>2 DEF TypeOK
<1> QED BY <1>1, <1>3 DEF Allowed, Delivered

LEMMA NumbersStayNat ==
    ASSUME TypeOK', NEW r \in Receipts
    PROVE  /\ stalls'[r] \in Nat /\ Allowed(r)' \in Nat
           /\ rows'[r] \in Nat /\ Delivered(r)' \in {0, 1}
<1>1. stalls'[r] \in Nat
  BY WebhooksAssumption DEF TypeOK
<1>2. r \in Messages \X AllTypes
  BY WebhooksAssumption
<1>3. rows'[r] \in Nat
  BY <1>2 DEF TypeOK
<1> QED BY <1>1, <1>3 DEF Allowed, Delivered

LEMMA QuietCount ==
    ASSUME TypeOK, TypeOK', CountInv, KeepsCounts PROVE CountInv'
<1> SUFFICES ASSUME NEW r \in Receipts
             PROVE  /\ Cardinality(Executing(r)') <= Allowed(r)'
                    /\ rows'[r] + Cardinality(Recording(r)') <= 1 + stalls'[r] + Delivered(r)'
  BY DEF CountInv
<1>1. Executing(r)' \subseteq Executing(r) /\ Recording(r)' \subseteq Recording(r)
  BY DEF KeepsCounts, Executing, Recording, Executes
<1>2. /\ Cardinality(Executing(r)') <= Cardinality(Executing(r)) /\ Cardinality(Executing(r)') \in Nat
      /\ Cardinality(Recording(r)') <= Cardinality(Recording(r)) /\ Cardinality(Recording(r)') \in Nat
  BY <1>1, CountsAreNat, FS_Subset, FS_CardinalityType
<1>3. /\ stalls[r] \in Nat /\ Allowed(r) \in Nat /\ rows[r] \in Nat /\ Delivered(r) \in Nat
      /\ stalls'[r] \in Nat /\ Allowed(r)' \in Nat /\ rows'[r] \in Nat /\ Delivered(r)' \in Nat
  BY NumbersAreNat, NumbersStayNat
<1>4. Cardinality(Executing(r)) \in Nat /\ Cardinality(Recording(r)) \in Nat
  BY CountsAreNat
<1>5. /\ Cardinality(Executing(r)) <= Allowed(r)
      /\ rows[r] + Cardinality(Recording(r)) <= 1 + stalls[r] + Delivered(r)
  BY DEF CountInv
<1>6. /\ Allowed(r) <= Allowed(r)' /\ stalls[r] <= stalls'[r]
      /\ rows'[r] + Delivered(r) <= rows[r] + Delivered(r)'
  BY DEF KeepsCounts
<1> QED BY <1>2, <1>3, <1>4, <1>5, <1>6

(* A slot begins to execute a job that nobody owns.                         *)
LEMMA PickCount ==
    ASSUME TypeOK, CountInv, NEW w \in Slots, NEW r \in Receipts, Pick(w, r) PROVE CountInv'
<1> SUFFICES ASSUME NEW s \in Receipts
             PROVE  /\ Cardinality(Executing(s)') <= Allowed(s)'
                    /\ rows'[s] + Cardinality(Recording(s)') <= 1 + stalls'[s] + Delivered(s)'
  BY DEF CountInv
<1>1. /\ pc[w] = "idle" /\ pc'[w] = "find" /\ exec'[w] = r
      /\ \A v \in Slots \ {w} : pc'[v] = pc[v] /\ exec'[v] = exec[v]
  BY DEF Pick, TypeOK
<1>2. /\ receipt[r] = "waiting" /\ receipt'[r] = "active" /\ UNCHANGED <<stalls, rows, attempt>>
      /\ \A t \in Receipts \ {r} : receipt'[t] = receipt[t]
  BY DEF Pick, TypeOK
<1>3. Recording(s)' = Recording(s) /\ Delivered(s)' = Delivered(s)
  BY <1>1, <1>2 DEF Recording, Executes, Delivered
<1>4. rows'[s] + Cardinality(Recording(s)') <= 1 + stalls'[s] + Delivered(s)'
  BY <1>2, <1>3 DEF CountInv
<1>5. CASE s = r
  <2>1. Executing(s)' = Executing(s) \cup {w} /\ w \notin Executing(s)
    BY <1>1, <1>5 DEF Executing, Executes
  <2>2. Cardinality(Executing(s)') = Cardinality(Executing(s)) + 1
    BY <2>1, CountsAreNat, FS_AddElement
  <2>3. Allowed(s)' = Allowed(s) + 1
    BY <1>2, <1>5, NumbersAreNat DEF Allowed
  <2>4. Cardinality(Executing(s)) <= Allowed(s) /\ Allowed(s) \in Nat
    BY NumbersAreNat DEF CountInv
  <2>5. Cardinality(Executing(s)) \in Nat
    BY CountsAreNat
  <2> QED BY <1>4, <2>2, <2>3, <2>4, <2>5
<1>6. CASE s # r
  <2>1. Executing(s)' = Executing(s) /\ Allowed(s)' = Allowed(s)
    BY <1>1, <1>2, <1>6 DEF Executing, Executes, Allowed
  <2> QED BY <1>4, <2>1 DEF CountInv
<1> QED BY <1>5, <1>6

(* An execution finds no event: only those beside it may be recording one.   *)
LEMMA FindCount ==
    ASSUME TypeInv, TypeOK', CountInv, NEW w \in Slots, FindMessage(w) PROVE CountInv'
<1>1. /\ pc[w] = "find" /\ UNCHANGED <<queue, exec, attempt, rows>>
      /\ \E label \in {"mark", "request", "update"} :
            Goto(w, label) /\ (label = "update" => ~(rows[exec[w]] > 0))
  BY DEF FindMessage
<1>2. PICK label \in {"mark", "request", "update"} :
         Goto(w, label) /\ (label = "update" => ~(rows[exec[w]] > 0))
  BY <1>1
<1>3. exec[w] \in Receipts /\ pc'[w] = label /\ \A v \in Slots \ {w} : pc'[v] = pc[v]
  BY <1>1, <1>2 DEF TypeInv, TypeOK, SlotInv
<1>4. PICK r \in Receipts : r = exec[w]
  BY <1>3
<1>5. \A s \in Receipts : /\ Delivered(s)' = Delivered(s) /\ Allowed(s)' = Allowed(s)
                          /\ Allowed(s) \in Nat /\ stalls[s] \in Nat
                          /\ rows[s] \in Nat /\ Delivered(s) \in Nat
  BY <1>1, NumbersAreNat DEF TypeInv, Delivered, Allowed
<1>6. CASE label # "update"
  <2>1. KeepsCounts
    BY <1>1, <1>2, <1>3, <1>5, <1>6 DEF KeepsCounts
  <2> QED BY <2>1, QuietCount DEF TypeInv
<1>7. CASE label = "update"
  <2> SUFFICES ASSUME NEW s \in Receipts
               PROVE  /\ Cardinality(Executing(s)') <= Allowed(s)'
                      /\ rows'[s] + Cardinality(Recording(s)') <= 1 + stalls'[s] + Delivered(s)'
    BY DEF CountInv
  <2>1. Executing(s)' = Executing(s)
    BY <1>1, <1>3, <1>7 DEF Executing, Executes
  <2>2. Cardinality(Executing(s)') <= Allowed(s)' /\ Cardinality(Executing(s)) <= Allowed(s)
    BY <1>5, <2>1 DEF CountInv
  <2>3. CASE s = r
    <3>1. rows[s] = 0
      BY <1>2, <1>4, <1>5, <1>7, <2>3
    <3>2. Cardinality(Recording(s)') <= Cardinality(Executing(s)') /\ Cardinality(Recording(s)') \in Nat
      <4>1. Recording(s)' \subseteq Executing(s)'
        BY DEF Recording, Executing
      <4>2. IsFiniteSet(Executing(s)')
        BY <2>1, CountsAreNat
      <4> QED BY <4>1, <4>2, FS_Subset, FS_CardinalityType
    <3>3. Cardinality(Executing(s)') \in Nat /\ Allowed(s) <= stalls[s] + 1
      BY <2>1, CountsAreNat, NumbersAreNat DEF TypeInv
    <3> QED BY <1>1, <1>5, <2>2, <3>1, <3>2, <3>3
  <2>4. CASE s # r
    <3>1. Recording(s)' = Recording(s)
      BY <1>1, <1>3, <1>4, <2>4 DEF Recording, Executes
    <3> QED BY <1>1, <1>5, <2>2, <3>1 DEF CountInv
  <2> QED BY <2>2, <2>3, <2>4
<1> QED BY <1>6, <1>7

(* An execution that was about to record the event has recorded it.          *)
LEMMA RecordCount ==
    ASSUME TypeInv, CountInv, NEW w \in Slots, RecordEvent(w) PROVE CountInv'
<1> SUFFICES ASSUME NEW s \in Receipts
             PROVE  /\ Cardinality(Executing(s)') <= Allowed(s)'
                    /\ rows'[s] + Cardinality(Recording(s)') <= 1 + stalls'[s] + Delivered(s)'
  BY DEF CountInv
<1>1. /\ pc[w] = "event" /\ Goto(w, "request") /\ UNCHANGED <<queue, exec, attempt>>
      /\ rows' = [rows EXCEPT ![exec[w]] = @ + 1]
  BY DEF RecordEvent
<1>2. exec[w] \in Receipts /\ pc'[w] = "request" /\ \A v \in Slots \ {w} : pc'[v] = pc[v]
  BY <1>1 DEF TypeInv, TypeOK, SlotInv
<1>3. Executing(s)' = Executing(s) /\ Allowed(s)' = Allowed(s) /\ Delivered(s)' = Delivered(s)
  BY <1>1, <1>2 DEF Executing, Executes, Allowed, Delivered
<1>4. /\ Cardinality(Executing(s)) <= Allowed(s)
      /\ rows[s] + Cardinality(Recording(s)) <= 1 + stalls[s] + Delivered(s)
  BY DEF CountInv
<1>5. Cardinality(Recording(s)) \in Nat /\ IsFiniteSet(Recording(s))
  BY CountsAreNat
<1>6. rows[s] \in Nat /\ stalls[s] \in Nat /\ Delivered(s) \in Nat /\ s \in Messages \X AllTypes
  BY WebhooksAssumption, NumbersAreNat DEF TypeInv
<1>7. CASE s = exec[w]
  <2>1. Recording(s)' = Recording(s) \ {w} /\ w \in Recording(s)
    BY <1>1, <1>2, <1>7 DEF Recording, Executes
  <2>2. Cardinality(Recording(s)') = Cardinality(Recording(s)) - 1
    BY <1>5, <2>1, FS_RemoveElement
  <2>3. rows'[s] = rows[s] + 1
    BY <1>1, <1>6, <1>7 DEF TypeInv, TypeOK
  <2> QED BY <1>1, <1>3, <1>4, <1>5, <1>6, <2>2, <2>3
<1>8. CASE s # exec[w]
  <2>1. Recording(s)' = Recording(s)
    BY <1>1, <1>2, <1>8 DEF Recording, Executes
  <2>2. rows'[s] = rows[s]
    BY <1>1, <1>6, <1>8 DEF TypeInv, TypeOK
  <2> QED BY <1>1, <1>3, <1>4, <2>1, <2>2
<1> QED BY <1>7, <1>8

(* An execution ends, and takes the job with it if it owns it.              *)
LEMMA EndCount ==
    ASSUME TypeInv, TypeOK', CountInv, NEW w \in Slots, Complete(w) \/ Throw(w) \/ Crash(w)
    PROVE  CountInv'
<1>1. /\ pc[w] # "idle" /\ Goto(w, "idle") /\ exec' = [exec EXCEPT ![w] = None]
      /\ UNCHANGED <<stalls, attempt, tables>>
  BY DEF Complete, Throw, Crash
<1>2. exec[w] \in Receipts /\ pc'[w] = "idle"
      /\ \A v \in Slots \ {w} : pc'[v] = pc[v] /\ exec'[v] = exec[v]
  BY <1>1 DEF TypeInv, TypeOK, SlotInv
<1>3. PICK r \in Receipts : r = exec[w]
  BY <1>2
<1>4. \A s \in Receipts : /\ Delivered(s)' = Delivered(s)
                          /\ Allowed(s) \in Nat /\ stalls[s] \in Nat
                          /\ rows[s] \in Nat /\ Delivered(s) \in Nat
  BY <1>1, NumbersAreNat DEF TypeInv, Delivered
<1>5. CASE UNCHANGED receipt
  <2>1. \A s \in Receipts : Allowed(s)' = Allowed(s)
    BY <1>1, <1>5 DEF Allowed
  <2>2. KeepsCounts
    BY <1>1, <1>2, <1>4, <2>1 DEF KeepsCounts
  <2> QED BY <2>2, QuietCount DEF TypeInv
<1>6. CASE owner[r] = w /\ \A s \in Receipts \ {r} : receipt'[s] = receipt[s]
  <2> SUFFICES ASSUME NEW s \in Receipts
               PROVE  /\ Cardinality(Executing(s)') <= Allowed(s)'
                      /\ rows'[s] + Cardinality(Recording(s)') <= 1 + stalls'[s] + Delivered(s)'
    BY DEF CountInv
  <2>1. Recording(s)' \subseteq Recording(s)
    BY <1>2 DEF Recording, Executes
  <2>2. Cardinality(Recording(s)') <= Cardinality(Recording(s))
        /\ Cardinality(Recording(s)') \in Nat /\ Cardinality(Recording(s)) \in Nat
    BY <2>1, CountsAreNat, FS_Subset, FS_CardinalityType
  <2>3. rows'[s] + Cardinality(Recording(s)') <= 1 + stalls'[s] + Delivered(s)'
    BY <1>1, <1>4, <2>2 DEF CountInv
  <2>4. CASE s = r
    <3>1. Executing(s)' = Executing(s) \ {w} /\ w \in Executing(s)
      BY <1>1, <1>2, <1>3, <2>4 DEF Executing, Executes
    <3>2. Cardinality(Executing(s)') = Cardinality(Executing(s)) - 1
      BY <3>1, CountsAreNat, FS_RemoveElement
    <3>3. Allowed(s)' >= stalls[s] /\ Allowed(s) <= stalls[s] + 1
      BY <1>1, <1>4 DEF Allowed
    <3>4. Allowed(s)' \in Nat /\ Cardinality(Executing(s)) \in Nat
      BY CountsAreNat, NumbersStayNat
    <3> QED BY <1>4, <2>3, <3>2, <3>3, <3>4 DEF CountInv
  <2>5. CASE s # r
    <3>1. Executing(s)' = Executing(s) /\ Allowed(s)' = Allowed(s)
      BY <1>1, <1>2, <1>3, <1>6, <2>5 DEF Executing, Executes, Allowed
    <3> QED BY <2>3, <3>1 DEF CountInv
  <2> QED BY <2>4, <2>5
<1> QED BY <1>3, <1>5, <1>6 DEF Complete, Throw, Crash, TypeInv, TypeOK

LEMMA StallCount ==
    ASSUME TypeInv, TypeOK', CountInv, NEW r \in Receipts, Stall(r) PROVE CountInv'
<1>1. /\ receipt[r] = "active" /\ stalls'[r] = stalls[r] + 1
      /\ \A s \in Receipts \ {r} : receipt'[s] = receipt[s] /\ stalls'[s] = stalls[s]
      /\ UNCHANGED <<slots, attempt, tables>>
  BY DEF Stall, TypeInv, TypeOK
<1>2. ASSUME NEW s \in Receipts
      PROVE  /\ Allowed(s) <= Allowed(s)' /\ stalls[s] <= stalls'[s]
             /\ rows'[s] + Delivered(s) <= rows[s] + Delivered(s)'
  <2>1. /\ stalls[s] \in Nat /\ Allowed(s) \in Nat /\ rows[s] \in Nat /\ Delivered(s) \in Nat
        /\ Delivered(s)' = Delivered(s)
    BY <1>1, NumbersAreNat DEF TypeInv, Delivered
  <2>2. CASE s = r
    BY <1>1, <2>1, <2>2 DEF Allowed
  <2>3. CASE s # r
    BY <1>1, <2>1, <2>3 DEF Allowed
  <2> QED BY <2>2, <2>3
<1>3. KeepsCounts
  BY <1>1, <1>2 DEF KeepsCounts
<1> QED BY <1>3, QuietCount DEF TypeInv

(* The delivery worker records its message once.                            *)
LEMMA DeliverCount ==
    ASSUME TypeInv, TypeOK', CountInv, NEW m \in Messages, Deliver(m) \/ AttemptLost(m)
    PROVE  CountInv'
<1>1. UNCHANGED <<queue, slots>>
  BY DEF Deliver, Send, RecordMessage, RecordSent, MarkSent, Refuse, MarkFailed,
         SendDirect, ResendRefused, AttemptLost
<1>2. ASSUME NEW r \in Receipts PROVE rows'[r] + Delivered(r) <= rows[r] + Delivered(r)'
  <2>1. rows[r] \in Nat /\ Delivered(r) \in {0, 1} /\ Delivered(r)' \in {0, 1} /\ rows'[r] \in Nat
    BY NumbersAreNat, NumbersStayNat DEF TypeInv
  <2>2. r = <<r[1], r[2]>> /\ r[1] \in Messages /\ r \in Messages \X AllTypes
    <3>1. r = <<r[1], r[2]>> /\ r[1] \in Messages
      OBVIOUS
    <3>2. r \in Messages \X AllTypes
      BY WebhooksAssumption
    <3> QED BY <3>1, <3>2
  <2>3. CASE RecordSent(m)
    <3>1. /\ attempt[m] = "event" /\ attempt'[m] = "mark" /\ rows' = [rows EXCEPT ![<<m, "sent">>] = @ + 1]
          /\ \A n \in Messages \ {m} : attempt'[n] = attempt[n]
      BY <2>3 DEF RecordSent, TypeInv, TypeOK
    <3>2. CASE r = <<m, "sent">>
      <4>1. Delivered(r) = 0 /\ Delivered(r)' = 1
        BY <3>1, <3>2 DEF Delivered
      <4>2. rows'[r] = rows[r] + 1
        BY <2>2, <3>1, <3>2 DEF TypeInv, TypeOK
      <4> QED BY <2>1, <4>1, <4>2
    <3>3. CASE r # <<m, "sent">>
      <4>1. rows'[r] = rows[r]
        BY <2>2, <3>1, <3>3 DEF TypeInv, TypeOK
      <4>2. Delivered(r)' = Delivered(r)
        BY <2>2, <3>1, <3>3 DEF Delivered
      <4> QED BY <2>1, <4>1, <4>2
    <3> QED BY <3>2, <3>3
  <2>4. CASE ~RecordSent(m)
    <3>1. PICK from, to : /\ attempt[m] = from /\ attempt' = [attempt EXCEPT ![m] = to]
                          /\ to \in {"send", "message", "event"} => from \in {"send", "message", "event"}
      <4>1. CASE Deliver(m)
        BY <2>4, <4>1 DEF Deliver, Send, RecordMessage, MarkSent, Refuse, MarkFailed,
         SendDirect, ResendRefused
      <4>2. CASE AttemptLost(m)
        <5>1. \E label \in {"closed", "done"} : attempt' = [attempt EXCEPT ![m] = label]
          BY <4>2 DEF AttemptLost
        <5> QED BY <5>1
      <4> QED BY <4>1, <4>2
    <3>2. rows' = rows
      BY <2>4 DEF Deliver, Send, RecordMessage, MarkSent, Refuse, MarkFailed,
         SendDirect, ResendRefused, AttemptLost
    <3>3. attempt[r[1]] \notin {"send", "message", "event"}
             => attempt'[r[1]] \notin {"send", "message", "event"}
      BY <2>2, <3>1 DEF TypeInv, TypeOK
    <3> QED BY <2>1, <3>2, <3>3 DEF Delivered
  <2> QED BY <2>3, <2>4
<1>3. \A r \in Receipts : Allowed(r)' = Allowed(r) /\ Allowed(r) \in Nat /\ stalls[r] \in Nat
  BY <1>1, NumbersAreNat DEF TypeInv, Allowed
<1>4. KeepsCounts
  BY <1>1, <1>2, <1>3 DEF KeepsCounts
<1> QED BY <1>4, QuietCount DEF TypeInv

(* A job is not executed, and no event recorded.                            *)
LEMMA MoveCount ==
    ASSUME TypeInv, TypeOK', CountInv, UNCHANGED <<stalls, exec, attempt, rows>>,
           \A r \in Receipts : receipt[r] = "active" => receipt'[r] = "active",
           \A w \in Slots : /\ pc'[w] # "idle" => pc[w] # "idle"
                            /\ pc'[w] \in {"update", "event"} => pc[w] \in {"update", "event"}
    PROVE  CountInv'
<1>1. ASSUME NEW r \in Receipts
      PROVE  /\ Allowed(r) <= Allowed(r)' /\ stalls[r] <= stalls'[r]
             /\ rows'[r] + Delivered(r) <= rows[r] + Delivered(r)'
  <2>1. /\ stalls[r] \in Nat /\ rows[r] \in Nat /\ Delivered(r) \in Nat
        /\ Delivered(r)' = Delivered(r)
    BY NumbersAreNat DEF TypeInv, Delivered
  <2> QED BY <2>1 DEF Allowed
<1>2. KeepsCounts
  BY <1>1 DEF KeepsCounts
<1> QED BY <1>2, QuietCount DEF TypeInv

LEMMA CountNext == TypeInv /\ TypeInv' /\ CountInv /\ [Next]_vars => CountInv'
<1> SUFFICES ASSUME TypeInv, TypeOK', CountInv, [Next]_vars PROVE CountInv'
  BY DEF TypeInv
<1>1. ASSUME NEW m \in Messages, Deliver(m) \/ AttemptLost(m) PROVE CountInv'
  BY <1>1, DeliverCount
<1>2. ASSUME NEW r \in Receipts, Ingest(r) \/ Enqueue(r) \/ EnqueueFails(r) PROVE CountInv'
  <2>1. UNCHANGED <<stalls, slots, attempt, rows>> /\ receipt[r] # "active"
        /\ \A s \in Receipts \ {r} : receipt'[s] = receipt[s]
    BY <1>2 DEF Ingest, Enqueue, EnqueueFails, TypeInv, TypeOK
  <2> QED BY <2>1, MoveCount
<1>3. ASSUME NEW w \in Slots, NEW r \in Receipts, Pick(w, r) PROVE CountInv'
  BY <1>3, PickCount DEF TypeInv
<1>4. ASSUME NEW r \in Receipts, StallDead(r) \/ StallLate(r) PROVE CountInv'
  BY <1>4, StallCount DEF StallDead, StallLate
<1>5. ASSUME NEW w \in Slots, Step(w) PROVE CountInv'
  <2>1. ASSUME NEW label \in Working, Goto(w, label), pc[w] # "idle",
               label \in {"update", "event"} => pc[w] \in {"update", "event"},
               UNCHANGED <<queue, exec, attempt, rows>>
        PROVE  CountInv'
    <3>1. pc'[w] = label /\ \A v \in Slots \ {w} : pc'[v] = pc[v]
      BY <2>1 DEF TypeInv, TypeOK
    <3>2. \A v \in Slots : /\ pc'[v] # "idle" => pc[v] # "idle"
                           /\ pc'[v] \in {"update", "event"} => pc[v] \in {"update", "event"}
      BY <2>1, <3>1
    <3> QED BY <2>1, <3>2, MoveCount
  <2>2. CASE FindMessage(w)
    BY <2>2, FindCount
  <2>3. CASE UpdateMessage(w)
    <3>1. Goto(w, "event") /\ "event" \in Working /\ pc[w] = "update"
      BY <2>3 DEF UpdateMessage
    <3> QED BY <2>1, <2>3, <3>1 DEF UpdateMessage
  <2>4. CASE RecordEvent(w)
    BY <2>4, RecordCount
  <2>5. CASE ReadRequest(w) \/ WriteRequest(w)
    <3>1. PICK label \in {"write", "mark"} : Goto(w, label)
      BY <2>5 DEF ReadRequest, WriteRequest
    <3>2. label \in Working /\ pc[w] \in {"request", "write"}
      BY <2>5 DEF ReadRequest, WriteRequest
    <3> QED BY <2>1, <2>5, <3>1, <3>2 DEF ReadRequest, WriteRequest
  <2>6. CASE Complete(w)
    BY <2>6, EndCount
  <2> QED BY <1>5, <2>2, <2>3, <2>4, <2>5, <2>6 DEF Step
<1>6. CASE Expire \/ StatusRead \/ ResendRead \/ StatusExpire \/ VerifyGet \/ VerifyMark
           \/ VerifyExpire \/ UNCHANGED vars
  <2>1. UNCHANGED <<queue, slots, attempt, tables>>
    BY <1>6 DEF Expire, StatusRead, ResendRead, StatusExpire, VerifyGet, VerifyMark,
         VerifyExpire, vars
  <2> QED BY <2>1, MoveCount
<1>7. ASSUME NEW w \in Slots, Throw(w) \/ Crash(w) PROVE CountInv'
  BY <1>7, EndCount
<1> QED BY <1>1, <1>2, <1>3, <1>4, <1>5, <1>6, <1>7 DEF Next, Fault

-----------------------------------------------------------------------------
(* The theorems *)

LEMMA InvariantHolds == Spec => []IInv
<1>1. Init => IInv
  BY TypeInit, CountInit DEF IInv
<1>2. IInv /\ [Next]_vars => IInv'
  BY TypeNext, CountNext DEF IInv
<1> QED BY <1>1, <1>2, PTL DEF Spec

(* Every variable has its type; a job is tried at most MaxTries times        *)
(* (queue.ts:17-28).                                                       *)
THEOREM TypeCorrect == Spec => []TypeOK
<1>1. IInv => TypeOK
  BY DEF IInv, TypeInv
<1> QED BY <1>1, InvariantHolds, PTL

(* A receipt whose job has completed is recorded, unless its message was     *)
(* unknown (webhook.worker.ts:39-105).                                     *)
THEOREM CompletedRecorded == Spec => []CompletedIsRecorded
<1>1. IInv => CompletedIsRecorded
  BY DEF IInv, TypeInv
<1> QED BY <1>1, InvariantHolds, PTL

(* What a step that undoes a verification is to respect.                     *)
OvertakenUndo ==
        status = "verified" /\ status' # "verified" =>
          \/ \E w \in Slots \cap overtaken : pc[w] = "write" /\ pc'[w] = "mark"
          \/ None \in overtaken /\ expiry = "read" /\ expiry' = "over"
          \/ \E m \in Messages : \/ attempt[m] = "mark" /\ attempt'[m] = "done"
                                 \/ attempt[m] = "refused" /\ attempt'[m] = "closed"
          \/ status' = "expired" /\ UNCHANGED expiry

(* Nobody who reads a verified request undoes the verification               *)
(* (webhook.worker.ts:72-89, otp.service.ts:247-258, otp.routes.ts:418-437).  *)
THEOREM VerificationUndone == Spec => OnlyOvertakenUndoVerified
<1>1. IInv /\ [Next]_vars => [OvertakenUndo]_vars
  <2> SUFFICES ASSUME IInv, Next, status = "verified", status' # "verified"
               PROVE  OvertakenUndo
    BY DEF OvertakenUndo
  <2>1. TypeOK /\ SlotInv /\ Readers \subseteq overtaken
    BY DEF IInv, TypeInv, VerifyInv
  <2>2. ASSUME NEW m \in Messages, Deliver(m) PROVE OvertakenUndo
    <3>1. MarkSent(m) \/ MarkFailed(m)
      BY <2>2 DEF Deliver, Send, SendDirect, RecordMessage, RecordSent, Refuse, ResendRefused
    <3>2. \/ attempt[m] = "mark" /\ attempt'[m] = "done"
          \/ attempt[m] = "refused" /\ attempt'[m] = "closed"
      BY <2>1, <3>1 DEF MarkSent, MarkFailed, TypeOK
    <3> QED BY <3>2 DEF OvertakenUndo
  <2>3. ASSUME NEW w \in Slots, WriteRequest(w) PROVE OvertakenUndo
    <3>1. pc[w] = "write" /\ pc'[w] = "mark"
      BY <2>1, <2>3 DEF WriteRequest, TypeOK
    <3>2. w \in overtaken
      BY <2>1, <3>1 DEF Readers
    <3> QED BY <3>1, <3>2 DEF OvertakenUndo
  <2>4. CASE StatusExpire
    BY <2>1, <2>4 DEF StatusExpire, Readers, OvertakenUndo
  <2>5. CASE VerifyExpire
    BY <2>5 DEF VerifyExpire, OvertakenUndo
  <2>6. ASSUME NEW w \in Slots, Step(w) PROVE WriteRequest(w)
    BY <2>6 DEF Step, FindMessage, UpdateMessage, RecordEvent, ReadRequest, Complete
  <2>7. Fault => UNCHANGED status
    BY DEF Fault, AttemptLost, EnqueueFails, StallLate, Stall, Throw, Crash
  <2>8. \A r \in Receipts : ~Ingest(r) /\ ~Enqueue(r) /\ ~StallDead(r)
    BY DEF Ingest, Enqueue, StallDead, Stall
  <2>9. \A w \in Slots, r \in Receipts : ~Pick(w, r)
    BY DEF Pick
  <2>10. ~Expire /\ ~StatusRead /\ ~ResendRead /\ ~VerifyGet /\ ~VerifyMark
    BY DEF Expire, StatusRead, ResendRead, VerifyGet, VerifyMark
  <2>11. \/ \E m \in Messages : Deliver(m)
         \/ \E w \in Slots : Step(w)
         \/ StatusExpire
         \/ VerifyExpire
    BY <2>7, <2>8, <2>9, <2>10 DEF Next
  <2>12. CASE \E w \in Slots : Step(w)
    BY <2>3, <2>6, <2>12
  <2>13. CASE \E m \in Messages : Deliver(m)
    BY <2>2, <2>13
  <2> QED BY <2>4, <2>5, <2>11, <2>12, <2>13
<1>2. OnlyOvertakenUndoVerified <=> [][OvertakenUndo]_vars
  BY DEF OnlyOvertakenUndoVerified, OvertakenUndo
<1> QED BY <1>1, <1>2, InvariantHolds, PTL DEF Spec

(* The event of a receipt is recorded once, and once more per stall at most  *)
(* (webhooks.routes.ts:99-131, webhook.worker.ts:41-68).                    *)
THEOREM EventsCounted == Spec => []EventsAreCounted
<1>1. IInv => EventsAreCounted
  <2> SUFFICES ASSUME IInv, NEW r \in Receipts
               PROVE  rows[r] <= 1 + stalls[r] + (IF r[2] = "sent" THEN 1 ELSE 0)
    BY DEF EventsAreCounted
  <2>1. rows[r] + Cardinality(Recording(r)) <= 1 + stalls[r] + Delivered(r)
    BY DEF IInv, CountInv
  <2>2. Cardinality(Recording(r)) \in Nat
    BY CountsAreNat
  <2>3. rows[r] \in Nat /\ stalls[r] \in Nat
    BY NumbersAreNat DEF IInv, TypeInv
  <2> QED BY <2>1, <2>2, <2>3 DEF Delivered
<1> QED BY <1>1, InvariantHolds, PTL

(* What a step that sets the status of a message back is to respect.         *)
NoneIsReapplied ==
    \A r \in Receipts :
        /\ shown[r[1]] \notin {"none", r[2]} /\ shown'[r[1]] = r[2]
        => rows[r] = 0 \/ stalls[r] > 0 \/ r[2] = "sent"

(* A recorded receipt is applied to its message again only beside its        *)
(* successor (webhook.worker.ts:41-60).                                    *)
THEOREM NotReapplied == Spec => NoReceiptIsReapplied
<1>1. IInv /\ [Next]_vars => NoneIsReapplied
  <2> SUFFICES ASSUME IInv, [Next]_vars, NEW r \in Receipts,
                      shown'[r[1]] # shown[r[1]], shown'[r[1]] = r[2], r[2] # "sent"
               PROVE  rows[r] = 0 \/ stalls[r] > 0
    BY DEF NoneIsReapplied
  <2>1. TypeOK /\ SlotInv
    BY DEF IInv, TypeInv
  <2>2. r = <<r[1], r[2]>> /\ r[1] \in Messages
    OBVIOUS
  <2>3. ASSUME NEW m \in Messages, Deliver(m) PROVE FALSE
    <3>1. RecordMessage(m)
      BY <2>3 DEF Deliver, Send, RecordSent, MarkSent, Refuse, MarkFailed,
         SendDirect, ResendRefused
    <3> QED BY <2>1, <2>2, <3>1 DEF RecordMessage, TypeOK
  <2>4. ASSUME UNCHANGED shown PROVE FALSE
    BY <2>4
  <2>5. PICK w \in Slots : UpdateMessage(w)
    BY <2>3, <2>4 DEF Next, Fault, vars, Ingest, Enqueue, EnqueueFails, Pick, StallDead, StallLate,
         Stall, Step, FindMessage, RecordEvent, ReadRequest, WriteRequest, Complete, Throw, Crash,
         AttemptLost, Expire, StatusRead, ResendRead, StatusExpire, VerifyGet, VerifyMark,
         VerifyExpire
  <2>6. exec[w] \in Receipts /\ pc[w] = "update" /\ shown' = [shown EXCEPT ![exec[w][1]] = exec[w][2]]
    BY <2>1, <2>5 DEF UpdateMessage, SlotInv
  <2>7. exec[w][1] = r[1] /\ exec[w][2] = r[2]
    BY <2>1, <2>2, <2>6 DEF TypeOK
  <2>8. exec[w] = r
    BY <2>2, <2>6, <2>7
  <2>9. w \in Recording(r)
    BY <2>6, <2>8 DEF Recording, Executes
  <2>10. Cardinality(Recording(r)) >= 1
    <3>1. Cardinality(Recording(r)) # 0
      BY <2>9, CountsAreNat, FS_EmptySet
    <3> QED BY <3>1, CountsAreNat
  <2>11. Delivered(r) = 0 /\ rows[r] \in Nat /\ stalls[r] \in Nat
    BY <2>1, NumbersAreNat DEF Delivered
  <2>12. rows[r] + Cardinality(Recording(r)) <= 1 + stalls[r] + Delivered(r)
    BY DEF IInv, CountInv
  <2>13. Cardinality(Recording(r)) \in Nat
    BY CountsAreNat
  <2> QED BY <2>10, <2>11, <2>12, <2>13
<1>2. NoReceiptIsReapplied <=> [][NoneIsReapplied]_vars
  BY DEF NoReceiptIsReapplied, NoneIsReapplied
<1> QED BY <1>1, <1>2, InvariantHolds, PTL DEF Spec

=============================================================================
