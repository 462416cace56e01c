--------------------------- MODULE EdgeOtpProofs ---------------------------
(* Theorems about EdgeOtp.                                                  *)
EXTENDS EdgeOtp, FiniteSetTheorems, TLAPS

Others == Calls \ Sends

(* The debit of a send comes first, and everything else after it.           *)
SendsArePaid ==
    \A s \in Sends :
        /\ pc[s] \in {"ready", "dispatch", "insert", "refundSend"} \cup Outcomes
        /\ pc[s] = "ready" => s \notin debited
        /\ pc[s] \in {"dispatch", "insert", "refundSend", "unrecorded", "answered"}
              => s \in debited
        /\ s \in sent \/ refunds[s] > 0 => s \in debited

(* A send that is answered with an error has been refunded what it was       *)
(* debited, as far as the wallet answered.                                  *)
ErrorsAreSettled ==
    \A s \in Sends :
        /\ pc[s] = "insufficient" => s \in lost \/ s \notin debited
        /\ pc[s] = "unrecorded" => s \in lost \/ refunds[s] > 0

(* Only the request of a send that was answered is in the database, and it   *)
(* is what the other calls are about.                                       *)
RequestsAreAnswered ==
    /\ \A s \in Sends : status[s] = "verified" \/ logged[s] # "no" => pc[s] = "answered"
    /\ \A c \in Others :
          pc[c] \in Waiting => of[c] \in Sends /\ pc[of[c]] = "answered"

(* Only receipts read and write after a lookup, and they refund failures.   *)
ReceiptsReport ==
    \A c \in Calls :
        /\ pc[c] \in {"read", "write", "refund"}
              => c \in Receipts /\ event[c] \in Events /\ of[c] \in sent
        /\ pc[c] = "refund" => event[c] = "failed"

(* A comparison follows a counted attempt that did not reach the limit.     *)
ComparedAreCounted ==
    \A r \in Sends : compared[r] <= attempts[r] /\ compared[r] < MaxAttempts

(* Whoever is under way with a verified request has read it before.         *)
VerifiedIsKnown ==
    \A r \in Sends : status[r] = "verified" => UnderWay(r) \subseteq overtaken

(* Receipts of a failure that are done with.                                *)
Settled(r) ==
    {w \in Receipts : of[w] = r /\ event[w] = "failed" /\ pc[w] \in {"handled", "cutOff"}}

(* The receipts come after the answer; a send that has not come to its end   *)
(* has not been refunded.                                                  *)
Allowance(r) ==
    IF pc[r] = "answered" THEN Cardinality(Settled(r))
    ELSE IF pc[r] = "unrecorded" THEN 1 ELSE 0

RefundsAreCounted == \A r \in Sends : refunds[r] <= Allowance(r)

IInv ==
    /\ TypeOK
    /\ SendsArePaid
    /\ ErrorsAreSettled
    /\ RequestsAreAnswered
    /\ ReceiptsReport
    /\ ComparedAreCounted
    /\ VerifiedIsKnown
    /\ RefundsAreCounted

USE DEF Goto, Fault, SetStatus, Events, Statuses, Waiting, Outcomes, Calls, Others, Requests,
        calls, request, dispatch, wallet, history

-----------------------------------------------------------------------------

LEMMA InitInvariant == Init => IInv
<1> SUFFICES ASSUME Init PROVE IInv
  OBVIOUS
<1> USE EdgeOtpAssumption DEF Init
<1>1. TypeOK
  BY DEF TypeOK
<1>2. SendsArePaid /\ ErrorsAreSettled /\ RequestsAreAnswered /\ ReceiptsReport
  BY DEF SendsArePaid, ErrorsAreSettled, RequestsAreAnswered, ReceiptsReport
<1>3. ComparedAreCounted /\ VerifiedIsKnown
  BY DEF ComparedAreCounted, VerifiedIsKnown
<1>4. RefundsAreCounted
  <2>1. ASSUME NEW r \in Sends PROVE Cardinality(Settled(r)) \in Nat
    <3>1. Settled(r) \subseteq Receipts
      BY DEF Settled
    <3> QED BY <3>1, FS_Subset, FS_CardinalityType
  <2> QED BY <2>1 DEF RefundsAreCounted, Allowance
<1> QED BY <1>1, <1>2, <1>3, <1>4 DEF IInv

-----------------------------------------------------------------------------
(* What a step leaves as it is *)

(* The sends.                                                              *)
LEMMA SendsStay ==
    ASSUME SendsArePaid, ErrorsAreSettled, \A s \in Sends : pc'[s] = pc[s],
           UNCHANGED <<sent, debited, refunds, lost>>
    PROVE  SendsArePaid' /\ ErrorsAreSettled'
BY DEF SendsArePaid, ErrorsAreSettled

LEMMA SettledGrows ==
    ASSUME NEW r, Settled(r) \subseteq Settled(r)'
    PROVE  /\ Cardinality(Settled(r)) \in Nat /\ Cardinality(Settled(r)') \in Nat
           /\ Cardinality(Settled(r)) <= Cardinality(Settled(r)')
<1>1. Settled(r) \subseteq Receipts /\ Settled(r)' \subseteq Receipts
  BY DEF Settled
<1> QED BY <1>1, EdgeOtpAssumption, FS_Subset, FS_CardinalityType

(* The refunds, when no receipt that is done with begins anew.              *)
LEMMA RefundsStay ==
    ASSUME TypeOK, RefundsAreCounted, UNCHANGED refunds,
           \A w \in Receipts : pc[w] \in {"handled", "cutOff"}
              => pc'[w] = pc[w] /\ of'[w] = of[w] /\ event'[w] = event[w],
           \A r \in Sends : pc[r] \in {"answered", "unrecorded"} => pc'[r] = pc[r]
    PROVE  RefundsAreCounted'
<1> SUFFICES ASSUME NEW r \in Sends PROVE refunds[r] <= Allowance(r)'
  BY DEF RefundsAreCounted
<1>1. Settled(r) \subseteq Settled(r)'
  BY DEF Settled
<1>2. refunds[r] <= Allowance(r) /\ refunds[r] \in Nat
  BY DEF RefundsAreCounted, TypeOK
<1>3. /\ Cardinality(Settled(r)) \in Nat /\ Cardinality(Settled(r)') \in Nat
      /\ Cardinality(Settled(r)) <= Cardinality(Settled(r)')
  BY <1>1, SettledGrows
<1> QED BY <1>2, <1>3 DEF Allowance

(* A send goes on, and leaves the other calls alone.                        *)
LEMMA SendStepInvariant ==
    ASSUME IInv, NEW s \in Sends, pc[s] \notin Outcomes,
           NEW label \in {"dispatch", "insert", "refundSend"} \cup Outcomes,
           Goto(s, label), UNCHANGED <<of, event, attempts, compared, overtaken>>,
           \A r \in Sends : status'[r] = "verified" => status[r] = "verified",
           \A r \in Sends : logged'[r] # "no" => logged[r] # "no" \/ pc'[r] = "answered",
           sent \subseteq sent',
           TypeOK', SendsArePaid', ErrorsAreSettled', UNCHANGED refunds \/ RefundsAreCounted'
    PROVE  IInv'
<1> USE EdgeOtpAssumption DEF IInv
<1>1. \A c \in Others : pc'[c] = pc[c] /\ c \in Calls
  BY DEF TypeOK
<1>2. RequestsAreAnswered'
  BY <1>1 DEF RequestsAreAnswered, TypeOK
<1>3. ReceiptsReport'
  BY DEF ReceiptsReport, TypeOK
<1>4. ComparedAreCounted'
  BY DEF ComparedAreCounted
<1>5. VerifiedIsKnown'
  BY <1>1 DEF VerifiedIsKnown, UnderWay
<1>6. RefundsAreCounted'
  BY RefundsStay DEF TypeOK
<1> QED BY <1>2, <1>3, <1>4, <1>5, <1>6

(* A call of another kind goes on, with the request it is about.            *)
Continues(c, label) ==
    /\ Goto(c, label)
    /\ \A d \in Calls \ {c} : of'[d] = of[d]
    /\ \A w \in Receipts \ {c} : event'[w] = event[w]
    /\ UNCHANGED <<sent, logged>>
    /\ label \in Waiting => of'[c] \in Sends /\ pc[of'[c]] = "answered"
    /\ label \in {"read", "write", "refund"}
          => c \in Receipts /\ event'[c] \in Events /\ of'[c] \in sent
    /\ label = "refund" => event'[c] = "failed"

(* It does not take a verified request for another.                         *)
Respects(c, label) ==
    \A r \in Sends : status'[r] = "verified" =>
        /\ pc[r] = "answered"
        /\ UnderWay(r) \ {c} \subseteq overtaken'
        /\ of'[c] = r /\ label \in {"expire", "attempt", "mark", "update", "write", "refund"}
              => c \in overtaken'

LEMMA CallStepKeeps ==
    ASSUME IInv, NEW c \in Others, NEW label \in Waiting \cup Outcomes,
           Continues(c, label), Respects(c, label)
    PROVE  RequestsAreAnswered' /\ ReceiptsReport' /\ VerifiedIsKnown'
<1> USE DEF IInv, Continues, Respects
<1>1. /\ \A d \in Calls \ {c} : pc'[d] = pc[d]
      /\ pc'[c] = label /\ Sends \subseteq Calls \ {c}
  BY DEF TypeOK
<1>2. RequestsAreAnswered'
  BY <1>1 DEF RequestsAreAnswered
<1>3. ReceiptsReport'
  BY <1>1 DEF ReceiptsReport
<1>4. VerifiedIsKnown'
  <2> SUFFICES ASSUME NEW r \in Sends, status'[r] = "verified",
                      NEW d \in UnderWay(r)'
               PROVE  d \in overtaken'
    BY DEF VerifiedIsKnown
  <2>1. CASE d = c
    BY <1>1, <2>1 DEF UnderWay
  <2>2. CASE d # c
    BY <1>1, <2>2 DEF UnderWay
  <2> QED BY <2>1, <2>2
<1> QED BY <1>2, <1>3, <1>4

LEMMA CallStepInvariant ==
    ASSUME IInv, NEW c \in Others, NEW label \in Waiting \cup Outcomes,
           Continues(c, label), Respects(c, label), pc[c] \in {"ready"} \cup Waiting,
           UNCHANGED <<debited, refunds, lost>>, TypeOK', ComparedAreCounted'
    PROVE  IInv'
<1> USE DEF IInv
<1>1. RequestsAreAnswered' /\ ReceiptsReport' /\ VerifiedIsKnown'
  BY CallStepKeeps
<1>2. /\ \A d \in Calls \ {c} : pc'[d] = pc[d]
      /\ c \notin Sends /\ pc[c] \notin {"handled", "cutOff"}
  BY DEF TypeOK, Continues
<1>3. SendsArePaid' /\ ErrorsAreSettled'
  BY <1>2, SendsStay DEF Continues
<1>4. RefundsAreCounted'
  BY <1>2, RefundsStay DEF Continues
<1> QED BY <1>1, <1>3, <1>4

-----------------------------------------------------------------------------
(* POST /send *)

LEMMA DeductInvariant ==
    ASSUME IInv, NEW s \in Sends, Deduct(s) PROVE IInv'
<1> USE EdgeOtpAssumption DEF IInv, Deduct, DeductCredit
<1>1. TypeOK'
  BY DEF TypeOK
<1>2. SendsArePaid' /\ ErrorsAreSettled'
  BY DEF TypeOK, SendsArePaid, ErrorsAreSettled
<1>3. Goto(s, "dispatch") /\ "dispatch" \in {"dispatch", "insert", "refundSend"} \cup Outcomes
  OBVIOUS
<1>4. /\ pc[s] \notin Outcomes /\ sent \subseteq sent'
      /\ \A r \in Sends : status'[r] = "verified" => status[r] = "verified"
      /\ \A r \in Sends : logged'[r] # "no" => logged[r] # "no" \/ pc'[r] = "answered"
      /\ UNCHANGED <<of, event, attempts, compared, overtaken, refunds>>
  BY DEF TypeOK
<1> QED BY <1>1, <1>2, <1>3, <1>4, SendStepInvariant

LEMMA InsufficientInvariant ==
    ASSUME IInv, NEW s \in Sends, Insufficient(s) PROVE IInv'
<1> USE EdgeOtpAssumption DEF IInv, Insufficient
<1>1. TypeOK'
  BY DEF TypeOK
<1>2. SendsArePaid' /\ ErrorsAreSettled'
  BY DEF TypeOK, SendsArePaid, ErrorsAreSettled
<1>3. Goto(s, "insufficient") /\ "insufficient" \in {"dispatch", "insert", "refundSend"} \cup Outcomes
  OBVIOUS
<1>4. /\ pc[s] \notin Outcomes /\ sent \subseteq sent'
      /\ \A r \in Sends : status'[r] = "verified" => status[r] = "verified"
      /\ \A r \in Sends : logged'[r] # "no" => logged[r] # "no" \/ pc'[r] = "answered"
      /\ UNCHANGED <<of, event, attempts, compared, overtaken, refunds>>
  BY DEF TypeOK
<1> QED BY <1>1, <1>2, <1>3, <1>4, SendStepInvariant

LEMMA DeductFailsInvariant ==
    ASSUME IInv, NEW s \in Sends, DeductFails(s) PROVE IInv'
<1> USE EdgeOtpAssumption DEF IInv, DeductFails, DeductCredit
<1>1. TypeOK'
  BY DEF TypeOK
<1>2. SendsArePaid' /\ ErrorsAreSettled'
  BY DEF TypeOK, SendsArePaid, ErrorsAreSettled
<1>3. Goto(s, "insufficient") /\ "insufficient" \in {"dispatch", "insert", "refundSend"} \cup Outcomes
  OBVIOUS
<1>4. /\ pc[s] \notin Outcomes /\ sent \subseteq sent'
      /\ \A r \in Sends : status'[r] = "verified" => status[r] = "verified"
      /\ \A r \in Sends : logged'[r] # "no" => logged[r] # "no" \/ pc'[r] = "answered"
      /\ UNCHANGED <<of, event, attempts, compared, overtaken, refunds>>
  BY DEF TypeOK
<1> QED BY <1>1, <1>2, <1>3, <1>4, SendStepInvariant

LEMMA DispatchInvariant ==
    ASSUME IInv, NEW s \in Sends, Dispatch(s) PROVE IInv'
<1> USE EdgeOtpAssumption DEF IInv, Dispatch
<1>1. TypeOK'
  BY DEF TypeOK
<1>2. SendsArePaid' /\ ErrorsAreSettled'
  BY DEF TypeOK, SendsArePaid, ErrorsAreSettled
<1>3. Goto(s, "insert") /\ "insert" \in {"dispatch", "insert", "refundSend"} \cup Outcomes
  OBVIOUS
<1>4. /\ pc[s] \notin Outcomes /\ sent \subseteq sent'
      /\ \A r \in Sends : status'[r] = "verified" => status[r] = "verified"
      /\ \A r \in Sends : logged'[r] # "no" => logged[r] # "no" \/ pc'[r] = "answered"
      /\ UNCHANGED <<of, event, attempts, compared, overtaken, refunds>>
  BY DEF TypeOK
<1> QED BY <1>1, <1>2, <1>3, <1>4, SendStepInvariant

LEMMA InsertInvariant ==
    ASSUME IInv, NEW s \in Sends, Insert(s) PROVE IInv'
<1> USE EdgeOtpAssumption DEF IInv, Insert, InsertRow
<1>1. TypeOK'
  BY DEF TypeOK
<1>2. SendsArePaid' /\ ErrorsAreSettled'
  BY DEF TypeOK, SendsArePaid, ErrorsAreSettled
<1>3. Goto(s, "answered") /\ "answered" \in {"dispatch", "insert", "refundSend"} \cup Outcomes
  OBVIOUS
<1>4. /\ pc[s] \notin Outcomes /\ sent \subseteq sent'
      /\ \A r \in Sends : status'[r] = "verified" => status[r] = "verified"
      /\ \A r \in Sends : logged'[r] # "no" => logged[r] # "no" \/ pc'[r] = "answered"
      /\ UNCHANGED <<of, event, attempts, compared, overtaken, refunds>>
  BY DEF TypeOK
<1> QED BY <1>1, <1>2, <1>3, <1>4, SendStepInvariant

LEMMA InsertFailsInvariant ==
    ASSUME IInv, NEW s \in Sends, InsertFails(s) PROVE IInv'
<1> USE EdgeOtpAssumption DEF IInv, InsertFails, InsertRow
<1>1. TypeOK'
  BY DEF TypeOK
<1>2. SendsArePaid' /\ ErrorsAreSettled'
  BY DEF TypeOK, SendsArePaid, ErrorsAreSettled
<1>3. Goto(s, "refundSend") /\ "refundSend" \in {"dispatch", "insert", "refundSend"} \cup Outcomes
  OBVIOUS
<1>4. /\ pc[s] \notin Outcomes /\ sent \subseteq sent'
      /\ \A r \in Sends : status'[r] = "verified" => status[r] = "verified"
      /\ \A r \in Sends : logged'[r] # "no" => logged[r] # "no" \/ pc'[r] = "answered"
      /\ UNCHANGED <<of, event, attempts, compared, overtaken, refunds>>
  BY DEF TypeOK
<1> QED BY <1>1, <1>2, <1>3, <1>4, SendStepInvariant

(* The one refund of a request whose row is not recorded.                   *)
LEMMA UnrecordedIsCounted ==
    ASSUME IInv, NEW s \in Sends, pc[s] = "refundSend", Goto(s, "unrecorded"),
           UNCHANGED <<of, event>>, RefundCredit(s) \/ UNCHANGED wallet
    PROVE  TypeOK /\ refunds' \in [Sends -> Nat] /\ balance' \in Nat /\ RefundsAreCounted'
<1> USE EdgeOtpAssumption DEF IInv, RefundCredit
<1>1. refunds' \in [Sends -> Nat] /\ balance' \in Nat
  BY DEF TypeOK
<1>2. RefundsAreCounted'
  <2> SUFFICES ASSUME NEW r \in Sends PROVE refunds'[r] <= Allowance(r)'
    BY DEF RefundsAreCounted
  <2>1. refunds[r] <= Allowance(r) /\ refunds \in [Sends -> Nat]
    BY DEF RefundsAreCounted, TypeOK
  <2>2. CASE r = s
    <3>1. pc'[s] = "unrecorded"
      BY DEF TypeOK
    <3>2. refunds[s] = 0
      BY <2>1, <2>2 DEF Allowance
    <3> QED BY <2>1, <2>2, <3>1, <3>2 DEF Allowance
  <2>3. CASE r # s
    <3>1. Settled(r)' = Settled(r)
      <4>1. \A w \in Receipts : pc'[w] = pc[w]
        BY DEF TypeOK
      <4> QED BY <4>1 DEF Settled
    <3>2. refunds'[r] = refunds[r] /\ pc'[r] = pc[r]
      BY <2>3 DEF TypeOK
    <3> QED BY <2>1, <3>1, <3>2 DEF Allowance
  <2> QED BY <2>2, <2>3
<1> QED BY <1>1, <1>2

LEMMA RefundSendInvariant ==
    ASSUME IInv, NEW s \in Sends, RefundSend(s) PROVE IInv'
<1> USE EdgeOtpAssumption DEF IInv, RefundSend
<1>1. RefundsAreCounted' /\ refunds' \in [Sends -> Nat] /\ balance' \in Nat
  BY UnrecordedIsCounted
<1>2. TypeOK'
  BY <1>1 DEF TypeOK, RefundCredit
<1>3. SendsArePaid' /\ ErrorsAreSettled'
  BY DEF TypeOK, SendsArePaid, ErrorsAreSettled, RefundCredit
<1>4. Goto(s, "unrecorded") /\ "unrecorded" \in {"dispatch", "insert", "refundSend"} \cup Outcomes
  OBVIOUS
<1> QED BY <1>1, <1>2, <1>3, <1>4, SendStepInvariant

LEMMA RefundSendFailsInvariant ==
    ASSUME IInv, NEW s \in Sends, RefundSendFails(s) PROVE IInv'
<1> USE EdgeOtpAssumption DEF IInv, RefundSendFails
<1>1. RefundsAreCounted' /\ refunds' \in [Sends -> Nat] /\ balance' \in Nat
  BY UnrecordedIsCounted
<1>2. TypeOK'
  BY <1>1 DEF TypeOK, RefundCredit
<1>3. SendsArePaid' /\ ErrorsAreSettled'
  BY DEF TypeOK, SendsArePaid, ErrorsAreSettled, RefundCredit
<1>4. Goto(s, "unrecorded") /\ "unrecorded" \in {"dispatch", "insert", "refundSend"} \cup Outcomes
  OBVIOUS
<1> QED BY <1>1, <1>2, <1>3, <1>4, SendStepInvariant

(* What moves no call: a row of messages appears, a code expires, time goes. *)
LEMMA QuietInvariant ==
    ASSUME IInv, TypeOK',
           UNCHANGED <<calls, status, attempts, sent, debited, refunds, history>>,
           \A s \in Sends : logged'[s] # "no" => logged[s] # "no"
    PROVE  IInv'
<1> USE DEF IInv
<1>1. SendsArePaid' /\ ErrorsAreSettled' /\ RequestsAreAnswered' /\ ReceiptsReport'
  BY DEF SendsArePaid, ErrorsAreSettled, RequestsAreAnswered, ReceiptsReport
<1>2. ComparedAreCounted' /\ VerifiedIsKnown'
  BY DEF ComparedAreCounted, VerifiedIsKnown, UnderWay
<1>3. RefundsAreCounted'
  BY RefundsStay
<1> QED BY <1>1, <1>2, <1>3

-----------------------------------------------------------------------------
(* POST /verify *)

LEMMA SelectForVerifyInvariant ==
    ASSUME IInv, NEW v \in Verifies, SelectForVerify(v) PROVE IInv'
<1> USE EdgeOtpAssumption DEF IInv, SelectForVerify
<1>1. PICK r \in Requests :
          /\ of' = [of EXCEPT ![v] = r]
          /\ Goto(v, IF status[r] = "verified" THEN "refused"
                     ELSE IF r \in expired THEN "expire" ELSE "attempt")
  OBVIOUS
<1>2. PICK label \in {"refused", "expire", "attempt"} :
        Goto(v, label) /\ (label # "refused" => status[r] # "verified")
  BY <1>1
<1>3. v \in Others /\ label \in Waiting \cup Outcomes /\ of'[v] = r
      /\ \A d \in Calls \ {v} : of'[d] = of[d]
  BY <1>1 DEF TypeOK
<1>4. TypeOK'
  BY <1>1, <1>2 DEF TypeOK
<1>5. ComparedAreCounted'
  BY DEF ComparedAreCounted
<1>6. Continues(v, label)
  BY <1>1, <1>2, <1>3 DEF Continues
<1>7. Respects(v, label)
  BY <1>2, <1>3 DEF Respects, RequestsAreAnswered, VerifiedIsKnown
<1> QED BY <1>3, <1>4, <1>5, <1>6, <1>7, CallStepInvariant

LEMMA MarkExpiredInvariant ==
    ASSUME IInv, NEW v \in Verifies, MarkExpired(v) PROVE IInv'
<1> USE EdgeOtpAssumption DEF IInv, MarkExpired
<1>1. v \in Others /\ "refused" \in Waiting \cup Outcomes /\ of[v] \in Sends
  BY DEF RequestsAreAnswered
<1>2. TypeOK'
  BY <1>1 DEF TypeOK
<1>3. ComparedAreCounted'
  BY DEF ComparedAreCounted
<1>4. Continues(v, "refused")
  BY DEF Continues
<1>5. Respects(v, "refused")
  BY DEF Respects, RequestsAreAnswered, VerifiedIsKnown, TypeOK
<1> QED BY <1>1, <1>2, <1>3, <1>4, <1>5, CallStepInvariant

(* The attempt is counted before the limit is looked at: a code is compared  *)
(* only if the count, this attempt included, is below it.                   *)
LEMMA AttemptInvariant ==
    ASSUME IInv, NEW v \in Verifies, Attempt(v) PROVE IInv'
<1> USE EdgeOtpAssumption DEF IInv, Attempt, RecordAttempt, Compare
<1>1. v \in Others /\ of[v] \in Sends
  BY DEF RequestsAreAnswered
<1>2. /\ attempts \in [Sends -> Nat] /\ attempts' = [attempts EXCEPT ![of[v]] = @ + 1]
      /\ compared \in [Sends -> Nat]
  BY DEF TypeOK
<1>3. PICK label \in {"exceeded", "mark", "wrong"} : Goto(v, label)
  OBVIOUS
<1>4. \A r \in Sends : status'[r] = "verified" => status[r] = "verified"
  BY DEF TypeOK
<1>5. TypeOK'
  <2>1. attempts' \in [Sends -> Nat]
    BY <1>1, <1>2
  <2>2. compared' \in [Sends -> Nat]
    <3>1. compared' = compared \/ compared' = [compared EXCEPT ![of[v]] = @ + 1]
      OBVIOUS
    <3> QED BY <1>2, <3>1
  <2>3. status' \in [Sends -> Statuses]
    <3>1. status' = status \/ status' = [status EXCEPT ![of[v]] = "failed"]
      OBVIOUS
    <3> QED BY <3>1 DEF TypeOK
  <2>4. pc' \in [Calls -> {"ready"} \cup Waiting \cup Outcomes]
    BY <1>3 DEF TypeOK
  <2> QED BY <2>1, <2>2, <2>3, <2>4 DEF TypeOK
<1>6. ComparedAreCounted'
  <2>1. CASE Exceeds(of[v])
    BY <1>1, <1>2, <2>1 DEF ComparedAreCounted
  <2>2. CASE ~Exceeds(of[v])
    <3>1. compared' = [compared EXCEPT ![of[v]] = @ + 1] /\ attempts[of[v]] + 1 < MaxAttempts
      BY <1>1, <1>2, <2>2 DEF Exceeds
    <3> QED BY <1>1, <1>2, <3>1 DEF ComparedAreCounted
  <2> QED BY <2>1, <2>2
<1>7. Continues(v, label)
  BY <1>1, <1>3 DEF Continues, RequestsAreAnswered
<1>8. Respects(v, label)
  BY <1>1, <1>4 DEF Respects, RequestsAreAnswered, VerifiedIsKnown, UnderWay
<1>9. label \in Waiting \cup Outcomes
  OBVIOUS
<1> QED BY <1>1, <1>5, <1>6, <1>7, <1>8, <1>9, CallStepInvariant

LEMMA AttemptFailsInvariant ==
    ASSUME IInv, NEW v \in Verifies, AttemptFails(v) PROVE IInv'
<1> USE EdgeOtpAssumption DEF IInv, AttemptFails, RecordAttempt, Compare
<1>1. v \in Others /\ of[v] \in Sends
  BY DEF RequestsAreAnswered
<1>2. PICK label \in {"mark", "wrong"} : Goto(v, label)
  OBVIOUS
<1>3. \A r \in Sends : status'[r] = "verified" => status[r] = "verified"
  BY DEF TypeOK
<1>4. attempts \in [Sends -> Nat] /\ compared \in [Sends -> Nat]
  BY DEF TypeOK
<1>5. attempts' \in [Sends -> Nat] /\ \A r \in Sends : attempts[r] <= attempts'[r]
  BY <1>1, <1>4
<1>6. TypeOK'
  <2>1. /\ pc' \in [Calls -> {"ready"} \cup Waiting \cup Outcomes]
        /\ status' \in [Sends -> Statuses] /\ faults' \in 0..MaxFaults
    BY <1>2 DEF TypeOK
  <2> QED BY <1>5, <2>1 DEF TypeOK
<1>7. ComparedAreCounted'
  BY <1>4, <1>5 DEF ComparedAreCounted
<1>8. Continues(v, label)
  BY <1>1, <1>2 DEF Continues, RequestsAreAnswered
<1>9. Respects(v, label)
  BY <1>1, <1>3 DEF Respects, RequestsAreAnswered, VerifiedIsKnown, UnderWay
<1>10. label \in Waiting \cup Outcomes
  OBVIOUS
<1> QED BY <1>1, <1>6, <1>7, <1>8, <1>9, <1>10, CallStepInvariant

(* Whoever is under way with the request has read it before.                *)
LEMMA MarkVerifiedInvariant ==
    ASSUME IInv, NEW v \in Verifies, MarkVerified(v) PROVE IInv'
<1> USE EdgeOtpAssumption DEF IInv, MarkVerified
<1>1. /\ v \in Others /\ "accepted" \in Waiting \cup Outcomes
      /\ of[v] \in Sends /\ pc[of[v]] = "answered"
  BY DEF RequestsAreAnswered
<1>2. TypeOK'
  BY <1>1 DEF TypeOK, UnderWay
<1>3. ComparedAreCounted'
  BY DEF ComparedAreCounted
<1>4. Continues(v, "accepted")
  BY DEF Continues
<1>5. Respects(v, "accepted")
  <2> SUFFICES ASSUME NEW r \in Sends, status'[r] = "verified"
               PROVE  pc[r] = "answered" /\ UnderWay(r) \ {v} \subseteq overtaken'
    BY DEF Respects
  <2>1. CASE r = of[v]
    BY <1>1, <2>1
  <2>2. CASE r # of[v]
    <3>1. status[r] = "verified"
      BY <2>2 DEF TypeOK
    <3> QED BY <3>1 DEF RequestsAreAnswered, VerifiedIsKnown
  <2> QED BY <2>1, <2>2
<1> QED BY <1>1, <1>2, <1>3, <1>4, <1>5, CallStepInvariant

-----------------------------------------------------------------------------
(* POST /resend *)

LEMMA SelectForResendInvariant ==
    ASSUME IInv, NEW c \in Resends, SelectForResend(c) PROVE IInv'
<1> USE EdgeOtpAssumption DEF IInv, SelectForResend
<1>1. PICK r \in Requests :
          /\ of' = [of EXCEPT ![c] = r]
          /\ IF status[r] = "verified"
             THEN Goto(c, "refused")
             ELSE \E label \in {"cooling", "update"} : Goto(c, label)
  OBVIOUS
<1>2. PICK label \in {"refused", "cooling", "update"} :
        Goto(c, label) /\ (label = "update" => status[r] # "verified")
  BY <1>1
<1>3. c \in Others /\ label \in Waiting \cup Outcomes /\ of'[c] = r
      /\ \A d \in Calls \ {c} : of'[d] = of[d]
  BY <1>1 DEF TypeOK
<1>4. TypeOK'
  BY <1>1, <1>2 DEF TypeOK
<1>5. ComparedAreCounted'
  BY DEF ComparedAreCounted
<1>6. Continues(c, label)
  BY <1>1, <1>2, <1>3 DEF Continues
<1>7. Respects(c, label)
  BY <1>2, <1>3 DEF Respects, RequestsAreAnswered, VerifiedIsKnown
<1> QED BY <1>3, <1>4, <1>5, <1>6, <1>7, CallStepInvariant

LEMMA UpdateInvariant ==
    ASSUME IInv, NEW c \in Resends, Update(c) PROVE IInv'
<1> USE EdgeOtpAssumption DEF IInv, Update
<1>1. c \in Others /\ "resent" \in Waiting \cup Outcomes /\ of[c] \in Sends
  BY DEF RequestsAreAnswered
<1>2. TypeOK'
  BY <1>1 DEF TypeOK
<1>3. ComparedAreCounted'
  BY DEF ComparedAreCounted
<1>4. Continues(c, "resent")
  BY DEF Continues
<1>5. Respects(c, "resent")
  BY DEF Respects, RequestsAreAnswered, VerifiedIsKnown, TypeOK
<1> QED BY <1>1, <1>2, <1>3, <1>4, <1>5, CallStepInvariant

-----------------------------------------------------------------------------
(* Delivery receipts *)

LEMMA ReceiveInvariant ==
    ASSUME IInv, NEW w \in Receipts, Receive(w) PROVE IInv'
<1> USE EdgeOtpAssumption DEF IInv, Receive
<1>1. PICK s \in sent, e \in Events :
          /\ of' = [of EXCEPT ![w] = s]
          /\ event' = [event EXCEPT ![w] = e]
          /\ Goto(w, IF logged[s] = "row" THEN "read" ELSE "handled")
  OBVIOUS
<1>2. PICK label \in {"read", "handled"} :
        Goto(w, label) /\ (label = "read" => logged[s] = "row")
  BY <1>1
<1>3. w \in Others /\ label \in Waiting \cup Outcomes /\ s \in Sends
  BY DEF TypeOK
<1>4. /\ of'[w] = s /\ \A d \in Calls \ {w} : of'[d] = of[d]
      /\ event'[w] = e /\ \A d \in Receipts \ {w} : event'[d] = event[d]
  BY <1>1 DEF TypeOK
<1>5. TypeOK'
  BY <1>1, <1>2, <1>3 DEF TypeOK
<1>6. ComparedAreCounted'
  BY DEF ComparedAreCounted
<1>7. Continues(w, label)
  BY <1>2, <1>3, <1>4 DEF Continues, RequestsAreAnswered
<1>8. Respects(w, label)
  BY DEF Respects, RequestsAreAnswered, VerifiedIsKnown
<1> QED BY <1>3, <1>5, <1>6, <1>7, <1>8, CallStepInvariant

(* The request of a receipt is read: it is not verified if it is written.   *)
LEMMA ReadRequestInvariant ==
    ASSUME IInv, NEW w \in Receipts, ReadRequest(w) PROVE IInv'
<1> USE EdgeOtpAssumption DEF IInv, ReadRequest
<1>1. PICK label \in {"handled", "write"} :
        Goto(w, label) /\ (label = "write" => status[of[w]] # "verified")
  OBVIOUS
<1>2. w \in Others /\ w \in Calls /\ label \in Waiting \cup Outcomes
  OBVIOUS
<1>3. TypeOK'
  BY <1>1 DEF TypeOK
<1>4. ComparedAreCounted'
  BY DEF ComparedAreCounted
<1>5. Continues(w, label)
  BY <1>1, <1>2 DEF Continues, RequestsAreAnswered, ReceiptsReport
<1>6. Respects(w, label)
  BY <1>1 DEF Respects, RequestsAreAnswered, VerifiedIsKnown
<1> QED BY <1>2, <1>3, <1>4, <1>5, <1>6, CallStepInvariant

LEMMA WriteRequestInvariant ==
    ASSUME IInv, NEW w \in Receipts, WriteRequest(w) PROVE IInv'
<1> USE EdgeOtpAssumption DEF IInv, WriteRequest, AfterWrite
<1>1. PICK label \in {"refund", "handled"} :
        Goto(w, label) /\ (label = "refund" => event[w] = "failed")
  OBVIOUS
<1>2. /\ w \in Others /\ w \in Calls /\ label \in Waiting \cup Outcomes
      /\ of[w] \in Sends /\ event[w] \in Events
  BY DEF RequestsAreAnswered, ReceiptsReport
<1>3. TypeOK'
  BY <1>1, <1>2 DEF TypeOK
<1>4. ComparedAreCounted'
  BY DEF ComparedAreCounted
<1>5. Continues(w, label)
  BY <1>1, <1>2 DEF Continues, RequestsAreAnswered, ReceiptsReport
<1>6. Respects(w, label)
  <2>1. \A r \in Sends : status'[r] = "verified" => status[r] = "verified" /\ r # of[w]
    BY <1>2 DEF TypeOK
  <2> QED BY <1>1, <2>1 DEF Respects, RequestsAreAnswered, VerifiedIsKnown
<1> QED BY <1>2, <1>3, <1>4, <1>5, <1>6, CallStepInvariant

(* The refund of a receipt makes it one more that is done with.             *)
LEMMA RefundReceiptInvariant ==
    ASSUME IInv, NEW w \in Receipts, RefundReceipt(w) PROVE IInv'
<1> USE EdgeOtpAssumption DEF IInv, RefundReceipt, RefundCredit
<1>1. /\ w \in Others /\ w \in Calls /\ "handled" \in Waiting \cup Outcomes
      /\ of[w] \in Sends /\ of[w] \in sent /\ event[w] = "failed"
  BY DEF RequestsAreAnswered, ReceiptsReport
<1>2. refunds \in [Sends -> Nat] /\ refunds' = [refunds EXCEPT ![of[w]] = @ + 1]
  BY DEF TypeOK
<1>3. TypeOK'
  <2>1. refunds' \in [Sends -> Nat]
    BY <1>1, <1>2
  <2> QED BY <2>1 DEF TypeOK
<1>4. ComparedAreCounted'
  BY DEF ComparedAreCounted
<1>5. Continues(w, "handled")
  BY <1>1 DEF Continues
<1>6. Respects(w, "handled")
  BY DEF Respects, RequestsAreAnswered, VerifiedIsKnown
<1>7. RequestsAreAnswered' /\ ReceiptsReport' /\ VerifiedIsKnown'
  BY <1>1, <1>5, <1>6, CallStepKeeps
<1>8. (\A d \in Calls \ {w} : pc'[d] = pc[d]) /\ pc'[w] = "handled" /\ w \notin Sends
  BY DEF TypeOK
<1>9. SendsArePaid' /\ ErrorsAreSettled'
  BY <1>1, <1>2, <1>8 DEF SendsArePaid, ErrorsAreSettled
<1>10. RefundsAreCounted'
  <2> SUFFICES ASSUME NEW r \in Sends PROVE refunds'[r] <= Allowance(r)'
    BY DEF RefundsAreCounted
  <2>1. refunds[r] <= Allowance(r)
    BY DEF RefundsAreCounted
  <2>2. pc'[r] = pc[r] /\ refunds[r] \in Nat
    BY <1>2, <1>8
  <2>3. \A x \in Receipts \ {w} : pc'[x] = pc[x]
    BY <1>8
  <2>4. CASE r = of[w]
    <3>1. w \notin Settled(r) /\ Settled(r)' = Settled(r) \cup {w}
      BY <1>1, <1>8, <2>3, <2>4 DEF Settled
    <3>2. IsFiniteSet(Settled(r))
      <4>1. Settled(r) \subseteq Receipts
        BY DEF Settled
      <4> QED BY <4>1, FS_Subset
    <3>3. /\ Cardinality(Settled(r)') = Cardinality(Settled(r)) + 1
          /\ Cardinality(Settled(r)) \in Nat
      BY <3>1, <3>2, FS_AddElement, FS_CardinalityType
    <3>4. refunds'[r] = refunds[r] + 1
      BY <1>2, <2>4
    <3>5. pc[r] = "answered"
      BY <2>4 DEF RequestsAreAnswered
    <3> QED BY <2>1, <2>2, <3>3, <3>4, <3>5 DEF Allowance
  <2>5. CASE r # of[w]
    <3>1. Settled(r)' = Settled(r)
      BY <2>3, <2>5 DEF Settled
    <3>2. refunds'[r] = refunds[r]
      BY <1>2, <2>5
    <3> QED BY <2>1, <2>2, <3>1, <3>2 DEF Allowance
  <2> QED BY <2>4, <2>5
<1> QED BY <1>3, <1>4, <1>7, <1>9, <1>10

-----------------------------------------------------------------------------
(* Faults *)

LEMMA WriteFailsInvariant ==
    ASSUME IInv, NEW c \in Calls, WriteFails(c) PROVE IInv'
<1> USE EdgeOtpAssumption DEF IInv, WriteFails, AfterWrite
<1>1. c \in Others /\ pc[c] \in Waiting
  BY DEF SendsArePaid
<1>2. PICK label \in {"refused", "accepted", "resent", "handled", "refund"} :
        Goto(c, label) /\ (label = "refund" => event[c] = "failed" /\ pc[c] = "write")
  OBVIOUS
<1>3. label \in Waiting \cup Outcomes
  OBVIOUS
<1>4. TypeOK'
  BY <1>2 DEF TypeOK
<1>5. ComparedAreCounted'
  BY DEF ComparedAreCounted
<1>6. Continues(c, label)
  BY <1>1, <1>2 DEF Continues, RequestsAreAnswered, ReceiptsReport
<1>7. Respects(c, label)
  BY <1>1, <1>2 DEF Respects, RequestsAreAnswered, VerifiedIsKnown, UnderWay
<1> QED BY <1>1, <1>3, <1>4, <1>5, <1>6, <1>7, CallStepInvariant

LEMMA CutOffInvariant ==
    ASSUME IInv, NEW c \in Calls, CutOff(c) PROVE IInv'
<1> USE EdgeOtpAssumption DEF IInv, CutOff
<1>1. TypeOK'
  BY DEF TypeOK
<1>2. CASE c \in Sends
  <2>1. SendsArePaid' /\ ErrorsAreSettled'
    BY <1>2 DEF TypeOK, SendsArePaid, ErrorsAreSettled
  <2>2. /\ Goto(c, "cutOff") /\ "cutOff" \in {"dispatch", "insert", "refundSend"} \cup Outcomes
        /\ pc[c] \notin Outcomes
    OBVIOUS
  <2> QED BY <1>1, <1>2, <2>1, <2>2, SendStepInvariant
<1>3. CASE c \in Others
  <2>1. ComparedAreCounted'
    BY DEF ComparedAreCounted
  <2>2. Continues(c, "cutOff") /\ "cutOff" \in Waiting \cup Outcomes
    BY DEF Continues
  <2>3. Respects(c, "cutOff")
    BY DEF Respects, RequestsAreAnswered, VerifiedIsKnown
  <2> QED BY <1>1, <1>3, <2>1, <2>2, <2>3, CallStepInvariant
<1> QED BY <1>2, <1>3

-----------------------------------------------------------------------------

LEMMA NextInvariant == IInv /\ [Next]_vars => IInv'
<1> SUFFICES ASSUME IInv, [Next]_vars PROVE IInv'
  OBVIOUS
<1>1. ASSUME NEW s \in Sends,
             \/ Deduct(s) \/ Insufficient(s) \/ DeductFails(s) \/ Dispatch(s)
             \/ Insert(s) \/ InsertFails(s) \/ RefundSend(s) \/ RefundSendFails(s)
      PROVE  IInv'
  BY <1>1, DeductInvariant, InsufficientInvariant, DeductFailsInvariant, DispatchInvariant,
     InsertInvariant, InsertFailsInvariant, RefundSendInvariant, RefundSendFailsInvariant
<1>2. ASSUME NEW s \in Sends, LogMessage(s) PROVE IInv'
  <2>1. PICK outcome \in {"row", "no"} : logged' = [logged EXCEPT ![s] = outcome]
    BY <1>2 DEF LogMessage
  <2>2. TypeOK'
    BY <1>2, <2>1 DEF LogMessage, IInv, TypeOK
  <2>3. \A r \in Sends : logged'[r] # "no" => logged[r] # "no"
    BY <1>2, <2>1 DEF LogMessage, IInv, TypeOK
  <2> QED BY <1>2, <2>2, <2>3, QuietInvariant DEF LogMessage
<1>3. ASSUME NEW s \in Sends, Expire(s) PROVE IInv'
  <2>1. TypeOK'
    BY <1>3 DEF Expire, IInv, TypeOK
  <2> QED BY <1>3, <2>1, QuietInvariant DEF Expire
<1>4. ASSUME NEW v \in Verifies,
             \/ SelectForVerify(v) \/ MarkExpired(v) \/ Attempt(v) \/ AttemptFails(v)
             \/ MarkVerified(v)
      PROVE  IInv'
  BY <1>4, SelectForVerifyInvariant, MarkExpiredInvariant, AttemptInvariant,
     AttemptFailsInvariant, MarkVerifiedInvariant
<1>5. ASSUME NEW c \in Resends, SelectForResend(c) \/ Update(c) PROVE IInv'
  BY <1>5, SelectForResendInvariant, UpdateInvariant
<1>6. ASSUME NEW w \in Receipts,
             Receive(w) \/ ReadRequest(w) \/ WriteRequest(w) \/ RefundReceipt(w)
      PROVE  IInv'
  BY <1>6, ReceiveInvariant, ReadRequestInvariant, WriteRequestInvariant,
     RefundReceiptInvariant
<1>7. ASSUME NEW c \in Calls, WriteFails(c) \/ CutOff(c) PROVE IInv'
  BY <1>7, WriteFailsInvariant, CutOffInvariant
<1>8. CASE UNCHANGED vars
  <2>1. TypeOK'
    BY <1>8 DEF vars, IInv, TypeOK
  <2> QED BY <1>8, <2>1, QuietInvariant DEF vars
<1> QED BY <1>1, <1>2, <1>3, <1>4, <1>5, <1>6, <1>7, <1>8 DEF Next

LEMMA InvariantHolds == Spec => []IInv
BY InitInvariant, NextInvariant, PTL DEF Spec

-----------------------------------------------------------------------------

(* Every variable keeps its type, and the balance is never negative          *)
(* (deploy_supabase_rpcs.py, deduct_wallet_credit).                         *)
THEOREM TypeCorrect == Spec => []TypeOK
<1>1. IInv => TypeOK
  BY DEF IInv
<1> QED BY <1>1, InvariantHolds, PTL

(* Only debited messages leave, and a send that is answered with an error    *)
(* costs nothing, unless the error is the wallet's (otp/index.ts:157-215).   *)
THEOREM SendsSettle == Spec => []SendSettles
<1>1. IInv => SendSettles
  <2> SUFFICES ASSUME IInv, NEW s \in Sends
               PROVE  /\ s \in sent => s \in debited
                      /\ pc[s] \in {"insufficient", "unrecorded"} =>
                            s \in lost \/ (s \in debited <=> refunds[s] > 0)
    BY DEF SendSettles
  <2>1. refunds[s] \in Nat
    BY DEF IInv, TypeOK
  <2> QED BY <2>1 DEF IInv, SendsArePaid, ErrorsAreSettled
<1> QED BY <1>1, InvariantHolds, PTL

(* Fewer than max_attempts codes of a request are compared after a counted   *)
(* attempt, however many verifications and resends overlap                  *)
(* (otp/index.ts:308-327, 408-415, deploy_supabase_rpcs.py:128-161).        *)
THEOREM GuessesBounded == Spec => []GuessesAreBounded
<1>1. IInv => GuessesAreBounded
  BY DEF IInv, ComparedAreCounted, GuessesAreBounded
<1> QED BY <1>1, InvariantHolds, PTL

(* Refunds are of debited sends: one if the row was not recorded, or one for *)
(* each receipt of a failure                                               *)
(* (otp/index.ts:208-215, meta-webhook/index.ts:117-135).                    *)
THEOREM RefundsFollow == Spec => []RefundsFollowFailures
<1>1. IInv => RefundsFollowFailures
  <2> SUFFICES ASSUME IInv, NEW r \in Sends
               PROVE  /\ refunds[r] > 0 => r \in debited
                      /\ refunds[r] <=
                           IF pc[r] = "answered"
                           THEN Cardinality({w \in Receipts : of[w] = r /\ event[w] = "failed"})
                           ELSE IF pc[r] = "unrecorded" THEN 1 ELSE 0
    BY DEF RefundsFollowFailures
  <2> DEFINE Failures == {w \in Receipts : of[w] = r /\ event[w] = "failed"}
  <2>1. Settled(r) \subseteq Failures /\ Failures \subseteq Receipts
    BY DEF Settled
  <2>2. /\ Cardinality(Failures) \in Nat /\ Cardinality(Settled(r)) \in Nat
        /\ Cardinality(Settled(r)) <= Cardinality(Failures)
    BY <2>1, EdgeOtpAssumption, FS_Subset, FS_CardinalityType
  <2>3. refunds[r] \in Nat /\ refunds[r] <= Allowance(r)
    BY DEF IInv, TypeOK, RefundsAreCounted
  <2>4. refunds[r] > 0 => r \in debited
    BY DEF IInv, SendsArePaid
  <2> HIDE DEF Failures
  <2>5. refunds[r] <= IF pc[r] = "answered" THEN Cardinality(Failures)
                      ELSE IF pc[r] = "unrecorded" THEN 1 ELSE 0
    BY <2>2, <2>3 DEF Allowance
  <2> QED BY <2>4, <2>5 DEF Failures
<1> QED BY <1>1, InvariantHolds, PTL

-----------------------------------------------------------------------------
(* Verified requests *)

(* What a step of a call does to a verified request is the doing of a call   *)
(* that had read it before.                                                 *)
SettlesVerified ==
    \A r \in Sends :
        status[r] = "verified" /\ <<status[r], refunds[r]>>' # <<status[r], refunds[r]>>
        => \E c \in overtaken : of[c] = r /\ pc'[c] # pc[c]

(* A step that changes the status or the refunds of one request, by a call   *)
(* that is under way with it.                                               *)
LEMMA ByCallUnderWay ==
    ASSUME IInv, NEW c \in Others, of[c] \in Sends, NEW label, Goto(c, label),
           pc[c] \in {"expire", "attempt", "mark", "update", "write", "refund"}, label # pc[c],
           \A r \in Sends \ {of[c]} : status'[r] = status[r] /\ refunds'[r] = refunds[r]
    PROVE  SettlesVerified
<1> SUFFICES ASSUME NEW r \in Sends, status[r] = "verified",
                    <<status[r], refunds[r]>>' # <<status[r], refunds[r]>>
             PROVE  \E d \in overtaken : of[d] = r /\ pc'[d] # pc[d]
  BY DEF SettlesVerified
<1>1. of[c] = r
  OBVIOUS
<1>2. c \in overtaken
  BY <1>1 DEF IInv, VerifiedIsKnown, UnderWay
<1>3. pc'[c] # pc[c]
  BY DEF IInv, TypeOK
<1> QED BY <1>1, <1>2, <1>3

(* A send changes its own request, before it is answered.                   *)
LEMMA BySend ==
    ASSUME IInv, NEW s \in Sends, pc[s] # "answered",
           \A r \in Sends \ {s} : status'[r] = status[r] /\ refunds'[r] = refunds[r]
    PROVE  SettlesVerified
BY DEF IInv, RequestsAreAnswered, SettlesVerified

LEMMA NextSettlesVerified == IInv /\ [Next]_vars => SettlesVerified
<1> SUFFICES ASSUME IInv, [Next]_vars PROVE SettlesVerified
  OBVIOUS
<1> USE DEF IInv
<1>1. CASE UNCHANGED <<status, refunds>>
  BY <1>1 DEF SettlesVerified
<1>2. ASSUME NEW s \in Sends,
             Insert(s) \/ InsertFails(s) \/ RefundSend(s) \/ RefundSendFails(s)
      PROVE  SettlesVerified
  <2>1. pc[s] # "answered"
    BY <1>2 DEF Insert, InsertFails, RefundSend, RefundSendFails
  <2>2. \A r \in Sends \ {s} : status'[r] = status[r] /\ refunds'[r] = refunds[r]
    BY <1>2 DEF Insert, InsertFails, RefundSend, RefundSendFails, InsertRow, RefundCredit, TypeOK
  <2> QED BY <2>1, <2>2, BySend
<1>3. ASSUME NEW c \in Calls,
             \/ MarkExpired(c) \/ Attempt(c) \/ AttemptFails(c) \/ MarkVerified(c) \/ Update(c)
             \/ WriteRequest(c) \/ RefundReceipt(c)
      PROVE  SettlesVerified
  <2> USE EdgeOtpAssumption
          DEF MarkExpired, Attempt, AttemptFails, MarkVerified, Update, WriteRequest,
              RefundReceipt
  <2>1. pc[c] \in {"expire", "attempt", "mark", "update", "write", "refund"}
    BY <1>3
  <2>2. c \in Others /\ of[c] \in Sends
    BY <2>1 DEF SendsArePaid, RequestsAreAnswered
  <2>3. PICK label : Goto(c, label) /\ label # pc[c]
    BY <1>3 DEF Compare, AfterWrite
  <2>4. \A r \in Sends \ {of[c]} : status'[r] = status[r] /\ refunds'[r] = refunds[r]
    BY <1>3, <2>2 DEF RecordAttempt, RefundCredit, TypeOK
  <2> QED BY <2>1, <2>2, <2>3, <2>4, ByCallUnderWay
<1> QED
  BY <1>1, <1>2, <1>3
  DEF Next, vars, Deduct, Insufficient, DeductFails, DeductCredit, Dispatch, LogMessage, Expire,
      SelectForVerify, SelectForResend, Receive, ReadRequest, WriteFails, CutOff

(* A verified request gets no other status and no refund, except by a call   *)
(* that had read it before it was verified                                  *)
(* (otp/index.ts:296-337, 382-415, meta-webhook/index.ts:111-135).           *)
THEOREM VerifiedSettled == Spec => VerifiedIsSettled
<1>1. IInv /\ [Next]_vars => [SettlesVerified]_vars
  BY NextSettlesVerified
<1>2. VerifiedIsSettled <=> [][SettlesVerified]_vars
  BY DEF VerifiedIsSettled, SettlesVerified
<1> QED BY <1>1, <1>2, InvariantHolds, PTL DEF Spec

=============================================================================
