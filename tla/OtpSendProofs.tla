--------------------------- MODULE OtpSendProofs ---------------------------
(* Theorems about OtpSend.                                                  *)
EXTENDS OtpSend, TLAPS

BeforeDispatch == {"ready", "lookup", "limit", "cooldown", "create", "debit", "store",
                   "queue", "direct"}

(* A call that has begun is served by a node and is about a request, which   *)
(* a send creates.                                                         *)
HasBegun(c) ==
    /\ pc[c] # "ready" => req[c].node \in Nodes /\ req[c].of \in OtpRequests
    /\ pc[c] = "create" => c \in Sends

(* The response of a call is looked up and saved under a key only.          *)
HasKey(c) == pc[c] \in {"lookup", "save", "saveRow"} => req[c].key \in Keys

(* Nothing has become of the message of a call that has not dispatched it.  *)
IsUnsent(c) == pc[c] \in BeforeDispatch => message[c] = "none"

(* The debit comes before the code is stored, and both before the dispatch. *)
IsPaid(c) ==
    /\ pc[c] = "ready" => c \notin debited
    /\ pc[c] \in {"store", "queue", "direct"} \/ message[c] # "none" => c \in debited
    /\ pc[c] \in {"queue", "direct"} \/ message[c] # "none" => c \in stored

(* A message that is not queued, sent or lost has been given up, and a       *)
(* message that was given up is one of these unless a fault has met its job. *)
IsGivenUp(c) ==
    /\ message[c] \in {"failed", "refunded", "refused"} => c \in givenUp
    /\ c \in givenUp \ faulty => message[c] \in {"failed", "refunded", "refused"}

(* A send refunds what the provider refused, before it answers, and a job    *)
(* that has refunded has.                                                  *)
IsRefunded(c) ==
    /\ pc[c] = "refund" => message[c] = "refused" /\ c \in Sends
    /\ \/ message[c] = "refunded"
       \/ message[c] = "refused" /\ c \in Sends /\ pc[c] \in {"save", "saveRow", "accepted"}
       => Refunded(req[c].of)
    /\ message[c] = "refused" => pc[c] \in {"refund", "save", "saveRow", "accepted", "aborted"}

(* A repetition finds the row of its key and goes no further.               *)
IsRepeat(c) ==
    c \in repeats => /\ pc[c] \in {"lookup", "cached", "aborted"}
                     /\ req[c].key \in rows
                     /\ c \notin debited

Controlled(c) ==
    /\ HasBegun(c) /\ HasKey(c) /\ IsUnsent(c) /\ IsPaid(c)
    /\ IsGivenUp(c) /\ IsRefunded(c) /\ IsRepeat(c)

(* Every call that a store admits is in its log.                            *)
AdmittedAreHits ==
    \A s \in Stores : admitted[s] <= hits[s] /\ admitted[s] <= PhoneLimit

IInv ==
    /\ TypeOK
    /\ \A c \in Calls : Controlled(c)
    /\ RefundIsEarned
    /\ AdmittedAreHits

USE DEF Goto, Answer, Reached, Running, Outcomes, Messages, Calls, OtpRequests, Stores,
        limits, answers, money, fates

-----------------------------------------------------------------------------

LEMMA InitInvariant == Init => IInv
<1> SUFFICES ASSUME Init PROVE IInv
  OBVIOUS
<1> USE OtpSendAssumption DEF Init
<1>1. TypeOK
  BY DEF TypeOK, NoReq
<1>2. \A c \in Calls : Controlled(c)
  BY DEF Controlled, HasBegun, HasKey, IsUnsent, IsPaid, IsGivenUp, IsRefunded, IsRepeat
<1>3. RefundIsEarned /\ AdmittedAreHits
  BY DEF RefundIsEarned, AdmittedAreHits
<1> QED BY <1>1, <1>2, <1>3 DEF IInv

(* What a step of one call leaves to the others.                            *)
Alone(c) ==
    /\ \A d \in Calls \ {c} : pc'[d] = pc[d] /\ req'[d] = req[d] /\ message'[d] = message[d]
    /\ debited \subseteq debited' /\ debited' \subseteq debited \cup {c}
    /\ repeats' \subseteq repeats \cup {c}
    /\ stored \subseteq stored' /\ rows \subseteq rows' /\ credited \subseteq credited'
    /\ givenUp \subseteq givenUp' /\ givenUp' \subseteq givenUp \cup {c}
    /\ faulty \subseteq faulty' /\ faulty' \subseteq faulty \cup {c}

LEMMA OtherCallsKeep ==
    ASSUME NEW c \in Calls, NEW d \in Calls \ {c}, Controlled(d), Alone(c)
    PROVE  Controlled(d)'
<1> USE DEF Alone, Controlled
<1>1. HasBegun(d)' /\ HasKey(d)' /\ IsUnsent(d)'
  BY DEF HasBegun, HasKey, IsUnsent
<1>2. IsPaid(d)' /\ IsRepeat(d)'
  BY DEF IsPaid, IsRepeat
<1>3. IsGivenUp(d)' /\ IsRefunded(d)'
  BY DEF IsGivenUp, IsRefunded, Refunded
<1> QED BY <1>1, <1>2, <1>3

(* What was refunded stays earned: that a message was given up is not undone. *)
LEMMA RefundStaysEarned ==
    ASSUME RefundIsEarned, credited' \subseteq credited, debited \subseteq debited',
           givenUp \subseteq givenUp', \A c \in debited : req'[c] = req[c]
    PROVE  RefundIsEarned'
BY DEF RefundIsEarned

(* A call goes on, and neither its request nor any money or message changes. *)
LEMMA MoveInvariant ==
    ASSUME IInv, NEW c \in Calls, NEW label \in Running \cup Outcomes,
           Goto(c, label), pc[c] # "ready",
           label \notin {"lookup", "refund"},
           label = "create" => c \in Sends,
           label \in {"save", "saveRow"} => req[c].key \in Keys,
           label \in BeforeDispatch \cup {"cached", "limited", "cooling", "insufficient"}
             => pc[c] \in BeforeDispatch,
           label \in {"store", "queue", "direct"} => c \in debited,
           label \in {"queue", "direct"} => c \in stored',
           label \in {"save", "saveRow", "accepted"} => pc[c] \in {"save", "saveRow"},
           repeats' \subseteq repeats, c \in repeats' => label \in {"cached", "aborted"},
           stored \subseteq stored', rows \subseteq rows',
           UNCHANGED <<req, debited, credited, fates>>
    PROVE  (\A d \in Calls : Controlled(d))' /\ RefundIsEarned'
<1> USE DEF IInv
<1>1. Alone(c) /\ pc'[c] = label /\ Controlled(c)
  BY DEF TypeOK, Alone
<1>2. HasBegun(c)' /\ HasKey(c)' /\ IsUnsent(c)'
  BY <1>1 DEF Controlled, HasBegun, HasKey, IsUnsent
<1>3. IsPaid(c)' /\ IsRepeat(c)'
  BY <1>1 DEF Controlled, IsPaid, IsRepeat, BeforeDispatch
<1>4. IsGivenUp(c)' /\ IsRefunded(c)'
  BY <1>1 DEF Controlled, IsUnsent, IsGivenUp, IsRefunded, Refunded, BeforeDispatch
<1>5. \A d \in Calls \ {c} : Controlled(d)'
  BY <1>1, OtherCallsKeep
<1>6. RefundIsEarned'
  BY RefundStaysEarned
<1> QED BY <1>2, <1>3, <1>4, <1>5, <1>6 DEF Controlled

-----------------------------------------------------------------------------

LEMMA BeginInvariant ==
    ASSUME IInv, NEW c \in Calls, NEW k \in Keys \cup {None}, NEW n \in Nodes,
           NEW of \in OtpRequests, Begin(c, k, n, of), c \in Resends => k = None
    PROVE  IInv'
<1> USE OtpSendAssumption DEF IInv, Begin
<1>1. TypeOK'
  BY DEF TypeOK
<1>2. Alone(c) /\ Controlled(c) /\ req'[c] = [key |-> k, node |-> n, of |-> of]
  BY DEF TypeOK, Alone
<1>3. pc'[c] = IF c \in Resends THEN "cooldown" ELSE IF k = None THEN "limit" ELSE "lookup"
  BY DEF TypeOK
<1>4. message'[c] = "none" /\ c \notin debited'
  BY DEF Controlled, IsUnsent, IsPaid, BeforeDispatch
<1>5. /\ HasBegun(c)' /\ HasKey(c)' /\ IsUnsent(c)' /\ IsPaid(c)'
      /\ IsGivenUp(c)' /\ IsRefunded(c)'
  BY <1>2, <1>3, <1>4
  DEF Controlled, HasBegun, HasKey, IsUnsent, IsPaid, IsGivenUp, IsRefunded
<1>6. IsRepeat(c)'
  <2>1. c \notin repeats
    BY DEF Controlled, IsRepeat
  <2>2. c \in repeats' => c \notin Resends /\ k # None /\ k \in rows'
    BY <2>1
  <2> QED BY <2>2, <1>2, <1>3, <1>4 DEF IsRepeat
<1>7. \A d \in Calls \ {c} : Controlled(d)'
  BY <1>2, OtherCallsKeep
<1>8. RefundIsEarned'
  <2>1. c \notin debited
    BY DEF Controlled, IsPaid
  <2>2. \A d \in debited : req'[d] = req[d]
    BY <2>1 DEF TypeOK
  <2> QED BY <2>2, RefundStaysEarned
<1>9. AdmittedAreHits'
  BY DEF AdmittedAreHits
<1> QED BY <1>1, <1>5, <1>6, <1>7, <1>8, <1>9 DEF Controlled

LEMMA StartInvariant ==
    ASSUME IInv, NEW c \in Calls, Start(c) PROVE IInv'
<1>1. PICK n \in Nodes :
        \/ c \in Sends /\ \E k \in Keys \cup {None} : Begin(c, k, n, c)
        \/ c \in Resends /\ \E r \in created : Begin(c, None, n, r)
  BY DEF Start
<1>2. CASE c \in Sends /\ \E k \in Keys \cup {None} : Begin(c, k, n, c)
  BY <1>2, BeginInvariant, OtpSendAssumption
<1>3. CASE c \in Resends /\ \E r \in created : Begin(c, None, n, r)
  BY <1>3, BeginInvariant DEF IInv, TypeOK
<1> QED BY <1>1, <1>2, <1>3

(* The answer to a repetition is found: the row of its key is there.        *)
LEMMA LookupInvariant ==
    ASSUME IInv, NEW c \in Calls, Lookup(c) PROVE IInv'
<1> USE DEF IInv, Lookup
<1>1. PICK s \in Reached(c), fails \in BOOLEAN :
        /\ Goto(c, IF req[c].key \in saved[s] \cup saved[req[c].node]
                                     \cup (IF fails THEN {} ELSE rows)
                   THEN "cached" ELSE "limit")
        /\ repeats' = IF fails THEN repeats \ {c} ELSE repeats
  OBVIOUS
<1> DEFINE label == IF req[c].key \in saved[s] \cup saved[req[c].node]
                                      \cup (IF fails THEN {} ELSE rows)
                    THEN "cached" ELSE "limit"
<1>2. TypeOK'
  BY <1>1 DEF TypeOK
<1>3. repeats' \subseteq repeats /\ (c \in repeats' => label = "cached")
  BY <1>1 DEF Controlled, IsRepeat
<1>4. pc[c] \in BeforeDispatch /\ label \in {"cached", "limit"}
  BY DEF BeforeDispatch
<1>5. (\A d \in Calls : Controlled(d))' /\ RefundIsEarned'
  <2>1. Goto(c, label)
    BY <1>1
  <2> HIDE DEF label
  <2> QED BY <2>1, <1>3, <1>4, MoveInvariant
<1>6. AdmittedAreHits'
  BY DEF AdmittedAreHits
<1> QED BY <1>2, <1>5, <1>6

(* A call counts itself before it compares.                                 *)
LEMMA LimitInvariant ==
    ASSUME IInv, NEW c \in Calls, Limit(c) PROVE IInv'
<1> USE OtpSendAssumption DEF IInv, Limit
<1>1. PICK s \in Reached(c) :
        /\ hits' = [hits EXCEPT ![s] = @ + 1]
        /\ IF hits[s] + 1 > PhoneLimit
           THEN Goto(c, "limited") /\ UNCHANGED admitted
           ELSE Goto(c, "cooldown") /\ admitted' = [admitted EXCEPT ![s] = @ + 1]
  OBVIOUS
<1>2. s \in Stores /\ hits \in [Stores -> Nat] /\ admitted \in [Stores -> Nat]
  BY DEF Controlled, HasBegun, TypeOK
<1>3. hits' \in [Stores -> Nat] /\ admitted' \in [Stores -> Nat]
  BY <1>1, <1>2
<1>4. PICK label \in {"limited", "cooldown"} : Goto(c, label)
  BY <1>1
<1>5. TypeOK'
  BY <1>3, <1>4 DEF TypeOK
<1>6. c \notin repeats /\ pc[c] \in BeforeDispatch
  BY DEF Controlled, IsRepeat, BeforeDispatch
<1>7. (\A d \in Calls : Controlled(d))' /\ RefundIsEarned'
  BY <1>4, <1>6, MoveInvariant
<1>8. AdmittedAreHits'
  BY <1>1, <1>2 DEF AdmittedAreHits
<1> QED BY <1>5, <1>7, <1>8

LEMMA CheckCooldownInvariant ==
    ASSUME IInv, NEW c \in Calls, CheckCooldown(c) PROVE IInv'
<1> USE DEF IInv, CheckCooldown
<1>1. PICK label \in {"cooling", "debit", "create"} :
        Goto(c, label) /\ (label = "create" => c \in Sends)
  <2>1. PICK s \in Reached(c) :
          Goto(c, IF {s, req[c].node} \cap cooldown # {} THEN "cooling"
                  ELSE IF c \in Resends THEN "debit" ELSE "create")
    OBVIOUS
  <2> QED BY <2>1
<1>2. TypeOK'
  BY <1>1 DEF TypeOK
<1>3. c \notin repeats /\ pc[c] \in BeforeDispatch
  BY DEF Controlled, IsRepeat, BeforeDispatch
<1>4. (\A d \in Calls : Controlled(d))' /\ RefundIsEarned'
  BY <1>1, <1>3, MoveInvariant
<1>5. AdmittedAreHits'
  BY DEF AdmittedAreHits
<1> QED BY <1>2, <1>4, <1>5

(* Only a send creates a row: a resend goes from the cooldown to the debit. *)
LEMMA CreateRowInvariant ==
    ASSUME IInv, NEW c \in Calls, CreateRow(c) PROVE IInv'
<1> USE DEF IInv, CreateRow
<1>0. Goto(c, "debit") /\ "debit" \in Running \cup Outcomes
  OBVIOUS
<1>1. c \in Sends /\ c \notin repeats /\ pc[c] \in BeforeDispatch
  BY DEF Controlled, HasBegun, IsRepeat, BeforeDispatch
<1>2. TypeOK'
  BY <1>1 DEF TypeOK
<1>3. (\A d \in Calls : Controlled(d))' /\ RefundIsEarned'
  BY <1>1, <1>0, MoveInvariant
<1>4. AdmittedAreHits'
  BY DEF AdmittedAreHits
<1> QED BY <1>2, <1>3, <1>4

-----------------------------------------------------------------------------

LEMMA DebitInvariant ==
    ASSUME IInv, NEW c \in Calls, Debit(c) PROVE IInv'
<1> USE DEF IInv, Debit
<1>1. TypeOK'
  BY DEF TypeOK
<1>2. Alone(c) /\ pc'[c] = "store" /\ c \in debited' /\ Controlled(c) /\ c \notin repeats'
  BY DEF TypeOK, Alone, Controlled, IsRepeat
<1>3. HasBegun(c)' /\ HasKey(c)' /\ IsUnsent(c)' /\ IsPaid(c)' /\ IsRepeat(c)'
  BY <1>2 DEF Controlled, HasBegun, HasKey, IsUnsent, IsPaid, IsRepeat, BeforeDispatch
<1>4. IsGivenUp(c)' /\ IsRefunded(c)'
  BY <1>2 DEF Controlled, IsUnsent, IsGivenUp, IsRefunded, BeforeDispatch
<1>5. \A d \in Calls \ {c} : Controlled(d)'
  BY <1>2, OtherCallsKeep
<1>6. RefundIsEarned'
  <2> QED BY RefundStaysEarned
<1>7. AdmittedAreHits'
  BY DEF AdmittedAreHits
<1> QED BY <1>1, <1>3, <1>4, <1>5, <1>6, <1>7 DEF Controlled

LEMMA InsufficientInvariant ==
    ASSUME IInv, NEW c \in Calls, Insufficient(c) PROVE IInv'
<1> USE DEF IInv, Insufficient
<1>0. Goto(c, "insufficient") /\ "insufficient" \in Running \cup Outcomes
  OBVIOUS
<1>1. c \notin repeats
  BY DEF Controlled, IsRepeat
<1>2. TypeOK'
  BY DEF TypeOK
<1>3. (\A d \in Calls : Controlled(d))' /\ RefundIsEarned'
  BY <1>1, <1>0, MoveInvariant DEF BeforeDispatch
<1>4. AdmittedAreHits'
  BY DEF AdmittedAreHits
<1> QED BY <1>2, <1>3, <1>4

LEMMA StoreInvariant ==
    ASSUME IInv, NEW c \in Calls, Store(c) PROVE IInv'
<1> USE DEF IInv, Store
<1>0. Goto(c, "queue") /\ "queue" \in Running \cup Outcomes
  OBVIOUS
<1>1. c \notin repeats /\ c \in debited /\ pc[c] \in BeforeDispatch
  BY DEF Controlled, IsRepeat, IsPaid, BeforeDispatch
<1>2. TypeOK'
  BY DEF TypeOK, Controlled, HasBegun
<1>3. (\A d \in Calls : Controlled(d))' /\ RefundIsEarned'
  BY <1>1, <1>0, MoveInvariant
<1>4. AdmittedAreHits'
  BY DEF AdmittedAreHits
<1> QED BY <1>2, <1>3, <1>4

LEMMA EnqueueFailsInvariant ==
    ASSUME IInv, NEW c \in Calls, EnqueueFails(c) PROVE IInv'
<1> USE DEF IInv, EnqueueFails
<1>0. Goto(c, "direct") /\ "direct" \in Running \cup Outcomes
  OBVIOUS
<1>1. c \notin repeats /\ c \in debited /\ c \in stored /\ pc[c] \in BeforeDispatch
  BY DEF Controlled, IsRepeat, IsPaid, BeforeDispatch
<1>2. TypeOK'
  BY DEF TypeOK
<1>3. (\A d \in Calls : Controlled(d))' /\ RefundIsEarned'
  BY <1>1, <1>0, MoveInvariant
<1>4. AdmittedAreHits'
  BY DEF AdmittedAreHits
<1> QED BY <1>2, <1>3, <1>4

(* A dispatch: the message of a debited call leaves, or is refused.         *)
LEMMA DispatchInvariant ==
    ASSUME IInv, NEW c \in Calls, pc[c] \in {"queue", "direct"},
           NEW m \in {"queued", "sent", "refused"}, message' = [message EXCEPT ![c] = m],
           NEW label \in {"save", "accepted", "refund"}, Goto(c, label),
           label = "save" => req[c].key \in Keys,
           label = "accepted" => req[c].key = None,
           label = "refund" <=> m = "refused" /\ c \in Sends,
           givenUp' = IF m = "refused" THEN givenUp \cup {c} ELSE givenUp,
           UNCHANGED <<req, answers, limits, created, stored, money, faulty, repeats>>
    PROVE  IInv'
<1> USE DEF IInv
<1>1. TypeOK'
  BY DEF TypeOK
<1>2. Alone(c) /\ pc'[c] = label /\ message'[c] = m /\ Controlled(c)
  BY DEF TypeOK, Alone
<1>3. c \notin repeats /\ message[c] = "none"
  BY DEF Controlled, IsRepeat, IsUnsent, BeforeDispatch
<1>4. HasBegun(c)' /\ HasKey(c)' /\ IsUnsent(c)' /\ IsPaid(c)' /\ IsRepeat(c)'
  BY <1>2, <1>3 DEF Controlled, HasBegun, HasKey, IsUnsent, IsPaid, IsRepeat, BeforeDispatch
<1>5. IsGivenUp(c)' /\ IsRefunded(c)'
  BY <1>2, <1>3 DEF Controlled, IsGivenUp, IsRefunded
<1>6. \A d \in Calls \ {c} : Controlled(d)'
  BY <1>2, OtherCallsKeep
<1>7. RefundIsEarned'
  BY RefundStaysEarned
<1>8. AdmittedAreHits'
  BY DEF AdmittedAreHits
<1> QED BY <1>1, <1>4, <1>5, <1>6, <1>7, <1>8 DEF Controlled

(* The label an answer goes to.                                            *)
LEMMA AnswerGoesTo ==
    ASSUME TypeOK, NEW c \in Calls, Answer(c)
    PROVE  \E label \in {"save", "accepted"} :
              /\ Goto(c, label)
              /\ label = "save" => req[c].key \in Keys
              /\ label = "accepted" => req[c].key = None
BY DEF TypeOK

LEMMA EnqueueInvariant ==
    ASSUME IInv, NEW c \in Calls, Enqueue(c) PROVE IInv'
<1>1. PICK label \in {"save", "accepted"} :
        /\ Goto(c, label)
        /\ label = "save" => req[c].key \in Keys
        /\ label = "accepted" => req[c].key = None
  BY AnswerGoesTo DEF Enqueue, IInv
<1> HIDE DEF Goto, Answer
<1> QED BY <1>1, DispatchInvariant DEF Enqueue

LEMMA DirectSentInvariant ==
    ASSUME IInv, NEW c \in Calls, DirectSent(c) PROVE IInv'
<1>1. PICK label \in {"save", "accepted"} :
        /\ Goto(c, label)
        /\ label = "save" => req[c].key \in Keys
        /\ label = "accepted" => req[c].key = None
  BY AnswerGoesTo DEF DirectSent, IInv
<1> HIDE DEF Goto, Answer
<1> QED BY <1>1, DispatchInvariant DEF DirectSent

LEMMA DirectRefusedInvariant ==
    ASSUME IInv, NEW c \in Calls, DirectRefused(c) PROVE IInv'
<1>1. CASE c \in Sends
  <2>1. Goto(c, "refund")
    BY <1>1 DEF DirectRefused
  <2> HIDE DEF Goto, Answer
  <2> QED BY <1>1, <2>1, DispatchInvariant DEF DirectRefused
<1>2. CASE c \notin Sends
  <2>1. PICK label \in {"save", "accepted"} :
          /\ Goto(c, label)
          /\ label = "save" => req[c].key \in Keys
          /\ label = "accepted" => req[c].key = None
    BY <1>2, AnswerGoesTo DEF DirectRefused, IInv
  <2> HIDE DEF Goto, Answer
  <2> QED BY <1>2, <2>1, DispatchInvariant DEF DirectRefused
<1> QED BY <1>1, <1>2

-----------------------------------------------------------------------------
(* Refunds *)

(* A refund leaves its request refunded, and every other one as it was.     *)
LEMMA RefundCreditsRefunds ==
    ASSUME TypeOK, NEW r \in OtpRequests, RefundCredits(r)
    PROVE  /\ Refunded(r)'
           /\ credited \subseteq credited' /\ credited' \subseteq credited \cup {r}
           /\ balance' \in Nat
<1>1. CASE Refunded(r)
  BY <1>1 DEF RefundCredits, Refunded, TypeOK
<1>2. CASE ~Refunded(r)
  BY <1>2 DEF RefundCredits, Refunded, TypeOK
<1> QED BY <1>1, <1>2

(* A refund is earned by the call whose message has been given up.          *)
LEMMA RefundBecomesEarned ==
    ASSUME RefundIsEarned, NEW c \in debited \cap givenUp,
           credited' \subseteq credited \cup {req[c].of}, UNCHANGED <<req, debited, givenUp>>
    PROVE  RefundIsEarned'
<1> SUFFICES ASSUME NEW r \in credited'
             PROVE  \E d \in debited \cap givenUp : req[d].of = r
  BY DEF RefundIsEarned
<1>1. CASE r = req[c].of
  BY <1>1
<1>2. CASE r \in credited
  BY <1>2 DEF RefundIsEarned
<1> QED BY <1>1, <1>2

LEMMA RefundInvariant ==
    ASSUME IInv, NEW c \in Calls, Refund(c) PROVE IInv'
<1> USE DEF IInv, Refund
<1>1. PICK label \in {"save", "accepted"} :
        /\ Goto(c, label)
        /\ label = "save" => req[c].key \in Keys
        /\ label = "accepted" => req[c].key = None
  BY AnswerGoesTo
<1>2. /\ message[c] = "refused" /\ c \in Sends /\ c \in debited \cap givenUp
      /\ c \notin repeats /\ req[c].of \in OtpRequests
  BY DEF Controlled, HasBegun, IsPaid, IsGivenUp, IsRefunded, IsRepeat
<1>3. /\ Refunded(req[c].of)'
      /\ credited \subseteq credited' /\ credited' \subseteq credited \cup {req[c].of}
      /\ balance' \in Nat
  BY <1>2, RefundCreditsRefunds
<1>4. TypeOK'
  BY <1>1, <1>2, <1>3 DEF TypeOK
<1>5. Alone(c) /\ pc'[c] = label /\ Controlled(c) /\ UNCHANGED <<req, rows, debited, repeats>>
  BY <1>1, <1>3 DEF TypeOK, Alone
<1>6. HasBegun(c)' /\ HasKey(c)' /\ IsUnsent(c)' /\ IsPaid(c)' /\ IsRepeat(c)'
  BY <1>1, <1>2, <1>5
  DEF Controlled, HasBegun, HasKey, IsUnsent, IsPaid, IsRepeat, BeforeDispatch
<1>7. IsGivenUp(c)' /\ IsRefunded(c)'
  BY <1>2, <1>3, <1>5 DEF Controlled, IsGivenUp, IsRefunded
<1>8. \A d \in Calls \ {c} : Controlled(d)'
  BY <1>5, OtherCallsKeep
<1>9. RefundIsEarned'
  BY <1>2, <1>3, RefundBecomesEarned
<1>10. AdmittedAreHits'
  BY DEF AdmittedAreHits
<1> QED BY <1>4, <1>6, <1>7, <1>8, <1>9, <1>10 DEF Controlled

(* What a turn of a job leaves alone, whatever it does to the money.        *)
LEMMA TurnKeeps ==
    ASSUME IInv, NEW c \in Calls, NEW from \in SUBSET {"queued", "failed", "refunded"},
           NEW to \in Messages \ {"none", "refused"}, Turns(c, from, to),
           credited \subseteq credited', credited' \subseteq OtpRequests, balance' \in Nat,
           givenUp' \in {givenUp, givenUp \cup {c}}, faulty' \in {faulty, faulty \cup {c}},
           to \in {"failed", "refunded"} => c \in givenUp',
           c \in givenUp' \ faulty' => to \in {"failed", "refunded"},
           to = "refunded" => Refunded(req[c].of)'
    PROVE  TypeOK' /\ (\A d \in Calls : Controlled(d))' /\ AdmittedAreHits'
<1> USE DEF IInv, Turns
<1>1. TypeOK'
  BY DEF TypeOK
<1>2. /\ Alone(c) /\ message'[c] = to /\ Controlled(c)
      /\ UNCHANGED <<pc, req, rows, stored, debited, repeats>>
  BY DEF TypeOK, Alone
<1>3. pc[c] \notin BeforeDispatch /\ pc[c] # "refund" /\ message[c] # "none"
  BY DEF Controlled, IsUnsent, IsRefunded
<1>4. HasBegun(c)' /\ HasKey(c)' /\ IsUnsent(c)' /\ IsPaid(c)' /\ IsRepeat(c)'
  BY <1>2, <1>3 DEF Controlled, HasBegun, HasKey, IsUnsent, IsPaid, IsRepeat
<1>5. IsGivenUp(c)' /\ IsRefunded(c)'
  BY <1>2, <1>3 DEF IsGivenUp, IsRefunded
<1>6. \A d \in Calls \ {c} : Controlled(d)'
  BY <1>2, OtherCallsKeep
<1>7. AdmittedAreHits'
  BY DEF AdmittedAreHits
<1> QED BY <1>1, <1>4, <1>5, <1>6, <1>7 DEF Controlled

(* A turn that leaves the money alone.                                      *)
LEMMA QuietTurnInvariant ==
    ASSUME IInv, NEW c \in Calls, NEW from \in SUBSET {"queued", "failed", "refunded"},
           NEW to \in {"queued", "sent", "failed", "lost"}, Turns(c, from, to),
           givenUp' \in {givenUp, givenUp \cup {c}}, faulty' \in {faulty, faulty \cup {c}},
           to = "failed" => c \in givenUp', c \in givenUp' \ faulty' => to = "failed",
           UNCHANGED <<balance, credited>>
    PROVE  IInv'
<1>1. credited' \subseteq OtpRequests /\ balance' \in Nat
  BY DEF IInv, TypeOK
<1>2. TypeOK' /\ (\A d \in Calls : Controlled(d))' /\ AdmittedAreHits'
  BY <1>1, TurnKeeps
<1>3. RefundIsEarned'
  BY RefundStaysEarned DEF IInv, Turns
<1> QED BY <1>2, <1>3 DEF IInv

LEMMA JobSentInvariant ==
    ASSUME IInv, NEW c \in Calls, JobSent(c) PROVE IInv'
<1>1. c \notin givenUp \ faulty
  BY DEF IInv, Controlled, IsGivenUp, JobSent, Turns
<1> QED BY <1>1, QuietTurnInvariant DEF JobSent

LEMMA JobFailedInvariant ==
    ASSUME IInv, NEW c \in Calls, JobFailed(c) PROVE IInv'
BY QuietTurnInvariant DEF JobFailed

LEMMA JobRetriedInvariant ==
    ASSUME IInv, NEW c \in Calls, JobRetried(c) PROVE IInv'
BY QuietTurnInvariant DEF JobRetried, Meets

LEMMA JobLostInvariant ==
    ASSUME IInv, NEW c \in Calls, JobLost(c) PROVE IInv'
BY QuietTurnInvariant DEF JobLost, Meets

LEMMA JobRefundInvariant ==
    ASSUME IInv, NEW c \in Calls, JobRefund(c) PROVE IInv'
<1> USE DEF IInv, JobRefund
<1>1. /\ c \in debited \cap givenUp /\ req[c].of \in OtpRequests
      /\ UNCHANGED <<req, debited, givenUp, faulty>>
  BY DEF Controlled, HasBegun, IsUnsent, IsPaid, IsGivenUp, BeforeDispatch, Turns
<1>2. /\ Refunded(req[c].of)'
      /\ credited \subseteq credited' /\ credited' \subseteq credited \cup {req[c].of}
      /\ balance' \in Nat
  BY <1>1, RefundCreditsRefunds
<1>3. credited' \subseteq OtpRequests
  BY <1>1, <1>2 DEF TypeOK
<1>4. Refunded(req[c].of)'
  BY <1>2
<1>5. TypeOK' /\ (\A d \in Calls : Controlled(d))' /\ AdmittedAreHits'
  BY <1>1, <1>2, <1>3, <1>4, TurnKeeps
<1>6. RefundIsEarned'
  BY <1>1, <1>2, RefundBecomesEarned
<1> QED BY <1>5, <1>6

-----------------------------------------------------------------------------
(* Answers, aborts and the passing of time *)

LEMMA SaveInvariant ==
    ASSUME IInv, NEW c \in Calls, Save(c) PROVE IInv'
<1> USE DEF IInv, Save
<1>0. Goto(c, "saveRow") /\ "saveRow" \in Running \cup Outcomes
  OBVIOUS
<1>1. c \notin repeats /\ req[c].key \in Keys
  BY DEF Controlled, IsRepeat, HasKey
<1>2. TypeOK'
  <2>1. saved' \in [Stores -> SUBSET Keys]
    BY <1>1 DEF TypeOK
  <2> QED BY <2>1 DEF TypeOK
<1>3. (\A d \in Calls : Controlled(d))' /\ RefundIsEarned'
  BY <1>1, <1>0, MoveInvariant DEF BeforeDispatch
<1>4. AdmittedAreHits'
  BY DEF AdmittedAreHits
<1> QED BY <1>2, <1>3, <1>4

LEMMA SaveRowInvariant ==
    ASSUME IInv, NEW c \in Calls, SaveRow(c) PROVE IInv'
<1> USE DEF IInv, SaveRow
<1>0. Goto(c, "accepted") /\ "accepted" \in Running \cup Outcomes
  OBVIOUS
<1>1. c \notin repeats /\ req[c].key \in Keys
  BY DEF Controlled, IsRepeat, HasKey
<1>2. TypeOK'
  BY <1>1 DEF TypeOK
<1>3. (\A d \in Calls : Controlled(d))' /\ RefundIsEarned'
  BY <1>1, <1>0, MoveInvariant DEF BeforeDispatch
<1>4. AdmittedAreHits'
  BY DEF AdmittedAreHits
<1> QED BY <1>2, <1>3, <1>4

LEMMA AbortInvariant ==
    ASSUME IInv, NEW c \in Calls, Abort(c) PROVE IInv'
<1> USE DEF IInv, Abort
<1>0. Goto(c, "aborted") /\ "aborted" \in Running \cup Outcomes
  OBVIOUS
<1>1. TypeOK'
  BY DEF TypeOK
<1>2. (\A d \in Calls : Controlled(d))' /\ RefundIsEarned'
  BY <1>0, MoveInvariant DEF BeforeDispatch
<1>3. AdmittedAreHits'
  BY DEF AdmittedAreHits
<1> QED BY <1>1, <1>2, <1>3

(* Whatever leaves the calls, the rows and the money alone.                 *)
LEMMA QuietInvariant ==
    ASSUME IInv, TypeOK',
           UNCHANGED <<pc, req, rows, hits, admitted, created, stored, money, fates, repeats>>
    PROVE  IInv'
<1> USE DEF IInv
<1>1. \A c \in Calls : Controlled(c)'
  BY DEF Controlled, HasBegun, HasKey, IsUnsent, IsPaid, IsGivenUp, IsRefunded, IsRepeat, Refunded
<1>2. RefundIsEarned' /\ AdmittedAreHits'
  BY DEF RefundIsEarned, AdmittedAreHits
<1> QED BY <1>1, <1>2

LEMMA NextInvariant == IInv /\ [Next]_vars => IInv'
<1> SUFFICES ASSUME IInv, [Next]_vars PROVE IInv'
  OBVIOUS
<1>1. ASSUME NEW c \in Calls, Step(c) PROVE IInv'
  BY <1>1, LookupInvariant, LimitInvariant, CheckCooldownInvariant, CreateRowInvariant,
     DebitInvariant, InsufficientInvariant, StoreInvariant, EnqueueInvariant,
     EnqueueFailsInvariant, DirectSentInvariant, DirectRefusedInvariant, RefundInvariant,
     SaveInvariant, SaveRowInvariant DEF Step
<1>2. ASSUME NEW c \in Calls, Start(c) \/ Abort(c) \/ Job(c) PROVE IInv'
  BY <1>2, StartInvariant, AbortInvariant, JobSentInvariant, JobFailedInvariant,
     JobRefundInvariant, JobRetriedInvariant, JobLostInvariant DEF Job
<1>3. ASSUME NEW k \in Keys, KeyExpires(k) PROVE IInv'
  <2>1. TypeOK'
    BY <1>3 DEF KeyExpires, IInv, TypeOK
  <2> QED BY <1>3, <2>1, QuietInvariant DEF KeyExpires
<1>4. ASSUME NEW s \in Stores, CooldownExpires(s) PROVE IInv'
  <2>1. TypeOK'
    BY <1>4 DEF CooldownExpires, IInv, TypeOK
  <2> QED BY <1>4, <2>1, QuietInvariant DEF CooldownExpires
<1>5. CASE UNCHANGED vars
  <2>1. TypeOK'
    BY <1>5 DEF vars, IInv, TypeOK
  <2> QED BY <1>5, <2>1, QuietInvariant DEF vars
<1> QED BY <1>1, <1>2, <1>3, <1>4, <1>5 DEF Next

LEMMA InvariantHolds == Spec => []IInv
BY InitInvariant, NextInvariant, PTL DEF Spec

-----------------------------------------------------------------------------

(* Every variable keeps its type, and the balance is never negative          *)
(* (otp.routes.ts:241-247).                                                *)
THEOREM TypeCorrect == Spec => []TypeOK
<1>1. IInv => TypeOK
  BY DEF IInv
<1> QED BY <1>1, InvariantHolds, PTL

(* The repetition of an answered send is not debited, on whatever node, and  *)
(* whether Redis is up or not, if the row of the answer was kept and the     *)
(* query of the repetition did not fail: both errors are swallowed          *)
(* (otp.routes.ts:152-162 and 312-322, idempotency.ts:13-91).               *)
THEOREM RepeatedKeyNotDebited == Spec => []RepeatedKeyIsNotDebited
<1>1. IInv => RepeatedKeyIsNotDebited
  BY DEF IInv, TypeOK, RepeatedKeyIsNotDebited, Controlled, IsRepeat
<1> QED BY <1>1, InvariantHolds, PTL

(* No message leaves without its debit and a stored code                    *)
(* (otp.routes.ts:242-280, 453-502).                                        *)
THEOREM MessagesArePaid == Spec => []NoMessageUnpaid
<1>1. IInv => NoMessageUnpaid
  BY DEF IInv, NoMessageUnpaid, Controlled, IsPaid
<1> QED BY <1>1, InvariantHolds, PTL

(* A refund is there under the stored reference of a message that was given  *)
(* up, when the worker is through with its job, unless a fault has met it,   *)
(* or when the send answers, whatever the references are                    *)
(* (otp.routes.ts:286-298 and 496-509, otp.worker.ts:97-103 and 131-139).    *)
THEOREM GivenUpRefunded == Spec => []GivenUpIsRefunded
<1>1. IInv => GivenUpIsRefunded
  BY DEF IInv, GivenUpIsRefunded, Controlled, IsGivenUp, IsRefunded, TypeOK
<1> QED BY <1>1, InvariantHolds, PTL

(* Every refund is of a request with a debited message that was given up     *)
(* (otp.routes.ts:281-298, otp.worker.ts:131-137).                          *)
THEOREM RefundsAreEarned == Spec => []RefundIsEarned
<1>1. IInv => RefundIsEarned
  BY DEF IInv
<1> QED BY <1>1, InvariantHolds, PTL

(* No store admits more than the limit, whatever the number of concurrent    *)
(* calls (rate-limit.ts:11-49).                                            *)
THEOREM LimitIsKept == Spec => []AdmittedWithinLimit
<1>1. IInv => AdmittedWithinLimit
  BY DEF IInv, AdmittedAreHits, AdmittedWithinLimit
<1> QED BY <1>1, InvariantHolds, PTL

=============================================================================
