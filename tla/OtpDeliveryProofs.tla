------------------------- MODULE OtpDeliveryProofs -------------------------
(* Theorems about OtpDelivery, for any number of jobs, slots, tries and      *)
(* stalls: its type, that no accepted message goes uncounted, and that a job *)
(* that met no fault leaves a request that is its own in one of two states.  *)
EXTENDS OtpDelivery, FiniteSetTheorems, TLAPS

(* TypeOK, but for the bound of sends, which needs the counting below.       *)
Typed ==
    /\ state \in [Jobs -> {"waiting", "active", "delayed", "completed", "failed"}]
    /\ made \in [Jobs -> 0..MaxTries]
    /\ stalls \in [Jobs -> 0..MaxStalls+1]
    /\ owner \in [Jobs -> Slots \cup {None}]
    /\ exec \in [Slots -> [job: Jobs \cup {None}, made: 0..MaxTries-1,
                           reply: {"none", "accepted", "temporary", "permanent"}]]
    /\ pc \in [Slots -> {"idle"} \cup Running]
    /\ status \in [OtpRequests -> {"created", "sent", "failed"}]
    /\ sends \in [Jobs -> Nat]
    /\ credited \subseteq OtpRequests
    /\ dead \subseteq OtpRequests
    /\ faulty \subseteq Jobs

(* A job that has not failed has a try left and was not stalled too often;    *)
(* only an active job has an owner.                                         *)
JobInv ==
    \A j \in Jobs :
        /\ state[j] # "failed" => made[j] < MaxTries /\ stalls[j] <= MaxStalls
        /\ made[j] + stalls[j] <= MaxTries + MaxStalls
        /\ owner[j] # None => state[j] = "active"

(* An execution is about a job and has a reply once it has sent.             *)
SlotInv ==
    \A w \in Slots :
        /\ pc[w] # "idle" => exec[w].job \in Jobs
        /\ pc[w] \in {"message", "event"} => exec[w].reply \in Replies

TypeInv == Typed /\ JobInv /\ SlotInv

-----------------------------------------------------------------------------

(* The executions of a job that are about to send, and what the messages are *)
(* counted by.                                                             *)
Sending(j) == {w \in Slots : Executes(w, j) /\ pc[w] = "send"}

Budget(j) ==
    made[j] + stalls[j] + (IF state[j] \in {"active", "completed"} THEN 1 ELSE 0)

CountInv == \A j \in Jobs : sends[j] + Cardinality(Sending(j)) <= Budget(j)

-----------------------------------------------------------------------------

(* The two outcomes of a job, and what it leaves alone until it has one.     *)
Clean(j) == RequestOf[j] \notin credited /\ RequestOf[j] \notin dead

GivenUp(j) ==
    status[RequestOf[j]] = "failed" /\ Refunded(j) /\ RequestOf[j] \in dead

Ended(j) ==
    \/ sends[j] > 0 /\ status[RequestOf[j]] = "sent" /\ Clean(j)
    \/ sends[j] = 0 /\ GivenUp(j)

(* What an execution has done for its job, by where it is.                   *)
Phase(w, j) ==
    LET r == RequestOf[j]
        last == made[j] + 1 >= MaxTries
    IN  /\ pc[w] \in {"send", "failed", "catch"} => sends[j] = 0 /\ Clean(j)
        /\ pc[w] \in {"message", "event"} => Clean(j) /\ (sends[j] > 0 <=> exec[w].reply = "accepted")
        /\ pc[w] = "sent" => sends[j] > 0 /\ Clean(j)
        /\ pc[w] = "return" => Ended(j)
        /\ pc[w] \in {"refund", "dead"} => sends[j] = 0 /\ status[r] = "failed"
        /\ pc[w] = "dead" => Refunded(j)
        /\ pc[w] \in {"catchFailed", "catchRefund", "catchDead"} => sends[j] = 0 /\ last
        /\ pc[w] \in {"catchRefund", "catchDead"} => status[r] = "failed"
        /\ pc[w] = "catchDead" => Refunded(j)
        /\ pc[w] = "throw" => sends[j] = 0 /\ IF last THEN GivenUp(j) ELSE Clean(j)

(* A job without faults has at most one execution, that of its owner.        *)
Outcome(j) ==
    /\ \A w \in Slots : Executes(w, j) <=> owner[j] = w
    /\ state[j] = "active" => owner[j] \in Slots
    /\ state[j] \in {"waiting", "delayed"} => sends[j] = 0 /\ Clean(j)
    /\ state[j] = "completed" => Ended(j)
    /\ state[j] = "failed" => sends[j] = 0 /\ GivenUp(j)
    /\ \A w \in Slots : Executes(w, j) => exec[w].made = made[j] /\ Phase(w, j)

OutcomeInv == \A j \in Jobs \ faulty : OwnRequest(j) => Outcome(j)

IInv == TypeInv /\ CountInv /\ OutcomeInv

USE DEF Goto, queue, effects, Replies, Running, InTry, InCatch, Request, NoExec, Executes

-----------------------------------------------------------------------------
(* Types *)

LEMMA TypeInit == Init => TypeInv
<1> SUFFICES ASSUME Init PROVE TypeInv
  OBVIOUS
<1> USE OtpDeliveryAssumption DEF Init
<1>1. Typed
  <2>1. NoExec \in [job: Jobs \cup {None}, made: 0..MaxTries-1,
                    reply: {"none", "accepted", "temporary", "permanent"}]
    OBVIOUS
  <2>2. made \in [Jobs -> 0..MaxTries] /\ stalls \in [Jobs -> 0..MaxStalls+1]
    OBVIOUS
  <2> QED BY <2>1, <2>2 DEF Typed
<1>2. JobInv
  BY DEF JobInv
<1>3. SlotInv
  BY DEF SlotInv
<1> QED BY <1>1, <1>2, <1>3 DEF TypeInv

(* An execution goes on.                                                   *)
LEMMA SlotMoves ==
    ASSUME TypeInv, NEW w \in Slots, pc[w] # "idle",
           NEW label \in Running \ {"message"}, Goto(w, label), UNCHANGED exec,
           label = "event" => pc[w] = "message"
    PROVE  /\ SlotInv' /\ pc' \in [Slots -> {"idle"} \cup Running]
           /\ exec[w].job \in Jobs /\ RequestOf[exec[w].job] \in OtpRequests
<1>1. pc'[w] = label /\ \A v \in Slots \ {w} : pc'[v] = pc[v]
  BY DEF TypeInv, Typed
<1>2. exec[w].job \in Jobs
  BY DEF TypeInv, SlotInv
<1>3. SlotInv'
  BY <1>1, <1>2 DEF TypeInv, SlotInv
<1>4. pc' \in [Slots -> {"idle"} \cup Running]
  BY DEF TypeInv, Typed
<1> QED BY <1>2, <1>3, <1>4, OtpDeliveryAssumption

(* An execution ends.                                                      *)
LEMMA SlotEnds ==
    ASSUME TypeInv, NEW w \in Slots, Goto(w, "idle"), exec' = [exec EXCEPT ![w] = NoExec]
    PROVE  /\ SlotInv' /\ pc' \in [Slots -> {"idle"} \cup Running]
           /\ exec' \in [Slots -> [job: Jobs \cup {None}, made: 0..MaxTries-1,
                                   reply: {"none", "accepted", "temporary", "permanent"}]]
<1> USE OtpDeliveryAssumption DEF TypeInv
<1>1. pc'[w] = "idle" /\ \A v \in Slots \ {w} : pc'[v] = pc[v] /\ exec'[v] = exec[v]
  BY DEF Typed
<1>2. SlotInv'
  BY <1>1 DEF SlotInv
<1>3. NoExec \in [job: Jobs \cup {None}, made: 0..MaxTries-1,
                  reply: {"none", "accepted", "temporary", "permanent"}]
  OBVIOUS
<1> HIDE DEF NoExec
<1> QED BY <1>2, <1>3 DEF Typed

(* The effects of an execution on its request.                              *)
EffectsTyped ==
    /\ status' \in [OtpRequests -> {"created", "sent", "failed"}]
    /\ sends' \in [Jobs -> Nat]
    /\ credited' \subseteq OtpRequests
    /\ dead' \subseteq OtpRequests

LEMMA EffectsStay == ASSUME TypeInv, UNCHANGED effects PROVE EffectsTyped
BY DEF TypeInv, Typed, EffectsTyped

LEMMA WorkType ==
    ASSUME TypeInv, UNCHANGED <<queue, exec>>, EffectsTyped, faulty' \subseteq Jobs,
           SlotInv', pc' \in [Slots -> {"idle"} \cup Running]
    PROVE  TypeInv'
<1>1. Typed'
  BY DEF TypeInv, Typed, EffectsTyped
<1>2. JobInv'
  BY DEF TypeInv, JobInv
<1> QED BY <1>1, <1>2 DEF TypeInv

LEMMA SendType ==
    ASSUME TypeInv, NEW w \in Slots, NEW reply \in Replies, NEW sent, SendReply(w, reply, sent),
           faulty' \subseteq Jobs
    PROVE  TypeInv'
<1> USE OtpDeliveryAssumption DEF TypeInv, SendReply
<1>1. exec[w].job \in Jobs
  BY DEF SlotInv
<1>2. exec' \in [Slots -> [job: Jobs \cup {None}, made: 0..MaxTries-1,
                           reply: {"none", "accepted", "temporary", "permanent"}]]
  BY DEF Typed
<1>3. sends' \in [Jobs -> Nat]
  <2>1. CASE sent
    BY <1>1, <2>1 DEF Typed
  <2>2. CASE ~sent
    BY <1>1, <2>2 DEF Typed
  <2> QED BY <2>1, <2>2
<1>4. pc' \in [Slots -> {"idle"} \cup Running]
  BY DEF Typed
<1>5. Typed'
  BY <1>2, <1>3, <1>4 DEF Typed
<1>6. JobInv'
  BY DEF JobInv
<1>7. /\ exec'[w].job = exec[w].job /\ exec'[w].reply = reply /\ pc'[w] = "message"
      /\ \A v \in Slots \ {w} : exec'[v] = exec[v] /\ pc'[v] = pc[v]
  BY DEF Typed
<1>8. SlotInv'
  BY <1>1, <1>7 DEF SlotInv
<1> QED BY <1>5, <1>6, <1>8

LEMMA CreditedType ==
    ASSUME NEW r \in OtpRequests, credited \subseteq OtpRequests, RefundCredits(r)
    PROVE  credited' \subseteq OtpRequests
BY DEF RefundCredits

LEMMA PickType ==
    ASSUME TypeInv, NEW w \in Slots, NEW j \in Jobs, Pick(w, j) PROVE TypeInv'
<1> USE OtpDeliveryAssumption DEF TypeInv, Pick
<1> DEFINE new == [job |-> j, made |-> made[j], reply |-> "none"]
<1>1. made[j] \in 0..MaxTries-1
  BY DEF Typed, JobInv
<1>2. new \in [job: Jobs \cup {None}, made: 0..MaxTries-1,
               reply: {"none", "accepted", "temporary", "permanent"}] /\ new.job = j
  BY <1>1
<1>3. exec' = [exec EXCEPT ![w] = new]
  OBVIOUS
<1> HIDE DEF new
<1>4. Typed'
  BY <1>2, <1>3 DEF Typed
<1>5. JobInv'
  BY DEF JobInv, Typed
<1>6. exec'[w] = new /\ pc'[w] = "send"
      /\ \A v \in Slots \ {w} : exec'[v] = exec[v] /\ pc'[v] = pc[v]
  BY <1>3 DEF Typed
<1>7. SlotInv'
  BY <1>2, <1>6 DEF SlotInv
<1> QED BY <1>4, <1>5, <1>7

LEMMA StallType ==
    ASSUME TypeInv, NEW j \in Jobs, Stall(j), faulty' \subseteq Jobs PROVE TypeInv'
<1> USE OtpDeliveryAssumption DEF TypeInv, Stall
<1>1. /\ state[j] = "active" /\ made[j] \in Nat /\ made[j] < MaxTries
      /\ stalls[j] \in Nat /\ stalls[j] <= MaxStalls
  BY DEF Typed, JobInv
<1>2. PICK to \in {"waiting", "failed"} : state' = [state EXCEPT ![j] = to] /\
                (to = "waiting" => stalls[j] < MaxStalls)
  BY <1>1
<1>3. state'[j] = to /\ \A k \in Jobs \ {j} : state'[k] = state[k]
  BY <1>2 DEF Typed
<1>4. stalls'[j] = stalls[j] + 1 /\ \A k \in Jobs \ {j} : stalls'[k] = stalls[k]
  BY DEF Typed
<1>5. owner'[j] = None /\ \A k \in Jobs \ {j} : owner'[k] = owner[k]
  BY DEF Typed
<1>6. Typed'
  <2>1. state' \in [Jobs -> {"waiting", "active", "delayed", "completed", "failed"}]
    BY <1>2 DEF Typed
  <2>2. stalls' \in [Jobs -> 0..MaxStalls+1]
    BY <1>1 DEF Typed
  <2>3. owner' \in [Jobs -> Slots \cup {None}]
    BY DEF Typed
  <2> QED BY <2>1, <2>2, <2>3 DEF Typed
<1>7. JobInv'
  <2> SUFFICES ASSUME NEW k \in Jobs
               PROVE  /\ state'[k] # "failed" => made'[k] < MaxTries /\ stalls'[k] <= MaxStalls
                      /\ made'[k] + stalls'[k] <= MaxTries + MaxStalls
                      /\ owner'[k] # None => state'[k] = "active"
    BY DEF JobInv
  <2>1. CASE k = j
    BY <1>1, <1>2, <1>3, <1>4, <1>5, <2>1
  <2>2. CASE k # j
    BY <1>3, <1>4, <1>5, <2>2 DEF JobInv
  <2> QED BY <2>1, <2>2
<1>8. SlotInv'
  BY DEF SlotInv
<1> QED BY <1>6, <1>7, <1>8

(* An execution ends; if it owns its job, the job is over or tried again.    *)
LEMMA EndType ==
    ASSUME TypeInv, NEW w \in Slots, Complete(w) \/ Fail(w) \/ Crash(w), faulty' \subseteq Jobs
    PROVE  TypeInv'
<1> USE OtpDeliveryAssumption DEF TypeInv
<1>1. exec[w].job \in Jobs
  BY DEF Complete, Fail, Crash, SlotInv
<1>2. PICK j \in Jobs : j = exec[w].job
  BY <1>1
<1>3. Goto(w, "idle") /\ exec' = [exec EXCEPT ![w] = NoExec] /\ UNCHANGED <<stalls, effects>>
  BY DEF Complete, Fail, Crash
<1>4. /\ SlotInv' /\ pc' \in [Slots -> {"idle"} \cup Running]
      /\ exec' \in [Slots -> [job: Jobs \cup {None}, made: 0..MaxTries-1,
                              reply: {"none", "accepted", "temporary", "permanent"}]]
  BY <1>3, SlotEnds
<1>5. CASE UNCHANGED queue
  <2>1. Typed'
    BY <1>3, <1>4, <1>5 DEF Typed
  <2>2. JobInv'
    BY <1>5 DEF JobInv
  <2> QED BY <1>4, <2>1, <2>2
<1>6. ASSUME owner[j] = w, owner' = [owner EXCEPT ![j] = None],
             NEW to \in {"completed", "delayed", "failed"}, state' = [state EXCEPT ![j] = to],
             \/ to = "completed" /\ UNCHANGED made
             \/ /\ made' = [made EXCEPT ![j] = @ + 1]
                /\ to # "completed" /\ (to = "delayed" => made[j] + 1 < MaxTries)
      PROVE  TypeInv'
  <2>1. /\ state[j] = "active" /\ made[j] < MaxTries /\ made[j] \in Nat
        /\ stalls[j] <= MaxStalls /\ stalls[j] \in Nat
    BY <1>6 DEF JobInv, Typed
  <2>2. state'[j] = to /\ \A k \in Jobs \ {j} : state'[k] = state[k]
    BY <1>6 DEF Typed
  <2>3. owner'[j] = None /\ \A k \in Jobs \ {j} : owner'[k] = owner[k] /\ made'[k] = made[k]
    BY <1>6 DEF Typed
  <2>4. /\ made' \in [Jobs -> 0..MaxTries] /\ (to # "failed" => made'[j] < MaxTries)
        /\ made'[j] \in Nat /\ made'[j] <= MaxTries
    BY <1>6, <2>1 DEF Typed
  <2>5. Typed'
    BY <1>3, <1>4, <1>6, <2>4 DEF Typed
  <2>6. JobInv'
    <3> SUFFICES ASSUME NEW k \in Jobs
                 PROVE  /\ state'[k] # "failed" => made'[k] < MaxTries /\ stalls'[k] <= MaxStalls
                        /\ made'[k] + stalls'[k] <= MaxTries + MaxStalls
                        /\ owner'[k] # None => state'[k] = "active"
      BY DEF JobInv
    <3>1. CASE k = j
      BY <1>3, <2>1, <2>2, <2>3, <2>4, <3>1
    <3>2. CASE k # j
      BY <1>3, <2>2, <2>3, <3>2 DEF JobInv
    <3> QED BY <3>1, <3>2
  <2> QED BY <1>4, <2>5, <2>6
<1>7. CASE Complete(w) /\ owner[j] = w
  <2>1. /\ owner' = [owner EXCEPT ![j] = None] /\ UNCHANGED made
        /\ state' = [state EXCEPT ![j] = "completed"]
        /\ "completed" \in {"completed", "delayed", "failed"}
    BY <1>2, <1>7 DEF Complete
  <2> QED BY <1>6, <1>7, <2>1
<1>8. CASE Fail(w) /\ owner[j] = w
  <2>1. PICK to \in {"delayed", "failed"} :
           state' = [state EXCEPT ![j] = to] /\ (to = "delayed" => made[j] + 1 < MaxTries)
    BY <1>2, <1>8 DEF Fail
  <2>2. /\ owner' = [owner EXCEPT ![j] = None] /\ made' = [made EXCEPT ![j] = @ + 1]
        /\ to \in {"completed", "delayed", "failed"} /\ to # "completed"
    BY <1>2, <1>8 DEF Fail
  <2> QED BY <1>6, <1>8, <2>1, <2>2
<1> QED BY <1>2, <1>5, <1>7, <1>8 DEF Complete, Fail, Crash

(* One execution goes on, with whatever effect on its request.               *)
LEMMA ProceedType ==
    ASSUME TypeInv, NEW w \in Slots, faulty' \subseteq Jobs,
           \/ RecordMessage(w) \/ RecordEvent(w) \/ MarkSent(w) \/ MarkFailed(w)
           \/ Refund(w) \/ DeadLetter(w) \/ Throw(w)
           \/ Catch(w) \/ CatchFailed(w) \/ CatchRefund(w) \/ CatchDead(w) \/ CatchLost(w)
    PROVE  TypeInv'
<1>1. ASSUME NEW label \in Running \ {"message"}, Goto(w, label), pc[w] # "idle",
             UNCHANGED <<queue, exec>>, label = "event" => pc[w] = "message",
             exec[w].job \in Jobs /\ RequestOf[exec[w].job] \in OtpRequests => EffectsTyped
      PROVE  TypeInv'
  <2>1. /\ SlotInv' /\ pc' \in [Slots -> {"idle"} \cup Running]
        /\ exec[w].job \in Jobs /\ RequestOf[exec[w].job] \in OtpRequests
    BY <1>1, SlotMoves
  <2> QED BY <1>1, <2>1, WorkType
<1>2. CASE RecordMessage(w) \/ RecordEvent(w) \/ Throw(w) \/ Catch(w) \/ CatchLost(w)
  <2>1. EffectsTyped /\ pc[w] # "idle" /\ UNCHANGED <<queue, exec>>
    BY <1>2, EffectsStay DEF RecordMessage, RecordEvent, Throw, Catch, CatchLost
  <2>2. PICK label \in Running \ {"message"} :
           Goto(w, label) /\ (label = "event" => pc[w] = "message")
    <3>1. CASE RecordMessage(w)
      BY <3>1 DEF RecordMessage
    <3>2. CASE RecordEvent(w)
      <4>1. exec[w].reply \in Replies
        BY <3>2 DEF RecordEvent, TypeInv, SlotInv
      <4>2. PICK label \in {"sent", "catch", "failed"} : Goto(w, label)
        BY <3>2, <4>1 DEF RecordEvent
      <4>3. label \in Running \ {"message"}
        OBVIOUS
      <4> QED BY <4>2, <4>3
    <3>3. CASE Throw(w)
      <4>1. Goto(w, "catch") /\ "catch" \in Running \ {"message"}
        BY <3>3 DEF Throw
      <4> QED BY <4>1
    <3>4. CASE Catch(w)
      <4>1. PICK label \in {"catchFailed", "throw"} : Goto(w, label)
        BY <3>4 DEF Catch
      <4>2. label \in Running \ {"message"}
        OBVIOUS
      <4> QED BY <4>1, <4>2
    <3>5. CASE CatchLost(w)
      BY <3>5 DEF CatchLost
    <3> QED BY <1>2, <3>1, <3>2, <3>3, <3>4, <3>5
  <2> QED BY <1>1, <2>1, <2>2
<1>3. CASE MarkSent(w) \/ MarkFailed(w) \/ CatchFailed(w)
  <2>1. PICK label \in {"return", "refund", "catchRefund"}, to \in {"sent", "failed"} :
           Goto(w, label) /\ status' = [status EXCEPT ![Request(w)] = to]
    BY <1>3 DEF MarkSent, MarkFailed, CatchFailed
  <2>2. pc[w] # "idle" /\ UNCHANGED <<queue, exec, sends, credited, dead>>
    BY <1>3 DEF MarkSent, MarkFailed, CatchFailed
  <2>3. EffectsTyped
    BY <2>1, <2>2 DEF EffectsTyped, TypeInv, Typed
  <2> QED BY <1>1, <2>1, <2>2, <2>3
<1>4. CASE Refund(w) \/ CatchRefund(w)
  <2>1. PICK label \in {"dead", "catchDead"} : Goto(w, label)
    BY <1>4 DEF Refund, CatchRefund
  <2>2. pc[w] # "idle" /\ UNCHANGED <<queue, exec, status, sends, dead>> /\ RefundCredits(Request(w))
    BY <1>4 DEF Refund, CatchRefund
  <2>3. Request(w) \in OtpRequests => EffectsTyped
    BY <2>2, CreditedType DEF EffectsTyped, TypeInv, Typed
  <2> QED BY <1>1, <2>1, <2>2, <2>3
<1>5. CASE DeadLetter(w) \/ CatchDead(w)
  <2>1. PICK label \in {"return", "throw"} : Goto(w, label)
    BY <1>5 DEF DeadLetter, CatchDead
  <2>2. /\ pc[w] # "idle" /\ UNCHANGED <<queue, exec, status, sends, credited>>
        /\ dead' = dead \cup {Request(w)}
    BY <1>5 DEF DeadLetter, CatchDead
  <2>3. Request(w) \in OtpRequests => EffectsTyped
    BY <2>2 DEF EffectsTyped, TypeInv, Typed
  <2> QED BY <1>1, <2>1, <2>2, <2>3
<1> QED BY <1>2, <1>3, <1>4, <1>5

LEMMA TypeNext == TypeInv /\ [Next]_vars => TypeInv'
<1> SUFFICES ASSUME TypeInv, [Next]_vars PROVE TypeInv'
  OBVIOUS
<1> USE OtpDeliveryAssumption
<1>1. ASSUME UNCHANGED faulty PROVE faulty' \subseteq Jobs
  BY <1>1 DEF TypeInv, Typed
<1>2. ASSUME NEW w \in Slots, Step(w) PROVE TypeInv'
  <2>1. CASE Send(w)
    BY <1>1, <1>2, <2>1, SendType DEF Step, Send
  <2>2. CASE Complete(w) \/ Fail(w)
    BY <1>1, <1>2, <2>2, EndType DEF Step
  <2> QED BY <1>1, <1>2, <2>1, <2>2, ProceedType DEF Step
<1>3. ASSUME NEW w \in Slots, NEW j \in Jobs, Pick(w, j) PROVE TypeInv'
  BY <1>3, PickType
<1>4. ASSUME NEW j \in Jobs, Backoff(j) PROVE TypeInv'
  <2>1. state'[j] = "waiting" /\ state[j] = "delayed"
        /\ \A k \in Jobs \ {j} : state'[k] = state[k]
    BY <1>4 DEF Backoff, TypeInv, Typed
  <2>2. Typed'
    BY <1>4 DEF Backoff, TypeInv, Typed
  <2>3. JobInv' /\ SlotInv'
    BY <1>4, <2>1 DEF Backoff, TypeInv, JobInv, SlotInv
  <2> QED BY <2>2, <2>3 DEF TypeInv
<1>5. ASSUME NEW j \in Jobs, StallDead(j) \/ StallLate(j) PROVE TypeInv'
  <2>1. Stall(j) /\ faulty' \subseteq Jobs
    BY <1>5 DEF StallDead, StallLate, TypeInv, Typed
  <2> QED BY <2>1, StallType
<1>6. ASSUME NEW w \in Slots, Fault(w) PROVE TypeInv'
  <2>1. faulty' \subseteq Jobs
    <3>1. pc[w] # "idle"
      BY <1>6 DEF Fault, SendLost, SendReply, Throw, CatchLost, Crash
    <3> QED BY <1>6, <3>1 DEF Fault, TypeInv, Typed, SlotInv
  <2>2. CASE SendLost(w)
    BY <2>1, <2>2, SendType DEF SendLost
  <2> QED BY <1>6, <2>1, <2>2, EndType, ProceedType DEF Fault
<1>7. CASE UNCHANGED vars
  <2>1. Typed'
    BY <1>7 DEF vars, TypeInv, Typed
  <2>2. JobInv' /\ SlotInv'
    BY <1>7 DEF vars, TypeInv, JobInv, SlotInv
  <2> QED BY <2>1, <2>2 DEF TypeInv
<1> QED BY <1>2, <1>3, <1>4, <1>5, <1>6, <1>7 DEF Next

-----------------------------------------------------------------------------
(* Messages are counted *)

LEMMA SendingIsFinite ==
    ASSUME NEW j PROVE IsFiniteSet(Sending(j)) /\ Cardinality(Sending(j)) \in Nat
<1>1. Sending(j) \subseteq Slots
  BY DEF Sending
<1> QED BY <1>1, OtpDeliveryAssumption, FS_Subset, FS_CardinalityType

LEMMA BudgetIsNat ==
    ASSUME Typed, NEW j \in Jobs
    PROVE  /\ made[j] \in Nat /\ stalls[j] \in Nat /\ sends[j] \in Nat /\ Budget(j) \in Nat
           /\ Budget(j) <= made[j] + stalls[j] + 1
<1>1. made[j] \in Nat /\ stalls[j] \in Nat /\ sends[j] \in Nat
  BY OtpDeliveryAssumption DEF Typed
<1> QED BY <1>1 DEF Budget

LEMMA BudgetStaysNat ==
    ASSUME Typed', NEW j \in Jobs PROVE Budget(j)' \in Nat
<1>1. made'[j] \in Nat /\ stalls'[j] \in Nat
  BY OtpDeliveryAssumption DEF Typed
<1> QED BY <1>1 DEF Budget

LEMMA CountInit == Init => CountInv
<1> SUFFICES ASSUME Init, NEW j \in Jobs PROVE sends[j] + Cardinality(Sending(j)) <= Budget(j)
  BY DEF CountInv
<1>1. Sending(j) = {}
  BY DEF Sending, Init
<1>2. sends[j] = 0 /\ Budget(j) = 0
  BY DEF Init, Budget
<1> QED BY <1>1, <1>2, FS_EmptySet

(* Nothing is sent, and no execution begins.                                *)
KeepsCounts ==
    /\ UNCHANGED sends
    /\ \A j \in Jobs : Budget(j) <= Budget(j)'
    /\ \A w \in Slots : pc'[w] = "send" => pc[w] = "send" /\ exec'[w].job = exec[w].job

LEMMA QuietCount ==
    ASSUME Typed, Typed', CountInv, KeepsCounts PROVE CountInv'
<1> SUFFICES ASSUME NEW j \in Jobs PROVE sends'[j] + Cardinality(Sending(j)') <= Budget(j)'
  BY DEF CountInv
<1>1. Sending(j)' \subseteq Sending(j)
  BY DEF KeepsCounts, Sending
<1>2. Cardinality(Sending(j)') <= Cardinality(Sending(j)) /\ Cardinality(Sending(j)') \in Nat
  BY <1>1, SendingIsFinite, FS_Subset, FS_CardinalityType
<1>3. sends[j] \in Nat /\ Budget(j) \in Nat /\ Budget(j)' \in Nat /\ Cardinality(Sending(j)) \in Nat
  BY BudgetIsNat, BudgetStaysNat, SendingIsFinite
<1>4. /\ sends[j] + Cardinality(Sending(j)) <= Budget(j)
      /\ sends' = sends /\ Budget(j) <= Budget(j)'
  BY DEF CountInv, KeepsCounts
<1> QED BY <1>2, <1>3, <1>4

(* A slot that is about to send has sent.                                   *)
LEMMA SendCount ==
    ASSUME TypeInv, CountInv, NEW w \in Slots, NEW reply, NEW sent,
           SendReply(w, reply, sent)
    PROVE  CountInv'
<1> USE DEF TypeInv
<1> SUFFICES ASSUME NEW j \in Jobs PROVE sends'[j] + Cardinality(Sending(j)') <= Budget(j)'
  BY DEF CountInv
<1>1. /\ pc[w] = "send" /\ pc'[w] = "message" /\ UNCHANGED queue
      /\ \A v \in Slots \ {w} : pc'[v] = pc[v] /\ exec'[v].job = exec[v].job
  BY DEF SendReply, Typed
<1>2. exec[w].job \in Jobs /\ sends' \in {sends, [sends EXCEPT ![exec[w].job] = @ + 1]}
  <2>1. exec[w].job \in Jobs
    BY <1>1 DEF SlotInv
  <2>2. CASE sent
    BY <2>1, <2>2 DEF SendReply
  <2>3. CASE ~sent
    BY <2>1, <2>3 DEF SendReply, Typed
  <2> QED BY <2>1, <2>2, <2>3
<1>3. Budget(j)' = Budget(j) /\ Budget(j) \in Nat /\ sends[j] \in Nat
  BY <1>1, BudgetIsNat DEF Budget
<1>4. sends[j] + Cardinality(Sending(j)) <= Budget(j)
      /\ Cardinality(Sending(j)) \in Nat /\ IsFiniteSet(Sending(j))
  BY SendingIsFinite DEF CountInv
<1>5. CASE j = exec[w].job
  <2>1. Sending(j)' = Sending(j) \ {w} /\ w \in Sending(j)
    BY <1>1, <1>5 DEF Sending
  <2>2. Cardinality(Sending(j)') = Cardinality(Sending(j)) - 1
    BY <1>4, <2>1, FS_RemoveElement
  <2>3. sends'[j] \in {sends[j], sends[j] + 1}
    BY <1>2, <1>5 DEF Typed
  <2> QED BY <1>3, <1>4, <2>2, <2>3
<1>6. CASE j # exec[w].job
  <2>1. Sending(j)' = Sending(j)
    BY <1>1, <1>6 DEF Sending
  <2>2. sends'[j] = sends[j]
    BY <1>2, <1>6 DEF Typed
  <2> QED BY <1>3, <1>4, <2>1, <2>2
<1> QED BY <1>5, <1>6

(* A slot begins to execute a job: the attempt is counted.                  *)
LEMMA PickCount ==
    ASSUME TypeInv, CountInv, NEW w \in Slots, NEW j \in Jobs, Pick(w, j) PROVE CountInv'
<1> USE DEF TypeInv
<1> SUFFICES ASSUME NEW k \in Jobs PROVE sends'[k] + Cardinality(Sending(k)') <= Budget(k)'
  BY DEF CountInv
<1>1. /\ pc[w] = "idle" /\ pc'[w] = "send" /\ UNCHANGED <<made, stalls, sends>>
      /\ \A v \in Slots \ {w} : pc'[v] = pc[v] /\ exec'[v] = exec[v]
  BY DEF Pick, Typed
<1>2. exec'[w].job = j
  BY DEF Pick, Typed
<1>3. /\ state[j] = "waiting" /\ state'[j] = "active"
      /\ \A l \in Jobs \ {j} : state'[l] = state[l]
  BY DEF Pick, Typed
<1>4. sends[k] + Cardinality(Sending(k)) <= Budget(k)
      /\ Cardinality(Sending(k)) \in Nat /\ IsFiniteSet(Sending(k))
  BY SendingIsFinite DEF CountInv
<1>5. made[k] \in Nat /\ stalls[k] \in Nat /\ sends[k] \in Nat /\ Budget(k) \in Nat
  BY BudgetIsNat
<1>6. CASE k = j
  <2>1. Sending(k)' = Sending(k) \cup {w} /\ w \notin Sending(k)
    BY <1>1, <1>2, <1>6 DEF Sending
  <2>2. Cardinality(Sending(k)') = Cardinality(Sending(k)) + 1
    BY <1>4, <2>1, FS_AddElement
  <2>3. Budget(k)' = Budget(k) + 1
    BY <1>1, <1>3, <1>5, <1>6 DEF Budget
  <2> QED BY <1>1, <1>4, <1>5, <2>2, <2>3
<1>7. CASE k # j
  <2>1. Sending(k)' = Sending(k) /\ Budget(k)' = Budget(k)
    BY <1>1, <1>2, <1>3, <1>7 DEF Sending, Budget
  <2> QED BY <1>1, <1>4, <2>1
<1> QED BY <1>6, <1>7

(* The attempt of an execution that ends stays counted.                     *)
LEMMA EndCount ==
    ASSUME TypeInv, Typed', CountInv, NEW w \in Slots, Complete(w) \/ Fail(w) \/ Crash(w)
    PROVE  CountInv'
<1> USE DEF TypeInv
<1>1. UNCHANGED <<stalls, sends>> /\ pc'[w] = "idle"
      /\ \A v \in Slots \ {w} : pc'[v] = pc[v] /\ exec'[v] = exec[v]
  BY DEF Complete, Fail, Crash, Typed
<1>2. ASSUME NEW k \in Jobs PROVE Budget(k) <= Budget(k)'
  <2>1. made[k] \in Nat /\ stalls[k] \in Nat /\ Budget(k) \in Nat
    BY BudgetIsNat
  <2>2. CASE UNCHANGED <<state, made>>
    BY <1>1, <2>1, <2>2 DEF Budget
  <2>3. PICK j : j = exec[w].job
    OBVIOUS
  <2>4. CASE Complete(w) /\ owner[j] = w
    <3>1. state' = [state EXCEPT ![j] = "completed"] /\ UNCHANGED made
      BY <2>3, <2>4 DEF Complete
    <3>2. state'[k] # state[k] => state'[k] = "completed"
      BY <3>1 DEF Typed
    <3> QED BY <1>1, <2>1, <3>1, <3>2 DEF Budget
  <2>5. CASE Fail(w) /\ owner[j] = w
    <3>1. \E to : state' = [state EXCEPT ![j] = to] /\ made' = [made EXCEPT ![j] = @ + 1]
      BY <2>3, <2>5 DEF Fail
    <3>2. CASE k = j
      BY <1>1, <2>1, <3>1, <3>2 DEF Budget, Typed
    <3>3. CASE k # j
      BY <1>1, <2>1, <3>1, <3>3 DEF Budget, Typed
    <3> QED BY <3>2, <3>3
  <2> QED BY <2>2, <2>3, <2>4, <2>5 DEF Complete, Fail, Crash
<1>3. KeepsCounts
  BY <1>1, <1>2 DEF KeepsCounts
<1> QED BY <1>3, QuietCount

LEMMA CountNext == TypeInv /\ TypeInv' /\ CountInv /\ [Next]_vars => CountInv'
<1> SUFFICES ASSUME TypeInv, Typed', CountInv, [Next]_vars PROVE CountInv'
  BY DEF TypeInv
<1>1. ASSUME NEW w \in Slots, Send(w) \/ SendLost(w) PROVE CountInv'
  <2>1. CASE Send(w)
    BY <2>1, SendCount DEF Send
  <2>2. CASE SendLost(w)
    BY <2>2, SendCount DEF SendLost
  <2> QED BY <1>1, <2>1, <2>2
<1>2. ASSUME NEW w \in Slots, NEW j \in Jobs, Pick(w, j) PROVE CountInv'
  BY <1>2, PickCount
<1>3. ASSUME NEW w \in Slots, Complete(w) \/ Fail(w) \/ Crash(w) PROVE CountInv'
  BY <1>3, EndCount
<1>4. ASSUME UNCHANGED <<exec, sends>>,
             \A w \in Slots : pc'[w] = "send" => pc[w] = "send",
             \A j \in Jobs : Budget(j)' = Budget(j) \/ Budget(j)' = Budget(j) + 1
      PROVE  CountInv'
  <2>1. \A j \in Jobs : Budget(j) <= Budget(j)'
    BY <1>4, BudgetIsNat DEF TypeInv
  <2>2. KeepsCounts
    BY <1>4, <2>1 DEF KeepsCounts
  <2> QED BY <2>2, QuietCount DEF TypeInv
<1>5. ASSUME NEW j \in Jobs, Backoff(j) PROVE CountInv'
  <2>1. /\ UNCHANGED <<made, stalls, exec, pc, sends>>
        /\ state[j] = "delayed" /\ state'[j] = "waiting"
        /\ \A k \in Jobs \ {j} : state'[k] = state[k]
    BY <1>5 DEF Backoff, TypeInv, Typed
  <2>2. \A k \in Jobs : Budget(k)' = Budget(k)
    BY <2>1 DEF Budget
  <2> QED BY <1>4, <2>1, <2>2
<1>6. ASSUME NEW j \in Jobs, Stall(j) PROVE CountInv'
  <2>1. /\ UNCHANGED <<made, exec, pc, sends>>
        /\ state[j] = "active" /\ state'[j] \in {"waiting", "failed"} /\ stalls'[j] = stalls[j] + 1
        /\ \A k \in Jobs \ {j} : state'[k] = state[k] /\ stalls'[k] = stalls[k]
    BY <1>6 DEF Stall, TypeInv, Typed
  <2>2. ASSUME NEW k \in Jobs PROVE Budget(k)' = Budget(k)
    <3>1. made[k] \in Nat /\ stalls[k] \in Nat
      BY BudgetIsNat DEF TypeInv
    <3>2. CASE k = j
      BY <2>1, <3>1, <3>2 DEF Budget
    <3>3. CASE k # j
      BY <2>1, <3>3 DEF Budget
    <3> QED BY <3>2, <3>3
  <2> QED BY <1>4, <2>1, <2>2
<1>7. ASSUME NEW w \in Slots,
             \/ RecordMessage(w) \/ RecordEvent(w) \/ MarkSent(w) \/ MarkFailed(w)
             \/ Refund(w) \/ DeadLetter(w) \/ Throw(w)
             \/ Catch(w) \/ CatchFailed(w) \/ CatchRefund(w) \/ CatchDead(w) \/ CatchLost(w)
      PROVE  CountInv'
  <2>1. UNCHANGED <<queue, exec, sends>>
    BY <1>7 DEF RecordMessage, RecordEvent, MarkSent, MarkFailed, Refund, DeadLetter, Throw,
         Catch, CatchFailed, CatchRefund, CatchDead, CatchLost
  <2>2. \E label : Goto(w, label) /\ label # "send"
    <3>1. CASE RecordEvent(w)
      <4>1. exec[w].reply \in Replies
        BY <3>1 DEF RecordEvent, TypeInv, SlotInv
      <4>2. PICK label \in {"sent", "catch", "failed"} : Goto(w, label)
        BY <3>1, <4>1 DEF RecordEvent
      <4> QED BY <4>2
    <3>2. CASE CatchLost(w)
      <4>1. PICK label \in {"catchRefund", "catchDead", "throw"} : Goto(w, label)
        BY <3>2 DEF CatchLost
      <4> QED BY <4>1
    <3>3. CASE Catch(w)
      <4>1. PICK label \in {"catchFailed", "throw"} : Goto(w, label)
        BY <3>3 DEF Catch
      <4> QED BY <4>1
    <3>4. CASE ~(RecordEvent(w) \/ CatchLost(w) \/ Catch(w))
      <4>1. PICK label \in {"event", "return", "refund", "dead", "catch", "catchRefund", "catchDead",
                            "throw"} : Goto(w, label)
        BY <1>7, <3>4 DEF RecordMessage, MarkSent, MarkFailed, Refund, DeadLetter, Throw,
             CatchFailed, CatchRefund, CatchDead
      <4> QED BY <4>1
    <3> QED BY <3>1, <3>2, <3>3, <3>4
  <2>3. \A v \in Slots : pc'[v] = "send" => pc[v] = "send"
    BY <2>2 DEF TypeInv, Typed
  <2>4. \A k \in Jobs : Budget(k)' = Budget(k)
    BY <2>1 DEF Budget
  <2> QED BY <1>4, <2>1, <2>3, <2>4
<1>8. CASE UNCHANGED vars
  <2>1. \A k \in Jobs : Budget(k)' = Budget(k)
    BY <1>8 DEF Budget, vars
  <2> QED BY <1>4, <1>8, <2>1 DEF vars
<1> QED BY <1>1, <1>2, <1>3, <1>5, <1>6, <1>7, <1>8
        DEF Next, Step, Fault, StallDead, StallLate

-----------------------------------------------------------------------------
(* One outcome per job *)

LEMMA OutcomeInit == Init => OutcomeInv
<1> SUFFICES ASSUME Init, NEW j \in Jobs PROVE Outcome(j)
  BY DEF OutcomeInv
<1> QED BY OtpDeliveryAssumption DEF Init, Outcome, Clean

(* Nothing that is said of a job changes.                                   *)
Undisturbed(j) ==
    /\ state'[j] = state[j] /\ made'[j] = made[j] /\ owner'[j] = owner[j] /\ sends'[j] = sends[j]
    /\ status'[RequestOf[j]] = status[RequestOf[j]]
    /\ RequestOf[j] \in credited' <=> RequestOf[j] \in credited
    /\ credited \subseteq credited'
    /\ RequestOf[j] \in dead' <=> RequestOf[j] \in dead
    /\ \A w \in Slots : /\ Executes(w, j)' <=> Executes(w, j)
                        /\ Executes(w, j) => pc'[w] = pc[w] /\ exec'[w] = exec[w]

LEMMA StaysAsItIs ==
    ASSUME NEW j, Outcome(j), Undisturbed(j) PROVE Outcome(j)'
<1>1. (Clean(j)' <=> Clean(j)) /\ (Refunded(j) => Refunded(j)')
  BY DEF Undisturbed, Clean, Refunded
<1>2. (GivenUp(j) => GivenUp(j)') /\ (Ended(j) => Ended(j)')
  BY <1>1 DEF Undisturbed, GivenUp, Ended
<1>3. ASSUME NEW w \in Slots, Executes(w, j) PROVE exec'[w].made = made'[j] /\ Phase(w, j)'
  <2>1. exec[w].made = made[j] /\ Phase(w, j)
    BY <1>3 DEF Outcome
  <2>2. pc'[w] = pc[w] /\ exec'[w] = exec[w]
    BY <1>3 DEF Undisturbed
  <2> HIDE DEF Executes
  <2> QED BY <1>1, <1>2, <2>1, <2>2 DEF Undisturbed, Phase
<1> HIDE DEF Executes
<1> QED BY <1>1, <1>2, <1>3 DEF Undisturbed, Outcome

(* An execution of another job has a request of its own.                    *)
LEMMA OthersStayClear ==
    ASSUME TypeInv, NEW w \in Slots, pc[w] # "idle",
           NEW j \in Jobs, OwnRequest(j), exec[w].job # j,
           UNCHANGED <<state, made, owner>>,
           \A v \in Slots \ {w} : pc'[v] = pc[v] /\ exec'[v] = exec[v],
           exec'[w].job = exec[w].job \/ pc'[w] = "idle",
           \A k \in Jobs : k # exec[w].job => sends'[k] = sends[k],
           \A r \in OtpRequests : r # Request(w) =>
               /\ status'[r] = status[r]
               /\ (r \in credited' <=> r \in credited) /\ (r \in dead' <=> r \in dead),
           credited \subseteq credited'
    PROVE  Undisturbed(j)
<1>1. exec[w].job \in Jobs /\ RequestOf[j] \in OtpRequests
  BY OtpDeliveryAssumption DEF TypeInv, SlotInv
<1>2. RequestOf[j] # Request(w)
  BY <1>1 DEF OwnRequest
<1> QED BY <1>1, <1>2 DEF Undisturbed

(* After a refund there is a credit with the reference of the request, and   *)
(* no other request than this one has been credited.                        *)
LEMMA CreditedGrows ==
    ASSUME Typed, NEW r \in OtpRequests, RefundCredits(r)
    PROVE  /\ credited \subseteq credited' /\ credited' \subseteq credited \cup {r}
           /\ \E s \in credited' : StoredRef[s] = StoredRef[r]
BY DEF Typed, RefundCredits

(* An execution goes on, with an effect on its own request.                  *)
LEMMA GoesOn ==
    ASSUME TypeInv, NEW w \in Slots, pc[w] # "idle", NEW label \in Running, Goto(w, label),
           NEW j \in Jobs, j = exec[w].job, Outcome(j), UNCHANGED queue,
           \A v \in Slots \ {w} : exec'[v] = exec[v],
           exec'[w].job = j, exec'[w].made = exec[w].made, Phase(w, j)'
    PROVE  Outcome(j)'
<1>1. pc'[w] = label /\ label # "idle" /\ \A v \in Slots \ {w} : pc'[v] = pc[v]
  BY DEF TypeInv, Typed
<1>2. \A v \in Slots : Executes(v, j)' <=> Executes(v, j)
  BY <1>1
<1>3. Executes(w, j) /\ owner[j] = w
  BY DEF Outcome
<1>4. \A v \in Slots : Executes(v, j) => v = w
  BY <1>3 DEF Outcome
<1>5. state[j] = "active"
  BY <1>3, OtpDeliveryAssumption DEF TypeInv, JobInv
<1>6. exec[w].made = made[j]
  BY <1>3 DEF Outcome
<1> HIDE DEF Executes
<1>7. \A v \in Slots : Executes(v, j)' => exec'[v].made = made'[j] /\ Phase(v, j)'
  BY <1>2, <1>4, <1>6
<1>8. \A v \in Slots : Executes(v, j)' <=> owner'[j] = v
  BY <1>2 DEF Outcome
<1> QED BY <1>3, <1>5, <1>7, <1>8 DEF Outcome

LEMMA SendOutcome ==
    ASSUME TypeInv, NEW w \in Slots, NEW reply \in Replies,
           SendReply(w, reply, reply = "accepted"), NEW j \in Jobs, OwnRequest(j), Outcome(j)
    PROVE  Outcome(j)'
<1> USE DEF TypeInv
<1>1. /\ pc[w] = "send" /\ Goto(w, "message") /\ UNCHANGED <<queue, status, credited, dead>>
      /\ exec[w].job \in Jobs
  BY DEF SendReply, SlotInv
<1>2. /\ \A v \in Slots \ {w} : pc'[v] = pc[v] /\ exec'[v] = exec[v]
      /\ pc'[w] = "message" /\ exec'[w].job = exec[w].job /\ exec'[w].made = exec[w].made
      /\ exec'[w].reply = reply
  BY DEF SendReply, Typed
<1>3. /\ \A k \in Jobs : k # exec[w].job => sends'[k] = sends[k]
      /\ sends'[exec[w].job] = IF reply = "accepted" THEN sends[exec[w].job] + 1
                               ELSE sends[exec[w].job]
  <2>1. CASE reply = "accepted"
    BY <1>1, <2>1 DEF SendReply, Typed
  <2>2. CASE reply # "accepted"
    BY <1>1, <2>2 DEF SendReply, Typed
  <2> QED BY <2>1, <2>2
<1>4. CASE j = exec[w].job
  <2>1. sends[j] = 0 /\ Clean(j)
    BY <1>1, <1>4 DEF Outcome, Phase
  <2>2. Phase(w, j)'
    BY <1>1, <1>2, <1>3, <1>4, <2>1 DEF Phase, Clean
  <2> QED BY <1>1, <1>2, <1>4, <2>2, GoesOn
<1>5. CASE j # exec[w].job
  <2>1. Undisturbed(j)
    BY <1>1, <1>2, <1>3, <1>5, OthersStayClear
  <2> QED BY <2>1, StaysAsItIs
<1> QED BY <1>4, <1>5

(* The steps of processSendOtpJob after the provider's reply.               *)
LEMMA ProceedOutcome ==
    ASSUME TypeInv, NEW w \in Slots, NEW j \in Jobs, OwnRequest(j), Outcome(j),
           \/ RecordMessage(w) \/ RecordEvent(w) \/ MarkSent(w) \/ MarkFailed(w)
           \/ Refund(w) \/ DeadLetter(w)
           \/ Catch(w) \/ CatchFailed(w) \/ CatchRefund(w) \/ CatchDead(w)
    PROVE  Outcome(j)'
<1> USE DEF TypeInv
<1>1. pc[w] # "idle" /\ UNCHANGED <<queue, exec, sends>>
  BY DEF RecordMessage, RecordEvent, MarkSent, MarkFailed, Refund, DeadLetter,
       Catch, CatchFailed, CatchRefund, CatchDead
<1>2. exec[w].job \in Jobs /\ Request(w) \in OtpRequests
  BY <1>1, OtpDeliveryAssumption DEF SlotInv
<1>3. /\ credited \subseteq credited'
      /\ IF pc[w] \in {"refund", "catchRefund"}
         THEN /\ credited' \subseteq credited \cup {Request(w)}
              /\ \E s \in credited' : StoredRef[s] = StoredRef[Request(w)]
         ELSE credited' = credited
  <2>1. CASE Refund(w) \/ CatchRefund(w)
    BY <1>2, <2>1, CreditedGrows DEF Refund, CatchRefund
  <2>2. CASE ~(Refund(w) \/ CatchRefund(w))
    BY <2>2 DEF RecordMessage, RecordEvent, MarkSent, MarkFailed, DeadLetter,
         Catch, CatchFailed, CatchDead
  <2> QED BY <2>1, <2>2
<1>4. dead' = IF pc[w] \in {"dead", "catchDead"} THEN dead \cup {Request(w)} ELSE dead
  BY DEF RecordMessage, RecordEvent, MarkSent, MarkFailed, Refund, DeadLetter,
       Catch, CatchFailed, CatchRefund, CatchDead
<1>5. /\ pc[w] = "sent" => status' = [status EXCEPT ![Request(w)] = "sent"]
      /\ pc[w] \in {"failed", "catchFailed"} => status' = [status EXCEPT ![Request(w)] = "failed"]
      /\ pc[w] \notin {"sent", "failed", "catchFailed"} => status' = status
  BY DEF RecordMessage, RecordEvent, MarkSent, MarkFailed, Refund, DeadLetter,
       Catch, CatchFailed, CatchRefund, CatchDead
<1> DEFINE Leads(from, to) == pc[w] = from /\ Goto(w, to) /\ to \in Running
<1>6. \/ Leads("message", "event") \/ Leads("sent", "return") \/ Leads("failed", "refund")
      \/ Leads("event", "sent") /\ exec[w].reply = "accepted"
      \/ (Leads("event", "catch") \/ Leads("event", "failed")) /\ exec[w].reply # "accepted"
      \/ Leads("refund", "dead") \/ Leads("dead", "return")
      \/ Leads("catch", "catchFailed") /\ exec[w].made + 1 >= MaxTries
      \/ Leads("catch", "throw") /\ ~(exec[w].made + 1 >= MaxTries)
      \/ Leads("catchFailed", "catchRefund") \/ Leads("catchRefund", "catchDead")
      \/ Leads("catchDead", "throw")
  <2>1. CASE RecordEvent(w)
    <3>1. exec[w].reply \in Replies
      BY <2>1 DEF RecordEvent, SlotInv
    <3> QED BY <2>1, <3>1 DEF RecordEvent
  <2>2. CASE Catch(w)
    BY <2>2 DEF Catch
  <2> QED BY <2>1, <2>2 DEF RecordMessage, MarkSent, MarkFailed, Refund, DeadLetter,
       CatchFailed, CatchRefund, CatchDead
<1>10. PICK label \in Running : Goto(w, label)
  BY <1>6
<1>7. pc'[w] = label /\ \A v \in Slots \ {w} : pc'[v] = pc[v]
  BY <1>10 DEF Typed
<1>8. CASE j = exec[w].job
  <2>1. Phase(w, j) /\ exec[w].made = made[j]
    BY <1>1, <1>8 DEF Outcome
  <2>2. Phase(w, j)'
    <3>1. Request(w) = RequestOf[j]
      BY <1>8
    <3>2. sends'[j] = sends[j] /\ made'[j] = made[j] /\ exec'[w] = exec[w] /\ pc'[w] = label
      BY <1>1, <1>7
    <3>3. /\ Clean(j) /\ pc[w] \notin {"refund", "catchRefund", "dead", "catchDead"} => Clean(j)'
          /\ Refunded(j) \/ pc[w] \in {"refund", "catchRefund"} => Refunded(j)'
          /\ RequestOf[j] \in dead' <=> RequestOf[j] \in dead \/ pc[w] \in {"dead", "catchDead"}
      BY <1>3, <1>4, <3>1 DEF Clean, Refunded
    <3>4. status'[RequestOf[j]] = CASE pc[w] = "sent" -> "sent"
                                    [] pc[w] \in {"failed", "catchFailed"} -> "failed"
                                    [] OTHER -> status[RequestOf[j]]
      BY <1>2, <1>5, <3>1 DEF Typed
    <3>5. ASSUME NEW from, NEW to, Leads(from, to) PROVE pc[w] = from /\ pc'[w] = to
      BY <3>5 DEF Typed
    <3> HIDE DEF Leads
    <3>6. CASE Leads("message", "event") \/ (Leads("event", "sent") /\ exec[w].reply = "accepted")
      BY <2>1, <3>2, <3>3, <3>5, <3>6 DEF Phase
    <3>7. CASE (Leads("event", "catch") \/ Leads("event", "failed")) /\ exec[w].reply # "accepted"
      <4>1. sends[j] = 0
        BY <2>1, <3>5, <3>7, BudgetIsNat DEF Phase
      <4> QED BY <2>1, <3>2, <3>3, <3>5, <3>7, <4>1 DEF Phase
    <3>8. CASE Leads("sent", "return") \/ Leads("dead", "return")
      BY <2>1, <3>2, <3>3, <3>4, <3>5, <3>8 DEF Phase, Ended, GivenUp
    <3>9. CASE Leads("failed", "refund") \/ Leads("refund", "dead")
      BY <2>1, <3>2, <3>3, <3>4, <3>5, <3>9 DEF Phase
    <3>10. CASE \/ Leads("catch", "catchFailed") /\ exec[w].made + 1 >= MaxTries
                \/ Leads("catch", "throw") /\ ~(exec[w].made + 1 >= MaxTries)
      BY <2>1, <3>2, <3>3, <3>5, <3>10 DEF Phase
    <3>11. CASE Leads("catchFailed", "catchRefund") \/ Leads("catchRefund", "catchDead")
      BY <2>1, <3>2, <3>3, <3>4, <3>5, <3>11 DEF Phase
    <3>12. CASE Leads("catchDead", "throw")
      <4>1. pc[w] = "catchDead" /\ pc'[w] = "throw"
        BY <3>5, <3>12
      <4>2. /\ sends[j] = 0 /\ made[j] + 1 >= MaxTries
            /\ status[RequestOf[j]] = "failed" /\ Refunded(j)
        BY <2>1, <4>1 DEF Phase
      <4>3. status'[RequestOf[j]] = "failed"
        BY <3>4, <4>1, <4>2
      <4>4. Refunded(j)' /\ RequestOf[j] \in dead'
        BY <3>3, <4>1, <4>2
      <4>5. GivenUp(j)'
        BY <4>3, <4>4 DEF GivenUp
      <4> QED BY <3>2, <4>1, <4>2, <4>5 DEF Phase
    <3> QED BY <1>6, <3>6, <3>7, <3>8, <3>9, <3>10, <3>11, <3>12
  <2> QED BY <1>1, <1>8, <1>10, <2>2, GoesOn
<1>9. CASE j # exec[w].job
  <2>1. \A r \in OtpRequests : r # Request(w) =>
            status'[r] = status[r] /\ (r \in dead' <=> r \in dead)
    BY <1>2, <1>4, <1>5 DEF Typed
  <2>2. \A r \in OtpRequests : r # Request(w) => (r \in credited' <=> r \in credited)
    BY <1>3
  <2>3. Undisturbed(j)
    BY <1>1, <1>3, <1>7, <1>9, <2>1, <2>2, OthersStayClear
  <2> QED BY <2>3, StaysAsItIs
<1> QED BY <1>8, <1>9

(* A slot takes a job that nobody executes.                                 *)
LEMMA PickOutcome ==
    ASSUME TypeInv, NEW w \in Slots, NEW k \in Jobs, Pick(w, k), NEW j \in Jobs, Outcome(j)
    PROVE  Outcome(j)'
<1> USE OtpDeliveryAssumption DEF TypeInv
<1>1. /\ pc[w] = "idle" /\ pc'[w] = "send"
      /\ \A v \in Slots \ {w} : pc'[v] = pc[v] /\ exec'[v] = exec[v]
      /\ exec'[w].job = k /\ exec'[w].made = made[k]
      /\ UNCHANGED <<made, stalls, effects>>
  BY DEF Pick, Typed
<1>2. /\ state[k] = "waiting" /\ state'[k] = "active" /\ owner'[k] = w
      /\ \A l \in Jobs \ {k} : state'[l] = state[l] /\ owner'[l] = owner[l]
  BY DEF Pick, Typed
<1>3. CASE j = k
  <2>1. owner[j] = None
    BY <1>2, <1>3 DEF JobInv
  <2>2. \A v \in Slots : ~Executes(v, j)
    BY <2>1 DEF Outcome
  <2>3. \A v \in Slots : Executes(v, j)' <=> v = w
    BY <1>1, <1>3, <2>2
  <2>4. sends[j] = 0 /\ Clean(j)
    BY <1>2, <1>3 DEF Outcome
  <2>5. Phase(w, j)'
    BY <1>1, <2>4 DEF Phase, Clean
  <2> HIDE DEF Executes
  <2> QED BY <1>1, <1>2, <1>3, <2>3, <2>5 DEF Outcome
<1>4. CASE j # k
  <2>1. Undisturbed(j)
    BY <1>1, <1>2, <1>4 DEF Undisturbed
  <2> QED BY <2>1, StaysAsItIs
<1> QED BY <1>3, <1>4

(* A processor returns or throws: the job ends with the outcome of its only  *)
(* execution, or is tried again without one.                                *)
LEMMA EndOutcome ==
    ASSUME TypeInv, NEW w \in Slots, Complete(w) \/ Fail(w), NEW j \in Jobs, Outcome(j)
    PROVE  Outcome(j)'
<1> USE OtpDeliveryAssumption DEF TypeInv
<1>1. /\ pc[w] \in {"return", "throw"} /\ pc'[w] = "idle" /\ UNCHANGED <<stalls, effects>>
      /\ \A v \in Slots \ {w} : pc'[v] = pc[v] /\ exec'[v] = exec[v]
  BY DEF Complete, Fail, Typed
<1>2. PICK k \in Jobs : k = exec[w].job
  BY <1>1 DEF SlotInv
<1>3. \A l \in Jobs \ {k} : state'[l] = state[l] /\ owner'[l] = owner[l] /\ made'[l] = made[l]
  BY <1>2 DEF Complete, Fail, Typed
<1>4. CASE j = k
  <2>1. Executes(w, j) /\ owner[j] = w
    BY <1>1, <1>2, <1>4 DEF Outcome
  <2>2. \A v \in Slots : ~Executes(v, j)'
    <3>1. \A v \in Slots \ {w} : ~Executes(v, j)
      BY <2>1 DEF Outcome
    <3> QED BY <1>1, <3>1
  <2>3. Phase(w, j) /\ exec[w].made = made[j]
    BY <2>1 DEF Outcome
  <2>4. owner'[j] = None
    BY <1>2, <1>4, <2>1 DEF Complete, Fail, Typed
  <2>5. (Clean(j)' <=> Clean(j)) /\ (GivenUp(j)' <=> GivenUp(j)) /\ (Ended(j)' <=> Ended(j))
    BY <1>1 DEF Clean, GivenUp, Ended, Refunded
  <2>6. CASE Complete(w)
    <3>1. state'[j] = "completed" /\ Ended(j)
      BY <1>2, <1>4, <2>1, <2>3, <2>6 DEF Complete, Typed, Phase
    <3> HIDE DEF Executes
    <3> QED BY <2>2, <2>4, <2>5, <3>1 DEF Outcome
  <2>7. CASE Fail(w)
    <3>1. /\ state'[j] = IF made[j] + 1 < MaxTries THEN "delayed" ELSE "failed"
          /\ sends'[j] = 0
      BY <1>1, <1>2, <1>4, <2>1, <2>3, <2>7 DEF Fail, Typed, Phase
    <3>2. made[j] \in Nat /\ MaxTries \in Nat
      BY BudgetIsNat
    <3>3. IF made[j] + 1 < MaxTries THEN Clean(j) ELSE GivenUp(j)
      BY <2>3, <2>7, <3>2 DEF Fail, Phase
    <3> HIDE DEF Executes
    <3> QED BY <2>2, <2>4, <2>5, <3>1, <3>3 DEF Outcome
  <2> QED BY <2>6, <2>7
<1>5. CASE j # k
  <2>1. Undisturbed(j)
    BY <1>1, <1>2, <1>3, <1>5 DEF Undisturbed
  <2> QED BY <2>1, StaysAsItIs
<1> QED BY <1>4, <1>5

(* A fault does not touch the jobs it is not counted for.                   *)
LEMMA FaultOutcome ==
    ASSUME TypeInv, NEW w \in Slots, Fault(w),
           NEW j \in Jobs, OwnRequest(j), j \notin faulty', Outcome(j)
    PROVE  Outcome(j)'
<1> USE DEF TypeInv
<1>1. pc[w] # "idle" /\ exec[w].job # j /\ exec[w].job \in Jobs
  BY DEF Fault, SendLost, SendReply, Throw, CatchLost, Crash, SlotInv
<1>2. UNCHANGED <<state, made, owner, status, credited, dead>>
  BY DEF Fault, SendLost, SendReply, Throw, CatchLost, Crash
<1>3. \A v \in Slots \ {w} : pc'[v] = pc[v] /\ exec'[v] = exec[v]
  BY DEF Fault, SendLost, SendReply, Throw, CatchLost, Crash, Typed
<1>4. exec'[w].job = exec[w].job \/ pc'[w] = "idle"
  BY DEF Fault, SendLost, SendReply, Throw, CatchLost, Crash, Typed
<1>5. \A k \in Jobs : k # exec[w].job => sends'[k] = sends[k]
  BY <1>1 DEF Fault, SendLost, SendReply, Throw, CatchLost, Crash, Typed
<1>6. Undisturbed(j)
  BY <1>1, <1>2, <1>3, <1>4, <1>5, OthersStayClear
<1> QED BY <1>6, StaysAsItIs

LEMMA OutcomeNext ==
    TypeInv /\ OutcomeInv /\ [Next]_vars => OutcomeInv'
<1> SUFFICES ASSUME TypeInv, OutcomeInv, [Next]_vars,
                    NEW j \in Jobs, j \notin faulty', OwnRequest(j)
             PROVE  Outcome(j)'
  BY DEF OutcomeInv
<1> USE OtpDeliveryAssumption
<1>1. j \notin faulty /\ Outcome(j)
  <2>1. faulty \subseteq faulty'
    BY DEF Next, Step, Pick, Backoff, StallDead, StallLate, Fault, vars
  <2> QED BY <2>1 DEF OutcomeInv
<1>2. ASSUME NEW w \in Slots, Step(w) PROVE Outcome(j)'
  <2>1. CASE Send(w)
    BY <1>1, <2>1, SendOutcome DEF Send
  <2>2. CASE Complete(w) \/ Fail(w)
    BY <1>1, <2>2, EndOutcome
  <2> QED BY <1>1, <1>2, <2>1, <2>2, ProceedOutcome DEF Step
<1>3. ASSUME NEW w \in Slots, NEW k \in Jobs, Pick(w, k) PROVE Outcome(j)'
  BY <1>1, <1>3, PickOutcome
<1>4. ASSUME NEW k \in Jobs, Backoff(k) PROVE Outcome(j)'
  <2>1. UNCHANGED <<made, owner, exec, pc, effects>>
    BY <1>4 DEF Backoff
  <2>2. state'[k] = "waiting" /\ state[k] = "delayed" /\ \A l \in Jobs \ {k} : state'[l] = state[l]
    BY <1>4 DEF Backoff, TypeInv, Typed
  <2>3. CASE j = k
    <3>1. Clean(j)' <=> Clean(j)
      BY <2>1 DEF Clean
    <3>2. sends'[j] = 0 /\ Clean(j) /\ \A v \in Slots : Executes(v, j) <=> owner[j] = v
      BY <1>1, <2>1, <2>2, <2>3 DEF Outcome
    <3>3. owner[j] = None
      BY <2>2, <2>3 DEF TypeInv, JobInv
    <3>4. \A v \in Slots : ~Executes(v, j)
      BY <3>2, <3>3
    <3>5. \A v \in Slots : ~Executes(v, j)' /\ owner'[j] # v
      BY <2>1, <3>3, <3>4
    <3> HIDE DEF Executes
    <3> QED BY <2>2, <2>3, <3>1, <3>2, <3>5 DEF Outcome
  <2>4. CASE j # k
    <3>1. Undisturbed(j)
      BY <2>1, <2>2, <2>4 DEF Undisturbed
    <3> QED BY <1>1, <3>1, StaysAsItIs
  <2> QED BY <2>3, <2>4
<1>5. ASSUME NEW k \in Jobs, StallDead(k) \/ StallLate(k) PROVE Outcome(j)'
  <2>1. j # k
    <3>1. CASE StallDead(k)
      <4>1. SUFFICES ASSUME j = k PROVE FALSE
        OBVIOUS
      <4>2. PICK w \in Slots : owner[j] = w
        BY <1>1, <3>1, <4>1 DEF StallDead, Stall, Outcome
      <4>3. Executes(w, j)
        BY <1>1, <4>2 DEF Outcome
      <4> QED BY <3>1, <4>1, <4>2, <4>3 DEF StallDead
    <3>2. CASE StallLate(k)
      BY <3>2 DEF StallLate
    <3> QED BY <1>5, <3>1, <3>2
  <2>2. Undisturbed(j)
    BY <1>5, <2>1 DEF StallDead, StallLate, Stall, Undisturbed, TypeInv, Typed
  <2> QED BY <1>1, <2>2, StaysAsItIs
<1>6. ASSUME NEW w \in Slots, Fault(w) PROVE Outcome(j)'
  BY <1>1, <1>6, FaultOutcome
<1>7. CASE UNCHANGED vars
  <2>1. Undisturbed(j)
    BY <1>7 DEF vars, Undisturbed
  <2> QED BY <1>1, <2>1, StaysAsItIs
<1> QED BY <1>2, <1>3, <1>4, <1>5, <1>6, <1>7 DEF Next

-----------------------------------------------------------------------------
(* The theorems *)

LEMMA CountHolds == Spec => [](TypeInv /\ CountInv)
<1>1. Init => TypeInv /\ CountInv
  BY TypeInit, CountInit
<1>2. TypeInv /\ CountInv /\ [Next]_vars => (TypeInv /\ CountInv)'
  BY TypeNext, CountNext
<1> QED BY <1>1, <1>2, PTL DEF Spec

LEMMA InvariantHolds == Spec => []IInv
<1>1. Init => IInv
  BY TypeInit, CountInit, OutcomeInit DEF IInv
<1>2. IInv /\ [Next]_vars => IInv'
  BY TypeNext, CountNext, OutcomeNext DEF IInv
<1> QED BY <1>1, <1>2, PTL DEF Spec

(* No accepted message goes uncounted, whatever fails (queue.ts:6-11).       *)
THEOREM SendsCounted == Spec => []SendsAreCounted
<1>1. TypeInv /\ CountInv => SendsAreCounted
  <2> SUFFICES ASSUME TypeInv, CountInv, NEW j \in Jobs
               PROVE  sends[j] <= made[j] + stalls[j]
                         + (IF state[j] \in {"active", "completed"} THEN 1 ELSE 0)
    BY DEF SendsAreCounted
  <2>1. sends[j] + Cardinality(Sending(j)) <= Budget(j) /\ Cardinality(Sending(j)) \in Nat
    BY SendingIsFinite DEF CountInv
  <2>2. sends[j] \in Nat /\ Budget(j) \in Nat
    BY BudgetIsNat DEF TypeInv
  <2>3. sends[j] <= Budget(j)
    BY <2>1, <2>2
  <2> QED BY <2>3 DEF Budget
<1> QED BY <1>1, CountHolds, PTL

(* Every variable has its type; in particular a job is tried at most         *)
(* MaxTries times, and sends at most one message more per stall             *)
(* (queue.ts:6-7).                                                         *)
THEOREM TypeCorrect == Spec => []TypeOK
<1>1. TypeInv /\ CountInv => TypeOK
  <2> SUFFICES ASSUME TypeInv, CountInv PROVE TypeOK
    OBVIOUS
  <2>1. ASSUME NEW j \in Jobs PROVE sends[j] \in 0..MaxTries+MaxStalls
    <3>1. sends[j] + Cardinality(Sending(j)) <= Budget(j) /\ Cardinality(Sending(j)) \in Nat
      BY SendingIsFinite DEF CountInv
    <3>2. made[j] \in Nat /\ stalls[j] \in Nat /\ sends[j] \in Nat /\ Budget(j) \in Nat
      BY BudgetIsNat DEF TypeInv
    <3>3. Budget(j) <= MaxTries + MaxStalls
      <4>1. CASE state[j] = "failed"
        BY <3>2, <4>1 DEF Budget, TypeInv, JobInv
      <4>2. CASE state[j] # "failed"
        <5>1. made[j] < MaxTries /\ stalls[j] <= MaxStalls /\ MaxTries \in Nat /\ MaxStalls \in Nat
          BY <4>2, OtpDeliveryAssumption DEF TypeInv, JobInv
        <5>2. Budget(j) <= made[j] + stalls[j] + 1
          BY BudgetIsNat DEF TypeInv
        <5> QED BY <3>2, <5>1, <5>2
      <4> QED BY <4>1, <4>2
    <3>4. MaxTries + MaxStalls \in Nat
      BY OtpDeliveryAssumption
    <3> QED BY <3>1, <3>2, <3>3, <3>4
  <2>2. sends \in [Jobs -> 0..MaxTries+MaxStalls]
    BY <2>1 DEF TypeInv, Typed
  <2> QED BY <2>2 DEF TypeInv, Typed, TypeOK
<1> QED BY <1>1, CountHolds, PTL

LEMMA SettledOutcome == IInv => OutcomeIsConsistent
<1> SUFFICES ASSUME IInv, NEW j \in Jobs, Settled(j), j \notin faulty, OwnRequest(j)
             PROVE  IF sends[j] > 0
                    THEN /\ state[j] = "completed" /\ status[RequestOf[j]] = "sent"
                         /\ RequestOf[j] \notin credited /\ RequestOf[j] \notin dead
                    ELSE status[RequestOf[j]] = "failed" /\ Refunded(j) /\ RequestOf[j] \in dead
  BY DEF OutcomeIsConsistent
<1>1. Outcome(j) /\ state[j] \in {"completed", "failed"}
  BY DEF IInv, OutcomeInv, Settled
<1>2. Ended(j) /\ (state[j] = "failed" => sends[j] = 0)
  BY <1>1 DEF Outcome, Ended
<1> QED BY <1>1, <1>2 DEF Ended, GivenUp, Clean

(* A job that is over, met no fault and is the only one about its request    *)
(* has either sent its message and kept the debit, or it has not, and failed *)
(* and dead-lettered the request, with a credit under its stored reference   *)
(* (otp.worker.ts:79-112, 118-149): whatever the references are.            *)
THEOREM OutcomeConsistent == Spec => []OutcomeIsConsistent
BY SettledOutcome, InvariantHolds, PTL

=============================================================================
