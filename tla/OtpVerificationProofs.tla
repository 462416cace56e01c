----------------------- MODULE OtpVerificationProofs -----------------------
(* Theorems about OtpVerification, however many verifications overlap: what  *)
(* the code keeps of each rule, for the verifications that had a code to     *)
(* themselves.                                                             *)
EXTENDS OtpVerification, FiniteSetTheorems, TLAPS

(* What a call may stand before, and what it has read by then; memory is     *)
(* used only after a fault.                                                *)
Control ==
    /\ \A p \in Issuers : pc[p] = "store" => req[p].kind = "send" \/ req[p].request \in Issuers
    /\ \A p \in Verifiers :
          /\ pc[p] \in {"save", "expire", "block", "drop", "ttl", "set", "del", "mark",
                        "invalid", "maxed", "verified"} => got[p] # NoEntry
          /\ pc[p] \in {"ttl", "set"} /\ found[p] = Redis => got[p].attempts < MaxAttempts
    /\ faults = 0 => /\ \A n \in Nodes : memory[n] = NoEntry
                     /\ \A p \in Verifiers : found[p] = Redis

TypeInv == TypeOK /\ Control

-----------------------------------------------------------------------------

(* Two verifications that have one code are in the history.                 *)
OverlapsAreKnown ==
    \A p, q \in Verifiers :
        p # q /\ Holds(p) /\ Holds(q) /\ got[p].code = got[q].code => p \in overlapped

(* A code that can be found has been stored, and is not stored again.       *)
Stored(c) == pc[c] \notin {"idle", "store"}

CodesAreStored ==
    /\ store # NoEntry => Stored(store.code)
    /\ \A n \in Nodes : memory[n] # NoEntry => Stored(memory[n].code)
    /\ \A p \in Verifiers : got[p] # NoEntry => Stored(got[p].code)

(* The entry of a code is in the memory of one node at most.                *)
OneHome ==
    /\ \A m, n \in Nodes :
          memory[m] # NoEntry /\ memory[n] # NoEntry /\ memory[m].code = memory[n].code => m = n
    /\ \A p \in Verifiers, n \in Nodes :
          /\ found[p] \in Nodes /\ got[p] # NoEntry
          /\ memory[n] # NoEntry /\ memory[n].code = got[p].code
          => n = found[p]

(* A verification has spent its code: used it up, or by its last failure.   *)
Spends(p) == pc[p] \in {"mark", "verified", "maxed"}

(* The code p spent, having it to itself, is gone, and nobody else has it.   *)
Gone(p) ==
    /\ faults = 0 => store = NoEntry \/ store.code # got[p].code
    /\ found[p] \in Nodes =>
          \A n \in Nodes : memory[n] = NoEntry \/ memory[n].code # got[p].code
    /\ \A q \in Verifiers :
          Holds(q) /\ got[q].code = got[p].code /\ SamePlace(p, q) => q = p

SpentIsGone == \A p \in Verifiers \ overlapped : Spends(p) => Gone(p)

UseInv == OverlapsAreKnown /\ CodesAreStored /\ OneHome /\ SpentIsGone

-----------------------------------------------------------------------------

Refusals(c) == Cardinality(Failed(c) \ overlapped)
RefusalsInMemory(c) == Cardinality((Failed(c) \cap InMemory) \ overlapped)

(* A verification has a code, and the count of its own attempt.             *)
Counts(p) == pc[p] \in {"save", "expire", "block", "drop", "ttl", "set", "del"}

(* Every refusal of a code is in the counter of its entry, in Redis ...      *)
RefusalsAreCounted ==
    /\ \A c \in Issuers : faults = 0 => Refusals(c) <= MaxAttempts
    /\ faults = 0 /\ store # NoEntry => Refusals(store.code) <= store.attempts
    /\ \A p \in Verifiers :
          faults = 0 /\ Counts(p) => /\ Refusals(got[p].code) < got[p].attempts
                                     /\ got[p].attempts <= MaxAttempts

(* ... and in memory, where a lost process may leave a counter that is higher *)
(* than the refusals, and at the maximum.                                   *)
MemoryRefusalsAreCounted ==
    /\ \A c \in Issuers : RefusalsInMemory(c) <= MaxAttempts
    /\ \A n \in Nodes : memory[n] # NoEntry =>
          /\ RefusalsInMemory(memory[n].code) <= memory[n].attempts
          /\ RefusalsInMemory(memory[n].code) < MaxAttempts
    /\ \A p \in Verifiers : Counts(p) /\ found[p] \in Nodes =>
          /\ RefusalsInMemory(got[p].code) < got[p].attempts
          /\ RefusalsInMemory(got[p].code) < MaxAttempts

(* The counter in memory is that of the verification that has it to itself.  *)
MemoryIsCurrent ==
    \A p \in Verifiers \ overlapped : found[p] \in Nodes =>
        /\ pc[p] \in {"ttl", "set"} => got[p].attempts < MaxAttempts
        /\ pc[p] \in {"expire", "block", "drop", "ttl", "set"} =>
              \A n \in Nodes : memory[n] # NoEntry /\ memory[n].code = got[p].code
                                  => memory[n].attempts = got[p].attempts

CountInv == RefusalsAreCounted /\ MemoryRefusalsAreCounted /\ MemoryIsCurrent

IInv == TypeInv /\ UseInv /\ CountInv

USE DEF Goto, Ask, Works, Fails, Calls, Verifying, Issuing, Outcomes, Entries, env, local

-----------------------------------------------------------------------------
(* Types *)

LEMMA TypeInit == Init => TypeInv
<1> SUFFICES ASSUME Init PROVE TypeInv
  OBVIOUS
<1> USE OtpVerificationAssumption DEF Init
<1>1. TypeOK
  <2>1. [kind |-> "send"] \in Asked
    BY DEF Asked
  <2>2. faults \in 0..MaxFaults
    OBVIOUS
  <2> QED BY <2>1, <2>2 DEF TypeOK
<1>2. Control
  BY DEF Control
<1> QED BY <1>1, <1>2 DEF TypeInv

(* A call moves on and nothing is stored or read.                           *)
LEMMA MoveType ==
    ASSUME TypeInv, NEW p \in Calls,
           NEW label \in {"idle"} \cup Verifying \cup Issuing \cup Outcomes, Goto(p, label),
           label = "store" => pc[p] = "store",
           p \in Verifiers /\ label \in {"save", "expire", "block", "drop", "ttl", "set", "del",
                                         "mark", "invalid", "maxed", "verified"}
              => got[p] # NoEntry,
           p \in Verifiers /\ label \in {"ttl", "set"} /\ found[p] = Redis
              => got[p].attempts < MaxAttempts,
           faults' = 0 => faults = 0, \A n \in Nodes : memory'[n] # NoEntry => memory[n] # NoEntry,
           UNCHANGED <<req, found>>,
           \A q \in Verifiers :
              \/ got'[q] = got[q]
              \/ found[q] # Redis /\ (got[q] # NoEntry => got'[q] # NoEntry)
    PROVE  Control' /\ pc' \in [Calls -> {"idle"} \cup Verifying \cup Issuing \cup Outcomes]
<1> USE OtpVerificationAssumption DEF TypeInv
<1>1. pc' \in [Calls -> {"idle"} \cup Verifying \cup Issuing \cup Outcomes]
  BY DEF TypeOK
<1>2. \A q \in Issuers : pc'[q] = "store" => pc[q] = "store"
  BY DEF TypeOK
<1>3. \A q \in Verifiers : q # p => pc'[q] = pc[q]
  BY DEF TypeOK
<1>4. p \in Verifiers => pc'[p] = label
  BY DEF TypeOK
<1> QED BY <1>1, <1>2, <1>3, <1>4 DEF Control

LEMMA IssueType ==
    ASSUME TypeInv, NEW p \in Issuers, Issue(p) PROVE TypeInv'
<1> USE OtpVerificationAssumption DEF TypeInv
<1>1. ASSUME NEW r \in Asked, Ask(p, r), NEW label \in {"rejected", "store"}, Goto(p, label),
             label = "store" => r.kind = "send" \/ r.request \in Issuers,
             UNCHANGED <<got, found, faults, memory>>
      PROVE  /\ Control' /\ req' \in [Calls -> Asked]
             /\ pc' \in [Calls -> {"idle"} \cup Verifying \cup Issuing \cup Outcomes]
  BY <1>1 DEF TypeOK, Control
<1>2. CASE SendRefused(p) \/ SendAdmitted(p)
  <2>1. PICK label \in {"rejected", "store"} : Goto(p, label)
    BY <1>2 DEF SendRefused, SendAdmitted
  <2>2. [kind |-> "send"] \in Asked /\ Ask(p, [kind |-> "send"])
    BY <1>2 DEF Asked, SendRefused, SendAdmitted
  <2>3. /\ Control' /\ req' \in [Calls -> Asked]
        /\ pc' \in [Calls -> {"idle"} \cup Verifying \cup Issuing \cup Outcomes]
    BY <1>1, <1>2, <2>1, <2>2 DEF SendRefused, SendAdmitted
  <2> QED BY <1>2, <2>3 DEF SendRefused, SendAdmitted, TypeOK
<1>3. ASSUME NEW r \in Issuers,
             ResendRefused(p, r) \/ ResendExpired(p, r) \/ ResendAdmitted(p, r)
      PROVE  TypeInv'
  <2> USE DEF ResendRefused, ResendExpired, ResendAdmitted
  <2>1. PICK label \in {"rejected", "store"} : Goto(p, label)
    BY <1>3
  <2>2. /\ [kind |-> "resend", request |-> r] \in Asked
        /\ Ask(p, [kind |-> "resend", request |-> r])
    BY <1>3 DEF Asked
  <2>3. /\ Control' /\ req' \in [Calls -> Asked]
        /\ pc' \in [Calls -> {"idle"} \cup Verifying \cup Issuing \cup Outcomes]
    BY <1>1, <1>3, <2>1, <2>2
  <2> QED BY <1>3, <2>3 DEF TypeOK
<1>4. CASE IssueStore(p)
  <2> DEFINE r == IF req[p].kind = "send" THEN p ELSE req[p].request
             entry == [code |-> p, request |-> r, attempts |-> 0]
  <2>1. r \in Issuers
    BY <1>4 DEF IssueStore, Control
  <2>2. entry \in Entries /\ entry # NoEntry /\ entry.attempts = 0 /\ 0 < MaxAttempts
    BY <2>1
  <2> HIDE DEF r
  <2>3. /\ store' \in {store, entry} /\ faults' \in 0..MaxFaults
        /\ memory' = memory \/ (faults' # 0 /\ \E n \in Nodes : memory' = [memory EXCEPT ![n] = entry])
        /\ faults' = 0 => faults = 0
    BY <1>4 DEF IssueStore, TypeOK, r
  <2>4. memory' \in [Nodes -> {NoEntry} \cup Entries]
    BY <2>2, <2>3 DEF TypeOK
  <2>5. overdue' \subseteq Issuers
    BY <1>4 DEF IssueStore, TypeOK
  <2>6. Control' /\ pc' \in [Calls -> {"idle"} \cup Verifying \cup Issuing \cup Outcomes]
    <3>1. Goto(p, "cool") /\ UNCHANGED <<req, found, got>>
      BY <1>4 DEF IssueStore
    <3>2. /\ \A q \in Issuers : pc'[q] = "store" => pc[q] = "store"
          /\ \A q \in Verifiers : pc'[q] = pc[q]
      BY <3>1 DEF TypeOK
    <3>3. pc' \in [Calls -> {"idle"} \cup Verifying \cup Issuing \cup Outcomes]
      BY <3>1 DEF TypeOK
    <3> QED BY <2>3, <3>1, <3>2, <3>3 DEF Control
  <2>7. faults' = 0 /\ store' # NoEntry => store'.attempts < MaxAttempts
    BY <2>2, <2>3 DEF TypeOK
  <2> QED BY <1>4, <2>2, <2>3, <2>4, <2>5, <2>6, <2>7 DEF IssueStore, TypeOK
<1>5. CASE IssueCooldown(p)
  <2>1. Control' /\ pc' \in [Calls -> {"idle"} \cup Verifying \cup Issuing \cup Outcomes]
    BY <1>5, MoveType DEF IssueCooldown
  <2> QED BY <1>5, <2>1 DEF IssueCooldown, TypeOK
<1> QED BY <1>2, <1>3, <1>4, <1>5 DEF Issue

LEMMA VerifyGetType ==
    ASSUME TypeInv, NEW p \in Verifiers, NEW n \in Nodes, VerifyGet(p, n) PROVE TypeInv'
<1> USE OtpVerificationAssumption DEF TypeInv, VerifyGet
<1>1. PICK entry, place : Compare(p, entry, place) /\ entry \in {store, memory[n]}
                          /\ entry # NoEntry /\ place \in {Redis, n} /\ faults' \in 0..MaxFaults
                          /\ (place = n => entry = memory[n]) /\ (faults' = 0 => faults = 0)
  BY DEF TypeOK
<1>2. entry \in Entries
  BY <1>1 DEF TypeOK
<1>3. [entry EXCEPT !.attempts = @ + 1] \in Entries
  BY <1>2
<1>4. /\ got' = [got EXCEPT ![p] = [entry EXCEPT !.attempts = @ + 1]]
      /\ found' = [found EXCEPT ![p] = place]
      /\ \E label \in {"del", "save"} : Goto(p, label)
  BY <1>1 DEF Compare
<1>5. got' \in [Verifiers -> {NoEntry} \cup Entries]
  BY <1>3, <1>4 DEF TypeOK
<1>6. got'[p] # NoEntry /\ \A q \in Verifiers \ {p} : got'[q] = got[q] /\ pc'[q] = pc[q]
  BY <1>3, <1>4 DEF TypeOK
<1>7. pc'[p] \in {"del", "save"} /\ \A q \in Issuers : pc'[q] = pc[q]
  BY <1>4 DEF TypeOK
<1>8. Control'
  <2>1. found'[p] = place /\ \A q \in Verifiers \ {p} : found'[q] = found[q]
    BY <1>4 DEF TypeOK
  <2>2. faults' = 0 => place = Redis
    BY <1>1 DEF Control
  <2> QED BY <1>1, <1>6, <1>7, <2>1, <2>2 DEF Control
<1>9. found' \in [Verifiers -> {Redis} \cup Nodes]
  BY <1>1, <1>4 DEF TypeOK
<1>10. pc' \in [Calls -> {"idle"} \cup Verifying \cup Issuing \cup Outcomes]
  BY <1>4 DEF TypeOK
<1>11. overlapped' \subseteq Verifiers
  BY <1>1 DEF TypeOK, Compare, Meet, Holders
<1> QED BY <1>1, <1>5, <1>8, <1>9, <1>10, <1>11 DEF TypeOK

(* The entry that is forgotten, in Redis and in the memory of a node.       *)
LEMMA ForgetType ==
    ASSUME TypeOK, NEW p \in Verifiers, Forget(p)
    PROVE  /\ store' \in {store, NoEntry} /\ faults' \in 0..MaxFaults
           /\ faults' = 0 => faults = 0
           /\ \A n \in Nodes : memory'[n] # NoEntry => memory[n] # NoEntry
           /\ memory' \in [Nodes -> {NoEntry} \cup Entries]
BY OtpVerificationAssumption DEF TypeOK, Forget

LEMMA VerifyType ==
    ASSUME TypeInv, NEW p \in Verifiers, Verify(p) PROVE TypeInv'
<1> USE OtpVerificationAssumption DEF TypeInv
<1>1. ASSUME NEW code \in Issuers \cup {Wrong}, VerifyStart(p, code) PROVE TypeInv'
  <2>1. /\ [kind |-> "verify", code |-> code] \in Asked
        /\ req' = [req EXCEPT ![p] = [kind |-> "verify", code |-> code]]
    BY <1>1 DEF VerifyStart, Asked
  <2>2. pc' \in [Calls -> {"idle"} \cup Verifying \cup Issuing \cup Outcomes]
    BY <1>1 DEF VerifyStart, TypeOK
  <2>3. Control'
    BY <1>1, <2>1 DEF VerifyStart, TypeOK, Control
  <2> QED BY <1>1, <2>1, <2>2, <2>3 DEF VerifyStart, TypeOK
<1>2. ASSUME NEW n \in Nodes, VerifyNothing(p, n) PROVE TypeInv'
  <2>2. faults' = 0 => faults = 0
    BY <1>2 DEF VerifyNothing, TypeOK
  <2>1. Control' /\ pc' \in [Calls -> {"idle"} \cup Verifying \cup Issuing \cup Outcomes]
    BY <1>2, <2>2, MoveType DEF VerifyNothing
  <2> QED BY <1>2, <2>1 DEF VerifyNothing, TypeOK
<1>3. ASSUME NEW n \in Nodes, VerifyGet(p, n) PROVE TypeInv'
  BY <1>3, VerifyGetType
<1>4. ASSUME pc[p] \in {"save", "expire", "block", "drop", "ttl", "set", "del", "mark"}
      PROVE  got[p] \in Entries /\ got[p] # NoEntry
  BY <1>4 DEF Control, TypeOK
<1>5. CASE VerifySave(p)
  <2>1. got[p] \in Entries /\ got[p] # NoEntry
    BY <1>4, <1>5 DEF VerifySave
  <2>2. PICK label \in {"expire", "ttl"} :
          Goto(p, label) /\ (label = "ttl" => got[p].attempts < MaxAttempts)
    <3>1. got[p].attempts \in Nat /\ MaxAttempts \in Nat
      BY <2>1
    <3>2. CASE got[p].attempts >= MaxAttempts
      BY <1>5, <3>2 DEF VerifySave
    <3>3. CASE got[p].attempts < MaxAttempts
      BY <1>5, <3>1, <3>3 DEF VerifySave
    <3> QED BY <3>1, <3>2, <3>3
  <2>3. /\ \A q \in Verifiers : got'[q] \in {got[q], got[p]} /\ (found[q] = Redis => got'[q] = got[q])
        /\ \A n \in Nodes : memory'[n] \in {memory[n], got[p]}
        /\ \A n \in Nodes : memory'[n] # NoEntry => memory[n] # NoEntry
    BY <1>5 DEF VerifySave, Count
  <2>4. Control' /\ pc' \in [Calls -> {"idle"} \cup Verifying \cup Issuing \cup Outcomes]
    <3>1. \A q \in Verifiers :
             \/ got'[q] = got[q]
             \/ found[q] # Redis /\ (got[q] # NoEntry => got'[q] # NoEntry)
      BY <2>1, <2>3
    <3>2. UNCHANGED <<req, found, faults>>
      BY <1>5 DEF VerifySave
    <3> QED BY <2>1, <2>2, <2>3, <3>1, <3>2, MoveType
  <2>5. got' \in [Verifiers -> {NoEntry} \cup Entries] /\ memory' \in [Nodes -> {NoEntry} \cup Entries]
    <3>1. /\ \A q \in Verifiers : got'[q] \in {NoEntry} \cup Entries
          /\ \A n \in Nodes : memory'[n] \in {NoEntry} \cup Entries
      BY <2>1, <2>3 DEF TypeOK
    <3>2. \E f, g : got' = [q \in Verifiers |-> f[q]] /\ memory' = [n \in Nodes |-> g[n]]
      BY <1>5 DEF VerifySave, Count
    <3> QED BY <3>1, <3>2
  <2>6. attempts' \in [Issuers -> Nat]
    BY <1>5, <2>1 DEF VerifySave, TypeOK
  <2> QED BY <1>5, <2>4, <2>5, <2>6 DEF VerifySave, TypeOK
<1>6. CASE VerifyExpire(p)
  <2>1. got[p] \in Entries /\ got[p] # NoEntry
    BY <1>4, <1>6 DEF VerifyExpire
  <2>2. Control' /\ pc' \in [Calls -> {"idle"} \cup Verifying \cup Issuing \cup Outcomes]
    BY <1>6, <2>1, MoveType DEF VerifyExpire
  <2> QED BY <1>6, <2>1, <2>2 DEF VerifyExpire, TypeOK
<1>7. CASE VerifyBlock(p)
  <2>1. got[p] \in Entries /\ got[p] # NoEntry
    BY <1>4, <1>7 DEF VerifyBlock
  <2>2. Control' /\ pc' \in [Calls -> {"idle"} \cup Verifying \cup Issuing \cup Outcomes]
    BY <1>7, <2>1, MoveType DEF VerifyBlock
  <2> QED BY <1>7, <2>2 DEF VerifyBlock, TypeOK
<1>8. CASE VerifyDrop(p) \/ VerifyDel(p)
  <2>1. got[p] \in Entries /\ got[p] # NoEntry
    BY <1>4, <1>8 DEF VerifyDrop, VerifyDel
  <2>2. PICK label \in {"maxed", "mark"} : Goto(p, label)
    BY <1>8 DEF VerifyDrop, VerifyDel
  <2>4. Forget(p)
    BY <1>8 DEF VerifyDrop, VerifyDel
  <2>3. Control' /\ pc' \in [Calls -> {"idle"} \cup Verifying \cup Issuing \cup Outcomes]
    BY <1>8, <2>1, <2>2, <2>4, ForgetType, MoveType DEF VerifyDrop, VerifyDel
  <2> QED BY <1>8, <2>3, <2>4, ForgetType DEF VerifyDrop, VerifyDel, TypeOK
<1>9. CASE VerifyTtl(p)
  <2>1. /\ got[p] \in Entries /\ got[p] # NoEntry
        /\ found[p] = Redis => got[p].attempts < MaxAttempts
    BY <1>4, <1>9 DEF VerifyTtl, Control
  <2>2. PICK label \in {"invalid", "set"} : Goto(p, label)
    BY <1>9 DEF VerifyTtl
  <2>4. faults' = 0 => faults = 0
    BY <1>9 DEF VerifyTtl, TypeOK
  <2>3. Control' /\ pc' \in [Calls -> {"idle"} \cup Verifying \cup Issuing \cup Outcomes]
    BY <1>9, <2>1, <2>2, <2>4, MoveType DEF VerifyTtl
  <2> QED BY <1>9, <2>3 DEF VerifyTtl, TypeOK
<1>10. CASE VerifySet(p)
  <2>1. /\ got[p] \in Entries /\ got[p] # NoEntry
        /\ found[p] = Redis => got[p].attempts < MaxAttempts
    BY <1>4, <1>10 DEF VerifySet, Control
  <2>2. faults' \in 0..MaxFaults /\ (faults' = 0 => faults = 0) /\ store' \in {store, got[p]}
    BY <1>10 DEF VerifySet, TypeOK
  <2>3. Control' /\ pc' \in [Calls -> {"idle"} \cup Verifying \cup Issuing \cup Outcomes]
    BY <1>10, <2>1, <2>2, MoveType DEF VerifySet
  <2>4. faults' = 0 /\ store' # NoEntry => store'.attempts < MaxAttempts
    BY <2>1, <2>2 DEF TypeOK, Control
  <2> QED BY <1>10, <2>1, <2>2, <2>3, <2>4 DEF VerifySet, TypeOK
<1>11. CASE VerifyMark(p)
  <2>1. got[p] \in Entries /\ got[p] # NoEntry
    BY <1>4, <1>11 DEF VerifyMark
  <2>2. Control' /\ pc' \in [Calls -> {"idle"} \cup Verifying \cup Issuing \cup Outcomes]
    BY <1>11, <2>1, MoveType DEF VerifyMark
  <2>3. status' \in [Issuers -> {"none", "created", "verified", "expired"}]
        /\ attempts' \in [Issuers -> Nat]
    BY <1>11, <2>1 DEF VerifyMark, TypeOK
  <2> QED BY <1>11, <2>2, <2>3 DEF VerifyMark, TypeOK
<1> QED BY <1>1, <1>2, <1>3, <1>5, <1>6, <1>7, <1>8, <1>9, <1>10, <1>11 DEF Verify

LEMMA TypeNext == TypeInv /\ [Next]_vars => TypeInv'
<1> SUFFICES ASSUME TypeInv, [Next]_vars PROVE TypeInv'
  OBVIOUS
<1> USE OtpVerificationAssumption DEF TypeInv
<1>1. ASSUME NEW p \in Issuers, Issue(p) PROVE TypeInv'
  BY <1>1, IssueType
<1>2. ASSUME NEW p \in Verifiers, Verify(p) PROVE TypeInv'
  BY <1>2, VerifyType
<1>3. ASSUME NEW p \in Calls, Abort(p) PROVE TypeInv'
  <2>1. Control' /\ pc' \in [Calls -> {"idle"} \cup Verifying \cup Issuing \cup Outcomes]
    BY <1>3, MoveType DEF Abort
  <2> QED BY <1>3, <2>1 DEF Abort, TypeOK
<1>4. ASSUME NEW n \in Nodes, MemoryExpires(n) PROVE TypeInv'
  BY <1>4 DEF MemoryExpires, TypeOK, Control
<1>5. ASSUME NEW r \in Issuers, WorkerUpdate(r) \/ RowExpires(r) PROVE TypeInv'
  BY <1>5 DEF WorkerUpdate, RowExpires, TypeOK, Control
<1>6. CASE EntryExpires \/ BlockExpires \/ CooldownExpires \/ UNCHANGED vars
  BY <1>6 DEF EntryExpires, BlockExpires, CooldownExpires, vars, TypeOK, Control
<1> QED BY <1>1, <1>2, <1>3, <1>4, <1>5, <1>6 DEF Next

LEMMA TypeHolds == Spec => []TypeInv
BY TypeInit, TypeNext, PTL DEF Spec

-----------------------------------------------------------------------------
(* Uses of a code *)

LEMMA UseInit == Init => UseInv
<1> SUFFICES ASSUME Init PROVE UseInv
  OBVIOUS
<1> QED
  BY OtpVerificationAssumption
  DEF Init, UseInv, OverlapsAreKnown, CodesAreStored, OneHome, SpentIsGone, Spends, Holds

(* A step after which no code can be found where it could not before, and    *)
(* nobody has read or spent a code who had not before.                      *)
FindsNoMore ==
    /\ store' # NoEntry => store # NoEntry /\ store'.code = store.code
    /\ \A n \in Nodes : memory'[n] # NoEntry =>
          memory[n] # NoEntry /\ memory'[n].code = memory[n].code
    /\ faults' = 0 => faults = 0
    /\ \A p \in Verifiers : /\ got'[p] # NoEntry <=> got[p] # NoEntry
                            /\ got'[p].code = got[p].code
    /\ UNCHANGED <<found, overlapped>>

BeginsNothing ==
    /\ \A p \in Verifiers : /\ Holds(p)' => Holds(p)
                            /\ Spends(p)' => Spends(p)
    /\ \A p \in Issuers : Stored(p) => Stored(p)'

LEMMA QuietUse ==
    ASSUME TypeInv, UseInv, FindsNoMore, BeginsNothing PROVE UseInv'
<1> USE OtpVerificationAssumption DEF TypeInv, UseInv, FindsNoMore
<1>1. OverlapsAreKnown'
  BY DEF OverlapsAreKnown, BeginsNothing
<1>2. CodesAreStored'
  <2>1. \A c \in Issuers : Stored(c) => Stored(c)'
    BY DEF BeginsNothing
  <2>2. /\ store # NoEntry => store.code \in Issuers
        /\ \A n \in Nodes : memory[n] # NoEntry => memory[n].code \in Issuers
        /\ \A p \in Verifiers : got[p] # NoEntry => got[p].code \in Issuers
    BY DEF TypeOK
  <2> QED BY <2>1, <2>2 DEF CodesAreStored, Stored
<1>3. OneHome'
  BY DEF OneHome
<1>4. SpentIsGone'
  <2> SUFFICES ASSUME NEW p \in Verifiers \ overlapped, Spends(p)' PROVE Gone(p)'
    BY DEF SpentIsGone
  <2>1. Gone(p)
    BY DEF BeginsNothing, SpentIsGone
  <2>2. \A q \in Verifiers : SamePlace(p, q)' => SamePlace(p, q)
    BY DEF SamePlace, InMemory
  <2> QED BY <2>1, <2>2 DEF Gone, BeginsNothing
<1> QED BY <1>1, <1>2, <1>3, <1>4

(* One call moves on, to where it has neither read nor spent a code.        *)
LEMMA MoveUse ==
    ASSUME TypeInv, NEW p \in Calls, NEW label, Goto(p, label),
           label \notin {"idle", "del", "mark", "maxed"},
           label = "store" => pc[p] = "idle",
           label \in Verifying => label = "get" \/ pc[p] \in {"save", "expire", "block", "ttl"},
           label = "get" => p \in Verifiers,
           label = "verified" => pc[p] = "mark"
    PROVE  BeginsNothing
<1>1. \A q \in Calls \ {p} : pc'[q] = pc[q]
  BY DEF TypeInv, TypeOK
<1>2. pc'[p] = label
  BY DEF TypeInv, TypeOK
<1>3. label \in {"store", "get"} => p \notin Issuers \/ pc[p] = "idle"
  BY OtpVerificationAssumption
<1> QED BY <1>1, <1>2, <1>3 DEF BeginsNothing, Holds, Spends, Stored

(* A code is stored for the first time: nobody has it.                      *)
LEMMA IssueStoreUse ==
    ASSUME TypeInv, UseInv, NEW p \in Issuers, IssueStore(p) PROVE UseInv'
<1> USE OtpVerificationAssumption DEF TypeInv, UseInv
<1> DEFINE r == IF req[p].kind = "send" THEN p ELSE req[p].request
           entry == [code |-> p, request |-> r, attempts |-> 0]
<1>1. entry \in Entries
  BY DEF IssueStore, Control
<1>2. entry.code = p /\ entry # NoEntry
  BY <1>1
<1>3. /\ \A n \in Nodes : memory[n] # NoEntry => memory[n].code # p
      /\ \A q \in Verifiers : got[q] # NoEntry => got[q].code # p
  BY DEF IssueStore, CodesAreStored, Stored
<1>4. /\ pc' = [pc EXCEPT ![p] = "cool"] /\ UNCHANGED <<got, overlapped, found>>
      /\ \/ Works /\ store' = entry /\ UNCHANGED memory
         \/ Fails /\ (\E n \in Nodes : memory' = [memory EXCEPT ![n] = entry]) /\ UNCHANGED store
  BY DEF IssueStore
<1> HIDE DEF entry
<1>5. \A q \in Verifiers : pc'[q] = pc[q]
  BY <1>4 DEF TypeOK
<1>6. \A q \in Issuers : Stored(q) \/ q = p => Stored(q)'
  BY <1>4 DEF TypeOK, Stored
<1>7. \A n \in Nodes : memory'[n] \in {memory[n], entry}
  BY <1>4 DEF TypeOK
<1>8. OverlapsAreKnown'
  BY <1>4, <1>5 DEF OverlapsAreKnown, Holds
<1>9. CodesAreStored'
  BY <1>2, <1>4, <1>6, <1>7 DEF CodesAreStored, TypeOK
<1>10. OneHome'
  <2>1. CASE Works /\ UNCHANGED memory
    BY <1>4, <2>1 DEF OneHome
  <2>2. CASE Fails /\ \E n \in Nodes : memory' = [memory EXCEPT ![n] = entry]
    <3>1. PICK n \in Nodes : memory' = [memory EXCEPT ![n] = entry]
      BY <2>2
    <3>2. memory'[n] = entry /\ \A m \in Nodes \ {n} : memory'[m] = memory[m]
      BY <3>1 DEF TypeOK
    <3> QED BY <1>2, <1>3, <1>4, <3>2 DEF OneHome
  <2> QED BY <1>4, <2>1, <2>2
<1>11. SpentIsGone'
  <2> SUFFICES ASSUME NEW q \in Verifiers \ overlapped, Spends(q)' PROVE Gone(q)'
    BY <1>4 DEF SpentIsGone
  <2>1. Gone(q) /\ got[q] # NoEntry
    BY <1>5 DEF Spends, Control, SpentIsGone
  <2>2. faults' = 0 => faults = 0
    BY <1>4 DEF TypeOK
  <2>3. \A t \in Verifiers :
            /\ Holds(t)' => Holds(t)
            /\ SamePlace(q, t)' => SamePlace(q, t)
    BY <1>4, <1>5, <2>2 DEF Holds, SamePlace, InMemory
  <2>4. got[q].code # p
    BY <1>3, <2>1
  <2>5. faults' = 0 => store' = NoEntry \/ store'.code # got[q].code
    BY <1>2, <1>4, <2>1, <2>2, <2>4 DEF Gone
  <2>6. found[q] \in Nodes =>
           \A n \in Nodes : memory'[n] = NoEntry \/ memory'[n].code # got[q].code
    BY <1>2, <1>7, <2>1, <2>4 DEF Gone
  <2> QED BY <1>4, <2>1, <2>3, <2>5, <2>6 DEF Gone
<1> QED BY <1>8, <1>9, <1>10, <1>11

LEMMA IssueUse ==
    ASSUME TypeInv, UseInv, NEW p \in Issuers, Issue(p) PROVE UseInv'
<1> USE OtpVerificationAssumption DEF TypeInv
<1>1. ASSUME NEW label \in {"rejected", "store", "issued"}, Goto(p, label),
             label = "store" => pc[p] = "idle", UNCHANGED <<local, store, got, overlapped>>
      PROVE  UseInv'
  <2>1. BeginsNothing
    BY <1>1, MoveUse
  <2> QED BY <1>1, <2>1, QuietUse DEF FindsNoMore
<1>2. CASE SendRefused(p) \/ SendAdmitted(p) \/ IssueCooldown(p)
  BY <1>1, <1>2 DEF SendRefused, SendAdmitted, IssueCooldown
<1>3. ASSUME NEW r \in Issuers,
             ResendRefused(p, r) \/ ResendExpired(p, r) \/ ResendAdmitted(p, r)
      PROVE  UseInv'
  BY <1>1, <1>3 DEF ResendRefused, ResendExpired, ResendAdmitted
<1>4. CASE IssueStore(p)
  BY <1>4, IssueStoreUse
<1> QED BY <1>2, <1>3, <1>4 DEF Issue

(* What a verification finds, nobody has spent without meeting another.      *)
LEMMA VerifyGetUse ==
    ASSUME TypeInv, UseInv, NEW p \in Verifiers, NEW n \in Nodes, VerifyGet(p, n)
    PROVE  UseInv'
<1> USE OtpVerificationAssumption DEF TypeInv, UseInv, VerifyGet
<1>1. PICK entry, place :
        /\ Compare(p, entry, place) /\ entry # NoEntry
        /\ \/ entry = store /\ place = Redis /\ Works
           \/ entry = memory[n] /\ place = n /\ faults' >= faults
        /\ faults' = 0 => faults = 0
  BY DEF TypeOK
<1>2. entry \in Entries
  BY <1>1 DEF TypeOK
<1>3. [entry EXCEPT !.attempts = @ + 1] \in Entries
  BY <1>2
<1>4. [entry EXCEPT !.attempts = @ + 1].code = entry.code
  BY <1>2
<1>5. /\ got' = [got EXCEPT ![p] = [entry EXCEPT !.attempts = @ + 1]]
      /\ found' = [found EXCEPT ![p] = place]
      /\ \E label \in {"del", "save"} : Goto(p, label)
      /\ Meet(p, entry.code)
  BY <1>1 DEF Compare
<1>6. /\ pc'[p] \in {"del", "save"} /\ \A q \in Calls \ {p} : pc'[q] = pc[q]
      /\ got'[p] # NoEntry /\ got'[p].code = entry.code /\ found'[p] = place
      /\ \A q \in Verifiers \ {p} : got'[q] = got[q] /\ found'[q] = found[q]
  BY <1>3, <1>4, <1>5 DEF TypeOK
<1>7. OverlapsAreKnown'
  <2> SUFFICES ASSUME NEW q \in Verifiers, NEW t \in Verifiers, q # t, Holds(q)', Holds(t)',
                      got'[q].code = got'[t].code
               PROVE  q \in overlapped'
    BY DEF OverlapsAreKnown
  <2>1. overlapped \subseteq overlapped'
    BY <1>5 DEF Meet
  <2>2. CASE q = p
    <3>1. t \in Holders(entry.code)
      BY <1>6, <2>2 DEF Holders, Holds
    <3> QED BY <1>5, <2>2, <3>1 DEF Meet
  <2>3. CASE t = p
    <3>1. q \in Holders(entry.code)
      BY <1>6, <2>3 DEF Holders, Holds
    <3> QED BY <1>5, <3>1 DEF Meet
  <2>4. CASE q # p /\ t # p
    BY <1>6, <2>1, <2>4 DEF OverlapsAreKnown, Holds
  <2> QED BY <2>2, <2>3, <2>4
<1>8. CodesAreStored'
  BY <1>1, <1>2, <1>6 DEF CodesAreStored, Stored, TypeOK
<1>9. OneHome'
  BY <1>1, <1>6 DEF OneHome
<1>10. SpentIsGone'
  <2> SUFFICES ASSUME NEW q \in Verifiers \ overlapped', Spends(q)' PROVE Gone(q)'
    BY DEF SpentIsGone
  <2>1. q # p /\ Spends(q) /\ got'[q] = got[q] /\ found'[q] = found[q] /\ q \notin overlapped
    BY <1>5, <1>6 DEF Spends, Meet
  <2>2. Gone(q)
    BY <2>1 DEF SpentIsGone
  <2>3. ASSUME NEW t \in Verifiers \ {p}, Holds(t)', got'[t].code = got'[q].code, SamePlace(q, t)'
        PROVE  t = q
    <3>1. Holds(t) /\ got[t].code = got[q].code /\ SamePlace(q, t)
      BY <1>1, <1>6, <2>1, <2>3 DEF Holds, SamePlace, InMemory
    <3> QED BY <2>2, <3>1 DEF Gone
  <2>4. ASSUME got'[p].code = got'[q].code, SamePlace(q, p)' PROVE FALSE
    <3>1. CASE faults' = 0
      <4>1. entry = store /\ faults = 0
        BY <1>1, <3>1 DEF Control
      <4>2. store.code # got[q].code
        BY <1>1, <2>2, <4>1 DEF Gone
      <4> QED BY <1>6, <2>1, <2>4, <4>1, <4>2
    <3>2. CASE found'[q] \in Nodes /\ found'[p] \in Nodes
      <4>1. entry = memory[n]
        BY <1>1, <1>6, <3>2
      <4>2. memory[n].code # got[q].code
        BY <1>1, <2>1, <2>2, <3>2, <4>1 DEF Gone
      <4> QED BY <1>6, <2>1, <2>4, <4>1, <4>2
    <3> QED BY <2>4, <3>1, <3>2 DEF SamePlace, InMemory
  <2>5. UNCHANGED <<store, memory>>
    OBVIOUS
  <2> QED BY <1>1, <2>1, <2>2, <2>3, <2>4, <2>5 DEF Gone
<1> QED BY <1>7, <1>8, <1>9, <1>10

(* A code is spent: its entry is deleted, from Redis unless that fails, and  *)
(* from the only memory that has it.                                        *)
LEMMA ForgetUse ==
    ASSUME TypeInv, UseInv, NEW p \in Verifiers, pc[p] \in {"drop", "del"}, Forget(p),
           NEW label \in {"maxed", "mark"}, Goto(p, label), UNCHANGED <<got, overlapped, found>>
    PROVE  UseInv'
<1> USE OtpVerificationAssumption DEF TypeInv, UseInv
<1>1. pc'[p] = label /\ \A q \in Calls \ {p} : pc'[q] = pc[q]
  BY DEF TypeOK
<1>2. PICK n \in Nodes :
        found[p] \in {n, Redis} /\ memory' = [memory EXCEPT ![n] = NoEntry]
  BY DEF Forget
<1>3. memory'[n] = NoEntry /\ \A m \in Nodes \ {n} : memory'[m] = memory[m]
  BY <1>2 DEF TypeOK
<1>4. /\ \/ store' = NoEntry
         \/ store' = store /\ faults' # 0
      /\ faults' = 0 => faults = 0
  <2>1. faults \in Nat
    BY DEF TypeOK
  <2> QED BY <2>1 DEF Forget
<1>5. Holds(p) /\ got[p] # NoEntry /\ \A q \in Verifiers : Holds(q)' => Holds(q)
  BY <1>1 DEF Holds, Control
<1>6. OverlapsAreKnown'
  BY <1>5 DEF OverlapsAreKnown
<1>7. CodesAreStored'
  BY <1>1, <1>3, <1>4 DEF CodesAreStored, Stored, TypeOK
<1>8. OneHome'
  BY <1>3, <1>4 DEF OneHome
<1>9. SpentIsGone'
  <2> SUFFICES ASSUME NEW q \in Verifiers \ overlapped, Spends(q)' PROVE Gone(q)'
    BY DEF SpentIsGone
  <2>1. \A t \in Verifiers : SamePlace(q, t)' => SamePlace(q, t)
    BY <1>4 DEF SamePlace, InMemory
  <2>2. CASE q = p
    <3>1. \A t \in Verifiers : Holds(t) /\ got[t].code = got[p].code => t = p
      BY <1>5, <2>2 DEF OverlapsAreKnown
    <3>2. found[p] \in Nodes =>
             \A m \in Nodes : memory'[m] = NoEntry \/ memory'[m].code # got[p].code
      BY <1>2, <1>3, <1>5 DEF OneHome
    <3> QED BY <1>4, <1>5, <2>2, <3>1, <3>2 DEF Gone
  <2>3. CASE q # p
    <3>1. Gone(q)
      BY <1>1, <2>3 DEF Spends, SpentIsGone
    <3> QED BY <1>3, <1>4, <1>5, <2>1, <3>1 DEF Gone
  <2> QED BY <2>2, <2>3
<1> QED BY <1>6, <1>7, <1>8, <1>9

(* The entry that is written back was not spent by anyone who had it alone.  *)
LEMMA VerifySetUse ==
    ASSUME TypeInv, UseInv, NEW p \in Verifiers, VerifySet(p) PROVE UseInv'
<1> USE OtpVerificationAssumption DEF TypeInv, UseInv, VerifySet
<1>1. pc'[p] = "invalid" /\ \A q \in Calls \ {p} : pc'[q] = pc[q]
  BY DEF TypeOK
<1>2. Holds(p) /\ got[p] # NoEntry /\ \A q \in Verifiers : Holds(q)' => Holds(q)
  BY <1>1 DEF Holds, Control
<1>3. faults' = 0 => faults = 0
  BY DEF TypeOK
<1>4. OverlapsAreKnown'
  BY <1>2 DEF OverlapsAreKnown
<1>5. CodesAreStored'
  BY <1>1, <1>2 DEF CodesAreStored, Stored, TypeOK
<1>6. OneHome'
  BY <1>3 DEF OneHome
<1>7. SpentIsGone'
  <2> SUFFICES ASSUME NEW q \in Verifiers \ overlapped, Spends(q)' PROVE Gone(q)'
    BY DEF SpentIsGone
  <2>1. q # p /\ Gone(q)
    BY <1>1 DEF Spends, SpentIsGone
  <2>2. \A t \in Verifiers : SamePlace(q, t)' => SamePlace(q, t)
    BY <1>3 DEF SamePlace, InMemory
  <2>3. faults' = 0 => got[p].code # got[q].code
    BY <1>2, <1>3, <2>1 DEF Gone, SamePlace
  <2>4. faults' = 0 => store' = NoEntry \/ store'.code # got[q].code
    BY <1>3, <2>1, <2>3 DEF Gone
  <2> QED BY <1>2, <2>1, <2>2, <2>4 DEF Gone
<1> QED BY <1>4, <1>5, <1>6, <1>7

(* Counting an attempt changes no code.                                    *)
LEMMA SaveKeepsCodes ==
    ASSUME TypeInv, NEW p \in Verifiers, VerifySave(p) PROVE FindsNoMore
<1>1. got[p] # NoEntry /\ \A q \in Verifiers : pc[q] \in {"ttl", "set"} => got[q] # NoEntry
  BY DEF VerifySave, TypeInv, Control
<1> QED BY <1>1 DEF VerifySave, FindsNoMore, Count

LEMMA VerifyUse ==
    ASSUME TypeInv, UseInv, NEW p \in Verifiers, Verify(p) PROVE UseInv'
<1> USE OtpVerificationAssumption DEF TypeInv
<1>2. ASSUME NEW n \in Nodes, VerifyGet(p, n) PROVE UseInv'
  BY <1>2, VerifyGetUse
<1>3. CASE VerifyDrop(p) \/ VerifyDel(p)
  <2>1. pc[p] \in {"drop", "del"} /\ Forget(p) /\ UNCHANGED <<got, overlapped, found>>
    BY <1>3 DEF VerifyDrop, VerifyDel
  <2>2. PICK label \in {"maxed", "mark"} : Goto(p, label)
    BY <1>3 DEF VerifyDrop, VerifyDel
  <2> QED BY <2>1, <2>2, ForgetUse
<1>4. CASE VerifySet(p)
  BY <1>4, VerifySetUse
<1>5. ASSUME NEW label \in {"get", "none", "expire", "ttl", "block", "drop", "set", "invalid",
                           "verified"}, Goto(p, label),
             label \in Verifying => label = "get" \/ pc[p] \in {"save", "expire", "block", "ttl"},
             label = "verified" => pc[p] = "mark", FindsNoMore
      PROVE  UseInv'
  <2>1. BeginsNothing
    BY <1>5, MoveUse
  <2> QED BY <1>5, <2>1, QuietUse
<1>1. ASSUME NEW code \in Issuers \cup {Wrong}, VerifyStart(p, code) PROVE UseInv'
  <2>1. FindsNoMore
    BY <1>1 DEF VerifyStart, FindsNoMore
  <2> QED BY <1>1, <1>5, <2>1 DEF VerifyStart
<1>6. ASSUME NEW n \in Nodes, VerifyNothing(p, n) PROVE UseInv'
  <2>1. FindsNoMore
    BY <1>6 DEF VerifyNothing, FindsNoMore, TypeOK
  <2> QED BY <1>5, <1>6, <2>1 DEF VerifyNothing
<1>7. CASE VerifySave(p)
  <2>2. FindsNoMore
    BY <1>7, SaveKeepsCodes
  <2>3. PICK label \in {"expire", "ttl"} : Goto(p, label)
    BY <1>7 DEF VerifySave
  <2> QED BY <1>5, <1>7, <2>2, <2>3 DEF VerifySave
<1>8. CASE VerifyExpire(p) \/ VerifyBlock(p) \/ VerifyMark(p)
  <2>1. FindsNoMore
    BY <1>8 DEF VerifyExpire, VerifyBlock, VerifyMark, FindsNoMore
  <2> QED BY <1>5, <1>8, <2>1 DEF VerifyExpire, VerifyBlock, VerifyMark
<1>9. CASE VerifyTtl(p)
  <2>1. FindsNoMore
    BY <1>9 DEF VerifyTtl, FindsNoMore, TypeOK
  <2>2. PICK label \in {"invalid", "set"} : Goto(p, label)
    BY <1>9 DEF VerifyTtl
  <2> QED BY <1>5, <1>9, <2>1, <2>2 DEF VerifyTtl
<1> QED BY <1>1, <1>2, <1>3, <1>4, <1>6, <1>7, <1>8, <1>9 DEF Verify

LEMMA UseNext == TypeInv /\ UseInv /\ [Next]_vars => UseInv'
<1> SUFFICES ASSUME TypeInv, UseInv, [Next]_vars PROVE UseInv'
  OBVIOUS
<1>1. ASSUME NEW p \in Issuers, Issue(p) PROVE UseInv'
  BY <1>1, IssueUse
<1>2. ASSUME NEW p \in Verifiers, Verify(p) PROVE UseInv'
  BY <1>2, VerifyUse
<1>3. ASSUME NEW p \in Calls, Abort(p) PROVE UseInv'
  <2>1. BeginsNothing
    BY <1>3, MoveUse DEF Abort
  <2>2. FindsNoMore
    BY <1>3 DEF Abort, FindsNoMore
  <2> QED BY <2>1, <2>2, QuietUse
<1>4. ASSUME UNCHANGED pc, FindsNoMore PROVE UseInv'
  <2>1. BeginsNothing
    BY <1>4 DEF BeginsNothing, Holds, Spends, Stored
  <2> QED BY <1>4, <2>1, QuietUse
<1>5. ASSUME NEW n \in Nodes, MemoryExpires(n) PROVE UseInv'
  <2>1. FindsNoMore
    BY <1>5 DEF MemoryExpires, FindsNoMore, TypeInv, TypeOK
  <2> QED BY <1>4, <1>5, <2>1 DEF MemoryExpires
<1>6. ASSUME NEW r \in Issuers, WorkerUpdate(r) \/ RowExpires(r) PROVE UseInv'
  BY <1>4, <1>6 DEF WorkerUpdate, RowExpires, FindsNoMore
<1>7. CASE EntryExpires \/ BlockExpires \/ CooldownExpires \/ UNCHANGED vars
  BY <1>4, <1>7 DEF EntryExpires, BlockExpires, CooldownExpires, vars, FindsNoMore
<1> QED BY <1>1, <1>2, <1>3, <1>5, <1>6, <1>7 DEF Next

-----------------------------------------------------------------------------
(* Refusals of a code *)

Refused(q) == pc[q] \in {"invalid", "maxed"}

LEMMA RefusalsAreNat ==
    ASSUME NEW c
    PROVE  /\ IsFiniteSet(Failed(c) \ overlapped)
           /\ IsFiniteSet((Failed(c) \cap InMemory) \ overlapped)
           /\ Refusals(c) \in Nat /\ RefusalsInMemory(c) \in Nat
<1>1. Failed(c) \ overlapped \subseteq Verifiers /\ (Failed(c) \cap InMemory) \ overlapped \subseteq Verifiers
  BY DEF Failed, Failures
<1>2. IsFiniteSet(Failed(c) \ overlapped) /\ IsFiniteSet((Failed(c) \cap InMemory) \ overlapped)
  BY <1>1, OtpVerificationAssumption, FS_Subset
<1> QED BY <1>2, FS_CardinalityType DEF Refusals, RefusalsInMemory

(* Nobody is refused.                                                      *)
LEMMA RefusalsStay ==
    ASSUME NEW c, \A q \in Verifiers :
              /\ Refused(q)' <=> Refused(q)
              /\ Refused(q) => /\ got'[q].code = got[q].code /\ found'[q] = found[q]
                               /\ q \in overlapped' <=> q \in overlapped
    PROVE  Refusals(c)' = Refusals(c) /\ RefusalsInMemory(c)' = RefusalsInMemory(c)
<1>1. (Failed(c) \ overlapped)' = Failed(c) \ overlapped
  BY DEF Failed, Failures, Refused
<1>2. ((Failed(c) \cap InMemory) \ overlapped)' = (Failed(c) \cap InMemory) \ overlapped
  BY DEF Failed, Failures, InMemory, Refused
<1> QED BY <1>1, <1>2 DEF Refusals, RefusalsInMemory

(* One verification is refused.                                            *)
LEMMA RefusalsGrow ==
    ASSUME NEW c, NEW p \in Verifiers, ~Refused(p), Refused(p)',
           UNCHANGED <<got, overlapped, found>>, \A q \in Verifiers \ {p} : pc'[q] = pc[q]
    PROVE  /\ Refusals(c)' = IF got[p].code = c /\ p \notin overlapped
                             THEN Refusals(c) + 1 ELSE Refusals(c)
           /\ RefusalsInMemory(c)' = IF /\ got[p].code = c /\ p \notin overlapped
                                        /\ found[p] \in Nodes
                                     THEN RefusalsInMemory(c) + 1 ELSE RefusalsInMemory(c)
<1> DEFINE A == Failed(c) \ overlapped
           M == (Failed(c) \cap InMemory) \ overlapped
<1>1. p \notin A /\ p \notin M /\ IsFiniteSet(A) /\ IsFiniteSet(M)
  BY RefusalsAreNat DEF Failed, Failures, Refused
<1>2. Failed(c)' = IF got[p].code = c THEN Failed(c) \cup {p} ELSE Failed(c)
  <2>1. CASE got[p].code = c
    BY <2>1 DEF Failed, Failures, Refused
  <2>2. CASE got[p].code # c
    BY <2>2 DEF Failed, Failures, Refused
  <2> QED BY <2>1, <2>2
<1>3. InMemory' = InMemory /\ (p \in InMemory <=> found[p] \in Nodes)
  BY DEF InMemory
<1>4. A' = IF got[p].code = c /\ p \notin overlapped THEN A \cup {p} ELSE A
  BY <1>2
<1>5. M' = IF got[p].code = c /\ p \notin overlapped /\ found[p] \in Nodes THEN M \cup {p} ELSE M
  BY <1>2, <1>3
<1>6. Refusals(c) = Cardinality(A) /\ Refusals(c)' = Cardinality(A')
  BY DEF Refusals
<1>7. RefusalsInMemory(c) = Cardinality(M) /\ RefusalsInMemory(c)' = Cardinality(M')
  BY DEF RefusalsInMemory
<1> HIDE DEF A, M
<1>8. Cardinality(A \cup {p}) = Cardinality(A) + 1 /\ Cardinality(M \cup {p}) = Cardinality(M) + 1
  BY <1>1, FS_AddElement
<1> QED BY <1>4, <1>5, <1>6, <1>7, <1>8

LEMMA CountInit == Init => CountInv
<1> SUFFICES ASSUME Init PROVE CountInv
  OBVIOUS
<1> USE OtpVerificationAssumption DEF Init
<1>1. ASSUME NEW c PROVE Refusals(c) = 0 /\ RefusalsInMemory(c) = 0
  <2>1. Failed(c) \ overlapped = {} /\ (Failed(c) \cap InMemory) \ overlapped = {}
    BY DEF Failed, Failures
  <2> QED BY <2>1, FS_EmptySet DEF Refusals, RefusalsInMemory
<1> QED BY <1>1 DEF CountInv, RefusalsAreCounted, MemoryRefusalsAreCounted, MemoryIsCurrent, Counts

(* A step that refuses nobody and counts nothing.                           *)
CountsNothing ==
    /\ store' # NoEntry => store' = store
    /\ \A n \in Nodes : memory'[n] # NoEntry => memory'[n] = memory[n]
    /\ faults' = 0 => faults = 0
    /\ UNCHANGED <<got, overlapped, found>>
    /\ \A q \in Verifiers :
          /\ Refused(q)' <=> Refused(q)
          /\ Counts(q)' => Counts(q)
          /\ Counts(q)' /\ pc'[q] \notin {"save", "del"} => pc[q] \notin {"save", "del"}
          /\ pc'[q] = "set" => pc[q] \in {"ttl", "set"}
          /\ pc'[q] = "ttl" => pc[q] = "ttl"

LEMMA QuietCount ==
    ASSUME TypeInv, CountInv, CountsNothing PROVE CountInv'
<1> USE DEF CountInv, CountsNothing
<1>1. \A c : Refusals(c)' = Refusals(c) /\ RefusalsInMemory(c)' = RefusalsInMemory(c)
  BY RefusalsStay
<1>2. RefusalsAreCounted'
  BY <1>1 DEF RefusalsAreCounted
<1>3. MemoryRefusalsAreCounted'
  BY <1>1 DEF MemoryRefusalsAreCounted
<1>4. MemoryIsCurrent'
  BY DEF MemoryIsCurrent, Counts
<1> QED BY <1>2, <1>3, <1>4

LEMMA MoveCount ==
    ASSUME TypeInv, NEW p \in Calls, NEW label, Goto(p, label),
           label \notin {"invalid", "maxed", "save", "del", "ttl"},
           pc[p] \notin {"invalid", "maxed"},
           label \in {"expire", "block", "drop", "set"}
              => pc[p] \in {"expire", "block", "drop", "ttl", "set"},
           label = "set" => pc[p] = "ttl",
           store' # NoEntry => store' = store,
           \A n \in Nodes : memory'[n] # NoEntry => memory'[n] = memory[n],
           faults' = 0 => faults = 0, UNCHANGED <<got, overlapped, found>>
    PROVE  CountsNothing
<1>1. pc'[p] = label /\ \A q \in Calls \ {p} : pc'[q] = pc[q]
  BY DEF TypeInv, TypeOK
<1> QED BY <1>1 DEF CountsNothing, Refused, Counts

(* A new code has not been refused.                                         *)
LEMMA IssueStoreCount ==
    ASSUME TypeInv, UseInv, CountInv, NEW p \in Issuers, IssueStore(p) PROVE CountInv'
<1> USE OtpVerificationAssumption DEF TypeInv, UseInv, CountInv
<1> DEFINE r == IF req[p].kind = "send" THEN p ELSE req[p].request
           entry == [code |-> p, request |-> r, attempts |-> 0]
<1>1. entry.code = p /\ entry.attempts = 0
  OBVIOUS
<1>2. /\ pc' = [pc EXCEPT ![p] = "cool"] /\ UNCHANGED <<got, overlapped, found>>
      /\ \/ Works /\ store' = entry /\ UNCHANGED memory
         \/ Fails /\ (\E n \in Nodes : memory' = [memory EXCEPT ![n] = entry]) /\ UNCHANGED store
  BY DEF IssueStore
<1>3. pc[p] = "store"
  BY DEF IssueStore
<1> HIDE DEF entry
<1>4. \A q \in Verifiers : pc'[q] = pc[q] /\ (got[q] # NoEntry => got[q].code # p)
  BY <1>2, <1>3 DEF TypeOK, CodesAreStored, Stored
<1>5. \A c : Refusals(c)' = Refusals(c) /\ RefusalsInMemory(c)' = RefusalsInMemory(c)
  BY <1>2, <1>4, RefusalsStay DEF Refused
<1>6. Refusals(p) = 0 /\ RefusalsInMemory(p) = 0
  <2>1. Failed(p) = {}
    BY <1>4 DEF Failed, Failures, Control
  <2>2. Failed(p) \ overlapped = {} /\ (Failed(p) \cap InMemory) \ overlapped = {}
    BY <2>1
  <2> QED BY <2>2, FS_EmptySet DEF Refusals, RefusalsInMemory
<1>7. \A q \in Verifiers : (Counts(q)' <=> Counts(q)) /\ (Counts(q) => got[q] # NoEntry)
  BY <1>4 DEF Counts, Control
<1>8. /\ store' \in {store, entry} /\ \A n \in Nodes : memory'[n] \in {memory[n], entry}
      /\ faults' = 0 => faults = 0
  BY <1>2 DEF TypeOK
<1>9. RefusalsAreCounted'
  BY <1>1, <1>2, <1>5, <1>6, <1>7, <1>8 DEF RefusalsAreCounted
<1>10. MemoryRefusalsAreCounted'
  BY <1>1, <1>2, <1>4, <1>5, <1>6, <1>7, <1>8 DEF MemoryRefusalsAreCounted
<1>11. MemoryIsCurrent'
  BY <1>1, <1>2, <1>4, <1>7, <1>8 DEF MemoryIsCurrent, Counts
<1> QED BY <1>9, <1>10, <1>11

(* An entry is read: its counter is one more than the refusals can be.       *)
LEMMA VerifyGetCount ==
    ASSUME TypeInv, UseInv, CountInv, NEW p \in Verifiers, NEW n \in Nodes, VerifyGet(p, n)
    PROVE  CountInv'
<1> USE OtpVerificationAssumption DEF TypeInv, UseInv, CountInv
<1>1. PICK entry, place :
        /\ Compare(p, entry, place) /\ entry # NoEntry
        /\ \/ entry = store /\ place = Redis /\ faults' = faults
           \/ entry = memory[n] /\ place = n
        /\ store' = store /\ memory' = memory /\ (faults' = 0 => faults = 0)
  BY DEF VerifyGet, TypeOK
<1>2. entry \in Entries /\ entry.attempts \in Nat
  <2>1. entry \in Entries
    BY <1>1 DEF TypeOK
  <2> QED BY <2>1
<1>3. /\ got' = [got EXCEPT ![p] = [entry EXCEPT !.attempts = @ + 1]]
      /\ found' = [found EXCEPT ![p] = place]
      /\ \E label \in {"del", "save"} : Goto(p, label)
      /\ Meet(p, entry.code)
  BY <1>1 DEF Compare
<1>4. got'[p].code = entry.code /\ got'[p].attempts = entry.attempts + 1 /\ found'[p] = place
  BY <1>2, <1>3 DEF TypeOK
<1>5. pc[p] = "get" /\ pc'[p] \in {"del", "save"}
  BY <1>3 DEF VerifyGet, TypeOK
<1>6. \A q \in Verifiers \ {p} : got'[q] = got[q] /\ found'[q] = found[q] /\ pc'[q] = pc[q]
  BY <1>3 DEF TypeOK
<1>7. \A c : Refusals(c)' = Refusals(c) /\ RefusalsInMemory(c)' = RefusalsInMemory(c)
  <2>1. \A q \in Verifiers : Refused(q) => (q \in overlapped' <=> q \in overlapped)
    BY <1>3, <1>5 DEF Refused, Meet, Holders, Holds
  <2> QED BY <1>5, <1>6, <2>1, RefusalsStay DEF Refused
<1>8. \A q \in Verifiers : Counts(q)' => q = p \/ Counts(q)
  BY <1>6 DEF Counts
<1>9. RefusalsAreCounted'
  <2>1. ASSUME faults' = 0
        PROVE  Refusals(entry.code) < entry.attempts + 1 /\ entry.attempts + 1 <= MaxAttempts
    <3>1. entry = store /\ faults = 0
      BY <1>1, <2>1 DEF Control
    <3>2. Refusals(entry.code) <= entry.attempts
      BY <1>1, <3>1 DEF RefusalsAreCounted
    <3>3. entry.attempts < MaxAttempts
      BY <1>1, <3>1 DEF TypeOK
    <3>4. Refusals(entry.code) \in Nat
      BY RefusalsAreNat
    <3> QED BY <1>2, <3>2, <3>3, <3>4
  <2> QED BY <1>1, <1>4, <1>6, <1>7, <1>8, <2>1 DEF RefusalsAreCounted
<1>10. MemoryRefusalsAreCounted'
  <2>1. ASSUME place \in Nodes
        PROVE  /\ RefusalsInMemory(entry.code) < entry.attempts + 1
               /\ RefusalsInMemory(entry.code) < MaxAttempts
    <3>1. entry = memory[n]
      BY <1>1, <2>1
    <3>2. RefusalsInMemory(entry.code) <= entry.attempts /\ RefusalsInMemory(entry.code) < MaxAttempts
      BY <1>1, <3>1 DEF MemoryRefusalsAreCounted
    <3>3. RefusalsInMemory(entry.code) \in Nat
      BY RefusalsAreNat
    <3> QED BY <1>2, <3>2, <3>3
  <2> QED BY <1>1, <1>4, <1>5, <1>6, <1>7, <1>8, <2>1 DEF MemoryRefusalsAreCounted
<1>11. MemoryIsCurrent'
  BY <1>1, <1>3, <1>5, <1>6 DEF MemoryIsCurrent, Meet
<1> QED BY <1>9, <1>10, <1>11

(* The node's entry counts along.                                          *)
LEMMA VerifySaveCount ==
    ASSUME TypeInv, UseInv, CountInv, NEW p \in Verifiers, VerifySave(p) PROVE CountInv'
<1> USE OtpVerificationAssumption DEF TypeInv, UseInv, CountInv
<1>1. \E label \in {"expire", "ttl"} :
         Goto(p, label) /\ (label = "ttl" => ~(got[p].attempts >= MaxAttempts))
  BY DEF VerifySave
<1>2. pc[p] = "save" /\ Count(p) /\ UNCHANGED <<store, faults, overlapped, found>>
  BY DEF VerifySave
<1>3. /\ pc'[p] \in {"expire", "ttl"} /\ \A q \in Verifiers \ {p} : pc'[q] = pc[q]
      /\ pc'[p] = "ttl" => ~(got[p].attempts >= MaxAttempts)
  BY <1>1 DEF TypeOK
<1>4. Counts(p) /\ Holds(p) /\ got[p] \in Entries /\ got[p] # NoEntry /\ got[p].attempts \in Nat
  <2>1. Counts(p) /\ Holds(p) /\ got[p] \in Entries /\ got[p] # NoEntry
    BY <1>2 DEF Counts, Holds, Control, TypeOK
  <2> QED BY <2>1
<1>5. ASSUME NEW q \in Verifiers
      PROVE  /\ got'[q] \in {got[q], got[p]} /\ got'[q].code = got[q].code
             /\ found[q] = Redis => got'[q] = got[q]
             /\ got'[q] # got[q] => /\ pc[q] \in {"ttl", "set"} /\ got'[q] = got[p]
                                   /\ found[q] = found[p]
             /\ q \notin overlapped => got'[q] = got[q]
             /\ Counts(q)' => Counts(q)
  <2>1. /\ got'[q] \in {got[q], got[p]} /\ got'[q].code = got[q].code
        /\ found[q] = Redis => got'[q] = got[q]
        /\ got'[q] # got[q] => /\ pc[q] \in {"ttl", "set"} /\ got'[q] = got[p]
                              /\ found[q] = found[p]
    BY <1>2 DEF Count
  <2>2. q \notin overlapped => got'[q] = got[q]
    BY <1>2, <1>4, <2>1 DEF OverlapsAreKnown, Holds
  <2>3. Counts(q)' => Counts(q)
    BY <1>2, <1>3 DEF Counts
  <2> QED BY <2>1, <2>2, <2>3
<1>6. \A c : Refusals(c)' = Refusals(c) /\ RefusalsInMemory(c)' = RefusalsInMemory(c)
  BY <1>2, <1>3, <1>5, RefusalsStay DEF Refused
<1>7. RefusalsAreCounted'
  <2>1. faults' = 0 => faults = 0 /\ \A q \in Verifiers : got'[q] = got[q]
    BY <1>2, <1>5 DEF Control
  <2> QED BY <1>2, <1>5, <1>6, <2>1 DEF RefusalsAreCounted
<1>8. ASSUME NEW n \in Nodes
      PROVE  \/ memory'[n] = memory[n]
             \/ /\ memory'[n] = got[p] /\ found[p] = n
                /\ memory[n] # NoEntry /\ memory[n].code = got[p].code
  BY <1>2 DEF Count
<1>9. found[p] \in Nodes =>
         /\ RefusalsInMemory(got[p].code) < got[p].attempts
         /\ RefusalsInMemory(got[p].code) < MaxAttempts
  BY <1>4 DEF MemoryRefusalsAreCounted
<1>10. ASSUME NEW n \in Nodes, memory'[n] # NoEntry
       PROVE  /\ RefusalsInMemory(memory'[n].code) <= memory'[n].attempts
              /\ RefusalsInMemory(memory'[n].code) < MaxAttempts
  <2>1. CASE memory'[n] = memory[n]
    BY <1>10, <2>1 DEF MemoryRefusalsAreCounted
  <2>2. CASE memory'[n] = got[p] /\ found[p] = n
    <3>1. RefusalsInMemory(got[p].code) \in Nat
      BY RefusalsAreNat
    <3> QED BY <1>4, <1>9, <2>2, <3>1
  <2> QED BY <1>8, <2>1, <2>2
<1>11. ASSUME NEW q \in Verifiers, Counts(q)', found[q] \in Nodes
       PROVE  /\ RefusalsInMemory(got'[q].code) < got'[q].attempts
              /\ RefusalsInMemory(got'[q].code) < MaxAttempts
  <2>1. Counts(q)
    BY <1>5, <1>11
  <2>2. CASE got'[q] = got[q]
    BY <1>11, <2>1, <2>2 DEF MemoryRefusalsAreCounted
  <2>3. CASE got'[q] # got[q]
    <3>1. got'[q] = got[p] /\ found[p] \in Nodes
      BY <1>5, <1>11, <2>3
    <3> QED BY <1>9, <3>1
  <2> QED BY <2>2, <2>3
<1>12. MemoryRefusalsAreCounted'
  BY <1>2, <1>6, <1>10, <1>11 DEF MemoryRefusalsAreCounted
<1>13. MemoryIsCurrent'
  <2> SUFFICES ASSUME NEW q \in Verifiers \ overlapped, found[q] \in Nodes
               PROVE  /\ pc'[q] \in {"ttl", "set"} => got[q].attempts < MaxAttempts
                      /\ pc'[q] \in {"expire", "block", "drop", "ttl", "set"} =>
                            \A n \in Nodes : memory'[n] # NoEntry /\ memory'[n].code = got[q].code
                                                => memory'[n].attempts = got[q].attempts
    BY <1>2, <1>5 DEF MemoryIsCurrent
  <2>1. CASE q = p
    <3>1. ASSUME NEW n \in Nodes, memory'[n] # NoEntry, memory'[n].code = got[p].code
          PROVE  memory'[n].attempts = got[p].attempts
      <4>1. memory[n] # NoEntry /\ memory[n].code = got[p].code
        BY <1>8, <3>1
      <4>2. n = found[p]
        BY <1>4, <2>1, <4>1 DEF OneHome
      <4> QED BY <1>2, <4>1, <4>2 DEF Count
    <3> QED BY <1>3, <1>4, <2>1, <3>1
  <2>2. CASE q # p
    <3>1. pc'[q] = pc[q]
      BY <1>3, <2>2
    <3>2. ASSUME pc[q] \in {"expire", "block", "drop", "ttl", "set"}, NEW n \in Nodes,
                 memory'[n] # NoEntry, memory'[n].code = got[q].code
          PROVE  memory'[n].attempts = got[q].attempts
      <4>1. got[q].code # got[p].code
        BY <1>4, <2>2, <3>2 DEF OverlapsAreKnown, Holds
      <4>2. memory'[n] = memory[n]
        BY <1>8, <3>2, <4>1
      <4> QED BY <3>2, <4>2 DEF MemoryIsCurrent
    <3> QED BY <3>1, <3>2 DEF MemoryIsCurrent
  <2> QED BY <2>1, <2>2
<1> QED BY <1>7, <1>12, <1>13

(* A call is told that its code was wrong: the entry it leaves, if any, is   *)
(* the one it counted itself in.                                           *)
Refuses(p) ==
    /\ pc[p] \in {"drop", "ttl", "set"}
    /\ pc'[p] \in {"invalid", "maxed"} /\ \A q \in Verifiers \ {p} : pc'[q] = pc[q]
    /\ faults' = 0 =>
          /\ faults = 0
          /\ \/ store' \in {NoEntry, got[p]}
             \/ store' = store /\ store.code # got[p].code
    /\ \A n \in Nodes : memory'[n] # NoEntry =>
          /\ memory'[n] = memory[n]
          /\ memory'[n].code = got[p].code /\ found[p] \in Nodes => pc[p] \in {"ttl", "set"}
    /\ UNCHANGED <<got, overlapped, found>>

LEMMA RefuseCount ==
    ASSUME TypeInv, UseInv, CountInv, NEW p \in Verifiers, Refuses(p) PROVE CountInv'
<1> USE OtpVerificationAssumption DEF TypeInv, UseInv, CountInv
<1> PICK code : code = got[p].code
  OBVIOUS
<1>1. ~Refused(p) /\ Refused(p)' /\ Counts(p) /\ Holds(p)
  BY DEF Refuses, Refused, Counts, Holds
<1>2. \A c : /\ Refusals(c)' = IF code = c /\ p \notin overlapped
                               THEN Refusals(c) + 1 ELSE Refusals(c)
             /\ RefusalsInMemory(c)' = IF code = c /\ p \notin overlapped /\ found[p] \in Nodes
                                       THEN RefusalsInMemory(c) + 1 ELSE RefusalsInMemory(c)
  BY <1>1, RefusalsGrow DEF Refuses
<1>3. got[p] # NoEntry /\ got[p].attempts \in Nat /\ MaxAttempts \in Nat
  <2>1. got[p] # NoEntry
    BY DEF Refuses, Control
  <2>2. got[p] \in Entries
    BY <2>1 DEF TypeOK
  <2> QED BY <2>1, <2>2
<1>4. \A c : Refusals(c) \in Nat /\ RefusalsInMemory(c) \in Nat
  BY RefusalsAreNat
<1>5. ASSUME NEW q \in Verifiers, Counts(q)'
      PROVE  Counts(q) /\ (got[q].code = code => p \in overlapped)
  <2>1. q # p /\ Counts(q) /\ Holds(q)
    BY <1>5 DEF Refuses, Counts, Holds
  <2> QED BY <1>1, <2>1 DEF OverlapsAreKnown
<1>6. faults' = 0 => Refusals(code)' <= got[p].attempts /\ got[p].attempts <= MaxAttempts
  BY <1>1, <1>2, <1>3, <1>4 DEF Refuses, RefusalsAreCounted
<1>7. RefusalsAreCounted'
  <2>1. ASSUME NEW c \in Issuers, faults' = 0 PROVE Refusals(c)' <= MaxAttempts
    <3>1. CASE c = code
      BY <1>2, <1>3, <1>4, <1>6, <2>1, <3>1
    <3>2. CASE c # code
      BY <1>2, <2>1, <3>2 DEF Refuses, RefusalsAreCounted
    <3> QED BY <3>1, <3>2
  <2>2. ASSUME faults' = 0, store' # NoEntry, NEW c, c = store'.code
        PROVE  Refusals(c)' <= store'.attempts
    <3>1. CASE store' = got[p]
      BY <1>6, <2>2, <3>1
    <3>2. CASE store' = store /\ store.code # got[p].code
      BY <1>2, <2>2, <3>2 DEF Refuses, RefusalsAreCounted
    <3> QED BY <2>2, <3>1, <3>2 DEF Refuses
  <2>3. ASSUME NEW q \in Verifiers, faults' = 0, Counts(q)'
        PROVE  Refusals(got[q].code)' < got[q].attempts /\ got[q].attempts <= MaxAttempts
    <3>1. Refusals(got[q].code)' = Refusals(got[q].code)
      BY <1>2, <1>5, <2>3 DEF Refuses
    <3> QED BY <1>5, <2>3, <3>1 DEF Refuses, RefusalsAreCounted
  <2>4. got' = got
    BY DEF Refuses
  <2> QED BY <2>1, <2>2, <2>3, <2>4 DEF RefusalsAreCounted
<1>8. found[p] \in Nodes => /\ RefusalsInMemory(code) < got[p].attempts
                            /\ RefusalsInMemory(code) < MaxAttempts
  BY <1>1 DEF MemoryRefusalsAreCounted
<1>9. MemoryRefusalsAreCounted'
  <2>1. ASSUME NEW c \in Issuers PROVE RefusalsInMemory(c)' <= MaxAttempts
    <3>1. CASE c = code /\ p \notin overlapped /\ found[p] \in Nodes
      BY <1>2, <1>3, <1>4, <1>8, <3>1
    <3>2. CASE ~(c = code /\ p \notin overlapped /\ found[p] \in Nodes)
      BY <1>2, <3>2 DEF MemoryRefusalsAreCounted
    <3> QED BY <3>1, <3>2
  <2>2. ASSUME NEW n \in Nodes, memory'[n] # NoEntry, NEW c, c = memory'[n].code
        PROVE  RefusalsInMemory(c)' <= memory'[n].attempts /\ RefusalsInMemory(c)' < MaxAttempts
    <3>1. memory'[n] = memory[n]
      BY <2>2 DEF Refuses
    <3>2. CASE c = code /\ p \notin overlapped /\ found[p] \in Nodes
      <4>1. pc[p] \in {"ttl", "set"}
        BY <2>2, <3>1, <3>2 DEF Refuses
      <4>2. memory[n].attempts = got[p].attempts /\ got[p].attempts < MaxAttempts
        BY <2>2, <3>1, <3>2, <4>1 DEF MemoryIsCurrent
      <4>3. RefusalsInMemory(c)' = RefusalsInMemory(c) + 1 /\ RefusalsInMemory(c) \in Nat
        BY <1>2, <1>4, <3>2
      <4> QED BY <1>3, <1>8, <3>1, <3>2, <4>2, <4>3
    <3>3. CASE ~(c = code /\ p \notin overlapped /\ found[p] \in Nodes)
      <4>1. RefusalsInMemory(c)' = RefusalsInMemory(c)
        BY <1>2, <3>3
      <4> QED BY <2>2, <3>1, <4>1 DEF MemoryRefusalsAreCounted
    <3> QED BY <3>2, <3>3
  <2>3. ASSUME NEW q \in Verifiers, Counts(q)', found[q] \in Nodes
        PROVE  /\ RefusalsInMemory(got[q].code)' < got[q].attempts
               /\ RefusalsInMemory(got[q].code)' < MaxAttempts
    <3>1. RefusalsInMemory(got[q].code)' = RefusalsInMemory(got[q].code)
      BY <1>2, <1>5, <2>3 DEF Refuses
    <3> QED BY <1>5, <2>3, <3>1 DEF MemoryRefusalsAreCounted
  <2>4. UNCHANGED <<got, found>>
    BY DEF Refuses
  <2> QED BY <2>1, <2>2, <2>3, <2>4 DEF MemoryRefusalsAreCounted
<1>10. MemoryIsCurrent'
  BY DEF MemoryIsCurrent, Refuses
<1> QED BY <1>7, <1>9, <1>10

LEMMA VerifyCount ==
    ASSUME TypeInv, UseInv, CountInv, NEW p \in Verifiers, Verify(p) PROVE CountInv'
<1> USE OtpVerificationAssumption DEF TypeInv
<1>1. ASSUME NEW label, Goto(p, label), label \notin {"invalid", "maxed", "save", "del", "ttl"},
             pc[p] \notin {"invalid", "maxed"},
             label \in {"expire", "block", "drop", "set"}
                => pc[p] \in {"expire", "block", "drop", "ttl", "set"},
             label = "set" => pc[p] = "ttl",
             store' # NoEntry => store' = store,
             \A n \in Nodes : memory'[n] # NoEntry => memory'[n] = memory[n],
             faults' = 0 => faults = 0, UNCHANGED <<got, overlapped, found>>
      PROVE  CountInv'
  <2>1. CountsNothing
    BY <1>1, MoveCount
  <2> QED BY <2>1, QuietCount
<1>2. faults \in Nat
  BY DEF TypeOK
<1>3. ASSUME NEW code \in Issuers \cup {Wrong}, VerifyStart(p, code) PROVE CountInv'
  BY <1>1, <1>3 DEF VerifyStart
<1>4. ASSUME NEW n \in Nodes, VerifyNothing(p, n) PROVE CountInv'
  <2>1. Goto(p, "none") /\ pc[p] = "get" /\ UNCHANGED <<store, memory, got, overlapped, found>>
    BY <1>4 DEF VerifyNothing
  <2>2. faults' = 0 => faults = 0
    BY <1>2, <1>4 DEF VerifyNothing
  <2> QED BY <1>1, <2>1, <2>2
<1>5. ASSUME NEW n \in Nodes, VerifyGet(p, n) PROVE CountInv'
  BY <1>5, VerifyGetCount
<1>6. CASE VerifySave(p)
  BY <1>6, VerifySaveCount
<1>7. CASE VerifyExpire(p) \/ VerifyBlock(p)
  BY <1>1, <1>7 DEF VerifyExpire, VerifyBlock
<1>8. CASE VerifyMark(p)
  BY <1>1, <1>8 DEF VerifyMark
<1>9. ASSUME Forget(p)
      PROVE  /\ store' # NoEntry => store' = store
             /\ \A n \in Nodes : memory'[n] # NoEntry => memory'[n] = memory[n]
             /\ faults' = 0 => faults = 0 /\ store' = NoEntry
  BY <1>2, <1>9 DEF Forget, TypeOK
<1>10. CASE VerifyDel(p)
  BY <1>1, <1>9, <1>10 DEF VerifyDel
<1>11. CASE VerifyDrop(p)
  <2>1. /\ pc[p] = "drop" /\ Forget(p) /\ UNCHANGED <<got, overlapped, found>>
        /\ pc'[p] = "maxed" /\ \A q \in Verifiers \ {p} : pc'[q] = pc[q]
    BY <1>11 DEF VerifyDrop, TypeOK
  <2>2. ASSUME NEW n \in Nodes, memory'[n] # NoEntry, found[p] \in Nodes
        PROVE  memory'[n].code # got[p].code
    <3>1. n # found[p] /\ memory'[n] = memory[n]
      BY <2>1, <2>2 DEF Forget, TypeOK
    <3> QED BY <2>1, <2>2, <3>1 DEF UseInv, OneHome, Control
  <2>3. Refuses(p)
    BY <1>9, <2>1, <2>2 DEF Refuses
  <2> QED BY <2>3, RefuseCount
<1>12. CASE VerifyTtl(p)
  <2>1. CASE Goto(p, "set") /\ Works
    BY <1>1, <1>12, <2>1 DEF VerifyTtl
  <2>2. CASE Goto(p, "invalid") /\ (Fails \/ (Works /\ store = NoEntry))
    <3>1. pc'[p] = "invalid" /\ \A q \in Verifiers \ {p} : pc'[q] = pc[q]
      BY <2>2 DEF TypeOK
    <3>2. Refuses(p)
      BY <1>2, <1>12, <2>2, <3>1 DEF Refuses, VerifyTtl
    <3> QED BY <3>2, RefuseCount
  <2> QED BY <1>12, <2>1, <2>2 DEF VerifyTtl
<1>13. CASE VerifySet(p)
  <2>1. pc'[p] = "invalid" /\ \A q \in Verifiers \ {p} : pc'[q] = pc[q]
    BY <1>13 DEF VerifySet, TypeOK
  <2>2. Refuses(p)
    BY <1>2, <1>13, <2>1 DEF Refuses, VerifySet
  <2> QED BY <2>2, RefuseCount
<1> QED BY <1>3, <1>4, <1>5, <1>6, <1>7, <1>8, <1>10, <1>11, <1>12, <1>13 DEF Verify

LEMMA CountNext == TypeInv /\ UseInv /\ CountInv /\ [Next]_vars => CountInv'
<1> SUFFICES ASSUME TypeInv, UseInv, CountInv, [Next]_vars PROVE CountInv'
  OBVIOUS
<1>1. ASSUME NEW p \in Issuers, Issue(p) PROVE CountInv'
  <2>1. CASE IssueStore(p)
    BY <2>1, IssueStoreCount
  <2>2. ASSUME NEW label \in {"rejected", "store", "issued"}, Goto(p, label),
               pc[p] \in {"idle", "cool"}, UNCHANGED <<store, memory, faults, got, overlapped, found>>
        PROVE  CountInv'
    <3>1. CountsNothing
      BY <2>2, MoveCount
    <3> QED BY <3>1, QuietCount
  <2>3. CASE SendRefused(p) \/ SendAdmitted(p) \/ IssueCooldown(p)
    BY <2>2, <2>3 DEF SendRefused, SendAdmitted, IssueCooldown
  <2>4. ASSUME NEW r \in Issuers,
               ResendRefused(p, r) \/ ResendExpired(p, r) \/ ResendAdmitted(p, r)
        PROVE  CountInv'
    BY <2>2, <2>4 DEF ResendRefused, ResendExpired, ResendAdmitted
  <2> QED BY <1>1, <2>1, <2>3, <2>4 DEF Issue
<1>2. ASSUME NEW p \in Verifiers, Verify(p) PROVE CountInv'
  BY <1>2, VerifyCount
<1>3. ASSUME NEW p \in Calls, Abort(p) PROVE CountInv'
  <2>1. CountsNothing
    BY <1>3, MoveCount DEF Abort
  <2> QED BY <2>1, QuietCount
<1>4. ASSUME UNCHANGED <<pc, got, overlapped, found, faults>>, store' # NoEntry => store' = store,
             \A n \in Nodes : memory'[n] # NoEntry => memory'[n] = memory[n]
      PROVE  CountInv'
  <2>1. CountsNothing
    BY <1>4 DEF CountsNothing, Refused, Counts
  <2> QED BY <2>1, QuietCount
<1>5. ASSUME NEW n \in Nodes, MemoryExpires(n) PROVE CountInv'
  <2>1. \A m \in Nodes : memory'[m] # NoEntry => memory'[m] = memory[m]
    BY <1>5 DEF MemoryExpires, TypeInv, TypeOK
  <2> QED BY <1>4, <1>5, <2>1 DEF MemoryExpires
<1>6. ASSUME NEW r \in Issuers, WorkerUpdate(r) \/ RowExpires(r) PROVE CountInv'
  BY <1>4, <1>6 DEF WorkerUpdate, RowExpires
<1>7. CASE EntryExpires \/ BlockExpires \/ CooldownExpires \/ UNCHANGED vars
  BY <1>4, <1>7 DEF EntryExpires, BlockExpires, CooldownExpires, vars
<1> QED BY <1>1, <1>2, <1>3, <1>5, <1>6, <1>7 DEF Next

-----------------------------------------------------------------------------
(* The theorems *)

(* Every variable has its type, however many verifications of the number     *)
(* are in progress (otp.service.ts:118-210).                               *)
THEOREM TypeCorrect == Spec => []TypeOK
<1>1. TypeInv => TypeOK
  BY DEF TypeInv
<1> QED BY <1>1, TypeHolds, PTL

LEMMA InvariantHolds == Spec => []IInv
<1>1. Init => IInv
  BY TypeInit, UseInit, CountInit DEF IInv
<1>2. IInv /\ [Next]_vars => IInv'
  BY TypeNext, UseNext, CountNext DEF IInv
<1> QED BY <1>1, <1>2, PTL DEF Spec

(* Of the verifications that had a code to themselves at most MaxAttempts    *)
(* are refused, whatever others overlap (otp.service.ts:118, 150-177).       *)
THEOREM RefusalsAreBounded == Spec => []FailuresAloneAreCounted
<1>1. IInv => FailuresAloneAreCounted
  BY DEF IInv, CountInv, RefusalsAreCounted, MemoryRefusalsAreCounted,
         Refusals, RefusalsInMemory, FailuresAloneAreCounted
<1> QED BY <1>1, InvariantHolds, PTL

(* What a step that verifies a code is to respect.                          *)
RevivesNone ==
    \A p, q \in Verifiers : pc[p] \in {"verified", "maxed"} /\ Revives(p, q) => p \in overlapped

LEMMA StepRevivesNone == IInv /\ [Next]_vars => RevivesNone
<1> SUFFICES ASSUME IInv, [Next]_vars, NEW p \in Verifiers, NEW q \in Verifiers,
                    pc[p] \in {"verified", "maxed"}, Revives(p, q)
             PROVE  p \in overlapped
  BY DEF RevivesNone
<1> USE OtpVerificationAssumption
<1>1. pc \in [Calls -> {"idle"} \cup Verifying \cup Issuing \cup Outcomes]
  BY DEF IInv, TypeInv, TypeOK
<1>2. pc'[q] # pc[q] /\ pc'[q] = "verified"
  BY DEF Revives
<1>3. ASSUME NEW t \in Issuers, Issue(t) PROVE FALSE
  BY <1>1, <1>2, <1>3 DEF Issue, SendRefused, SendAdmitted, ResendRefused, ResendExpired,
       ResendAdmitted, IssueStore, IssueCooldown
<1>4. ASSUME NEW t \in Verifiers, Verify(t), ~VerifyMark(t) PROVE FALSE
  <2>1. PICK label \in {"get", "none", "del", "save", "expire", "ttl", "block", "drop",
                        "maxed", "invalid", "set", "mark"} : Goto(t, label)
    BY <1>4 DEF Verify, VerifyStart, VerifyNothing, VerifyGet, Compare, VerifySave,
         VerifyExpire, VerifyBlock, VerifyDrop, VerifyTtl, VerifySet, VerifyDel
  <2> QED BY <1>1, <1>2, <2>1
<1>5. ASSUME NEW t \in Calls, Abort(t) PROVE FALSE
  BY <1>1, <1>2, <1>5 DEF Abort
<1>6. ASSUME UNCHANGED pc PROVE FALSE
  BY <1>2, <1>6
<1>7. PICK t \in Verifiers : VerifyMark(t)
  BY <1>3, <1>4, <1>5, <1>6 DEF Next, EntryExpires, MemoryExpires, WorkerUpdate, RowExpires,
       BlockExpires, CooldownExpires, vars
<1>8. t = q /\ pc[q] = "mark"
  BY <1>1, <1>2, <1>7 DEF VerifyMark
<1>9. Spends(p) /\ Holds(q) /\ p # q
  BY <1>8 DEF Spends, Holds
<1> QED BY <1>9 DEF IInv, UseInv, SpentIsGone, Gone, Revives

(* A code that a verification had to itself and used up does not verify      *)
(* again (otp.service.ts:177, 190-205).                                    *)
THEOREM UsedOnce == Spec => UsedUpForGood
<1>1. RevivesNone => \A p, q \in Verifiers : pc[p] = "verified" /\ Revives(p, q) => p \in overlapped
  BY DEF RevivesNone
<1> QED BY <1>1, StepRevivesNone, InvariantHolds, PTL DEF Spec, UsedUpForGood

(* Nor does one whose last failure a verification had to itself             *)
(* (otp.service.ts:150-170, 177).                                          *)
THEOREM InvalidatedIsFinal == Spec => InvalidatedForGood
<1>1. RevivesNone => \A p, q \in Verifiers : pc[p] = "maxed" /\ Revives(p, q) => p \in overlapped
  BY DEF RevivesNone
<1> QED BY <1>1, StepRevivesNone, InvariantHolds, PTL DEF Spec, InvalidatedForGood

=============================================================================
