-------------------------- MODULE OtpVerification --------------------------
(***************************************************************************)
(* OTPService.storeOtp and verifyOtp with the parts of the send and resend *)
(* handlers that issue a code: what concurrent requests about one phone    *)
(* number of one application do to its Redis entry otp:store:<app>:<phone>. *)
(*                                                                         *)
(* The entry is read, changed in memory and written back by separate Redis *)
(* commands, with database statements in between; a call stands before its *)
(* next command.  The send or resend call that issues a code names that    *)
(* code, and the send call also names the otp_requests row it creates.     *)
(* While Redis is down its commands fail at once (plugins/redis.ts:14): the *)
(* entry is then kept in the memory of the node.  Block and cooldown have  *)
(* the same fallback; they may end at any time here, which is what a call  *)
(* on another node sees of them.                                           *)
(* otp_verifications rows are left out, nothing reads them.                *)
(***************************************************************************)
EXTENDS Naturals, FiniteSets

CONSTANTS
    Issuers,        \* requests to /send and /resend, each made once
    Verifiers,      \* requests to /verify, each made once
    Wrong,          \* a submitted code that was never issued
    NoEntry,        \* the Redis key does not exist
    Nodes,          \* the processes of the API
    Redis,          \* where an entry was found that is not of a node
    MaxAttempts,    \* OTP_MAX_VERIFY_ATTEMPTS
    MaxFaults       \* bound: Redis commands that fail

Calls == Issuers \cup Verifiers

Entries == [code: Issuers, request: Issuers, attempts: Nat]

ASSUME OtpVerificationAssumption ==
    /\ MaxAttempts \in Nat \ {0}
    /\ Issuers \cap Verifiers = {}
    /\ IsFiniteSet(Verifiers)
    /\ NoEntry \notin Entries
    /\ Wrong \notin Issuers
    /\ Redis \notin Nodes
    /\ MaxFaults \in Nat

VARIABLES
    store,       \* the Redis entry
    memory,      \* inMemoryOtpStore of each node
    faults,      \* Redis commands that failed
    status,      \* otp_requests.status
    attempts,    \* otp_requests.attempts
    overdue,     \* rows whose expires_at has passed
    blocked,     \* the phone number is blocked
    cooldown,    \* the phone number is in its cooldown
    req,         \* what a call asks for
    got,         \* storedData, as a verification read it and counted itself
    found,       \* where it read it
    overlapped,  \* history: verifications that had a code while another had it
    pc           \* where a call is, or how it ended

env == <<overdue, blocked, cooldown>>
local == <<memory, faults, found>>
vars == <<store, local, status, attempts, env, req, got, overlapped, pc>>

Asked ==
    [kind: {"send"}] \cup [kind: {"resend"}, request: Issuers]
        \cup [kind: {"verify"}, code: Issuers \cup {Wrong}]

Verifying == {"get", "save", "expire", "block", "drop", "ttl", "set", "del", "mark"}

Issuing == {"store", "cool"}

Outcomes == {"rejected", "issued", "none", "invalid", "maxed", "verified", "aborted"}

Init ==
    /\ store = NoEntry
    /\ memory = [n \in Nodes |-> NoEntry]
    /\ faults = 0
    /\ found = [p \in Verifiers |-> Redis]
    /\ status = [r \in Issuers |-> "none"]
    /\ attempts = [r \in Issuers |-> 0]
    /\ overdue = {} /\ blocked = FALSE /\ cooldown = FALSE
    /\ req = [p \in Calls |-> [kind |-> "send"]]
    /\ got = [p \in Verifiers |-> NoEntry]
    /\ overlapped = {}
    /\ pc = [p \in Calls |-> "idle"]

(* A Redis command is executed, or refused.                                 *)
Works == UNCHANGED faults
Fails == faults < MaxFaults /\ faults' = faults + 1

Goto(p, label) == pc' = [pc EXCEPT ![p] = label]

Ask(p, r) == pc[p] = "idle" /\ req' = [req EXCEPT ![p] = r]

-----------------------------------------------------------------------------
(* POST /send and POST /resend.  Rate limits, idempotency, the debit and    *)
(* the queue are elsewhere; a call that one of them ends is an Abort.       *)

SendRefused(p) ==
    /\ Ask(p, [kind |-> "send"])
    /\ blocked \/ cooldown
    /\ Goto(p, "rejected")
    /\ UNCHANGED <<local, store, status, attempts, env, got, overlapped>>

SendAdmitted(p) ==
    /\ Ask(p, [kind |-> "send"])
    /\ ~blocked /\ ~cooldown
    /\ status' = [status EXCEPT ![p] = "created"]
    /\ Goto(p, "store")
    /\ UNCHANGED <<local, store, attempts, env, got, overlapped>>

(* ALREADY_VERIFIED or COOLDOWN_ACTIVE.  A resend does not look at the block. *)
ResendRefused(p, r) ==
    /\ Ask(p, [kind |-> "resend", request |-> r])
    /\ status[r] # "none"
    /\ status[r] = "verified" \/ (r \notin overdue /\ cooldown)
    /\ Goto(p, "rejected")
    /\ UNCHANGED <<local, store, status, attempts, env, got, overlapped>>

ResendExpired(p, r) ==
    /\ Ask(p, [kind |-> "resend", request |-> r])
    /\ status[r] \notin {"none", "verified"}
    /\ r \in overdue
    /\ status' = [status EXCEPT ![r] = "expired"]
    /\ Goto(p, "rejected")
    /\ UNCHANGED <<local, store, attempts, env, got, overlapped>>

ResendAdmitted(p, r) ==
    /\ Ask(p, [kind |-> "resend", request |-> r])
    /\ status[r] \notin {"none", "verified"}
    /\ r \notin overdue
    /\ ~cooldown
    /\ Goto(p, "store")
    /\ UNCHANGED <<local, store, status, attempts, env, got, overlapped>>

(* storeOtp: SET replaces whatever the key held.  A resend writes the row   *)
(* before, and moves expires_at if less than a minute was left.            *)
IssueStore(p) ==
    LET r == IF req[p].kind = "send" THEN p ELSE req[p].request
        entry == [code |-> p, request |-> r, attempts |-> 0]
    IN  /\ pc[p] = "store"
        /\ \/ Works /\ store' = entry /\ UNCHANGED memory
           \/ Fails /\ (\E n \in Nodes : memory' = [memory EXCEPT ![n] = entry]) /\ UNCHANGED store
        /\ overdue' \in {overdue} \cup {overdue \ {q} : q \in {r} \ {p}}
        /\ Goto(p, "cool")
        /\ UNCHANGED <<found, status, attempts, blocked, cooldown, req, got, overlapped>>

(* setPhoneCooldown, and the answer.                                       *)
IssueCooldown(p) ==
    /\ pc[p] = "cool"
    /\ cooldown' = TRUE
    /\ Goto(p, "issued")
    /\ UNCHANGED <<local, store, status, attempts, overdue, blocked, req, got, overlapped>>

-----------------------------------------------------------------------------
(* verifyOtp *)

VerifyStart(p, code) ==
    /\ Ask(p, [kind |-> "verify", code |-> code])
    /\ code # Wrong => pc[code] \in {"cool", "issued"}
    /\ Goto(p, "get")
    /\ UNCHANGED <<local, store, status, attempts, env, got, overlapped>>

(* Redis has no entry, or is down, and node n has none either: OTP_EXPIRED.  *)
VerifyNothing(p, n) ==
    /\ pc[p] = "get"
    /\ (store = NoEntry /\ Works) \/ Fails
    /\ memory[n] = NoEntry
    /\ Goto(p, "none")
    /\ UNCHANGED <<store, memory, found, status, attempts, env, req, got, overlapped>>

(* A verification has read an entry and is not done with it.                 *)
Holds(p) == pc[p] \in Verifying \ {"get"}

Holders(code) == {q \in Verifiers : Holds(q) /\ got[q].code = code}

(* p reads this code while others have it.  No action looks at the history.  *)
Meet(p, code) ==
    overlapped' = overlapped \cup Holders(code) \cup {q \in {p} : Holders(code) # {}}

(* The attempt is counted in memory, the codes are compared.                *)
Compare(p, entry, place) ==
    /\ Meet(p, entry.code)
    /\ got' = [got EXCEPT ![p] = [entry EXCEPT !.attempts = @ + 1]]
    /\ found' = [found EXCEPT ![p] = place]
    /\ Goto(p, IF req[p].code = entry.code THEN "del" ELSE "save")

(* redis.get, then the memory of node n.                                   *)
VerifyGet(p, n) ==
    /\ pc[p] = "get"
    /\ \/ Works /\ store # NoEntry /\ Compare(p, store, Redis)
       \/ store = NoEntry /\ Works /\ memory[n] # NoEntry /\ Compare(p, memory[n], n)
       \/ Fails /\ memory[n] # NoEntry /\ Compare(p, memory[n], n)
    /\ UNCHANGED <<store, memory, status, attempts, env, req>>

(* storedData of a node is the object in its map: it counts along there, and *)
(* for all that have it and may still write it back.                        *)
Count(p) ==
    /\ memory' = [n \in Nodes |->
          IF n = found[p] /\ memory[n] # NoEntry /\ memory[n].code = got[p].code
          THEN got[p] ELSE memory[n]]
    /\ got' = [q \in Verifiers |->
          IF /\ found[p] # Redis /\ found[q] = found[p]
             /\ pc[q] \in {"ttl", "set"} /\ got[q].code = got[p].code
          THEN got[p] ELSE got[q]]

(* redis.del, whose failure is ignored, and the memory of the node.          *)
Forget(p) ==
    /\ \/ Works /\ store' = NoEntry
       \/ Fails /\ UNCHANGED store
    /\ \E n \in Nodes :
          /\ found[p] \in {n, Redis}
          /\ memory' = [memory EXCEPT ![n] = NoEntry]

(* Mutant: the counter may reach the maximum before the code is dropped.    *)
VerifySaveOneMore(p) ==
    /\ pc[p] = "save"
    /\ attempts' = [attempts EXCEPT ![got[p].request] = got[p].attempts]
    /\ Count(p)
    /\ Goto(p, IF got[p].attempts > MaxAttempts THEN "expire" ELSE "ttl")
    /\ UNCHANGED <<store, faults, found, status, env, req, overlapped>>

(* A wrong code: otp_requests.attempts, then one of two ways to end.        *)
VerifySave(p) ==
    /\ pc[p] = "save"
    /\ attempts' = [attempts EXCEPT ![got[p].request] = got[p].attempts]
    /\ Count(p)
    /\ Goto(p, IF got[p].attempts >= MaxAttempts THEN "expire" ELSE "ttl")
    /\ UNCHANGED <<store, faults, found, status, env, req, overlapped>>

VerifyExpire(p) ==
    /\ pc[p] = "expire"
    /\ status' = [status EXCEPT ![got[p].request] = "expired"]
    /\ Goto(p, "block")
    /\ UNCHANGED <<local, store, attempts, env, req, got, overlapped>>

VerifyBlock(p) ==
    /\ pc[p] = "block"
    /\ blocked' = TRUE
    /\ Goto(p, "drop")
    /\ UNCHANGED <<local, store, status, attempts, overdue, cooldown, req, got, overlapped>>

(* Mutant: the exhausted code is left in Redis.                            *)
VerifyDropNothing(p) ==
    /\ pc[p] = "drop"
    /\ Goto(p, "maxed")
    /\ UNCHANGED <<local, store, status, attempts, env, req, got, overlapped>>

(* redis.del, MAX_ATTEMPTS_EXCEEDED.                                       *)
VerifyDrop(p) ==
    /\ pc[p] = "drop"
    /\ Forget(p)
    /\ Goto(p, "maxed")
    /\ UNCHANGED <<found, status, attempts, env, req, got, overlapped>>

(* redis.ttl: an entry that is gone by now is not written back.            *)
VerifyTtl(p) ==
    /\ pc[p] = "ttl"
    /\ \/ Works /\ Goto(p, IF store = NoEntry THEN "invalid" ELSE "set")
       \/ Fails /\ Goto(p, "invalid")
    /\ UNCHANGED <<store, memory, found, status, attempts, env, req, got, overlapped>>

(* Mutant: the counted attempt is not written back.                        *)
VerifySetNothing(p) ==
    /\ pc[p] = "set"
    /\ Goto(p, "invalid")
    /\ UNCHANGED <<local, store, status, attempts, env, req, got, overlapped>>

(* redis.set of the entry as it was read, whatever the key holds by now.     *)
VerifySet(p) ==
    /\ pc[p] = "set"
    /\ \/ Works /\ store' = got[p]
       \/ Fails /\ UNCHANGED store
    /\ Goto(p, "invalid")
    /\ UNCHANGED <<memory, found, status, attempts, env, req, got, overlapped>>

(* Mutant: the used code is left in Redis.                                 *)
VerifyDelNothing(p) ==
    /\ pc[p] = "del"
    /\ Goto(p, "mark")
    /\ UNCHANGED <<local, store, status, attempts, env, req, got, overlapped>>

(* The right code: redis.del first ...                                     *)
VerifyDel(p) ==
    /\ pc[p] = "del"
    /\ Forget(p)
    /\ Goto(p, "mark")
    /\ UNCHANGED <<found, status, attempts, env, req, got, overlapped>>

(* ... then the row.                                                       *)
VerifyMark(p) ==
    /\ pc[p] = "mark"
    /\ status' = [status EXCEPT ![got[p].request] = "verified"]
    /\ attempts' = [attempts EXCEPT ![got[p].request] = got[p].attempts]
    /\ Goto(p, "verified")
    /\ UNCHANGED <<local, store, env, req, got, overlapped>>

-----------------------------------------------------------------------------

(* The process is lost, or a statement or command that is not caught fails. *)
Abort(p) ==
    /\ pc[p] \in Verifying \cup Issuing
    /\ Goto(p, "aborted")
    /\ UNCHANGED <<local, store, status, attempts, env, req, got, overlapped>>

(* The delivery worker writes "sent" or "failed" without looking at the     *)
(* status.  Nothing here tells these from "created".                       *)
WorkerUpdate(r) ==
    /\ status[r] # "none"
    /\ status' = [status EXCEPT ![r] = "created"]
    /\ UNCHANGED <<local, store, attempts, env, req, got, overlapped, pc>>

(* Redis and the clock: keys and rows expire.                              *)
EntryExpires ==
    /\ store # NoEntry
    /\ store' = NoEntry
    /\ UNCHANGED <<local, status, attempts, env, req, got, overlapped, pc>>

(* expires_at of an entry in memory passes, or the process ends.            *)
MemoryExpires(n) ==
    /\ memory[n] # NoEntry
    /\ memory' = [memory EXCEPT ![n] = NoEntry]
    /\ UNCHANGED <<store, faults, found, status, attempts, env, req, got, overlapped, pc>>

RowExpires(r) ==
    /\ status[r] # "none" /\ r \notin overdue
    /\ overdue' = overdue \cup {r}
    /\ UNCHANGED <<local, store, status, attempts, blocked, cooldown, req, got, overlapped, pc>>

BlockExpires ==
    /\ blocked /\ blocked' = FALSE
    /\ UNCHANGED <<local, store, status, attempts, overdue, cooldown, req, got, overlapped, pc>>

CooldownExpires ==
    /\ cooldown /\ cooldown' = FALSE
    /\ UNCHANGED <<local, store, status, attempts, overdue, blocked, req, got, overlapped, pc>>

Issue(p) ==
    \/ SendRefused(p)
    \/ SendAdmitted(p)
    \/ \E r \in Issuers : ResendRefused(p, r) \/ ResendExpired(p, r) \/ ResendAdmitted(p, r)
    \/ IssueStore(p)
    \/ IssueCooldown(p)

Verify(p) ==
    \/ \E code \in Issuers \cup {Wrong} : VerifyStart(p, code)
    \/ \E n \in Nodes : VerifyNothing(p, n) \/ VerifyGet(p, n)
    \/ VerifySave(p)
    \/ VerifyExpire(p)
    \/ VerifyBlock(p)
    \/ VerifyDrop(p)
    \/ VerifyTtl(p)
    \/ VerifySet(p)
    \/ VerifyDel(p)
    \/ VerifyMark(p)

Next ==
    \/ \E p \in Issuers : Issue(p)
    \/ \E p \in Verifiers : Verify(p)
    \/ \E p \in Calls : Abort(p)
    \/ EntryExpires
    \/ \E n \in Nodes : MemoryExpires(n)
    \/ \E r \in Issuers : WorkerUpdate(r) \/ RowExpires(r)
    \/ BlockExpires
    \/ CooldownExpires

Spec == Init /\ [][Next]_vars

-----------------------------------------------------------------------------

(* Every variable has its type; in particular the counter kept in Redis     *)
(* never reaches the maximum, at which the entry goes away                  *)
(* (otp.service.ts:150-177), as long as Redis answers.                      *)
TypeOK ==
    /\ store \in {NoEntry} \cup Entries
    /\ faults = 0 /\ store # NoEntry => store.attempts < MaxAttempts
    /\ memory \in [Nodes -> {NoEntry} \cup Entries]
    /\ faults \in 0..MaxFaults
    /\ found \in [Verifiers -> {Redis} \cup Nodes]
    /\ status \in [Issuers -> {"none", "created", "verified", "expired"}]
    /\ attempts \in [Issuers -> Nat]
    /\ overdue \subseteq Issuers
    /\ blocked \in BOOLEAN /\ cooldown \in BOOLEAN
    /\ req \in [Calls -> Asked]
    /\ got \in [Verifiers -> {NoEntry} \cup Entries]
    /\ overlapped \subseteq Verifiers
    /\ pc \in [Calls -> {"idle"} \cup Verifying \cup Issuing \cup Outcomes]

(* The calls that were told that a submitted code was wrong.               *)
Failures == {p \in Verifiers : pc[p] \in {"invalid", "maxed"}}

Failed(c) == {p \in Failures : got[p].code = c}

InMemory == {p \in Verifiers : found[p] \in Nodes}

(* "3 failed codes ... Code is permanently invalidated"                     *)
(* (API_DOCUMENTATION.md:69): a code is refused at most that often, whatever *)
(* codes are issued, expire or lost in between (otp.service.ts:118,         *)
(* 150-177), and where it was kept in memory, whatever fails of Redis.      *)
(* Overlapping verifications break it.                                      *)
AtMostMaxFailuresPerCode ==
    \A c \in Issuers :
        /\ faults = 0 => Cardinality(Failed(c)) <= MaxAttempts
        /\ Cardinality(Failed(c) \cap InMemory) <= MaxAttempts

(* What the code does keep of it: the verifications that had the code to     *)
(* themselves are all counted, and no stale counter that an overlapping one  *)
(* writes back (otp.service.ts:177) takes any of them away again.           *)
FailuresAloneAreCounted ==
    \A c \in Issuers :
        /\ faults = 0 => Cardinality(Failed(c) \ overlapped) <= MaxAttempts
        /\ Cardinality((Failed(c) \cap InMemory) \ overlapped) <= MaxAttempts

(* p and q found their entries in Redis, without faults, or both in memory.  *)
SamePlace(p, q) == faults = 0 \/ {p, q} \subseteq InMemory

Revives(p, q) ==
    /\ pc[q] # "verified" /\ pc'[q] = "verified"
    /\ SamePlace(p, q) /\ got[q].code = got[p].code

(* A code that a verification had to itself and used up never verifies      *)
(* again, however many verifications overlap afterwards: it is gone before   *)
(* the answer (otp.service.ts:190-205), and no stale entry is left for      *)
(* anyone to write back (:177).                                            *)
UsedUpForGood ==
    [][\A p, q \in Verifiers : pc[p] = "verified" /\ Revives(p, q) => p \in overlapped]_vars

(* "Permanently invalidated" (API_DOCUMENTATION.md:69): the same of a code   *)
(* whose verification was told MAX_ATTEMPTS_EXCEEDED (otp.service.ts:150-170). *)
InvalidatedForGood ==
    [][\A p, q \in Verifiers : pc[p] = "maxed" /\ Revives(p, q) => p \in overlapped]_vars

=============================================================================
