--------------------------- MODULE RefreshTokens ---------------------------
(***************************************************************************)
(* RefreshTokenService and the login, refresh and logout handlers: the      *)
(* refresh_tokens table under concurrent calls of several API nodes.        *)
(*                                                                          *)
(* Rotation is a READ COMMITTED transaction that locks the row of the       *)
(* presented token; its INSERT and UPDATE become visible at the commit.     *)
(* Revocation is one UPDATE ... WHERE revoked_at IS NULL: it chooses its    *)
(* rows in the snapshot taken when it begins, waits for those that are      *)
(* locked, and then looks at their latest version.                         *)
(***************************************************************************)
EXTENDS FiniteSets, Naturals

CONSTANTS
    Tokens,     \* the tokens the service may generate
    Families,   \* sessions: one family_id per login
    Users,
    UserOf,     \* the user that opens a session
    Calls,      \* requests to /refresh and /logout, each made at most once
    Unknown,    \* a token the service never generated
    None        \* no call, no family, or no replacement

ASSUME RefreshTokensAssumption ==
    /\ UserOf \in [Families -> Users]
    /\ Unknown \notin Tokens
    /\ None \notin Tokens \cup Families \cup Calls

VARIABLES
    issued,       \* rows of refresh_tokens
    family,       \* family_id of every row
    revoked,      \* rows with a revoked_at
    replacedBy,   \* replaced_by_token_id of every row
    expired,      \* rows whose expires_at has passed
    activeUsers,  \* users with status "active"
    lock,         \* the rotation that holds the row FOR UPDATE
    req,          \* what a call asks for
    target,       \* rows a revocation found unrevoked in its snapshot
    pc            \* where a call is, or how it ended

rows == <<issued, family, revoked, replacedBy>>
vars == <<rows, expired, activeUsers, lock, req, target, pc>>

Requests ==
    [kind: {"rotate", "logout"}, token: Tokens \cup {Unknown}]
        \cup [kind: {"logoutAll"}, user: Users]

Running == {"select", "commit", "find", "snapshot", "update"}

Outcomes ==
    {"rotated", "invalid", "reuse", "expired", "inactive", "loggedOut", "aborted"}

Init ==
    /\ issued = {} /\ revoked = {} /\ expired = {}
    /\ family = [t \in Tokens |-> None]
    /\ replacedBy = [t \in Tokens |-> None]
    /\ activeUsers \in SUBSET Users
    /\ lock = [t \in Tokens |-> None]
    /\ req = [p \in Calls |-> [kind |-> "logout", token |-> Unknown]]
    /\ target = [p \in Calls |-> {}]
    /\ pc = [p \in Calls |-> "idle"]

-----------------------------------------------------------------------------

Active(f) == {t \in issued \ revoked : family[t] = f}

Goto(p, label) == pc' = [pc EXCEPT ![p] = label]

Release(p) == lock' = [t \in Tokens |-> IF lock[t] = p THEN None ELSE lock[t]]

(* The rows an updateMany of this request applies to.                      *)
InScope(r) ==
    {t \in issued \ revoked : IF r.kind = "logoutAll"
                              THEN UserOf[family[t]] = r.user
                              ELSE family[t] = family[r.token]}

(* createInitialToken, at login or registration: a new family.             *)
Login(f) ==
    /\ \A t \in issued : family[t] # f
    /\ \E n \in Tokens \ issued :
           /\ issued' = issued \cup {n}
           /\ family' = [family EXCEPT ![n] = f]
    /\ UNCHANGED <<revoked, replacedBy, expired, activeUsers, lock, req, target, pc>>

Expire(t) ==
    /\ t \in issued \ expired
    /\ expired' = expired \cup {t}
    /\ UNCHANGED <<rows, activeUsers, lock, req, target, pc>>

(* POST /v1/auth/refresh and /v1/auth/logout with a token that some client  *)
(* has been given, or with another; /v1/auth/logout with a JWT only.        *)
Start(p) ==
    /\ pc[p] = "idle"
    /\ \/ \E t \in issued \cup {Unknown} :
              \/ /\ req' = [req EXCEPT ![p] = [kind |-> "rotate", token |-> t]]
                 /\ Goto(p, "select")
              \/ /\ req' = [req EXCEPT ![p] = [kind |-> "logout", token |-> t]]
                 /\ Goto(p, "find")
       \/ \E u \in Users :
              /\ req' = [req EXCEPT ![p] = [kind |-> "logoutAll", user |-> u]]
              /\ Goto(p, "snapshot")
    /\ UNCHANGED <<rows, expired, activeUsers, lock, target>>

-----------------------------------------------------------------------------
(* rotateToken *)

(* SELECT ... FOR UPDATE returns no row: INVALID_REFRESH_TOKEN.             *)
RotateInvalid(p) ==
    /\ pc[p] = "select"
    /\ req[p].token \notin issued
    /\ Goto(p, "invalid")
    /\ UNCHANGED <<rows, expired, activeUsers, lock, req, target>>

(* SELECT ... FOR UPDATE waits for the rotation that holds the row.         *)
Selected(p) ==
    /\ pc[p] = "select"
    /\ req[p].token \in issued
    /\ lock[req[p].token] = None

(* Mutant: what the catch block goes by is not set: nothing is revoked.     *)
RotateReuseUnrevoked(p) ==
    /\ Selected(p)
    /\ req[p].token \in revoked
    /\ Goto(p, "reuse")
    /\ UNCHANGED <<rows, expired, activeUsers, lock, req, target>>

(* The row is revoked: the transaction rolls back, and the catch block goes *)
(* on to revoke the family.                                                *)
RotateReuse(p) ==
    /\ Selected(p)
    /\ req[p].token \in revoked
    /\ Goto(p, "snapshot")
    /\ UNCHANGED <<rows, expired, activeUsers, lock, req, target>>

RotateExpired(p) ==
    /\ Selected(p)
    /\ req[p].token \in expired \ revoked
    /\ Goto(p, "expired")
    /\ UNCHANGED <<rows, expired, activeUsers, lock, req, target>>

RotateInactive(p) ==
    /\ Selected(p)
    /\ req[p].token \notin expired \cup revoked
    /\ UserOf[family[req[p].token]] \notin activeUsers
    /\ Goto(p, "inactive")
    /\ UNCHANGED <<rows, expired, activeUsers, lock, req, target>>

(* Mutant: the row is read without FOR UPDATE.                             *)
RotateProceedUnlocked(p) ==
    /\ Selected(p)
    /\ req[p].token \notin expired \cup revoked
    /\ UserOf[family[req[p].token]] \in activeUsers
    /\ Goto(p, "commit")
    /\ UNCHANGED <<rows, expired, activeUsers, lock, req, target>>

(* Mutant: whether the row is revoked is not looked at.                    *)
RotateProceedRevoked(p) ==
    /\ Selected(p)
    /\ req[p].token \notin expired
    /\ UserOf[family[req[p].token]] \in activeUsers
    /\ lock' = [lock EXCEPT ![req[p].token] = p]
    /\ Goto(p, "commit")
    /\ UNCHANGED <<rows, expired, activeUsers, req, target>>

(* All checks passed; the row stays locked until the commit.               *)
RotateProceed(p) ==
    /\ Selected(p)
    /\ req[p].token \notin expired \cup revoked
    /\ UserOf[family[req[p].token]] \in activeUsers
    /\ lock' = [lock EXCEPT ![req[p].token] = p]
    /\ Goto(p, "commit")
    /\ UNCHANGED <<rows, expired, activeUsers, req, target>>

(* Mutant: the replacement has no family.                                  *)
RotateCommitNoFamily(p) ==
    /\ pc[p] = "commit"
    /\ \E n \in Tokens \ issued :
           /\ issued' = issued \cup {n}
           /\ replacedBy' = [replacedBy EXCEPT ![req[p].token] = n]
    /\ revoked' = revoked \cup {req[p].token}
    /\ Release(p)
    /\ Goto(p, "rotated")
    /\ UNCHANGED <<family, expired, activeUsers, req, target>>

(* Mutant: replaced_by_token_id is not set.                                *)
RotateCommitUnlinked(p) ==
    /\ pc[p] = "commit"
    /\ \E n \in Tokens \ issued :
           /\ issued' = issued \cup {n}
           /\ family' = [family EXCEPT ![n] = family[req[p].token]]
    /\ revoked' = revoked \cup {req[p].token}
    /\ Release(p)
    /\ Goto(p, "rotated")
    /\ UNCHANGED <<replacedBy, expired, activeUsers, req, target>>

(* create the replacement, update the presented token, commit.             *)
RotateCommit(p) ==
    /\ pc[p] = "commit"
    /\ \E n \in Tokens \ issued :
           /\ issued' = issued \cup {n}
           /\ family' = [family EXCEPT ![n] = family[req[p].token]]
           /\ replacedBy' = [replacedBy EXCEPT ![req[p].token] = n]
    /\ revoked' = revoked \cup {req[p].token}
    /\ Release(p)
    /\ Goto(p, "rotated")
    /\ UNCHANGED <<expired, activeUsers, req, target>>

-----------------------------------------------------------------------------
(* revokeFamilyByToken, revokeAllUserTokens, and the catch of rotateToken *)

(* findUnique; an unknown token is not an error for /logout.               *)
LogoutFind(p) ==
    /\ pc[p] = "find"
    /\ Goto(p, IF req[p].token \in issued THEN "snapshot" ELSE "loggedOut")
    /\ UNCHANGED <<rows, expired, activeUsers, lock, req, target>>

(* The updateMany begins: it sees the rows committed by now.               *)
RevokeSnapshot(p) ==
    /\ pc[p] = "snapshot"
    /\ target' = [target EXCEPT ![p] = InScope(req[p])]
    /\ Goto(p, "update")
    /\ UNCHANGED <<rows, expired, activeUsers, lock, req>>

(* Its rows are no longer locked; those revoked meanwhile are left alone.   *)
RevokeUpdate(p) ==
    /\ pc[p] = "update"
    /\ \A t \in target[p] : lock[t] = None
    /\ revoked' = revoked \cup target[p]
    /\ Goto(p, IF req[p].kind = "rotate" THEN "reuse" ELSE "loggedOut")
    /\ UNCHANGED <<issued, family, replacedBy, expired, activeUsers, lock, req, target>>

(* Mutant: the transaction stays open when the call fails.                 *)
AbortHoldingLock(p) ==
    /\ pc[p] \in Running
    /\ Goto(p, "aborted")
    /\ UNCHANGED <<rows, expired, activeUsers, lock, req, target>>

(* A timeout, or the loss of the connection or of the process: the open     *)
(* transaction or statement is rolled back, and what was to follow is lost. *)
Abort(p) ==
    /\ pc[p] \in Running
    /\ Release(p)
    /\ Goto(p, "aborted")
    /\ UNCHANGED <<rows, expired, activeUsers, req, target>>

-----------------------------------------------------------------------------

Step(p) ==
    \/ RotateInvalid(p)
    \/ RotateReuse(p)
    \/ RotateExpired(p)
    \/ RotateInactive(p)
    \/ RotateProceed(p)
    \/ RotateCommit(p)
    \/ LogoutFind(p)
    \/ RevokeSnapshot(p)
    \/ RevokeUpdate(p)

Next ==
    \/ \E f \in Families : Login(f)
    \/ \E t \in Tokens : Expire(t)
    \/ \E p \in Calls : Start(p) \/ Step(p) \/ Abort(p)

Spec == Init /\ [][Next]_vars

(* A request that was made goes on unless the database makes it wait;       *)
(* nobody is obliged to log in, to call, or to fail.                       *)
Fairness == \A p \in Calls : WF_vars(Step(p))

FairSpec == Spec /\ Fairness

-----------------------------------------------------------------------------

(* Every variable has its type, and only rows of the table are revoked,     *)
(* expired, locked or members of a family (refresh_tokens, schema.prisma).  *)
TypeOK ==
    /\ issued \subseteq Tokens
    /\ revoked \subseteq issued
    /\ expired \subseteq issued
    /\ family \in [Tokens -> Families \cup {None}]
    /\ \A t \in Tokens : family[t] # None <=> t \in issued
    /\ replacedBy \in [Tokens -> Tokens \cup {None}]
    /\ activeUsers \subseteq Users
    /\ lock \in [Tokens -> Calls \cup {None}]
    /\ req \in [Calls -> Requests]
    /\ target \in [Calls -> SUBSET issued]
    /\ pc \in [Calls -> {"idle"} \cup Running \cup Outcomes]

(* A session has at most one token that can be exchanged, however many      *)
(* rotations of it race (the row lock of refresh-token.service.ts:47-58,   *)
(* with the revocation of 103-110).                                        *)
OneActiveTokenPerFamily ==
    \A f \in Families : \A t, u \in Active(f) : t = u

(* "Linear audit lineage" (refresh-token.service.ts:102): a token is the    *)
(* replacement of at most one other, of its own family; and the only tokens *)
(* that replace none are the first of each family.                         *)
LinearLineage ==
    /\ \A t \in Tokens : replacedBy[t] # None =>
           /\ t \in revoked
           /\ replacedBy[t] \in issued
           /\ family[replacedBy[t]] = family[t]
    /\ \A t, u \in Tokens : replacedBy[t] = replacedBy[u] /\ t # u => replacedBy[t] = None
    /\ \A t, u \in issued :
           /\ family[t] = family[u]
           /\ \A v \in Tokens : replacedBy[v] # t /\ replacedBy[v] # u
           => t = u

(* Revocation is final: a session none of whose tokens is active never has  *)
(* an active token again, and no replacement is ever rewritten             *)
(* (refresh-token.service.ts:65-72, 102-110).                              *)
SessionEndIsFinal ==
    [][ /\ \A f \in Families :
               Active(f) = {} /\ (\E t \in issued : family[t] = f) => Active(f)' = {}
        /\ \A t \in Tokens : replacedBy[t] # None => replacedBy'[t] = replacedBy[t] ]_vars

(* A request that is answered as a reuse or a logout has revoked all it set  *)
(* out to revoke, also what a rotation held when its statement began; and    *)
(* its session goes on at most through a rotation that replaced one of those *)
(* tokens meanwhile.  The revocation after a reuse is a statement of its     *)
(* own, behind the rollback of the transaction that detected it             *)
(* (refresh-token.service.ts:121-132, 150-158).                             *)
RevocationIsComplete ==
    \A p \in Calls : pc[p] \in {"reuse", "loggedOut"} =>
        /\ target[p] \subseteq revoked
        /\ req[p].kind # "logoutAll" /\ req[p].token \in issued =>
               \/ Active(family[req[p].token]) = {}
               \/ \E t \in target[p] : /\ family[t] = family[req[p].token]
                                      /\ replacedBy[t] # None

(* What refresh-token.service.ts:137 says of a logout ("Revokes the entire  *)
(* refresh token family for a session upon logout") and :33 of a reuse       *)
(* ("invalidates the entire token family if reuse is attempted"): when the  *)
(* request is answered, the session has no active token.                   *)
RevocationEndsSession ==
    \A p \in Calls :
        /\ pc[p] \in {"loggedOut", "reuse"}
        /\ req[p].kind # "logoutAll" /\ req[p].token \in issued
        => Active(family[req[p].token]) = {}

(* Every request ends: no failure leaves a row locked, and a waiting        *)
(* revocation gets its turn (refresh-token.service.ts:45-134).             *)
CallsEnd == \A p \in Calls : pc[p] \in Running ~> pc[p] \in Outcomes

=============================================================================
