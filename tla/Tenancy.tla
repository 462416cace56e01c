------------------------------ MODULE Tenancy ------------------------------
(***************************************************************************)
(* Accounts (auth.routes.ts, /register), applications                       *)
(* (applications.routes.ts), API keys (api-keys.routes.ts) and the requests  *)
(* that are authenticated by a key (plugins/auth.ts) while the key is        *)
(* revoked or its application deleted.                                      *)
(*                                                                          *)
(* A call stands before its next statement; a statement is atomic, with its  *)
(* unique indexes and foreign keys (prisma/schema.prisma).  Every row is     *)
(* named by the call that creates it: a customer, with its user, wallet and  *)
(* default application, by its registration.  Nothing in the code changes    *)
(* the status of a customer or a user.                                      *)
(***************************************************************************)
EXTENDS Naturals

CONSTANTS
    Registrations,  \* calls of POST /v1/auth/register
    AppCalls,       \* calls of POST /v1/applications
    Deletions,      \* calls of DELETE /v1/applications/:app_id
    KeyCalls,       \* calls of POST /v1/api-keys
    Revocations,    \* calls of DELETE /v1/api-keys/:key_id
    Sends,          \* calls of POST /v1/otp/send
    Emails,         \* addresses that registrations give
    None            \* no argument

Apps == Registrations \cup AppCalls
Calls == Apps \cup Deletions \cup KeyCalls \cup Revocations \cup Sends

ASSUME TenancyAssumption ==
    /\ Registrations \cap (AppCalls \cup Deletions \cup KeyCalls \cup Revocations \cup Sends) = {}
    /\ AppCalls \cap (Deletions \cup KeyCalls \cup Revocations \cup Sends) = {}
    /\ Deletions \cap (KeyCalls \cup Revocations \cup Sends) = {}
    /\ KeyCalls \cap (Revocations \cup Sends) = {}
    /\ Revocations \cap Sends = {}
    /\ None \notin Emails \cup Calls

VARIABLES
    pc,         \* where a call is, or its outcome
    arg,        \* what it is about: an address, an application or a key
    customers,  \* committed customers, with user, link and wallet
    apps,       \* applications
    keys,       \* the status of a row of api_keys, "none" without one
    requests,   \* sends with a row of otp_requests
    debited     \* sends whose debit was committed

vars == <<pc, arg, customers, apps, keys, requests, debited>>

Waiting == {"customer", "commit", "delete", "revoke", "create", "debit"}
Outcomes == {"done", "refused", "failed"}

Init ==
    /\ pc = [c \in Calls |-> "ready"]
    /\ arg = [c \in Calls |-> None]
    /\ customers = {}
    /\ apps = {}
    /\ keys = [k \in KeyCalls |-> "none"]
    /\ requests = {}
    /\ debited = {}

(* c begins with argument a, or goes on.                                   *)
Begin(c, a, label) ==
    /\ pc[c] = "ready"
    /\ arg' = [arg EXCEPT ![c] = a]
    /\ pc' = [pc EXCEPT ![c] = label]

Goto(c, label) ==
    /\ pc' = [pc EXCEPT ![c] = label]
    /\ UNCHANGED arg

-----------------------------------------------------------------------------
(* POST /v1/auth/register *)

(* users.findUnique; the hash of the password is computed afterwards.       *)
Register(p) ==
    /\ \E e \in Emails :
          Begin(p, e, IF \E q \in customers : arg[q] = e THEN "refused" ELSE "customer")
    /\ UNCHANGED <<customers, apps, keys, requests, debited>>

(* Mutant: customers.email is not unique.                                  *)
InsertCustomerAny(p) ==
    /\ pc[p] = "customer"
    /\ Goto(p, "commit")
    /\ UNCHANGED <<customers, apps, keys, requests, debited>>

(* The first insert of the transaction.  It waits for another one of the      *)
(* same address whose transaction is open.                                  *)
InsertCustomer(p) ==
    /\ pc[p] = "customer"
    /\ \A q \in Registrations : arg[q] = arg[p] => pc[q] # "commit"
    /\ Goto(p, IF \E q \in customers : arg[q] = arg[p] THEN "failed" ELSE "commit")
    /\ UNCHANGED <<customers, apps, keys, requests, debited>>

(* The other inserts, which only this transaction sees, and the commit.     *)
CommitRegistration(p) ==
    /\ pc[p] = "commit"
    /\ customers' = customers \cup {p}
    /\ apps' = apps \cup {p}
    /\ Goto(p, "done")
    /\ UNCHANGED <<keys, requests, debited>>

-----------------------------------------------------------------------------
(* Applications and keys, with the JWT of a user *)

CreateApp(c) ==
    /\ customers # {}
    /\ Begin(c, None, "done")
    /\ apps' = apps \cup {c}
    /\ UNCHANGED <<customers, keys, requests, debited>>

FindApp(d) ==
    /\ \E a \in Apps : Begin(d, a, IF a \in apps THEN "delete" ELSE "refused")
    /\ UNCHANGED <<customers, apps, keys, requests, debited>>

(* The application of a request, by the key that it was authenticated with.  *)
AppOf(s) == arg[arg[s]]

(* Mutant: requests are deleted with the application, like its keys, as in    *)
(* supabase/migrations/20260905000000_init_schema.sql:175.                  *)
DeleteAppCascade(d) ==
    /\ pc[d] = "delete"
    /\ IF arg[d] \in apps
       THEN /\ apps' = apps \ {arg[d]}
            /\ keys' = [k \in KeyCalls |-> IF arg[k] = arg[d] THEN "none" ELSE keys[k]]
            /\ requests' = {s \in requests : AppOf(s) # arg[d]}
            /\ Goto(d, "done")
       ELSE Goto(d, "failed") /\ UNCHANGED <<apps, keys, requests>>
    /\ UNCHANGED <<customers, debited>>

(* The keys go with their application, but a request keeps it: onDelete is   *)
(* Cascade in api_keys and NoAction in otp_requests.                        *)
DeleteApp(d) ==
    /\ pc[d] = "delete"
    /\ IF arg[d] \in apps /\ \A s \in requests : AppOf(s) # arg[d]
       THEN /\ apps' = apps \ {arg[d]}
            /\ keys' = [k \in KeyCalls |-> IF arg[k] = arg[d] THEN "none" ELSE keys[k]]
            /\ Goto(d, "done")
       ELSE Goto(d, "failed") /\ UNCHANGED <<apps, keys>>
    /\ UNCHANGED <<customers, requests, debited>>

(* The application is any the caller knows; the foreign key wants it there.  *)
CreateKey(k) ==
    /\ customers # {}
    /\ \E a \in Apps :
          /\ Begin(k, a, IF a \in apps THEN "done" ELSE "failed")
          /\ keys' = [keys EXCEPT ![k] = IF a \in apps THEN "active" ELSE "none"]
    /\ UNCHANGED <<customers, apps, requests, debited>>

FindKey(r) ==
    /\ \E k \in KeyCalls : Begin(r, k, IF keys[k] # "none" THEN "revoke" ELSE "refused")
    /\ UNCHANGED <<customers, apps, keys, requests, debited>>

Revoke(r) ==
    /\ pc[r] = "revoke"
    /\ IF keys[arg[r]] # "none"
       THEN keys' = [keys EXCEPT ![arg[r]] = "revoked"] /\ Goto(r, "done")
       ELSE Goto(r, "failed") /\ UNCHANGED keys
    /\ UNCHANGED <<customers, apps, requests, debited>>

-----------------------------------------------------------------------------
(* A send, with a key *)

(* Mutant: a request without a key is let through.                         *)
AuthenticateNobody(s) ==
    /\ Begin(s, None, "create")
    /\ UNCHANGED <<customers, apps, keys, requests, debited>>

(* authenticateApiKey: the key, its application and its customer are read    *)
(* once, and used until the request is answered.                            *)
Authenticate(s) ==
    \E k \in KeyCalls :
        /\ Begin(s, k, IF keys[k] = "active" THEN "create" ELSE "refused")
        /\ UNCHANGED <<customers, apps, keys, requests, debited>>

(* otp_requests.create, with foreign keys to the application and the key,    *)
(* which may be gone since; a revoked one will do.                          *)
CreateRequest(s) ==
    /\ pc[s] = "create"
    /\ IF AppOf(s) \in apps /\ keys[arg[s]] # "none"
       THEN requests' = requests \cup {s} /\ Goto(s, "debit")
       ELSE Goto(s, "failed") /\ UNCHANGED requests
    /\ UNCHANGED <<customers, apps, keys, debited>>

Debit(s) ==
    /\ pc[s] = "debit"
    /\ debited' = debited \cup {s}
    /\ Goto(s, "done")
    /\ UNCHANGED <<customers, apps, keys, requests>>

(* An exception, or the end of the process; an open transaction is rolled    *)
(* back.                                                                    *)
Abort(c) ==
    /\ pc[c] \in Waiting
    /\ Goto(c, "failed")
    /\ UNCHANGED <<customers, apps, keys, requests, debited>>

Next ==
    \/ \E p \in Registrations : Register(p) \/ InsertCustomer(p) \/ CommitRegistration(p)
    \/ \E c \in AppCalls : CreateApp(c)
    \/ \E d \in Deletions : FindApp(d) \/ DeleteApp(d)
    \/ \E k \in KeyCalls : CreateKey(k)
    \/ \E r \in Revocations : FindKey(r) \/ Revoke(r)
    \/ \E s \in Sends : Authenticate(s) \/ CreateRequest(s) \/ Debit(s)
    \/ \E c \in Calls : Abort(c)

Spec == Init /\ [][Next]_vars

-----------------------------------------------------------------------------

(* Every variable has its type, and the argument of a call its kind.        *)
TypeOK ==
    /\ pc \in [Calls -> {"ready"} \cup Waiting \cup Outcomes]
    /\ arg \in [Calls -> Emails \cup Apps \cup KeyCalls \cup {None}]
    /\ \A s \in Sends : pc[s] # "ready" => arg[s] \in KeyCalls
    /\ customers \subseteq Registrations
    /\ apps \subseteq Apps
    /\ keys \in [KeyCalls -> {"none", "active", "revoked"}]
    /\ requests \subseteq Sends
    /\ debited \subseteq Sends

(* Registrations with one address that overlap both pass the check, and one  *)
(* account comes of them (auth.routes.ts:56-121).                           *)
OneAccountPerEmail ==
    \A p, q \in customers : arg[p] = arg[q] => p = q

(* Who was debited has a request, of a key and an application that exist,    *)
(* whatever is deleted while the request is in progress                     *)
(* (otp.routes.ts:225-247, applications.routes.ts:151).                      *)
DebitsHaveRequests ==
    \A s \in debited : s \in requests /\ AppOf(s) \in apps /\ keys[arg[s]] # "none"

=============================================================================
