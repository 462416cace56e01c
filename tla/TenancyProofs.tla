--------------------------- MODULE TenancyProofs ---------------------------
(* Theorems about Tenancy.                                                  *)
EXTENDS Tenancy, TLAPS

(* The foreign key of a key.                                               *)
KeysHaveApplications ==
    \A k \in KeyCalls : keys[k] # "none" => arg[k] \in apps

(* A call that has not begun has created nothing.                           *)
ReadyIsNew ==
    /\ \A p \in Registrations : pc[p] = "ready" => p \notin customers
    /\ \A k \in KeyCalls : pc[k] = "ready" => keys[k] = "none"
    /\ \A s \in Sends : pc[s] = "ready" => s \notin requests

(* A registration holds its address from the insert of the customer on,      *)
(* unless it is rolled back.                                                *)
Holds(p) == p \in customers \/ pc[p] = "commit"

AddressesAreHeldOnce ==
    \A p, q \in Registrations : Holds(p) /\ Holds(q) /\ arg[p] = arg[q] => p = q

(* The foreign keys of a request.                                           *)
RequestsHaveParents ==
    \A s \in requests : AppOf(s) \in apps /\ keys[arg[s]] # "none"

(* The row of a request comes before its debit.                             *)
DebitsFollow ==
    /\ debited \subseteq requests
    /\ \A s \in Sends : pc[s] = "debit" => s \in requests

IInv ==
    /\ TypeOK
    /\ KeysHaveApplications
    /\ ReadyIsNew
    /\ AddressesAreHeldOnce
    /\ RequestsHaveParents
    /\ DebitsFollow

USE DEF Goto, Begin, Waiting, Outcomes, Apps, Calls, AppOf

-----------------------------------------------------------------------------

LEMMA InitInvariant == Init => IInv
<1> SUFFICES ASSUME Init PROVE IInv
  OBVIOUS
<1> USE DEF Init
<1>1. TypeOK
  BY DEF TypeOK
<1>2. KeysHaveApplications /\ ReadyIsNew /\ AddressesAreHeldOnce
  BY DEF KeysHaveApplications, ReadyIsNew, AddressesAreHeldOnce, Holds
<1>3. RequestsHaveParents /\ DebitsFollow
  BY DEF RequestsHaveParents, DebitsFollow
<1> QED BY <1>1, <1>2, <1>3 DEF IInv

(* A call that goes on, but not to a commit or a debit, and changes no row. *)
LEMMA StepWithoutRows ==
    ASSUME IInv, NEW c \in Calls, NEW label \in (Waiting \cup Outcomes) \ {"commit", "debit"},
           pc[c] # "ready", Goto(c, label),
           UNCHANGED <<customers, apps, keys, requests, debited>>
    PROVE  IInv'
<1> USE DEF IInv
<1>1. TypeOK'
  BY DEF TypeOK
<1>2. KeysHaveApplications' /\ ReadyIsNew' /\ RequestsHaveParents'
  BY DEF TypeOK, KeysHaveApplications, ReadyIsNew, RequestsHaveParents
<1>3. AddressesAreHeldOnce'
  BY DEF TypeOK, AddressesAreHeldOnce, Holds
<1>4. DebitsFollow'
  BY DEF TypeOK, DebitsFollow
<1> QED BY <1>1, <1>2, <1>3, <1>4

(* A call that begins, does not create a key and changes no row.            *)
LEMMA BeginWithoutRows ==
    ASSUME IInv, NEW c \in Calls \ KeyCalls, NEW a \in Emails \cup Apps \cup KeyCalls,
           NEW label \in (Waiting \cup Outcomes) \ {"commit", "debit"},
           Begin(c, a, label), c \in Sends => a \in KeyCalls,
           UNCHANGED <<customers, apps, keys, requests, debited>>
    PROVE  IInv'
<1> USE DEF IInv
<1>1. TypeOK'
  BY DEF TypeOK
<1>2. KeysHaveApplications' /\ ReadyIsNew'
  BY DEF TypeOK, KeysHaveApplications, ReadyIsNew
<1>3. AddressesAreHeldOnce'
  BY DEF TypeOK, AddressesAreHeldOnce, Holds, ReadyIsNew
<1>4. RequestsHaveParents'
  <2> SUFFICES ASSUME NEW s \in requests
               PROVE  arg'[arg'[s]] \in apps /\ keys[arg'[s]] # "none"
    BY DEF RequestsHaveParents
  <2>1. s \in Sends /\ pc[s] # "ready" /\ arg[s] \in KeyCalls
    BY DEF TypeOK, ReadyIsNew
  <2>2. arg'[s] = arg[s] /\ arg'[arg[s]] = arg[arg[s]]
    BY <2>1 DEF TypeOK
  <2> QED BY <2>2 DEF RequestsHaveParents
<1>5. DebitsFollow'
  BY DEF TypeOK, DebitsFollow
<1> QED BY <1>1, <1>2, <1>3, <1>4, <1>5

-----------------------------------------------------------------------------

LEMMA RegisterInvariant ==
    ASSUME IInv, NEW p \in Registrations, Register(p) PROVE IInv'
<1>1. PICK e \in Emails :
        Begin(p, e, IF \E q \in customers : arg[q] = e THEN "refused" ELSE "customer")
  BY DEF Register
<1>2. p \in Calls \ KeyCalls /\ p \notin Sends
  BY TenancyAssumption
<1> QED BY <1>1, <1>2, BeginWithoutRows DEF Register

(* The insert waits for open transactions with its address and fails if     *)
(* there is a customer with it, so that nobody else holds it.               *)
LEMMA InsertCustomerInvariant ==
    ASSUME IInv, NEW p \in Registrations, InsertCustomer(p) PROVE IInv'
<1>1. CASE \E q \in customers : arg[q] = arg[p]
  BY <1>1, StepWithoutRows DEF InsertCustomer
<1>2. CASE ~ \E q \in customers : arg[q] = arg[p]
  <2> USE DEF IInv
  <2>1. Goto(p, "commit") /\ UNCHANGED <<customers, apps, keys, requests, debited>>
    BY <1>2 DEF InsertCustomer
  <2>2. \A q \in Registrations : arg[q] = arg[p] => ~Holds(q)
    BY <1>2 DEF InsertCustomer, Holds, TypeOK
  <2>3. TypeOK' /\ pc[p] = "customer"
    BY <2>1 DEF TypeOK, InsertCustomer
  <2>4. KeysHaveApplications' /\ ReadyIsNew' /\ RequestsHaveParents'
    BY <2>1, <2>3 DEF TypeOK, KeysHaveApplications, ReadyIsNew, RequestsHaveParents
  <2>5. AddressesAreHeldOnce'
    BY <2>1, <2>2 DEF TypeOK, AddressesAreHeldOnce, Holds
  <2>6. DebitsFollow'
    BY <2>1 DEF TypeOK, DebitsFollow
  <2> QED BY <2>3, <2>4, <2>5, <2>6
<1> QED BY <1>1, <1>2

LEMMA CommitRegistrationInvariant ==
    ASSUME IInv, NEW p \in Registrations, CommitRegistration(p) PROVE IInv'
<1> USE DEF IInv, CommitRegistration
<1>1. TypeOK'
  BY DEF TypeOK
<1>2. KeysHaveApplications' /\ RequestsHaveParents'
  BY DEF KeysHaveApplications, RequestsHaveParents
<1>3. ReadyIsNew'
  BY DEF TypeOK, ReadyIsNew
<1>4. AddressesAreHeldOnce'
  BY DEF TypeOK, AddressesAreHeldOnce, Holds
<1>5. DebitsFollow'
  BY DEF TypeOK, DebitsFollow
<1> QED BY <1>1, <1>2, <1>3, <1>4, <1>5

LEMMA CreateAppInvariant ==
    ASSUME IInv, NEW c \in AppCalls, CreateApp(c) PROVE IInv'
<1> USE TenancyAssumption DEF IInv, CreateApp
<1>1. TypeOK'
  BY DEF TypeOK
<1>2. KeysHaveApplications' /\ ReadyIsNew'
  BY DEF TypeOK, KeysHaveApplications, ReadyIsNew
<1>3. AddressesAreHeldOnce'
  BY DEF TypeOK, AddressesAreHeldOnce, Holds
<1>4. RequestsHaveParents'
  <2> SUFFICES ASSUME NEW s \in requests
               PROVE  arg'[arg'[s]] \in apps' /\ keys[arg'[s]] # "none"
    BY DEF RequestsHaveParents
  <2>1. s \in Sends /\ arg[s] \in KeyCalls
    BY DEF TypeOK, ReadyIsNew
  <2>2. arg'[s] = arg[s] /\ arg'[arg[s]] = arg[arg[s]]
    BY <2>1 DEF TypeOK
  <2> QED BY <2>2 DEF RequestsHaveParents
<1>5. DebitsFollow'
  BY DEF TypeOK, DebitsFollow
<1> QED BY <1>1, <1>2, <1>3, <1>4, <1>5

LEMMA FindAppInvariant ==
    ASSUME IInv, NEW d \in Deletions, FindApp(d) PROVE IInv'
<1>1. PICK a \in Apps : Begin(d, a, IF a \in apps THEN "delete" ELSE "refused")
  BY DEF FindApp
<1>2. d \in Calls \ KeyCalls /\ d \notin Sends
  BY TenancyAssumption
<1> QED BY <1>1, <1>2, BeginWithoutRows DEF FindApp

(* An application without requests goes with its keys, none of which has a   *)
(* request then.                                                            *)
LEMMA DeleteAppInvariant ==
    ASSUME IInv, NEW d \in Deletions, DeleteApp(d) PROVE IInv'
<1>1. CASE arg[d] \in apps /\ \A s \in requests : AppOf(s) # arg[d]
  <2> USE DEF IInv
  <2>1. /\ apps' = apps \ {arg[d]}
        /\ keys' = [k \in KeyCalls |-> IF arg[k] = arg[d] THEN "none" ELSE keys[k]]
        /\ Goto(d, "done")
        /\ UNCHANGED <<customers, requests, debited>>
    BY <1>1 DEF DeleteApp
  <2>2. TypeOK'
    <3>1. /\ pc' \in [Calls -> {"ready"} \cup Waiting \cup Outcomes]
          /\ \A s \in Sends : pc'[s] # "ready" => arg'[s] \in KeyCalls
      BY <2>1 DEF TypeOK, DeleteApp
    <3>2. keys' \in [KeyCalls -> {"none", "active", "revoked"}]
      BY <2>1 DEF TypeOK
    <3> QED BY <2>1, <3>1, <3>2 DEF TypeOK
  <2>3. KeysHaveApplications'
    BY <2>1 DEF KeysHaveApplications
  <2>4. ReadyIsNew'
    BY <2>1 DEF TypeOK, ReadyIsNew
  <2>5. AddressesAreHeldOnce'
    BY <2>1 DEF TypeOK, AddressesAreHeldOnce, Holds
  <2>6. RequestsHaveParents'
    <3> SUFFICES ASSUME NEW s \in requests
                 PROVE  arg[arg[s]] \in apps' /\ keys'[arg[s]] # "none"
      BY <2>1 DEF RequestsHaveParents
    <3>1. arg[s] \in KeyCalls /\ arg[arg[s]] # arg[d]
      BY <1>1 DEF TypeOK, ReadyIsNew
    <3> QED BY <2>1, <3>1 DEF RequestsHaveParents
  <2>7. DebitsFollow'
    BY <2>1 DEF TypeOK, DebitsFollow
  <2> QED BY <2>2, <2>3, <2>4, <2>5, <2>6, <2>7
<1>2. CASE ~(arg[d] \in apps /\ \A s \in requests : AppOf(s) # arg[d])
  BY <1>2, StepWithoutRows DEF DeleteApp
<1> QED BY <1>1, <1>2

LEMMA CreateKeyInvariant ==
    ASSUME IInv, NEW k \in KeyCalls, CreateKey(k) PROVE IInv'
<1> USE TenancyAssumption DEF IInv
<1>1. PICK a \in Apps :
        /\ Begin(k, a, IF a \in apps THEN "done" ELSE "failed")
        /\ keys' = [keys EXCEPT ![k] = IF a \in apps THEN "active" ELSE "none"]
  BY DEF CreateKey
<1>2. UNCHANGED <<customers, apps, requests, debited>>
  BY DEF CreateKey
<1>3. TypeOK'
  BY <1>1, <1>2 DEF TypeOK
<1>4. KeysHaveApplications'
  BY <1>1, <1>2 DEF TypeOK, KeysHaveApplications
<1>5. ReadyIsNew'
  BY <1>1, <1>2 DEF TypeOK, ReadyIsNew
<1>6. AddressesAreHeldOnce'
  BY <1>1, <1>2 DEF TypeOK, AddressesAreHeldOnce, Holds
<1>7. RequestsHaveParents'
  <2> SUFFICES ASSUME NEW s \in requests
               PROVE  arg'[arg'[s]] \in apps /\ keys'[arg'[s]] # "none"
    BY <1>2 DEF RequestsHaveParents
  <2>1. s \in Sends /\ arg[s] \in KeyCalls /\ arg[s] # k
    BY <1>1 DEF TypeOK, ReadyIsNew, RequestsHaveParents
  <2>2. arg'[s] = arg[s] /\ arg'[arg[s]] = arg[arg[s]] /\ keys'[arg[s]] = keys[arg[s]]
    BY <1>1, <2>1 DEF TypeOK
  <2> QED BY <2>2 DEF RequestsHaveParents
<1>8. DebitsFollow'
  BY <1>1, <1>2 DEF TypeOK, DebitsFollow
<1> QED BY <1>3, <1>4, <1>5, <1>6, <1>7, <1>8

LEMMA FindKeyInvariant ==
    ASSUME IInv, NEW r \in Revocations, FindKey(r) PROVE IInv'
<1>1. PICK k \in KeyCalls : Begin(r, k, IF keys[k] # "none" THEN "revoke" ELSE "refused")
  BY DEF FindKey
<1>2. r \in Calls \ KeyCalls /\ r \notin Sends
  BY TenancyAssumption
<1> QED BY <1>1, <1>2, BeginWithoutRows DEF FindKey

LEMMA RevokeInvariant ==
    ASSUME IInv, NEW r \in Revocations, Revoke(r) PROVE IInv'
<1>1. CASE keys[arg[r]] # "none"
  <2> USE DEF IInv
  <2>1. /\ keys' = [keys EXCEPT ![arg[r]] = "revoked"]
        /\ Goto(r, "done")
        /\ UNCHANGED <<customers, apps, requests, debited>>
    BY <1>1 DEF Revoke
  <2>2. \A k \in KeyCalls : keys'[k] = "none" <=> keys[k] = "none"
    BY <1>1, <2>1 DEF TypeOK
  <2>3. TypeOK'
    <3>1. /\ pc' \in [Calls -> {"ready"} \cup Waiting \cup Outcomes]
          /\ \A s \in Sends : pc'[s] # "ready" => arg'[s] \in KeyCalls
      BY <2>1 DEF TypeOK, Revoke
    <3>2. keys' \in [KeyCalls -> {"none", "active", "revoked"}]
      BY <2>1 DEF TypeOK
    <3> QED BY <2>1, <3>1, <3>2 DEF TypeOK
  <2>4. KeysHaveApplications'
    BY <2>1, <2>2 DEF KeysHaveApplications
  <2>5. ReadyIsNew'
    BY <2>1, <2>2 DEF TypeOK, ReadyIsNew
  <2>6. AddressesAreHeldOnce'
    BY <2>1 DEF TypeOK, AddressesAreHeldOnce, Holds
  <2>7. RequestsHaveParents'
    BY <2>1, <2>2 DEF TypeOK, ReadyIsNew, RequestsHaveParents
  <2>8. DebitsFollow'
    BY <2>1 DEF TypeOK, DebitsFollow
  <2> QED BY <2>3, <2>4, <2>5, <2>6, <2>7, <2>8
<1>2. CASE keys[arg[r]] = "none"
  BY <1>2, StepWithoutRows DEF Revoke
<1> QED BY <1>1, <1>2

LEMMA AuthenticateInvariant ==
    ASSUME IInv, NEW s \in Sends, Authenticate(s) PROVE IInv'
<1>1. PICK k \in KeyCalls :
        /\ Begin(s, k, IF keys[k] = "active" THEN "create" ELSE "refused")
        /\ UNCHANGED <<customers, apps, keys, requests, debited>>
  BY DEF Authenticate
<1>2. s \in Calls \ KeyCalls
  BY TenancyAssumption
<1>3. CASE keys[k] = "active"
  BY <1>1, <1>2, <1>3, BeginWithoutRows
<1>4. CASE keys[k] # "active"
  BY <1>1, <1>2, <1>4, BeginWithoutRows
<1> QED BY <1>3, <1>4

LEMMA CreateRequestInvariant ==
    ASSUME IInv, NEW s \in Sends, CreateRequest(s) PROVE IInv'
<1>1. CASE AppOf(s) \in apps /\ keys[arg[s]] # "none"
  <2> USE DEF IInv
  <2>1. /\ requests' = requests \cup {s}
        /\ Goto(s, "debit")
        /\ pc[s] = "create"
        /\ UNCHANGED <<customers, apps, keys, debited>>
    BY <1>1 DEF CreateRequest
  <2>2. TypeOK'
    BY <2>1 DEF TypeOK
  <2>3. KeysHaveApplications' /\ ReadyIsNew'
    BY <2>1 DEF TypeOK, KeysHaveApplications, ReadyIsNew
  <2>4. AddressesAreHeldOnce'
    BY <2>1 DEF TypeOK, AddressesAreHeldOnce, Holds
  <2>5. RequestsHaveParents'
    BY <1>1, <2>1 DEF RequestsHaveParents
  <2>6. DebitsFollow'
    BY <2>1 DEF TypeOK, DebitsFollow
  <2> QED BY <2>2, <2>3, <2>4, <2>5, <2>6
<1>2. CASE ~(AppOf(s) \in apps /\ keys[arg[s]] # "none")
  BY <1>2, StepWithoutRows DEF CreateRequest
<1> QED BY <1>1, <1>2

LEMMA DebitInvariant ==
    ASSUME IInv, NEW s \in Sends, Debit(s) PROVE IInv'
<1> USE DEF IInv, Debit
<1>1. TypeOK'
  BY DEF TypeOK
<1>2. KeysHaveApplications' /\ ReadyIsNew' /\ RequestsHaveParents'
  BY DEF TypeOK, KeysHaveApplications, ReadyIsNew, RequestsHaveParents
<1>3. AddressesAreHeldOnce'
  BY DEF TypeOK, AddressesAreHeldOnce, Holds
<1>4. DebitsFollow'
  BY DEF TypeOK, DebitsFollow
<1> QED BY <1>1, <1>2, <1>3, <1>4

LEMMA NextInvariant ==
    ASSUME IInv, [Next]_vars PROVE IInv'
<1>1. CASE UNCHANGED vars
  BY <1>1 DEF vars, IInv, TypeOK, KeysHaveApplications, ReadyIsNew, AddressesAreHeldOnce,
              Holds, RequestsHaveParents, DebitsFollow
<1>2. CASE \E p \in Registrations : Register(p) \/ InsertCustomer(p) \/ CommitRegistration(p)
  BY <1>2, RegisterInvariant, InsertCustomerInvariant, CommitRegistrationInvariant
<1>3. CASE \E c \in AppCalls : CreateApp(c)
  BY <1>3, CreateAppInvariant
<1>4. CASE \E d \in Deletions : FindApp(d) \/ DeleteApp(d)
  BY <1>4, FindAppInvariant, DeleteAppInvariant
<1>5. CASE \E k \in KeyCalls : CreateKey(k)
  BY <1>5, CreateKeyInvariant
<1>6. CASE \E r \in Revocations : FindKey(r) \/ Revoke(r)
  BY <1>6, FindKeyInvariant, RevokeInvariant
<1>7. CASE \E s \in Sends : Authenticate(s) \/ CreateRequest(s) \/ Debit(s)
  BY <1>7, AuthenticateInvariant, CreateRequestInvariant, DebitInvariant
<1>8. CASE \E c \in Calls : Abort(c)
  BY <1>8, StepWithoutRows DEF Abort
<1> QED BY <1>1, <1>2, <1>3, <1>4, <1>5, <1>6, <1>7, <1>8 DEF Next

LEMMA InvariantHolds == Spec => []IInv
BY InitInvariant, NextInvariant, PTL DEF Spec

-----------------------------------------------------------------------------

(* Every variable keeps its type (all of the handlers modelled).            *)
THEOREM TypeCorrect == Spec => []TypeOK
<1>1. IInv => TypeOK
  BY DEF IInv
<1> QED BY <1>1, InvariantHolds, PTL

(* However many registrations overlap, an address has one account           *)
(* (auth.routes.ts:56-121).                                                 *)
THEOREM OneAccount == Spec => []OneAccountPerEmail
<1>1. IInv => OneAccountPerEmail
  BY DEF IInv, AddressesAreHeldOnce, Holds, OneAccountPerEmail, TypeOK
<1> QED BY <1>1, InvariantHolds, PTL

(* Whatever is deleted or revoked meanwhile, who paid has a request that is  *)
(* complete (otp.routes.ts:225-247).                                        *)
THEOREM NoDebitWithoutRequest == Spec => []DebitsHaveRequests
<1>1. IInv => DebitsHaveRequests
  BY DEF IInv, DebitsFollow, RequestsHaveParents, DebitsHaveRequests
<1> QED BY <1>1, InvariantHolds, PTL

=============================================================================
