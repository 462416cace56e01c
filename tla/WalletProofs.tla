---------------------------- MODULE WalletProofs ----------------------------
(***************************************************************************)
(* Theorems about Wallet, for any customers, calls, references, amounts and *)
(* initial credits.                                                        *)
(***************************************************************************)
EXTENDS Wallet, TLAPS

(* What a transaction knows at each statement: kinds that get there.       *)
KindAtStep ==
    \A p \in Calls :
        /\ pc[p] \in {"lock", "check", "apply"} => req[p].kind # "read"
        /\ pc[p] = "check" => req[p].kind = "refund"

(* From the SELECT ... FOR UPDATE to the commit a transaction owns the row, *)
(* and balanceBefore is still the committed balance.                       *)
ReadIsCurrent ==
    \A p \in Calls :
        pc[p] \in {"check", "apply"} =>
            /\ owner[req[p].cust] = p
            /\ before[p] = balance[req[p].cust]

(* The answer of the idempotency check is still true at the commit.         *)
RefundStillFresh ==
    \A p \in Calls :
        pc[p] = "apply" /\ req[p].kind = "refund" =>
            ~AlreadyRefunded(req[p], ledger[req[p].cust])

(* The inductive invariant.                                                *)
IInv ==
    /\ TypeOK
    /\ KindAtStep
    /\ ReadIsCurrent
    /\ RefundStillFresh
    /\ LedgerChains
    /\ RefundAtMostOnce

-----------------------------------------------------------------------------

(* A request that passed the balance check yields a row and a balance of    *)
(* the right types.                                                        *)
LEMMA NewEntryType ==
    ASSUME NEW r \in Requests, NEW b \in Nat, Affordable(r, b)
    PROVE  /\ NewBalance(r, b) \in Nat
           /\ r.kind # "read" => NewEntry(r, b) \in Entries
<1>1. r \in AllRequests
  BY WalletDataAssumption
<1>2. r.amount \in Nat /\ r.kind \in Kinds /\ r.rtype \in RefTypes
        /\ r.ref \in RefIds
  BY <1>1 DEF AllRequests
<1>3. NewBalance(r, b) \in Nat
  BY <1>2 DEF NewBalance, Affordable
<1>4. StoredRef(r.ref) \in RefIds \cup {NoRef}
  BY <1>2 DEF StoredRef
<1>5. ASSUME r.kind # "read" PROVE NewEntry(r, b) \in Entries
  BY <1>2, <1>3, <1>4, <1>5, WalletDataAssumption
     DEF NewEntry, Entries, Kinds
<1> QED BY <1>3, <1>5

LEMMA RequestType ==
    ASSUME NEW r \in Requests
    PROVE  r.cust \in Customers /\ r.kind \in Kinds
BY WalletDataAssumption DEF AllRequests

(* What Commit does to the ledger of the customer it is about.             *)
LEMMA AppendedRow ==
    ASSUME NEW s \in Seq(Entries), NEW e \in Entries
    PROVE  /\ Append(s, e) \in Seq(Entries)
           /\ Append(s, e) # <<>>
           /\ Len(Append(s, e)) = Len(s) + 1
           /\ Append(s, e)[Len(s) + 1] = e
           /\ \A i \in 1..Len(s) : Append(s, e)[i] = s[i]
           /\ DOMAIN s = 1..Len(s)
           /\ s = <<>> <=> Len(s) = 0
OBVIOUS

-----------------------------------------------------------------------------

LEMMA InitInvariant == Init => IInv
<1> SUFFICES ASSUME Init PROVE IInv
  OBVIOUS
<1> USE DEF Init
<1>1. TypeOK
  BY WalletDataAssumption DEF TypeOK
<1>2. KindAtStep /\ ReadIsCurrent /\ RefundStillFresh
  BY DEF KindAtStep, ReadIsCurrent, RefundStillFresh
<1>3. LedgerChains /\ RefundAtMostOnce
  BY DEF LedgerChains, RefundAtMostOnce
<1> QED BY <1>1, <1>2, <1>3 DEF IInv

(* Steps that leave the tables alone only move a call and, at most, hand    *)
(* the row over.                                                           *)
LEMMA StartInvariant ==
    ASSUME IInv, NEW p \in Calls, Start(p) PROVE IInv'
<1> USE DEF Start, Goto, IInv
<1>1. TypeOK'
  BY DEF TypeOK, InTransaction
<1>2. (KindAtStep /\ RefundStillFresh)'
  BY DEF TypeOK, KindAtStep, RefundStillFresh
<1>3. ReadIsCurrent'
  BY DEF TypeOK, ReadIsCurrent
<1>4. (LedgerChains /\ RefundAtMostOnce)'
  BY DEF LedgerChains, RefundAtMostOnce
<1> QED BY <1>1, <1>2, <1>3, <1>4

LEMMA FindWalletInvariant ==
    ASSUME IInv, NEW p \in Calls, FindWallet(p) PROVE IInv'
<1> USE DEF FindWallet, Goto, IInv
<1>1. TypeOK'
  BY DEF TypeOK, InTransaction, Outcomes
<1>2. (KindAtStep /\ RefundStillFresh)'
  BY DEF TypeOK, KindAtStep, RefundStillFresh
<1>3. ReadIsCurrent'
  BY DEF TypeOK, ReadIsCurrent
<1>4. (LedgerChains /\ RefundAtMostOnce)'
  BY DEF LedgerChains, RefundAtMostOnce
<1> QED BY <1>1, <1>2, <1>3, <1>4

LEMMA CreateWalletInvariant ==
    ASSUME IInv, NEW p \in Calls, CreateWallet(p) PROVE IInv'
<1> USE WalletAssumption DEF CreateWallet, Goto, IInv
<1>1. TypeOK'
  BY DEF TypeOK, InTransaction
<1>2. (KindAtStep /\ RefundStillFresh)'
  BY DEF TypeOK, KindAtStep, RefundStillFresh
<1>3. ReadIsCurrent'
  BY DEF TypeOK, ReadIsCurrent
<1>4. (LedgerChains /\ RefundAtMostOnce)'
  BY DEF LedgerChains, RefundAtMostOnce
<1> QED BY <1>1, <1>2, <1>3, <1>4

LEMMA CreateAndReadInvariant ==
    ASSUME IInv, NEW p \in Calls, CreateAndRead(p) PROVE IInv'
<1>1. req[p].cust \in Customers
  BY RequestType DEF IInv, TypeOK
<1> QED
  BY <1>1 DEF CreateAndRead, Goto, IInv, TypeOK, KindAtStep, ReadIsCurrent,
              RefundStillFresh, LedgerChains, RefundAtMostOnce, Outcomes

LEMMA CreateConflictInvariant ==
    ASSUME IInv, NEW p \in Calls, CreateConflict(p) PROVE IInv'
<1> USE DEF CreateConflict, Goto, IInv
<1>1. TypeOK'
  BY DEF TypeOK, Outcomes
<1>2. (KindAtStep /\ RefundStillFresh)'
  BY DEF TypeOK, KindAtStep, RefundStillFresh
<1>3. ReadIsCurrent'
  BY DEF TypeOK, ReadIsCurrent
<1>4. (LedgerChains /\ RefundAtMostOnce)'
  BY DEF LedgerChains, RefundAtMostOnce
<1> QED BY <1>1, <1>2, <1>3, <1>4

LEMMA LockWalletInvariant ==
    ASSUME IInv, NEW p \in Calls, LockWallet(p) PROVE IInv'
<1> USE WalletAssumption DEF LockWallet, Goto, IInv
<1>1. req[p].cust \in Customers
  BY RequestType DEF TypeOK
<1>2. TypeOK'
  BY <1>1 DEF TypeOK, InTransaction
<1>3. KindAtStep'
  BY DEF TypeOK, KindAtStep
<1>4. RefundStillFresh'
  BY DEF TypeOK, RefundStillFresh
<1>5. ReadIsCurrent'
  BY <1>1 DEF TypeOK, ReadIsCurrent
<1>6. (LedgerChains /\ RefundAtMostOnce)'
  BY DEF LedgerChains, RefundAtMostOnce
<1> QED BY <1>2, <1>3, <1>4, <1>5, <1>6

LEMMA RefundDuplicateInvariant ==
    ASSUME IInv, NEW p \in Calls, RefundDuplicate(p) PROVE IInv'
<1> USE WalletAssumption DEF RefundDuplicate, Release, Goto, IInv
<1>1. TypeOK'
  BY RequestType DEF TypeOK, Outcomes
<1>2. (KindAtStep /\ RefundStillFresh)'
  BY DEF TypeOK, KindAtStep, RefundStillFresh
<1>3. ReadIsCurrent'
  BY RequestType DEF TypeOK, ReadIsCurrent
<1>4. (LedgerChains /\ RefundAtMostOnce)'
  BY DEF LedgerChains, RefundAtMostOnce
<1> QED BY <1>1, <1>2, <1>3, <1>4

LEMMA RefundFreshInvariant ==
    ASSUME IInv, NEW p \in Calls, RefundFresh(p) PROVE IInv'
<1> USE DEF RefundFresh, Goto, IInv
<1>1. TypeOK'
  BY DEF TypeOK, InTransaction
<1>2. (KindAtStep /\ RefundStillFresh)'
  BY DEF TypeOK, KindAtStep, RefundStillFresh
<1>3. ReadIsCurrent'
  BY DEF TypeOK, ReadIsCurrent
<1>4. (LedgerChains /\ RefundAtMostOnce)'
  BY DEF LedgerChains, RefundAtMostOnce
<1> QED BY <1>1, <1>2, <1>3, <1>4

LEMMA RefuseInvariant ==
    ASSUME IInv, NEW p \in Calls, Refuse(p) PROVE IInv'
<1> USE WalletAssumption DEF Refuse, Release, Goto, IInv
<1>1. TypeOK'
  BY DEF TypeOK, Outcomes
<1>2. (KindAtStep /\ RefundStillFresh)'
  BY DEF TypeOK, KindAtStep, RefundStillFresh
<1>3. ReadIsCurrent'
  BY RequestType DEF TypeOK, ReadIsCurrent
<1>4. (LedgerChains /\ RefundAtMostOnce)'
  BY DEF LedgerChains, RefundAtMostOnce
<1> QED BY <1>1, <1>2, <1>3, <1>4

LEMMA AbortInvariant ==
    ASSUME IInv, NEW p \in Calls, Abort(p) PROVE IInv'
<1> USE WalletAssumption DEF Abort, Release, Goto, IInv
<1>1. TypeOK'
  BY DEF TypeOK, Outcomes
<1>2. (KindAtStep /\ RefundStillFresh)'
  BY DEF TypeOK, KindAtStep, RefundStillFresh
<1>3. ReadIsCurrent'
  BY RequestType DEF TypeOK, ReadIsCurrent
<1>4. (LedgerChains /\ RefundAtMostOnce)'
  BY DEF LedgerChains, RefundAtMostOnce
<1> QED BY <1>1, <1>2, <1>3, <1>4

(* The step that matters.  The committing call owns the row, so every other *)
(* call between its lock and its commit is about another customer; and the  *)
(* balance and the idempotency check it relies on are current.             *)
LEMMA CommitInvariant ==
    ASSUME IInv, NEW p \in Calls, Commit(p) PROVE IInv'
<1> DEFINE c == req[p].cust
           e == NewEntry(req[p], before[p])
           old == ledger[c]
<1> USE WalletAssumption
<1>1. c \in Customers /\ req[p] \in Requests /\ before[p] \in Nat
  BY RequestType DEF IInv, TypeOK
<1>2. owner[c] = p /\ before[p] = balance[c] /\ req[p].kind # "read"
  BY DEF IInv, ReadIsCurrent, KindAtStep, Commit
<1>3. NewBalance(req[p], before[p]) \in Nat /\ e \in Entries
  BY <1>1, <1>2, NewEntryType DEF Commit
<1>4. old \in Seq(Entries)
  BY <1>1 DEF IInv, TypeOK
<1>5. /\ ledger' = [ledger EXCEPT ![c] = Append(old, e)]
      /\ balance' = [balance EXCEPT ![c] = NewBalance(req[p], before[p])]
      /\ wallets' = wallets \cup {c}
      /\ owner' = [d \in Customers |-> IF owner[d] = p THEN NoCall ELSE owner[d]]
      /\ pc' = [pc EXCEPT ![p] = "applied"]
      /\ UNCHANGED <<req, before>>
  BY DEF Commit, Release, Goto
<1>6. /\ ledger'[c] = Append(old, e)
      /\ balance'[c] = e.after
      /\ e.before = balance[c]
  BY <1>1, <1>2, <1>5 DEF IInv, TypeOK, NewEntry
<1>7. \A d \in Customers \ {c} : ledger'[d] = ledger[d] /\ balance'[d] = balance[d]
  BY <1>5 DEF IInv, TypeOK
<1>8. TypeOK'
  <2>1. Append(old, e) \in Seq(Entries)
    BY <1>3, <1>4, AppendedRow
  <2> QED
    BY <1>1, <1>3, <1>5, <2>1 DEF IInv, TypeOK, Outcomes
<1>9. KindAtStep'
  BY <1>5 DEF IInv, TypeOK, KindAtStep
<1>10. \A q \in Calls \ {p} : pc[q] \in {"check", "apply"} =>
          req[q].cust \in Customers /\ req[q].cust # c /\ owner[req[q].cust] = q
  BY <1>2, RequestType DEF IInv, TypeOK, ReadIsCurrent
<1>11. ReadIsCurrent'
  <2> SUFFICES ASSUME NEW q \in Calls, pc'[q] \in {"check", "apply"}
               PROVE  (owner[req[q].cust] = q /\ before[q] = balance[req[q].cust])'
    BY DEF ReadIsCurrent
  <2>1. q # p /\ pc[q] \in {"check", "apply"}
    BY <1>5 DEF IInv, TypeOK
  <2>2. before[q] = balance[req[q].cust]
    BY <2>1 DEF IInv, ReadIsCurrent
  <2> QED BY <1>5, <1>7, <1>10, <2>1, <2>2
<1>12. RefundStillFresh'
  <2> SUFFICES ASSUME NEW q \in Calls, pc'[q] = "apply", req'[q].kind = "refund"
               PROVE  ~AlreadyRefunded(req[q], ledger[req[q].cust])'
    BY DEF RefundStillFresh
  <2>1. q # p /\ pc[q] = "apply" /\ req'[q] = req[q]
    BY <1>5 DEF IInv, TypeOK
  <2>2. ledger'[req[q].cust] = ledger[req[q].cust]
    BY <1>7, <1>10, <2>1
  <2>3. ~AlreadyRefunded(req[q], ledger[req[q].cust])
    BY <2>1 DEF IInv, RefundStillFresh
  <2> QED BY <2>1, <2>2, <2>3 DEF AlreadyRefunded
<1>13. LedgerChains'
  <2> SUFFICES ASSUME NEW d \in Customers
               PROVE  (/\ balance[d] = IF ledger[d] = <<>> THEN InitialCredits
                                       ELSE ledger[d][Len(ledger[d])].after
                       /\ \A i \in 1..Len(ledger[d]) :
                            ledger[d][i].before = IF i = 1 THEN InitialCredits
                                                  ELSE ledger[d][i-1].after)'
    BY DEF LedgerChains
  <2>1. CASE d # c
    BY <2>1, <1>7 DEF IInv, LedgerChains
  <2>2. CASE d = c
    <3> DEFINE new == Append(old, e)
    <3>1. /\ new # <<>> /\ Len(new) = Len(old) + 1 /\ new[Len(old) + 1] = e
          /\ \A i \in 1..Len(old) : new[i] = old[i]
          /\ old = <<>> <=> Len(old) = 0
          /\ Len(old) \in Nat
      BY <1>3, <1>4, AppendedRow
    <3>2. /\ balance[c] = IF old = <<>> THEN InitialCredits ELSE old[Len(old)].after
          /\ \A i \in 1..Len(old) :
               old[i].before = IF i = 1 THEN InitialCredits ELSE old[i-1].after
      BY <1>1 DEF IInv, LedgerChains
    <3>3. balance'[c] = new[Len(new)].after
      BY <1>6, <3>1
    <3>4. ASSUME NEW i \in 1..Len(new)
          PROVE  new[i].before = IF i = 1 THEN InitialCredits ELSE new[i-1].after
      <4>1. CASE i \in 1..Len(old)
        <5>1. i # 1 => i - 1 \in 1..Len(old)
          BY <4>1, <3>1
        <5> QED BY <4>1, <5>1, <3>1, <3>2
      <4>2. CASE i = Len(old) + 1
        <5>1. new[i].before = balance[c]
          BY <4>2, <1>6, <3>1
        <5>2. CASE Len(old) = 0
          BY <4>2, <5>1, <5>2, <3>1, <3>2
        <5>3. CASE Len(old) # 0
          <6>1. i - 1 = Len(old) /\ Len(old) \in 1..Len(old) /\ i # 1
            BY <4>2, <5>3, <3>1
          <6> QED BY <5>1, <5>3, <6>1, <3>1, <3>2
        <5> QED BY <5>2, <5>3
      <4> QED BY <4>1, <4>2, <3>1
    <3> HIDE DEF new
    <3>5. ledger'[d] = new
      BY <2>2, <1>6 DEF new
    <3> QED BY <2>2, <3>1, <3>3, <3>4, <3>5
  <2> QED BY <2>1, <2>2
<1>14. RefundAtMostOnce'
  <2> SUFFICES ASSUME NEW d \in Customers,
                      NEW i \in 1..Len(ledger'[d]), NEW j \in 1..Len(ledger'[d]),
                      ledger'[d][i].type = "refund",
                      ledger'[d][j].type = "refund",
                      ledger'[d][i].rtype = ledger'[d][j].rtype,
                      ledger'[d][i].ref = ledger'[d][j].ref
               PROVE  i = j
    BY DEF RefundAtMostOnce
  <2>1. CASE d # c
    BY <2>1, <1>7 DEF IInv, RefundAtMostOnce
  <2>2. CASE d = c
    <3> DEFINE new == Append(old, e)
    <3>1. /\ Len(new) = Len(old) + 1 /\ new[Len(old) + 1] = e
          /\ \A k \in 1..Len(old) : new[k] = old[k]
          /\ DOMAIN old = 1..Len(old)
          /\ Len(old) \in Nat
      BY <1>3, <1>4, AppendedRow
    <3>2. e.type = "refund" => \A k \in 1..Len(old) :
             ~(old[k].type = "refund" /\ old[k].rtype = e.rtype /\ old[k].ref = e.ref)
      <4>1. ASSUME e.type = "refund"
            PROVE  /\ req[p].kind = "refund"
                   /\ e.rtype = req[p].rtype /\ e.ref = StoredRef(req[p].ref)
        BY <4>1 DEF NewEntry
      <4>2. ASSUME e.type = "refund" PROVE ~AlreadyRefunded(req[p], old)
        BY <4>1, <4>2 DEF IInv, RefundStillFresh, Commit
      <4> QED BY <4>1, <4>2, <3>1 DEF AlreadyRefunded
    <3>3. \A k, l \in 1..Len(old) :
             /\ old[k].type = "refund" /\ old[l].type = "refund"
             /\ old[k].rtype = old[l].rtype /\ old[k].ref = old[l].ref
             => k = l
      BY <1>1 DEF IInv, RefundAtMostOnce
    <3>4. ledger'[d] = new
      BY <2>2, <1>6
    <3> HIDE DEF new, e, old
    <3> QED BY <3>1, <3>2, <3>3, <3>4
  <2> QED BY <2>1, <2>2
<1> QED
  BY <1>8, <1>9, <1>11, <1>12, <1>13, <1>14 DEF IInv

LEMMA NextInvariant == IInv /\ [Next]_vars => IInv'
<1> SUFFICES ASSUME IInv, [Next]_vars PROVE IInv'
  OBVIOUS
<1>1. CASE UNCHANGED vars
  <2> USE <1>1 DEF vars, IInv
  <2>1. (TypeOK /\ KindAtStep /\ ReadIsCurrent)'
    BY DEF TypeOK, KindAtStep, ReadIsCurrent
  <2>2. (RefundStillFresh /\ LedgerChains /\ RefundAtMostOnce)'
    BY DEF RefundStillFresh, LedgerChains, RefundAtMostOnce
  <2> QED BY <2>1, <2>2
<1>2. CASE Next
  <2>1. PICK p \in Calls : Start(p) \/ Step(p) \/ Abort(p)
    BY <1>2 DEF Next
  <2> QED
    BY <2>1, StartInvariant, FindWalletInvariant, CreateWalletInvariant,
       CreateAndReadInvariant, CreateConflictInvariant, LockWalletInvariant,
       RefundDuplicateInvariant, RefundFreshInvariant, RefuseInvariant,
       CommitInvariant, AbortInvariant DEF Step
<1> QED BY <1>1, <1>2

(* The inductive invariant holds of every behaviour of the service.        *)
THEOREM Invariance == Spec => []IInv
BY InitInvariant, NextInvariant, PTL DEF Spec

(* Balances and rows keep their types: no interleaving of debits makes a    *)
(* balance negative (deductCreditsAtomic, wallet.service.ts:66-78).        *)
THEOREM TypeCorrect == Spec => []TypeOK
<1>1. IInv => TypeOK
  BY DEF IInv
<1> QED BY Invariance, <1>1, PTL

(* No balance update is lost, whatever transactions run concurrently        *)
(* (wallet.service.ts:39, 53-57, 80-99).                                   *)
THEOREM LedgerAlwaysChains == Spec => []LedgerChains
<1>1. IInv => LedgerChains
  BY DEF IInv
<1> QED BY Invariance, <1>1, PTL

(* At most one refund row per reference (wallet.service.ts:108, 137-150).  *)
THEOREM RefundedAtMostOnce == Spec => []RefundAtMostOnce
<1>1. IInv => RefundAtMostOnce
  BY DEF IInv
<1> QED BY Invariance, <1>1, PTL

-----------------------------------------------------------------------------
(***************************************************************************)
(* A refund that returns has been applied, as far as the table can tell:     *)
(* references are compared as they are stored.                             *)
(***************************************************************************)

(* The call q applied the refund that row e of customer c records.          *)
Applied(q, c, e) ==
    /\ pc[q] = "applied" /\ req[q].kind = "refund"
    /\ req[q].cust = c /\ req[q].rtype = e.rtype /\ StoredRef(req[q].ref) = e.ref

RefundsWereApplied ==
    \A c \in Customers : \A i \in DOMAIN ledger[c] :
        ledger[c][i].type = "refund" => \E q \in Calls : Applied(q, c, ledger[c][i])

SettlementInv == RefundsWereApplied /\ RefundSettles

LEMMA SettlementInit == Init => SettlementInv
<1> SUFFICES ASSUME Init PROVE SettlementInv
  OBVIOUS
<1>1. RefundsWereApplied
  BY DEF Init, RefundsWereApplied
<1>2. RefundSettles
  BY DEF Init, RefundSettles
<1> QED BY <1>1, <1>2 DEF SettlementInv

(* An applied call stays so, and no request changes.                        *)
LEMMA AppliedStays ==
    ASSUME IInv, NEW p \in Calls, Start(p) \/ Step(p) \/ Abort(p)
    PROVE  /\ req' = req
           /\ \A q \in Calls : q # p => pc'[q] = pc[q]
           /\ pc[p] # "applied"
<1>1. req' = req /\ pc[p] # "applied"
  BY DEF Start, Step, Abort, FindWallet, CreateWallet, CreateAndRead, CreateConflict,
         LockWallet, RefundDuplicate, RefundFresh, Refuse, Commit, InTransaction
<1>2. \E l : Goto(p, l)
  BY DEF Start, Step, Abort, FindWallet, CreateWallet, CreateAndRead, CreateConflict,
         LockWallet, RefundDuplicate, RefundFresh, Refuse, Commit
<1> QED BY <1>1, <1>2 DEF Goto, IInv, TypeOK

LEMMA SettlementNext == IInv /\ SettlementInv /\ [Next]_vars => SettlementInv'
<1> SUFFICES ASSUME IInv, SettlementInv, [Next]_vars PROVE SettlementInv'
  OBVIOUS
<1>1. CASE UNCHANGED vars
  <2>1. RefundsWereApplied'
    BY <1>1 DEF vars, SettlementInv, RefundsWereApplied, Applied
  <2>2. RefundSettles'
    BY <1>1 DEF vars, SettlementInv, RefundSettles
  <2> QED BY <2>1, <2>2 DEF SettlementInv
<1>2. ASSUME NEW p \in Calls, Start(p) \/ Step(p) \/ Abort(p) PROVE SettlementInv'
  <2>1. /\ req' = req /\ \A q \in Calls : q # p => pc'[q] = pc[q]
        /\ pc[p] # "applied" /\ pc' \in [Calls -> {"idle"} \cup InTransaction \cup Outcomes]
    BY <1>2, AppliedStays, NextInvariant DEF Next, IInv, TypeOK
  <2>2. \A q \in Calls : pc[q] = "applied" => pc'[q] = "applied"
    BY <2>1
  <2>3. ASSUME NEW q \in Calls, NEW c, NEW e, Applied(q, c, e)
        PROVE  pc'[q] = "applied" /\ req'[q] = req[q]
    BY <2>1, <2>2, <2>3 DEF Applied
  <2>4. RefundsWereApplied'
    <3> SUFFICES ASSUME NEW c \in Customers, NEW i \in DOMAIN (ledger'[c]),
                        ledger'[c][i].type = "refund"
                 PROVE  \E q \in Calls :
                            /\ pc'[q] = "applied" /\ req[q].kind = "refund"
                            /\ req[q].cust = c /\ req[q].rtype = ledger'[c][i].rtype
                            /\ StoredRef(req[q].ref) = ledger'[c][i].ref
      BY <2>1 DEF RefundsWereApplied, Applied
    <3>1. ASSUME i \in DOMAIN ledger[c], ledger'[c][i] = ledger[c][i]
          PROVE  \E q \in Calls :
                    /\ pc'[q] = "applied" /\ req[q].kind = "refund"
                    /\ req[q].cust = c /\ req[q].rtype = ledger'[c][i].rtype
                    /\ StoredRef(req[q].ref) = ledger'[c][i].ref
      <4>1. PICK q \in Calls : Applied(q, c, ledger[c][i])
        BY <3>1 DEF SettlementInv, RefundsWereApplied
      <4> QED BY <2>2, <3>1, <4>1 DEF Applied
    <3>2. CASE Commit(p) /\ req[p].cust = c
      <4> DEFINE e == NewEntry(req[p], before[p])
      <4>1. e \in Entries /\ ledger[c] \in Seq(Entries)
        <5>1. req[p] \in Requests /\ before[p] \in Nat
          BY DEF IInv, TypeOK
        <5>2. Affordable(req[p], before[p]) /\ req[p].kind # "read"
          BY <3>2 DEF Commit, IInv, KindAtStep
        <5> QED BY <5>1, <5>2, NewEntryType DEF IInv, TypeOK
      <4>2. ledger'[c] = Append(ledger[c], e) /\ pc'[p] = "applied"
        BY <3>2 DEF Commit, Goto, IInv, TypeOK
      <4> HIDE DEF e
      <4>3. /\ DOMAIN (ledger'[c]) = 1..(Len(ledger[c]) + 1)
            /\ ledger'[c][Len(ledger[c]) + 1] = e
            /\ \A k \in 1..Len(ledger[c]) : ledger'[c][k] = ledger[c][k]
            /\ DOMAIN ledger[c] = 1..Len(ledger[c]) /\ Len(ledger[c]) \in Nat
        BY <4>1, <4>2, AppendedRow
      <4>4. CASE i = Len(ledger[c]) + 1
        <5>1. e.type = "refund"
          BY <4>3, <4>4
        <5>2. req[p].kind = "refund" /\ e.rtype = req[p].rtype /\ e.ref = StoredRef(req[p].ref)
          BY <5>1 DEF e, NewEntry
        <5> QED BY <3>2, <4>2, <4>3, <4>4, <5>2
      <4>5. CASE i # Len(ledger[c]) + 1
        <5>1. i \in 1..Len(ledger[c])
          BY <4>3, <4>5
        <5> QED BY <3>1, <4>3, <5>1
      <4> QED BY <4>4, <4>5
    <3>3. CASE ~(Commit(p) /\ req[p].cust = c)
      <4>1. ledger'[c] = ledger[c]
        BY <1>2, <3>3 DEF Start, Step, Abort, FindWallet, CreateWallet, CreateAndRead,
                          CreateConflict, LockWallet, RefundDuplicate, RefundFresh, Refuse,
                          Commit, IInv, TypeOK
      <4> QED BY <3>1, <4>1
    <3> QED BY <3>2, <3>3
  <2>5. RefundSettles'
    <3> SUFFICES ASSUME NEW q \in Calls, req[q].kind = "refund",
                        pc'[q] \in {"applied", "duplicate"}
                 PROVE  \E t \in Calls :
                            /\ pc'[t] = "applied" /\ req[t].kind = "refund"
                            /\ req[t].cust = req[q].cust /\ req[t].rtype = req[q].rtype
                            /\ StoredRef(req[t].ref) = StoredRef(req[q].ref)
      BY <2>1 DEF RefundSettles
    <3>1. CASE pc'[q] = "applied"
      BY <3>1
    <3>2. CASE q # p
      BY <2>1, <2>2, <3>2 DEF SettlementInv, RefundSettles
    <3>3. CASE q = p /\ pc'[q] = "duplicate"
      <4>1. RefundDuplicate(p)
        BY <1>2, <3>3 DEF Start, Step, Abort, FindWallet, CreateWallet, CreateAndRead,
                          CreateConflict, LockWallet, RefundFresh, Refuse, Commit, Goto,
                          IInv, TypeOK
      <4>2. req[p] \in Requests /\ req[p].cust \in Customers
        BY RequestType DEF IInv, TypeOK
      <4>3. PICK i \in DOMAIN ledger[req[p].cust] :
                /\ ledger[req[p].cust][i].type = "refund"
                /\ ledger[req[p].cust][i].rtype = req[p].rtype
                /\ ledger[req[p].cust][i].ref = StoredRef(req[p].ref)
        BY <4>1 DEF RefundDuplicate, AlreadyRefunded
      <4>4. PICK t \in Calls : Applied(t, req[p].cust, ledger[req[p].cust][i])
        BY <4>2, <4>3 DEF SettlementInv, RefundsWereApplied
      <4> QED BY <2>2, <3>3, <4>3, <4>4 DEF Applied
    <3> QED BY <3>1, <3>2, <3>3
  <2> QED BY <2>4, <2>5 DEF SettlementInv
<1> QED BY <1>1, <1>2 DEF Next

(* A refund that returns normally, as a repeated one too, is in the ledger   *)
(* under the reference as it is stored, whatever the references are          *)
(* (wallet.service.ts:108-110, 137-150).                                   *)
THEOREM RefundsSettle == Spec => []RefundSettles
<1>1. SettlementInv => RefundSettles
  BY DEF SettlementInv
<1> QED BY Invariance, SettlementInit, SettlementNext, <1>1, PTL DEF Spec

-----------------------------------------------------------------------------
(***************************************************************************)
(* Every transaction is one step of the atomic ledger: the commit, or the   *)
(* moment it fails.                                                        *)
(***************************************************************************)

AtomicAnswer ==
    [p \in Calls |-> IF pc[p] \in InTransaction THEN "pending"
                     ELSE IF pc[p] \in {"conflict", "aborted"} THEN "failed"
                     ELSE pc[p]]

LEMMA AnswerChanges ==
    ASSUME TypeOK, NEW p \in Calls, NEW l, Goto(p, l)
    PROVE  AtomicAnswer' = [AtomicAnswer EXCEPT ![p] =
               IF l \in InTransaction THEN "pending"
               ELSE IF l \in {"conflict", "aborted"} THEN "failed" ELSE l]
BY DEF AtomicAnswer, Goto, TypeOK

LEMMA AnswerIsPending ==
    ASSUME NEW p \in Calls, pc[p] \in InTransaction
    PROVE  AtomicAnswer[p] = "pending"
BY DEF AtomicAnswer

LEMMA AnswerStutters ==
    ASSUME TypeOK, NEW p \in Calls, NEW l \in InTransaction,
           pc[p] \in InTransaction, Goto(p, l)
    PROVE  AtomicAnswer' = AtomicAnswer
BY DEF AtomicAnswer, Goto, TypeOK

LEMMA InitImplementsAtomic == Init => Atomic!Init
BY DEF Init, Atomic!Init, InTransaction

LEMMA StepImplementsAtomic == IInv /\ [Next]_vars => [Atomic!Next]_Atomic!vars
<1> SUFFICES ASSUME IInv, [Next]_vars PROVE [Atomic!Next]_Atomic!vars
  OBVIOUS
<1> USE DEF IInv
<1>1. CASE UNCHANGED vars
  BY <1>1 DEF vars, Atomic!vars
<1>2. CASE Next
  <2>1. PICK p \in Calls : Start(p) \/ Step(p) \/ Abort(p)
    BY <1>2 DEF Next
  <2>2. req[p] \in Requests /\ req[p].cust \in Customers
    BY RequestType DEF TypeOK
  <2>3. CASE Start(p)
    <3>1. AtomicAnswer[p] = "idle"
      BY <2>3 DEF Start, AtomicAnswer, InTransaction
    <3>2. AtomicAnswer' = [AtomicAnswer EXCEPT ![p] = "pending"]
      BY <2>3, AnswerChanges DEF Start, InTransaction
    <3>3. Atomic!Request(p)
      BY <2>3, <3>1, <3>2 DEF Start, Atomic!Request, AtomicAnswer
    <3> QED BY <3>3 DEF Atomic!Next
  <2>4. CASE FindWallet(p)
    <3>1. CASE req[p].cust \in wallets /\ req[p].kind = "read"
      <4>1. AtomicAnswer[p] = "pending"
        BY <2>4, AnswerIsPending DEF FindWallet, InTransaction
      <4>2. AtomicAnswer' = [AtomicAnswer EXCEPT ![p] = "read"]
        BY <2>4, <3>1, AnswerChanges DEF FindWallet, InTransaction
      <4>3. Atomic!Read(p)
        BY <2>4, <3>1, <4>1, <4>2
           DEF FindWallet, Atomic!Read, Atomic!Answer, AtomicAnswer
      <4> QED BY <4>3 DEF Atomic!Next
    <3>2. CASE ~(req[p].cust \in wallets /\ req[p].kind = "read")
      <4>1. AtomicAnswer' = AtomicAnswer
        BY <2>4, <3>2, AnswerStutters DEF FindWallet, InTransaction
      <4> QED BY <2>4, <4>1 DEF FindWallet, Atomic!vars, AtomicAnswer
    <3> QED BY <3>1, <3>2
  <2>5. CASE CreateWallet(p)
    <3>1. AtomicAnswer' = AtomicAnswer
      BY <2>5, AnswerStutters DEF CreateWallet, InTransaction
    <3> QED BY <2>5, <3>1 DEF CreateWallet, Atomic!vars, AtomicAnswer
  <2>6. CASE CreateAndRead(p)
    <3>1. AtomicAnswer[p] = "pending"
      BY <2>6, AnswerIsPending DEF CreateAndRead, InTransaction
    <3>2. AtomicAnswer' = [AtomicAnswer EXCEPT ![p] = "read"]
      BY <2>6, AnswerChanges DEF CreateAndRead, InTransaction
    <3>3. Atomic!Read(p)
      BY <2>6, <3>1, <3>2
         DEF CreateAndRead, Atomic!Read, Atomic!Answer, AtomicAnswer
    <3> QED BY <3>3 DEF Atomic!Next
  <2>7. CASE CreateConflict(p)
    <3>1. AtomicAnswer[p] = "pending"
      BY <2>7, AnswerIsPending DEF CreateConflict, InTransaction
    <3>2. AtomicAnswer' = [AtomicAnswer EXCEPT ![p] = "failed"]
      BY <2>7, AnswerChanges DEF CreateConflict, InTransaction
    <3>3. Atomic!Fail(p)
      BY <2>7, <3>1, <3>2
         DEF CreateConflict, Atomic!Fail, Atomic!Answer, AtomicAnswer
    <3> QED BY <3>3 DEF Atomic!Next
  <2>8. CASE LockWallet(p)
    <3>1. AtomicAnswer' = AtomicAnswer
      BY <2>8, AnswerStutters DEF LockWallet, InTransaction
    <3> QED BY <2>8, <3>1 DEF LockWallet, Atomic!vars, AtomicAnswer
  <2>9. CASE RefundDuplicate(p)
    <3>1. AtomicAnswer[p] = "pending"
      BY <2>9, AnswerIsPending DEF RefundDuplicate, InTransaction
    <3>2. AtomicAnswer' = [AtomicAnswer EXCEPT ![p] = "duplicate"]
      BY <2>9, AnswerChanges DEF RefundDuplicate, InTransaction
    <3>3. req[p].kind = "refund"
      BY <2>9 DEF RefundDuplicate, KindAtStep
    <3>4. Atomic!AlreadyRefunded(req[p], ledger[req[p].cust])
      BY <2>9 DEF RefundDuplicate, AlreadyRefunded, Atomic!AlreadyRefunded,
                  StoredRef, Atomic!StoredRef
    <3>5. Atomic!Duplicate(p)
      BY <2>9, <3>1, <3>2, <3>3, <3>4
         DEF RefundDuplicate, Atomic!Duplicate, Atomic!Answer, AtomicAnswer
    <3> QED BY <3>5 DEF Atomic!Next
  <2>10. CASE RefundFresh(p)
    <3>1. AtomicAnswer' = AtomicAnswer
      BY <2>10, AnswerStutters DEF RefundFresh, InTransaction
    <3> QED BY <2>10, <3>1 DEF RefundFresh, Atomic!vars, AtomicAnswer
  <2>11. CASE Refuse(p)
    <3>1. AtomicAnswer[p] = "pending"
      BY <2>11, AnswerIsPending DEF Refuse, InTransaction
    <3>2. AtomicAnswer' = [AtomicAnswer EXCEPT ![p] = "refused"]
      BY <2>11, AnswerChanges DEF Refuse, InTransaction
    <3>3. ~Atomic!Affordable(req[p], balance[req[p].cust])
      BY <2>11 DEF Refuse, ReadIsCurrent, Affordable, Atomic!Affordable
    <3>4. Atomic!Refuse(p)
      BY <2>11, <3>1, <3>2, <3>3
         DEF Refuse, Atomic!Refuse, Atomic!Answer, AtomicAnswer
    <3> QED BY <3>4 DEF Atomic!Next
  <2>12. CASE Commit(p)
    <3>1. AtomicAnswer[p] = "pending"
      BY <2>12, AnswerIsPending DEF Commit, InTransaction
    <3>2. AtomicAnswer' = [AtomicAnswer EXCEPT ![p] = "applied"]
      BY <2>12, AnswerChanges DEF Commit, InTransaction
    <3>3. before[p] = balance[req[p].cust] /\ req[p].kind # "read"
      BY <2>12 DEF Commit, ReadIsCurrent, KindAtStep
    <3>4. Atomic!Affordable(req[p], balance[req[p].cust])
      BY <2>12, <3>3 DEF Commit, Affordable, Atomic!Affordable
    <3>5. req[p].kind = "refund" =>
             ~Atomic!AlreadyRefunded(req[p], ledger[req[p].cust])
      BY <2>12 DEF Commit, RefundStillFresh, AlreadyRefunded,
                   Atomic!AlreadyRefunded, StoredRef, Atomic!StoredRef
    <3>6. /\ Atomic!NewBalance(req[p], before[p]) = NewBalance(req[p], before[p])
          /\ Atomic!NewEntry(req[p], before[p]) = NewEntry(req[p], before[p])
      BY DEF NewBalance, Atomic!NewBalance, NewEntry, Atomic!NewEntry,
             StoredRef, Atomic!StoredRef
    <3>7. Atomic!Apply(p)
      BY <2>12, <3>1, <3>2, <3>3, <3>4, <3>5, <3>6
         DEF Commit, Atomic!Apply, Atomic!Answer, AtomicAnswer
    <3> QED BY <3>7 DEF Atomic!Next
  <2>13. CASE Abort(p)
    <3>1. AtomicAnswer[p] = "pending"
      BY <2>13, AnswerIsPending DEF Abort
    <3>2. AtomicAnswer' = [AtomicAnswer EXCEPT ![p] = "failed"]
      BY <2>13, AnswerChanges DEF Abort, InTransaction
    <3>3. Atomic!Fail(p)
      BY <2>13, <3>1, <3>2 DEF Abort, Atomic!Fail, Atomic!Answer, AtomicAnswer
    <3> QED BY <3>3 DEF Atomic!Next
  <2> QED
    BY <2>1, <2>3, <2>4, <2>5, <2>6, <2>7, <2>8, <2>9, <2>10, <2>11, <2>12,
       <2>13 DEF Step
<1> QED BY <1>1, <1>2

(* The service is linearizable: with any number of concurrent calls every   *)
(* behaviour of the transactions is a behaviour of the atomic ledger        *)
(* (wallet.service.ts:39-41, 107-110).                                     *)
THEOREM AtomicLedgerImplemented == Spec => ImplementsAtomicLedger
<1> QED
  BY InitImplementsAtomic, StepImplementsAtomic, Invariance, PTL
     DEF Spec, ImplementsAtomicLedger, Atomic!Spec

=============================================================================
