---------------------------- MODULE WalletData ----------------------------
(***************************************************************************)
(* The data of the wallet service (src/src/modules/wallet/wallet.service.ts *)
(* and the wallets / wallet_transactions tables): requests, ledger rows and *)
(* the pure parts of the three balance-changing operations.  Both the       *)
(* atomic specification (WalletLedger) and the transactional one (Wallet)   *)
(* are built from it.                                                       *)
(*                                                                          *)
(* Amounts are natural numbers of ten-thousandths of a credit: the code     *)
(* rounds every balance to four decimals (Math.round(x * 10000) / 10000).   *)
(***************************************************************************)
EXTENDS Naturals, Sequences

CONSTANTS
    Customers,        \* customer ids
    Calls,            \* invocations of the service; each is made at most once
    Requests,         \* the arguments a call may be made with
    RefTypes,         \* values of reference_type
    RefIds,           \* reference ids as the callers pass them
    UuidRefs,         \* the reference ids that are UUIDs
    NoRef,            \* SQL NULL in wallet_transactions.reference_id
    InitialCredits    \* free credits of a new wallet

Kinds == {"debit", "refund", "topup", "read"}

AllRequests ==
    [kind: Kinds, cust: Customers, amount: Nat, rtype: RefTypes, ref: RefIds]

ASSUME WalletDataAssumption ==
    /\ Requests \subseteq AllRequests
    /\ "payment" \in RefTypes
    /\ UuidRefs \subseteq RefIds
    /\ NoRef \notin RefIds
    /\ InitialCredits \in Nat

Entries ==
    [type: {"debit", "refund", "credit"}, amount: Nat, before: Nat, after: Nat,
     rtype: RefTypes, ref: RefIds \cup {NoRef}]

(* toValidUuidOrNull: whatever is not a UUID is stored as NULL.            *)
StoredRef(id) == IF id \in UuidRefs THEN id ELSE NoRef

(* Mutant: the check only asks for a positive balance.                      *)
AffordableIfPositive(r, b) == r.kind = "debit" => b > 0

(* The balance check of deductCreditsAtomic; the other operations have none. *)
Affordable(r, b) == r.kind = "debit" => r.amount <= b

NewBalance(r, b) == IF r.kind = "debit" THEN b - r.amount ELSE b + r.amount

(* The row an operation appends to wallet_transactions, given the balance   *)
(* it read.                                                                 *)
NewEntry(r, b) ==
    [type   |-> IF r.kind = "topup" THEN "credit" ELSE r.kind,
     amount |-> r.amount,
     before |-> b,
     after  |-> NewBalance(r, b),
     rtype  |-> IF r.kind = "topup" THEN "payment" ELSE r.rtype,
     ref    |-> StoredRef(r.ref)]

(* Mutant: only the newest row of the wallet is compared.                   *)
AlreadyRefundedLast(r, rows) ==
    /\ rows # <<>>
    /\ rows[Len(rows)].type = "refund"
    /\ rows[Len(rows)].rtype = r.rtype
    /\ rows[Len(rows)].ref = StoredRef(r.ref)

(* Mutant: reference_id is undefined, a filter that Prisma ignores.         *)
AlreadyRefundedAnyRef(r, rows) ==
    \E i \in DOMAIN rows : /\ rows[i].type = "refund"
                           /\ rows[i].rtype = r.rtype

(* The findFirst of refundCredits: a refund row of this wallet with the     *)
(* same reference_type and the same *stored* reference_id.                  *)
AlreadyRefunded(r, rows) ==
    \E i \in DOMAIN rows : /\ rows[i].type = "refund"
                           /\ rows[i].rtype = r.rtype
                           /\ rows[i].ref = StoredRef(r.ref)

=============================================================================
