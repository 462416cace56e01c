------------------------------- MODULE Wallet -------------------------------
(***************************************************************************)
(* WalletService as PostgreSQL runs it: concurrent READ COMMITTED           *)
(* transactions of several API nodes and workers over the wallets and       *)
(* wallet_transactions tables.                                              *)
(*                                                                          *)
(* A call is a process.  Its program counter stands before the next         *)
(* statement whose outcome depends on the other transactions; what a        *)
(* transaction writes stays invisible until its commit, so the UPDATE, the  *)
(* INSERT of the ledger row and the COMMIT are one step, and Abort rolls a  *)
(* transaction back from wherever it is.                                    *)
(*                                                                          *)
(* owner[c] is the transaction that has the wallet row of c to itself:      *)
(* either it inserted the row and has not committed (a second INSERT waits  *)
(* on the unique index of customer_id), or it holds the FOR UPDATE lock.    *)
(***************************************************************************)
EXTENDS WalletData

CONSTANT NoCall    \* owner of a wallet row that no transaction holds

ASSUME WalletAssumption == NoCall \notin Calls

VARIABLES
    wallets,    \* customers with a committed wallets row
    balance,    \* wallets.balance; what create() would insert if there is no row
    ledger,     \* committed wallet_transactions of every customer
    req,        \* the arguments of every call
    owner,      \* the transaction that holds the wallet row
    before,     \* balanceBefore, the balance a transaction has read
    pc          \* where a call is, or how it ended

vars == <<wallets, balance, ledger, req, owner, before, pc>>

InTransaction == {"find", "create", "lock", "check", "apply"}

Outcomes == {"applied", "refused", "duplicate", "read", "conflict", "aborted"}

Init ==
    /\ wallets \in SUBSET Customers
    /\ balance = [c \in Customers |-> InitialCredits]
    /\ ledger = [c \in Customers |-> <<>>]
    /\ req \in [Calls -> Requests]
    /\ owner = [c \in Customers |-> NoCall]
    /\ before = [p \in Calls |-> 0]
    /\ pc = [p \in Calls |-> "idle"]

-----------------------------------------------------------------------------

Goto(p, label) == pc' = [pc EXCEPT ![p] = label]

(* The end of a transaction releases the row, whether it held it or not.   *)
Release(p) ==
    owner' = [c \in Customers |-> IF owner[c] = p THEN NoCall ELSE owner[c]]

(* A caller invokes the service (and its transaction begins).              *)
Start(p) ==
    /\ pc[p] = "idle"
    /\ Goto(p, "find")
    /\ UNCHANGED <<wallets, balance, ledger, req, owner, before>>

(* getOrCreateWallet, findUnique: it sees committed rows only.             *)
FindWallet(p) ==
    /\ pc[p] = "find"
    /\ Goto(p, IF req[p].cust \notin wallets THEN "create"
               ELSE IF req[p].kind = "read" THEN "read" ELSE "lock")
    /\ UNCHANGED <<wallets, balance, ledger, req, owner, before>>

(* Mutant: getOrCreateWallet is called without the transaction's client.    *)
CreateWalletOutside(p) ==
    /\ pc[p] = "create"
    /\ req[p].kind # "read"
    /\ req[p].cust \notin wallets
    /\ wallets' = wallets \cup {req[p].cust}
    /\ Goto(p, "lock")
    /\ UNCHANGED <<balance, ledger, req, owner, before>>

(* getOrCreateWallet, create inside a transaction: the new row is the       *)
(* transaction's own until it commits.                                     *)
CreateWallet(p) ==
    /\ pc[p] = "create"
    /\ req[p].kind # "read"
    /\ req[p].cust \notin wallets
    /\ owner[req[p].cust] = NoCall
    /\ owner' = [owner EXCEPT ![req[p].cust] = p]
    /\ Goto(p, "lock")
    /\ UNCHANGED <<wallets, balance, ledger, req, before>>

(* getBalance and listTransactions call getOrCreateWallet with the plain    *)
(* client: the INSERT commits by itself.                                   *)
CreateAndRead(p) ==
    /\ pc[p] = "create"
    /\ req[p].kind = "read"
    /\ req[p].cust \notin wallets
    /\ owner[req[p].cust] = NoCall
    /\ wallets' = wallets \cup {req[p].cust}
    /\ Goto(p, "read")
    /\ UNCHANGED <<balance, ledger, req, owner, before>>

(* create after another transaction's row was committed: unique violation  *)
(* (P2002), which nothing catches.                                         *)
CreateConflict(p) ==
    /\ pc[p] = "create"
    /\ req[p].cust \in wallets
    /\ Goto(p, "conflict")
    /\ UNCHANGED <<wallets, balance, ledger, req, owner, before>>

(* Mutant: a SELECT without FOR UPDATE neither waits nor locks.             *)
SelectWallet(p) ==
    /\ pc[p] = "lock"
    /\ before' = [before EXCEPT ![p] = balance[req[p].cust]]
    /\ Goto(p, IF req[p].kind = "refund" THEN "check" ELSE "apply")
    /\ UNCHANGED <<wallets, balance, ledger, req, owner>>

(* SELECT ... FOR UPDATE waits for the owner and then returns the row as    *)
(* last committed.                                                         *)
LockWallet(p) ==
    /\ pc[p] = "lock"
    /\ owner[req[p].cust] \in {NoCall, p}
    /\ owner' = [owner EXCEPT ![req[p].cust] = p]
    /\ before' = [before EXCEPT ![p] = balance[req[p].cust]]
    /\ Goto(p, IF req[p].kind = "refund" THEN "check" ELSE "apply")
    /\ UNCHANGED <<wallets, balance, ledger, req>>

(* The idempotency check of refundCredits finds an earlier refund: the      *)
(* transaction commits without touching the balance.                       *)
RefundDuplicate(p) ==
    /\ pc[p] = "check"
    /\ AlreadyRefunded(req[p], ledger[req[p].cust])
    /\ wallets' = wallets \cup {req[p].cust}
    /\ Release(p)
    /\ Goto(p, "duplicate")
    /\ UNCHANGED <<balance, ledger, req, before>>

(* The idempotency check of refundCredits finds nothing.                   *)
RefundFresh(p) ==
    /\ pc[p] = "check"
    /\ ~AlreadyRefunded(req[p], ledger[req[p].cust])
    /\ Goto(p, "apply")
    /\ UNCHANGED <<wallets, balance, ledger, req, owner, before>>

(* Mutant: the 402 leaves the transaction open, with its lock.              *)
RefuseHoldingLock(p) ==
    /\ pc[p] = "apply"
    /\ ~Affordable(req[p], before[p])
    /\ Goto(p, "refused")
    /\ UNCHANGED <<wallets, balance, ledger, req, owner, before>>

(* deductCreditsAtomic throws 402 INSUFFICIENT_FUNDS: rollback.             *)
Refuse(p) ==
    /\ pc[p] = "apply"
    /\ ~Affordable(req[p], before[p])
    /\ Release(p)
    /\ Goto(p, "refused")
    /\ UNCHANGED <<wallets, balance, ledger, req, before>>

(* update of wallets, create of the wallet_transactions row, commit.  All   *)
(* three operations compute both from the balance read under the lock.     *)
Commit(p) ==
    LET c == req[p].cust
    IN  /\ pc[p] = "apply"
        /\ Affordable(req[p], before[p])
        /\ wallets' = wallets \cup {c}
        /\ balance' = [balance EXCEPT ![c] = NewBalance(req[p], before[p])]
        /\ ledger' = [ledger EXCEPT ![c] = Append(@, NewEntry(req[p], before[p]))]
        /\ Release(p)
        /\ Goto(p, "applied")
        /\ UNCHANGED <<req, before>>

(* Prisma's maxWait or timeout expires, or the connection or the process    *)
(* is lost: the database rolls the transaction back.                       *)
Abort(p) ==
    /\ pc[p] \in InTransaction
    /\ Release(p)
    /\ Goto(p, "aborted")
    /\ UNCHANGED <<wallets, balance, ledger, req, before>>

-----------------------------------------------------------------------------

Step(p) ==
    \/ FindWallet(p)
    \/ CreateWallet(p)
    \/ CreateAndRead(p)
    \/ CreateConflict(p)
    \/ LockWallet(p)
    \/ RefundDuplicate(p)
    \/ RefundFresh(p)
    \/ Refuse(p)
    \/ Commit(p)

Next == \E p \in Calls : Start(p) \/ Step(p) \/ Abort(p)

Spec == Init /\ [][Next]_vars

(* A call that was made goes on unless the database makes it wait; nothing  *)
(* obliges a caller to make a call, nor a transaction to abort.  Weak       *)
(* fairness is enough for a waiting call: a call is made once, so the       *)
(* transactions ahead of it end and leave the row for good.                *)
Fairness == \A p \in Calls : WF_vars(Step(p))

FairSpec == Spec /\ Fairness

-----------------------------------------------------------------------------

(* Every variable has its type; in particular no balance is ever negative.  *)
(* deductCreditsAtomic, wallet.service.ts:66-78.                           *)
TypeOK ==
    /\ wallets \in SUBSET Customers
    /\ balance \in [Customers -> Nat]
    /\ ledger \in [Customers -> Seq(Entries)]
    /\ req \in [Calls -> Requests]
    /\ owner \in [Customers -> Calls \cup {NoCall}]
    /\ before \in [Calls -> Nat]
    /\ pc \in [Calls -> {"idle"} \cup InTransaction \cup Outcomes]

(* No update is lost: the rows of a wallet form a chain in which each       *)
(* operation starts from the balance the previous one left, and the wallet  *)
(* shows the balance after the last row (wallet.service.ts:80-99, 155-174,  *)
(* 207-226 under the lock of 53-57, 124-128, 193-197).                     *)
LedgerChains ==
    \A c \in Customers :
        /\ balance[c] = IF ledger[c] = <<>> THEN InitialCredits
                        ELSE ledger[c][Len(ledger[c])].after
        /\ \A i \in 1..Len(ledger[c]) :
               ledger[c][i].before = IF i = 1 THEN InitialCredits
                                     ELSE ledger[c][i-1].after

(* At most one effective refund per reference, however many workers ask     *)
(* for it at once (the comment of refundCredits, wallet.service.ts:108).   *)
RefundAtMostOnce ==
    \A c \in Customers : \A i, j \in 1..Len(ledger[c]) :
        /\ ledger[c][i].type = "refund" /\ ledger[c][j].type = "refund"
        /\ ledger[c][i].rtype = ledger[c][j].rtype
        /\ ledger[c][i].ref = ledger[c][j].ref
        => i = j

(* "Exactly one financial credit is applied" (wallet.service.ts:108-110), as *)
(* far as the code can tell references apart: when a refund returns          *)
(* normally, a refund of the same wallet and type has been applied, by it or *)
(* by another call, whose reference is *stored* alike (wallet.service.ts:8,  *)
(* 127-150).  The req_ ids of all the production callers are stored as NULL: *)
(* for them this is one refund per wallet and type, and no more.            *)
RefundSettles ==
    \A p \in Calls :
        req[p].kind = "refund" /\ pc[p] \in {"applied", "duplicate"} =>
            \E q \in Calls : /\ pc[q] = "applied"
                             /\ req[q].kind = "refund"
                             /\ req[q].cust = req[p].cust
                             /\ req[q].rtype = req[p].rtype
                             /\ StoredRef(req[q].ref) = StoredRef(req[p].ref)

(* Every call that is made ends: no early return (402, repeated refund,     *)
(* rollback) leaves the row locked, and no two transactions wait for each   *)
(* other (wallet.service.ts:66-76, 147-150).                               *)
CallsEnd == \A p \in Calls : pc[p] = "find" ~> pc[p] \in Outcomes

(* The implementation relation: a call is pending while its transaction     *)
(* runs, and both ways of failing look alike to the caller.                *)
Atomic == INSTANCE WalletLedger WITH
    answer <- [p \in Calls |->
                  IF pc[p] \in InTransaction THEN "pending"
                  ELSE IF pc[p] \in {"conflict", "aborted"} THEN "failed"
                  ELSE pc[p]]

(* The calls of any number of nodes are linearizable: each takes effect     *)
(* atomically as WalletLedger says (wallet.service.ts:39, 108).            *)
ImplementsAtomicLedger == Atomic!Spec

=============================================================================
