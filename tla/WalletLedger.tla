--------------------------- MODULE WalletLedger ---------------------------
(***************************************************************************)
(* What the wallet service promises: every call takes effect in one atomic  *)
(* step, between its request and its answer.  A debit either appends its    *)
(* row or is refused because the balance of that very moment is too small;  *)
(* a refund is applied unless one with the same stored reference is already *)
(* in the ledger; a top-up is always applied; a call that fails changes     *)
(* nothing.  Wallet.tla, the transactional implementation, is shown to      *)
(* implement this specification.                                            *)
(***************************************************************************)
EXTENDS WalletData

VARIABLES
    wallets,    \* customers that have a wallet
    balance,    \* balance of every wallet; InitialCredits before it exists
    ledger,     \* wallet_transactions of every customer, oldest first
    req,        \* the arguments of every call, chosen initially
    answer      \* "idle", "pending", or how the call ended

vars == <<wallets, balance, ledger, req, answer>>

Init ==
    /\ wallets \in SUBSET Customers
    /\ balance = [c \in Customers |-> InitialCredits]
    /\ ledger = [c \in Customers |-> <<>>]
    /\ req \in [Calls -> Requests]
    /\ answer = [p \in Calls |-> "idle"]

Request(p) ==
    /\ answer[p] = "idle"
    /\ answer' = [answer EXCEPT ![p] = "pending"]
    /\ UNCHANGED <<wallets, balance, ledger, req>>

Answer(p, a) ==
    /\ answer[p] = "pending"
    /\ answer' = [answer EXCEPT ![p] = a]
    /\ UNCHANGED req

Apply(p) ==
    LET r == req[p]
        c == req[p].cust
    IN  /\ Answer(p, "applied")
        /\ r.kind # "read"
        /\ Affordable(r, balance[c])
        /\ r.kind = "refund" => ~AlreadyRefunded(r, ledger[c])
        /\ wallets' = wallets \cup {c}
        /\ balance' = [balance EXCEPT ![c] = NewBalance(r, balance[c])]
        /\ ledger' = [ledger EXCEPT ![c] = Append(@, NewEntry(r, balance[c]))]

Refuse(p) ==
    /\ Answer(p, "refused")
    /\ ~Affordable(req[p], balance[req[p].cust])
    /\ UNCHANGED <<wallets, balance, ledger>>

Duplicate(p) ==
    /\ Answer(p, "duplicate")
    /\ req[p].kind = "refund"
    /\ AlreadyRefunded(req[p], ledger[req[p].cust])
    /\ wallets' = wallets \cup {req[p].cust}
    /\ UNCHANGED <<balance, ledger>>

Read(p) ==
    /\ Answer(p, "read")
    /\ req[p].kind = "read"
    /\ wallets' = wallets \cup {req[p].cust}
    /\ UNCHANGED <<balance, ledger>>

Fail(p) ==
    /\ Answer(p, "failed")
    /\ UNCHANGED <<wallets, balance, ledger>>

Next == \E p \in Calls :
            \/ Request(p)
            \/ Apply(p)
            \/ Refuse(p)
            \/ Duplicate(p)
            \/ Read(p)
            \/ Fail(p)

Spec == Init /\ [][Next]_vars

=============================================================================
