------------------------------- MODULE Bank -------------------------------
(***************************************************************************)
(* What the payment service promises about money, with no database in      *)
(* sight: a transfer and a deposit confirmation each happen at once or not *)
(* at all.  A transfer needs the funds and a fresh idempotency key; an     *)
(* order is credited when it is still open, and only then.  Ledger is      *)
(* shown to implement this specification.                                  *)
(***************************************************************************)
EXTENDS PaymentRows

VARIABLES
    balance,     \* the balance column of every account
    txns,        \* the transactions recorded so far
    deposit      \* the status of every deposit

bankVars == <<balance, txns, deposit>>

BankInit ==
    /\ balance = Opening
    /\ txns = {}
    /\ deposit = [o \in Orders |-> "created"]

\* A funded transfer under a key its sender has not used.
Transfer(r) ==
    /\ balance[r.from] >= r.amount
    /\ ~ KeyTaken(txns, r)
    /\ balance' = [balance EXCEPT ![r.from] = @ - r.amount,
                                  ![r.to] = @ + r.amount]
    /\ txns' = txns \cup {Row(r)}
    /\ UNCHANGED deposit

\* The money of an order enters from outside: the external account is named
\* in the transaction, its balance column is left alone.
Confirm(o) ==
    LET r == ConfirmRequest(o) IN
    /\ deposit[o] = "created"
    /\ ~ KeyTaken(txns, r)
    /\ deposit' = [deposit EXCEPT ![o] = "paid"]
    /\ balance' = [balance EXCEPT ![r.to] = @ + r.amount]
    /\ txns' = txns \cup {Row(r)}

BankNext ==
    \/ \E r \in Requests : Transfer(r)
    \/ \E o \in Orders : Confirm(o)

BankSpec == BankInit /\ [][BankNext]_bankVars
=============================================================================
