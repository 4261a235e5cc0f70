---------------------------- MODULE PaymentRows ----------------------------
(***************************************************************************)
(* The vocabulary shared by the payment-service modules: the rows of the   *)
(* schema payment.* (accounts, transactions, deposits) and the requests    *)
(* that the usecases turn into ledger transactions.                        *)
(***************************************************************************)
EXTENDS Integers, FiniteSets

CONSTANTS
    Accounts,    \* ids of the rows of payment.accounts
    External,    \* the external_settlement account, a singleton row
    Rank,        \* the order of the ids as strings (lock2.String() < ...)
    Opening,     \* the balances the accounts start with
    Orders,      \* razorpay_order_id of the rows of payment.deposits
    DepositOf,   \* the account and amount of each deposit row
    Keys,        \* idempotency keys callers choose
    Requests     \* the requests callers may make, see RequestShape

ASSUME AccountsAssumption ==
    /\ External \in Accounts
    /\ Rank \in [Accounts -> Int]
    /\ \A a, b \in Accounts : Rank[a] = Rank[b] => a = b
    /\ Opening \in [Accounts -> Nat]
    /\ Accounts \cap Orders = {}

ASSUME OrdersAssumption ==
    DepositOf \in [Orders -> [account : Accounts \ {External}, amount : Nat \ {0}]]

\* Tables are finite.
ASSUME TablesAssumption == IsFiniteSet(Accounts) /\ IsFiniteSet(Orders)

\* The usecases that end in LedgerRepo.ExecuteTransfer. "system" moves money
\* between two accounts the caller names, "pod" between a wallet and a pod.
TransferKinds == {"transfer", "withdraw", "system", "pod"}

\* What a request is once the usecase has resolved its accounts: the guards
\* amount > 0, from # to and key # "" of every usecase are in this set.
RequestShape ==
    [kind : TransferKinds, from : Accounts, to : Accounts,
     amount : Nat \ {0}, key : Keys]

\* The request that confirms an order: the parameters ConfirmPayment passes to
\* InsertTransaction, the order id in the place of the idempotency key.
ConfirmRequest(o) ==
    [kind |-> "confirm", from |-> External, to |-> DepositOf[o].account,
     amount |-> DepositOf[o].amount, key |-> o]

ConfirmRequests == {ConfirmRequest(o) : o \in Orders}

\* The last conjunct: no caller of the system transfer spends the external
\* account under the id of an order, which is Razorpay's to choose.
ASSUME RequestsAssumption ==
    /\ Requests \subseteq RequestShape
    /\ \A r \in Requests : /\ r.from # r.to
                           /\ r.kind = "withdraw" => r.to = External
                           /\ r.from = External => r.key \notin Orders

\* The row of payment.transactions a request inserts, and the two journal
\* entries that go with a row (one DEBIT on the sender, one equal CREDIT).
Row(r) == [from |-> r.from, to |-> r.to, amount |-> r.amount, key |-> r.key]

TransactionRows ==
    [from : Accounts, to : Accounts, amount : Nat \ {0}, key : Keys \cup Orders]

Entries(t) ==
    {[row |-> t, account |-> t.from, amount |-> t.amount, direction |-> "debit"],
     [row |-> t, account |-> t.to, amount |-> t.amount, direction |-> "credit"]}

\* UNIQUE (idempotency_key, from_account_id).
SameKey(t, u) == t.key = u.key /\ t.from = u.from

KeyTaken(ts, r) == \E t \in ts : SameKey(t, r)
=============================================================================
