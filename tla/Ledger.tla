------------------------------- MODULE Ledger -------------------------------
(***************************************************************************)
(* The payment service's ledger, one SQL statement at a time: the usecases *)
(* Transfer, RequestWithdrawal, TransferToPod and SystemTransfer, which    *)
(* all end in LedgerRepo.ExecuteTransfer, and DepositRepo.ConfirmPayment.  *)
(*                                                                         *)
(* Every client runs one request at a time on a connection of its own.     *)
(* PostgreSQL is modelled by what the service relies on: READ COMMITTED,   *)
(* row locks held to the end of the transaction, writes visible at commit, *)
(* constraints checked by the statement that breaks them, and a detector   *)
(* that aborts one transaction of a cycle of waiters.                      *)
(***************************************************************************)
EXTENDS PaymentRows, FiniteSetsExt

CONSTANTS
    Clients,     \* the concurrent request handlers
    MaxFaults    \* bound: lost connections, crashes and failed reads

ASSUME MaxFaultsAssumption == MaxFaults \in Nat

VARIABLES
    balance,     \* payment.accounts.balance, committed
    txns,        \* payment.transactions, committed
    journal,     \* payment.journal_entries, committed
    deposit,     \* payment.deposits.status, committed
    req,         \* the request each client is serving
    pc,          \* the statement each client executes next
    seen,        \* the sender's balance as the FOR UPDATE read returned it
    work,        \* the uncommitted writes of each client's transaction
    outcome,     \* what the request was answered
    faults       \* faults so far, up to MaxFaults

bankState == <<balance, txns, journal, deposit>>
vars == <<balance, txns, journal, deposit, req, pc, seen, work, outcome, faults>>

NoRequest == [kind |-> "none"]

NoWork == [txns |-> {}, entries |-> {}, paid |-> {},
           delta |-> [a \in Accounts |-> 0]]

\* MarkDepositFailed writes "failed"; no handler calls it.
Statuses == {"created", "paid"}

\* pc values that belong to ExecuteTransfer and to ConfirmPayment.
TransferSteps == {"first", "second", "check", "insert", "journal", "balances", "commit"}
ConfirmSteps == {"mark", "credit", "insert", "journal", "commit"}

Outcomes == {"none", "ok", "replayed", "noop", "insufficient", "duplicate",
             "deadlock", "error"}

Init ==
    /\ balance = Opening
    /\ txns = {}
    /\ journal = {}
    /\ deposit = [o \in Orders |-> "created"]
    /\ req = [p \in Clients |-> NoRequest]
    /\ pc = [p \in Clients |-> "idle"]
    /\ seen = [p \in Clients |-> 0]
    /\ work = [p \in Clients |-> NoWork]
    /\ outcome = [p \in Clients |-> "none"]
    /\ faults = 0

-----------------------------------------------------------------------------
(* Row locks.  The statements a transaction has executed say which rows it *)
(* holds, the one it executes next which rows it wants.                    *)

\* A variant that locks the sender first, whatever the ids.
LockSenderFirst(r) == r.from

\* ExecuteTransfer locks the two accounts in the order of their ids.
LockFirst(r) == IF Rank[r.to] < Rank[r.from] THEN r.to ELSE r.from
LockSecond(r) == IF LockFirst(r) = r.from THEN r.to ELSE r.from

Lock(row, mode) == [row |-> row, mode |-> mode]

\* FOR UPDATE conflicts with every mode, an UPDATE that leaves the key alone
\* with all but the FOR KEY SHARE of a foreign-key check.
Conflict(l, m) ==
    /\ l.row = m.row
    /\ "update" \in {l.mode, m.mode} \/ {l.mode, m.mode} = {"nokey"}

At(p, steps, row, mode) == IF pc[p] \in steps THEN {Lock(row, mode)} ELSE {}

\* Variants: the second SELECT without FOR UPDATE; a refused transfer that
\* returns without its Rollback.
HoldsFirstOnly(p) ==
    LET r == req[p] IN
    IF r.kind \in TransferKinds
    THEN At(p, TransferSteps \ {"first"}, LockFirst(r), "update")
    ELSE {}

HoldsAfterRefusal(p) ==
    IF req[p].kind \in TransferKinds /\ outcome[p] \in {"none", "insufficient"}
    THEN At(p, (TransferSteps \cup {"done"}) \ {"first"}, LockFirst(req[p]), "update")
    ELSE {}

Holds(p) ==
    LET r == req[p] IN
    IF r.kind \in TransferKinds
    THEN At(p, TransferSteps \ {"first"}, LockFirst(r), "update")
         \cup At(p, TransferSteps \ {"first", "second"}, LockSecond(r), "update")
    ELSE IF r.kind = "confirm"
    THEN At(p, ConfirmSteps \ {"mark"}, r.key, "nokey")
         \cup At(p, {"insert", "journal", "commit"}, r.to, "nokey")
         \cup At(p, {"journal", "commit"}, r.from, "keyshare")
    ELSE {}

\* The foreign keys of InsertTransaction ask a confirmation for a share of the
\* external account's row; a transfer holds both rows already.
Wants(p) ==
    LET r == req[p] IN
    IF r.kind \in TransferKinds
    THEN At(p, {"first"}, LockFirst(r), "update")
         \cup At(p, {"second"}, LockSecond(r), "update")
    ELSE IF r.kind = "confirm"
    THEN At(p, {"mark"}, r.key, "nokey")
         \cup At(p, {"credit"}, r.to, "nokey")
         \cup At(p, {"insert"}, r.from, "keyshare")
    ELSE {}

WaitsFor(p, q) ==
    /\ p # q
    /\ \E l \in Holds(q), m \in Wants(p) : Conflict(l, m)

\* A variant that waits for transfers only.
GrantedDespiteConfirmations(p) ==
    \A q \in Clients : req[q].kind \in TransferKinds => ~ WaitsFor(p, q)

Granted(p) == \A q \in Clients : ~ WaitsFor(p, q)

\* A cycle of waiters, and one that p is on.
IsCycle(c, n) == \A i \in 1..n : WaitsFor(c[i], c[(i % n) + 1])

InCycle(p) ==
    \E n \in 2..Cardinality(Clients) : \E c \in [1..n -> Clients] :
        c[1] = p /\ IsCycle(c, n)

-----------------------------------------------------------------------------
(* The life of a request.                                                  *)

\* A variant that sends every request to ExecuteTransfer.
FirstStepLedger(kind) == "first"

\* The first statement of each usecase: Transfer and RequestWithdrawal look
\* the idempotency key up, the others go to the ledger directly.
FirstStep(kind) ==
    IF kind \in {"transfer", "withdraw"} THEN "lookup"
    ELSE IF kind \in {"pod", "system"} THEN "first" ELSE "mark"

Goto(p, step) == pc' = [pc EXCEPT ![p] = step]

Submit(p) ==
    /\ pc[p] = "idle"
    /\ \E r \in Requests \cup ConfirmRequests :
        /\ req' = [req EXCEPT ![p] = r]
        /\ Goto(p, FirstStep(r.kind))
    /\ UNCHANGED <<balance, txns, journal, deposit, seen, work, outcome, faults>>

\* A caller that got no answer it can rely on repeats the request, key and all.
Retry(p) ==
    /\ pc[p] = "done"
    /\ outcome[p] \in {"error", "deadlock"}
    /\ Goto(p, FirstStep(req[p].kind))
    /\ outcome' = [outcome EXCEPT ![p] = "none"]
    /\ UNCHANGED <<balance, txns, journal, deposit, req, seen, work, faults>>

\* The end of a request: the transaction, if there is one, is over.
Answer(p, o) ==
    /\ Goto(p, "done")
    /\ outcome' = [outcome EXCEPT ![p] = o]
    /\ work' = [work EXCEPT ![p] = NoWork]
    /\ seen' = [seen EXCEPT ![p] = 0]
    /\ UNCHANGED req

\* A variant that looks the key up without its sender.
LookupByKeyAlone(p) ==
    /\ pc[p] = "lookup"
    /\ IF \E t \in txns : t.key = req[p].key
       THEN Answer(p, "replayed")
       ELSE Goto(p, "first") /\ UNCHANGED <<req, seen, work, outcome>>
    /\ UNCHANGED <<bankState, faults>>

\* GetByIdempotencyKey, outside any transaction: a hit is replayed without a
\* look at the amount or the receiver, a miss goes on to the ledger.
Lookup(p) ==
    /\ pc[p] = "lookup"
    /\ \/ /\ KeyTaken(txns, req[p])
          /\ Answer(p, "replayed")
       \/ /\ ~ KeyTaken(txns, req[p])
          /\ Goto(p, "first")
          /\ UNCHANGED <<req, seen, work, outcome>>
    /\ UNCHANGED <<bankState, faults>>

\* RequestWithdrawal drops the error of the lookup and goes on; Transfer's
\* returns it, which is a case of Fault.
LookupErrorIgnored(p) ==
    /\ pc[p] = "lookup"
    /\ req[p].kind = "withdraw"
    /\ faults < MaxFaults
    /\ faults' = faults + 1
    /\ Goto(p, "first")
    /\ UNCHANGED <<bankState, req, seen, work, outcome>>

\* GetAccountByIDForUpdate on the lower id, then on the higher one.  The row
\* returned for the sender is the balance that is checked later.
LockAccount(p, step, account, next) ==
    /\ pc[p] = step
    /\ Granted(p)
    /\ seen' = IF account = req[p].from
               THEN [seen EXCEPT ![p] = balance[account]] ELSE seen
    /\ Goto(p, next)
    /\ UNCHANGED <<bankState, req, work, outcome, faults>>

TakeFirst(p) == LockAccount(p, "first", LockFirst(req[p]), "second")
TakeSecond(p) == LockAccount(p, "second", LockSecond(req[p]), "check")

\* A variant that compares nothing.
CheckNothing(p) ==
    /\ pc[p] = "check"
    /\ Goto(p, "insert")
    /\ UNCHANGED <<bankState, faults, req, seen, work, outcome>>

CheckFunds(p) ==
    /\ pc[p] = "check"
    /\ \/ /\ seen[p] < req[p].amount
          /\ Answer(p, "insufficient")
       \/ /\ seen[p] >= req[p].amount
          /\ Goto(p, "insert")
          /\ UNCHANGED <<req, seen, work, outcome>>
    /\ UNCHANGED <<bankState, faults>>

\* A variant that credits the order without marking it.
MarkForgotten(p) ==
    /\ pc[p] = "mark"
    /\ Granted(p)
    /\ deposit[req[p].key] = "created"
    /\ Goto(p, "credit")
    /\ UNCHANGED <<bankState, faults, req, seen, work, outcome>>

\* MarkDepositPaidIfCreated: an order that is no longer open ends the
\* transaction as a no-op.
MarkPaid(p) ==
    /\ pc[p] = "mark"
    /\ Granted(p)
    /\ \/ /\ deposit[req[p].key] # "created"
          /\ Answer(p, "noop")
       \/ /\ deposit[req[p].key] = "created"
          /\ work' = [work EXCEPT ![p].paid = {req[p].key}]
          /\ Goto(p, "credit")
          /\ UNCHANGED <<req, seen, outcome>>
    /\ UNCHANGED <<bankState, faults>>

\* A variant that also debits the external account's balance column.
CreditBothSides(p) ==
    /\ pc[p] = "credit"
    /\ Granted(p)
    /\ work' = [work EXCEPT ![p].delta = [@ EXCEPT ![req[p].from] = - req[p].amount,
                                                   ![req[p].to] = req[p].amount]]
    /\ Goto(p, "insert")
    /\ UNCHANGED <<bankState, req, seen, outcome, faults>>

\* ConfirmPayment's AddBalance, on the wallet alone.
Credit(p) ==
    /\ pc[p] = "credit"
    /\ Granted(p)
    /\ work' = [work EXCEPT ![p].delta[req[p].to] = req[p].amount]
    /\ Goto(p, "insert")
    /\ UNCHANGED <<bankState, req, seen, outcome, faults>>

\* A variant without the unique constraint.
InsertBlindly(p) ==
    /\ pc[p] = "insert"
    /\ Granted(p)
    /\ work' = [work EXCEPT ![p].txns = {Row(req[p])}]
    /\ Goto(p, "journal")
    /\ UNCHANGED <<bankState, faults, req, seen, outcome>>

\* InsertTransaction.  MapDBErrors makes ErrAlreadyExists of the violated
\* unique constraint, which no usecase recovers from.
Insert(p) ==
    /\ pc[p] = "insert"
    /\ Granted(p)
    /\ \/ /\ KeyTaken(txns, req[p])
          /\ Answer(p, "duplicate")
       \/ /\ ~ KeyTaken(txns, req[p])
          /\ work' = [work EXCEPT ![p].txns = {Row(req[p])}]
          /\ Goto(p, "journal")
          /\ UNCHANGED <<req, seen, outcome>>
    /\ UNCHANGED <<bankState, faults>>

\* A variant that forgets the credit entry.
JournalDebitOnly(p) ==
    /\ pc[p] = "journal"
    /\ work' = [work EXCEPT ![p].entries =
                   {e \in Entries(Row(req[p])) : e.direction = "debit"}]
    /\ Goto(p, IF req[p].kind = "confirm" THEN "commit" ELSE "balances")
    /\ UNCHANGED <<bankState, req, seen, outcome, faults>>

\* InsertJournalEntry, the debit and the credit.
Journal(p) ==
    /\ pc[p] = "journal"
    /\ work' = [work EXCEPT ![p].entries = Entries(Row(req[p]))]
    /\ Goto(p, IF req[p].kind = "confirm" THEN "commit" ELSE "balances")
    /\ UNCHANGED <<bankState, req, seen, outcome, faults>>

\* A variant that forgets the receiver.
BalancesDebitOnly(p) ==
    /\ pc[p] = "balances"
    /\ work' = [work EXCEPT ![p].delta[req[p].from] = - req[p].amount]
    /\ Goto(p, "commit")
    /\ UNCHANGED <<bankState, req, seen, outcome, faults>>

\* The two AddBalance statements of ExecuteTransfer.  CHECK (balance >= 0) is
\* not a guard here: NoOverdraft says the service never depends on it.
Balances(p) ==
    /\ pc[p] = "balances"
    /\ work' = [work EXCEPT ![p].delta = [@ EXCEPT ![req[p].from] = - req[p].amount,
                                                   ![req[p].to] = req[p].amount]]
    /\ Goto(p, "commit")
    /\ UNCHANGED <<bankState, req, seen, outcome, faults>>

\* The writes of p's transaction become visible, all together.
Publish(p) ==
    /\ balance' = [a \in Accounts |-> balance[a] + work[p].delta[a]]
    /\ txns' = txns \cup work[p].txns
    /\ journal' = journal \cup work[p].entries
    /\ deposit' = [o \in Orders |-> IF o \in work[p].paid THEN "paid" ELSE deposit[o]]

Commit(p) ==
    /\ pc[p] = "commit"
    /\ Publish(p)
    /\ Answer(p, "ok")
    /\ UNCHANGED faults

\* The connection breaks after the server committed: the request fails though
\* the money has moved.
CommitUnacknowledged(p) ==
    /\ pc[p] = "commit"
    /\ faults < MaxFaults
    /\ faults' = faults + 1
    /\ Publish(p)
    /\ Answer(p, "error")

\* Any statement may fail for a reason of its own, or the process may die:
\* the deferred Rollback, or the server, throws the transaction away.
Fault(p) ==
    /\ pc[p] \notin {"idle", "done"}
    /\ faults < MaxFaults
    /\ faults' = faults + 1
    /\ Answer(p, "error")
    /\ UNCHANGED bankState

\* SQLSTATE 40P01, which MapDBErrors passes through unmapped.
DeadlockAbort(p) ==
    /\ InCycle(p)
    /\ Answer(p, "deadlock")
    /\ UNCHANGED <<bankState, faults>>

-----------------------------------------------------------------------------
Step(p) ==
    \/ Lookup(p) \/ TakeFirst(p) \/ TakeSecond(p) \/ CheckFunds(p)
    \/ MarkPaid(p) \/ Credit(p) \/ Insert(p) \/ Journal(p)
    \/ Balances(p) \/ Commit(p)

Next ==
    \E p \in Clients :
        \/ Submit(p) \/ Retry(p) \/ Step(p) \/ DeadlockAbort(p)
        \/ LookupErrorIgnored(p) \/ CommitUnacknowledged(p) \/ Fault(p)

Spec == Init /\ [][Next]_vars

\* A handler that can execute its next statement does; a lock that is released
\* again and again is granted in the end (PostgreSQL queues its waiters); the
\* deadlock detector runs. Nobody has to submit, repeat or fail.
Fairness ==
    \A p \in Clients : SF_vars(Step(p)) /\ WF_vars(DeadlockAbort(p))

FairSpec == Spec /\ Fairness

-----------------------------------------------------------------------------
(* Properties.                                                             *)

Steps == TransferSteps \cup ConfirmSteps \cup {"idle", "lookup", "done"}

EntryRows ==
    [row : TransactionRows, account : Accounts, amount : Nat \ {0},
     direction : {"debit", "credit"}]

Works ==
    [txns : SUBSET TransactionRows, entries : SUBSET EntryRows,
     paid : SUBSET Orders, delta : [Accounts -> Int]]

\* Which statements belong to which kind of request.
ShapeOf(p) ==
    /\ req[p].kind = "none" => pc[p] = "idle"
    /\ req[p].kind = "confirm" => pc[p] \in ConfirmSteps \cup {"done"}
    /\ req[p].kind \in TransferKinds => pc[p] \in TransferSteps \cup {"lookup", "done"}

\* The shape of the state.
TypeOK ==
    /\ balance \in [Accounts -> Int]
    /\ txns \subseteq TransactionRows
    /\ journal \subseteq EntryRows
    /\ deposit \in [Orders -> Statuses]
    /\ req \in [Clients -> {NoRequest} \cup Requests \cup ConfirmRequests]
    /\ pc \in [Clients -> Steps]
    /\ seen \in [Clients -> Int]
    /\ work \in [Clients -> Works]
    /\ outcome \in [Clients -> Outcomes]
    /\ faults \in 0..MaxFaults
    /\ \A p \in Clients : ShapeOf(p)

\* Two connections never hold a row in conflicting modes, whatever order the
\* statements of transfers and confirmations interleave in.
LocksExclude ==
    \A p, q \in Clients : p # q =>
        \A l \in Holds(p), m \in Holds(q) : ~ Conflict(l, m)

\* What the statements p has executed have written, and nothing else.
Inserted(p) == pc[p] \in {"journal", "balances", "commit"}
Journaled(p) == pc[p] \in {"balances", "commit"}
Marked(p) == req[p].kind = "confirm" /\ pc[p] \in ConfirmSteps \ {"mark"}
Moved(p) ==
    \/ pc[p] = "commit"
    \/ req[p].kind = "confirm" /\ pc[p] \in {"insert", "journal"}

SenderRead(p) ==
    /\ req[p].kind \in TransferKinds
    /\ \/ pc[p] \in TransferSteps \ {"first", "second"}
       \/ pc[p] = "second" /\ LockFirst(req[p]) = req[p].from
FundsChecked(p) ==
    /\ req[p].kind \in TransferKinds
    /\ pc[p] \in {"insert", "journal", "balances", "commit"}

Moves(r) ==
    [a \in Accounts |->
        IF a = r.to THEN r.amount
        ELSE IF a = r.from /\ r.kind # "confirm" THEN - r.amount ELSE 0]

WorkOf(p) ==
    /\ work[p].txns = IF Inserted(p) THEN {Row(req[p])} ELSE {}
    /\ work[p].entries = IF Journaled(p) THEN Entries(Row(req[p])) ELSE {}
    /\ work[p].paid = IF Marked(p) THEN {req[p].key} ELSE {}
    /\ work[p].delta = IF Moved(p) THEN Moves(req[p]) ELSE NoWork.delta

\* A transaction that reaches its commit carries all of its writes: the row,
\* both journal entries, both balances (for a confirmation: the wallet's, and
\* the order's new status), and a request outside a transaction carries none.
WorkIsComplete == \A p \in Clients : WorkOf(p)

ReadsOf(p) ==
    /\ SenderRead(p) => seen[p] = balance[req[p].from]
    /\ FundsChecked(p) => balance[req[p].from] >= req[p].amount
    /\ Inserted(p) => ~ KeyTaken(txns, req[p])
    /\ Marked(p) => deposit[req[p].key] = "created"

\* What a transaction has read and decided on is still true when it commits,
\* whatever committed in between: the sender's balance as it was read, the
\* funds it covers, the key that was free, the order that was open.
ReadsStayTrue == \A p \in Clients : ReadsOf(p)

\* No account is ever overdrawn, however many requests of one sender race
\* between the balance check and the commit (ledger_repo.go:57).
NoOverdraft == \A a \in Accounts : balance[a] >= 0

\* A key pays once: two committed rows of one sender never share a key, with
\* retries, lost commit acknowledgements and ignored lookup errors.
ChargedOnce == \A t, u \in txns : SameKey(t, u) => t = u

\* The journal holds exactly one debit and one equal credit per transaction.
DoubleEntry == journal = UNION {Entries(t) : t \in txns}

\* An order is marked paid if and only if its credit has been recorded, so no
\* number of confirmations, racing or repeated, credits it again or loses it.
PaidMeansCredited ==
    \A o \in Orders : deposit[o] = "paid" <=> Row(ConfirmRequest(o)) \in txns

Total(amounts, S) == LET value(x) == amounts[x] IN MapThenSumSet(value, S)

Posted(a, direction) ==
    Total([e \in journal |-> e.amount],
          {e \in journal : e.account = a /\ e.direction = direction})

\* What races, crashes, retries and repeated confirmations may not do to the
\* money of ExecuteTransfer and ConfirmPayment, all at once: no overdraft, no
\* second charge of a key, no half of a double entry, no order credited twice
\* or paid without credit, no commit on a read that has become false.
MoneySafe == NoOverdraft /\ ChargedOnce /\ DoubleEntry /\ PaidMeansCredited /\ ReadsStayTrue

\* The balance column of every account but the external one is what its
\* journal entries add up to: no update is lost to an interleaving.  The sum
\* of all balances moves with the paid orders and nothing else.
BooksAgree ==
    LET paidIn == [o \in Orders |-> DepositOf[o].amount]
    IN /\ \A a \in Accounts \ {External} :
              balance[a] = Opening[a] + Posted(a, "credit") - Posted(a, "debit")
       /\ Total(balance, Accounts) = Total(Opening, Accounts)
              + Total(paidIn, {o \in Orders : deposit[o] = "paid"})

\* Success is only reported for money that has moved: the row of an answered
\* request is there, a replay has a row to show, a no-op confirmation an order
\* that is paid.
AnswersAreHonest ==
    \A p \in Clients :
        /\ outcome[p] = "ok" => Row(req[p]) \in txns
        /\ outcome[p] \in {"replayed", "duplicate"} => KeyTaken(txns, req[p])
        /\ outcome[p] = "noop" => deposit[req[p].key] = "paid"

\* ledger_repo.go:35 "Lock both accounts in sorted-ID order so two concurrent
\* transfers never deadlock": every cycle of waiters has a confirmation in it,
\* and a transfer that locks the external account.
TransfersNeverDeadlock ==
    \A n \in 2..Cardinality(Clients) : \A c \in [1..n -> Clients] :
        IsCycle(c, n) =>
            /\ \E i \in 1..n : req[c[i]].kind = "confirm"
            /\ \E i \in 1..n : /\ req[c[i]].kind \in TransferKinds
                               /\ External \in {req[c[i]].from, req[c[i]].to}

\* The reason why: a transfer that waits for a waiting transfer wants a lower
\* account than the one the other wants, so the waits cannot close a circle.
WaitsClimb ==
    \A p, q \in Clients :
        /\ WaitsFor(p, q)
        /\ req[p].kind \in TransferKinds
        /\ req[q].kind \in TransferKinds
        => \A l \in Wants(p), m \in Wants(q) : Rank[l.row] < Rank[m.row]

\* Every request that is submitted is answered: no wait for a row lasts for
\* ever.
Answered == \A p \in Clients : (pc[p] # "idle") ~> (pc[p] = "done")

\* The detailed ledger implements the abstract one: what other requests can
\* observe changes only by whole transfers and whole confirmations, each
\* allowed by the state it commits in.
Abstract == INSTANCE Bank WITH balance <- balance, txns <- txns, deposit <- deposit
ImplementsBank == Abstract!BankSpec
=============================================================================
