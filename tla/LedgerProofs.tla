---------------------------- MODULE LedgerProofs ----------------------------
(***************************************************************************)
(* Proofs about Ledger, for every set of accounts, orders, requests and    *)
(* clients.  The inductive invariant says that conflicting locks exclude   *)
(* each other, that a transaction has written what its statements say, and *)
(* that what it read stays true until it commits.                          *)
(***************************************************************************)
EXTENDS Ledger, SetSums

IInv ==
    /\ TypeOK
    /\ LocksExclude
    /\ WorkIsComplete
    /\ ReadsStayTrue
    /\ NoOverdraft
    /\ ChargedOnce
    /\ DoubleEntry
    /\ PaidMeansCredited

-----------------------------------------------------------------------------
\* Facts about requests.

LEMMA RequestFacts ==
    ASSUME NEW r \in Requests
    PROVE  /\ r.kind \in TransferKinds /\ r.kind # "none" /\ r.kind # "confirm"
           /\ r.from \in Accounts /\ r.to \in Accounts /\ r.from # r.to
           /\ r.amount \in Nat /\ r.amount > 0
           /\ Row(r) \in TransactionRows
BY RequestsAssumption DEF RequestShape, TransferKinds, Row, TransactionRows

LEMMA ConfirmFacts ==
    ASSUME NEW r \in ConfirmRequests
    PROVE  /\ r.kind = "confirm" /\ r.kind \notin TransferKinds
           /\ r.key \in Orders /\ r = ConfirmRequest(r.key)
           /\ r.from = External /\ r.from \in Accounts
           /\ r.to \in Accounts /\ r.from # r.to
           /\ r.amount \in Nat /\ r.amount > 0
           /\ Row(r) \in TransactionRows
BY OrdersAssumption, AccountsAssumption
   DEF ConfirmRequests, ConfirmRequest, TransferKinds, Row, TransactionRows

\* Which of the three forms a request has can be read off its kind.
LEMMA KindFacts ==
    ASSUME TypeOK, NEW p \in Clients
    PROVE  /\ req[p].kind \in TransferKinds => req[p] \in Requests
           /\ req[p].kind = "confirm" => req[p] \in ConfirmRequests
           /\ req[p].kind \in TransferKinds \cup {"confirm", "none"}
BY RequestFacts, ConfirmFacts DEF TypeOK, NoRequest, TransferKinds

LEMMA ActiveFacts ==
    ASSUME TypeOK, NEW p \in Clients, pc[p] # "idle"
    PROVE  /\ req[p] \in Requests \cup ConfirmRequests
           /\ req[p].kind \in TransferKinds \/ req[p].kind = "confirm"
           /\ req[p].from \in Accounts /\ req[p].to \in Accounts
           /\ req[p].from # req[p].to
           /\ req[p].amount \in Nat /\ req[p].amount > 0
           /\ Row(req[p]) \in TransactionRows
BY KindFacts, RequestFacts, ConfirmFacts DEF TypeOK, ShapeOf

LEMMA EntriesFacts ==
    ASSUME NEW t \in TransactionRows
    PROVE  Entries(t) \subseteq EntryRows
BY DEF Entries, EntryRows, TransactionRows

\* The three ways a statement extends the work of a transaction keep its shape.
LEMMA WorkFacts ==
    ASSUME NEW w \in Works
    PROVE  /\ \A v \in SUBSET TransactionRows : [w EXCEPT !.txns = v] \in Works
           /\ \A v \in SUBSET EntryRows : [w EXCEPT !.entries = v] \in Works
           /\ \A v \in [Accounts -> Int] : [w EXCEPT !.delta = v] \in Works
<1>1. \A v \in SUBSET TransactionRows : [w EXCEPT !.txns = v] \in Works
  BY Z3 DEF Works
<1>2. \A v \in SUBSET EntryRows : [w EXCEPT !.entries = v] \in Works
  BY Z3 DEF Works
<1>3. \A v \in [Accounts -> Int] : [w EXCEPT !.delta = v] \in Works
  BY Z3 DEF Works
<1>4. QED
  BY <1>1, <1>2, <1>3

LEMMA MovesFacts ==
    ASSUME NEW r \in Requests \cup ConfirmRequests
    PROVE  Moves(r) \in [Accounts -> Int]
BY RequestFacts, ConfirmFacts DEF Moves

\* The two locks of a transfer are its two accounts.
LEMMA LockOrder ==
    ASSUME NEW r
    PROVE  \/ LockFirst(r) = r.from /\ LockSecond(r) = r.to
           \/ LockFirst(r) = r.to /\ LockSecond(r) = r.from
BY DEF LockFirst, LockSecond

-----------------------------------------------------------------------------
\* Locks.

LEMMA ConflictSymmetric ==
    ASSUME NEW l, NEW m
    PROVE  Conflict(l, m) <=> Conflict(m, l)
BY DEF Conflict

LEMMA LocksStep ==
    ASSUME LocksExclude, NEW p \in Clients,
           \A q \in Clients \ {p} : pc'[q] = pc[q] /\ req'[q] = req[q],
           \/ Holds(p)' \subseteq Holds(p)
           \/ Granted(p) /\ Holds(p)' \subseteq Holds(p) \cup Wants(p)
    PROVE  LocksExclude'
<1>1. \A q \in Clients \ {p} : Holds(q)' = Holds(q)
  BY DEF Holds, At
<1>2. \A q \in Clients \ {p} : \A l \in Holds(p)', m \in Holds(q) :
         ~ Conflict(l, m)
  <2>1. CASE Holds(p)' \subseteq Holds(p)
    BY <2>1 DEF LocksExclude
  <2>2. CASE Granted(p) /\ Holds(p)' \subseteq Holds(p) \cup Wants(p)
    BY <2>2, ConflictSymmetric DEF LocksExclude, Granted, WaitsFor
  <2>3. QED
    BY <2>1, <2>2
<1>3. QED
  BY <1>1, <1>2, ConflictSymmetric DEF LocksExclude

\* Every lock p asks for, or gives up at the end of its request.
LEMMA LocksTaken ==
    ASSUME TypeOK, NEW p \in Clients, TypeOK', req'[p] = req[p],
           \/ pc'[p] \in {"done", "first", "lookup", "mark"}
           \/ pc[p] = "first" /\ pc'[p] = "second"
           \/ pc[p] = "second" /\ pc'[p] = "check"
           \/ pc[p] = "check" /\ pc'[p] = "insert"
           \/ pc[p] = "mark" /\ pc'[p] = "credit"
           \/ pc[p] = "credit" /\ pc'[p] = "insert"
           \/ pc[p] = "insert" /\ pc'[p] = "journal"
           \/ pc[p] = "journal" /\ pc'[p] \in {"balances", "commit"}
           \/ pc[p] = "balances" /\ pc'[p] = "commit"
    PROVE  Holds(p)' \subseteq Holds(p) \cup Wants(p)
BY KindFacts DEF Holds, Wants, At, TypeOK, ShapeOf, TransferSteps, ConfirmSteps

\* The statements that ask for no lock.
LEMMA LocksKept ==
    ASSUME TypeOK, NEW p \in Clients, TypeOK', req'[p] = req[p],
           \/ pc'[p] \in {"done", "first", "lookup", "mark"}
           \/ pc[p] = "check" /\ pc'[p] = "insert"
           \/ pc[p] = "journal" /\ pc'[p] \in {"balances", "commit"}
           \/ pc[p] = "balances" /\ pc'[p] = "commit"
    PROVE  Holds(p)' \subseteq Holds(p)
BY KindFacts DEF Holds, At, TypeOK, ShapeOf, TransferSteps, ConfirmSteps

\* What a client has written is a matter of its own request and statement.
LEMMA WorkUnmoved ==
    ASSUME NEW q \in Clients, WorkOf(q),
           pc'[q] = pc[q], req'[q] = req[q], work'[q] = work[q]
    PROVE  WorkOf(q)'
<1>1. Inserted(q)' <=> Inserted(q)
  BY DEF Inserted
<1>2. Journaled(q)' <=> Journaled(q)
  BY DEF Journaled
<1>3. Marked(q)' <=> Marked(q)
  BY DEF Marked
<1>4. Moved(q)' <=> Moved(q)
  BY DEF Moved
<1>5. QED
  BY <1>1, <1>2, <1>3, <1>4 DEF WorkOf

-----------------------------------------------------------------------------
\* A step that commits nothing changes what the invariant says of one client.
\* What is left to show of such a step is the part of that client.

LEMMA QuietStep ==
    ASSUME IInv, NEW p \in Clients, UNCHANGED bankState, TypeOK',
           \A q \in Clients \ {p} :
              /\ pc'[q] = pc[q] /\ req'[q] = req[q]
              /\ seen'[q] = seen[q] /\ work'[q] = work[q],
           \/ Holds(p)' \subseteq Holds(p)
           \/ Granted(p) /\ Holds(p)' \subseteq Holds(p) \cup Wants(p),
           WorkOf(p)', ReadsOf(p)'
    PROVE  IInv'
<1>1. LocksExclude'
  BY LocksStep DEF IInv
<1>2. WorkIsComplete'
  <2>1. \A q \in Clients \ {p} : WorkOf(q)'
    BY WorkUnmoved DEF IInv, WorkIsComplete
  <2>2. QED
    BY <2>1 DEF WorkIsComplete
<1>3. ReadsStayTrue'
  <2>1. \A q \in Clients \ {p} : ReadsOf(q)'
    BY DEF IInv, ReadsStayTrue, ReadsOf, Inserted, Marked, SenderRead,
           FundsChecked, bankState
  <2>2. QED
    BY <2>1 DEF ReadsStayTrue
<1>4. (NoOverdraft /\ ChargedOnce /\ DoubleEntry /\ PaidMeansCredited)'
  BY DEF IInv, NoOverdraft, ChargedOnce, DoubleEntry, PaidMeansCredited, bankState
<1>5. QED
  BY <1>1, <1>2, <1>3, <1>4 DEF IInv

\* A request that is answered without a commit: the work is thrown away.
LEMMA AnswerStep ==
    ASSUME IInv, NEW p \in Clients, pc[p] # "idle", NEW o \in Outcomes,
           Answer(p, o), UNCHANGED bankState, faults' \in 0..MaxFaults
    PROVE  IInv'
<1>1. NoWork \in Works
  BY DEF NoWork, Works
<1>2. TypeOK'
  BY <1>1 DEF IInv, TypeOK, ShapeOf, Answer, Goto, Steps, bankState
<1>3. \A q \in Clients \ {p} :
        /\ pc'[q] = pc[q] /\ req'[q] = req[q]
        /\ seen'[q] = seen[q] /\ work'[q] = work[q]
  BY DEF Answer, Goto, IInv, TypeOK
<1>4. pc'[p] = "done" /\ work'[p] = NoWork /\ req'[p] = req[p]
  BY DEF Answer, Goto, IInv, TypeOK
<1>5. Holds(p)' \subseteq Holds(p)
  BY <1>2, <1>4, LocksKept DEF IInv
<1>6. WorkOf(p)'
  BY <1>4 DEF WorkOf, Inserted, Journaled, Marked, Moved, ConfirmSteps, NoWork
<1>7. ReadsOf(p)'
  BY <1>4 DEF ReadsOf, Inserted, Marked, SenderRead, FundsChecked, ConfirmSteps,
              TransferSteps
<1>8. QED
  BY <1>2, <1>3, <1>5, <1>6, <1>7, QuietStep
-----------------------------------------------------------------------------
\* The statements of ExecuteTransfer and ConfirmPayment, one lemma each.

LEMMA SubmitStep ==
    ASSUME IInv, NEW p \in Clients, Submit(p)
    PROVE  IInv'
<1>1. PICK r \in Requests \cup ConfirmRequests :
        req' = [req EXCEPT ![p] = r] /\ pc' = [pc EXCEPT ![p] = FirstStep(r.kind)]
  BY DEF Submit, Goto
<1>2. /\ r.kind = "confirm" => pc'[p] = "mark"
      /\ r.kind \in TransferKinds => pc'[p] \in {"lookup", "first"}
      /\ req'[p] = r
      /\ r.kind = "confirm" \/ r.kind \in TransferKinds
  BY <1>1, RequestFacts, ConfirmFacts
     DEF FirstStep, TransferKinds, IInv, TypeOK
<1>3. TypeOK'
  <2>1. \A q \in Clients \ {p} : ShapeOf(q)'
    BY <1>1 DEF IInv, TypeOK, ShapeOf
  <2>2. ShapeOf(p)'
    BY <1>2, RequestFacts, ConfirmFacts DEF ShapeOf, TransferSteps, ConfirmSteps
  <2>3. pc' \in [Clients -> Steps]
    BY <1>1, <1>2 DEF IInv, TypeOK, Steps, TransferSteps, ConfirmSteps
  <2>4. QED
    BY <1>1, <2>1, <2>2, <2>3 DEF IInv, TypeOK, Submit
<1>4. Holds(p)' \subseteq Holds(p)
  BY <1>2 DEF Holds, At, TransferSteps, ConfirmSteps, TransferKinds
<1>5. WorkOf(p)'
  <2>1. pc[p] = "idle" /\ work'[p] = work[p]
    BY DEF Submit
  <2>2. ~ Marked(p) /\ ~ Moved(p)
    BY <2>1 DEF Marked, Moved, ConfirmSteps
  <2>3. QED
    BY <1>2, <2>1, <2>2
       DEF IInv, WorkIsComplete, WorkOf, Inserted, Journaled, Marked, Moved,
           ConfirmSteps, TransferKinds, NoWork
<1>6. ReadsOf(p)'
  BY <1>2 DEF ReadsOf, Inserted, Marked, SenderRead, FundsChecked, ConfirmSteps,
              TransferSteps, TransferKinds
<1>7. QED
  BY <1>1, <1>3, <1>4, <1>5, <1>6, QuietStep DEF Submit, bankState, IInv, TypeOK

\* A step of p that keeps its request and moves it between two statements.
LEMMA MoveStep ==
    ASSUME IInv, NEW p \in Clients, NEW s \in Steps, pc[p] # "idle",
           s # "idle", pc' = [pc EXCEPT ![p] = s],
           UNCHANGED <<bankState, req>>, outcome' \in [Clients -> Outcomes],
           faults' \in 0..MaxFaults,
           seen' \in [Clients -> Int], work' \in [Clients -> Works],
           \A q \in Clients \ {p} : seen'[q] = seen[q] /\ work'[q] = work[q],
           req[p].kind = "confirm" => s \in ConfirmSteps,
           req[p].kind \in TransferKinds => s \in TransferSteps \cup {"lookup"},
           \/ s \in {"first", "lookup", "mark"}
           \/ pc[p] = "check" /\ s = "insert"
           \/ pc[p] = "journal" /\ s \in {"balances", "commit"}
           \/ pc[p] = "balances" /\ s = "commit"
           \/ /\ Granted(p)
              /\ \/ pc[p] = "first" /\ s = "second"
                 \/ pc[p] = "second" /\ s = "check"
                 \/ pc[p] = "mark" /\ s = "credit"
                 \/ pc[p] = "credit" /\ s = "insert"
                 \/ pc[p] = "insert" /\ s = "journal",
           WorkOf(p)', ReadsOf(p)'
    PROVE  IInv'
<1>1. TypeOK'
  <2>1. \A q \in Clients \ {p} : ShapeOf(q)'
    BY DEF IInv, TypeOK, ShapeOf
  <2>2. ShapeOf(p)'
    BY ActiveFacts, KindFacts, RequestFacts, ConfirmFacts DEF IInv, TypeOK, ShapeOf
  <2>3. QED
    BY <2>1, <2>2 DEF IInv, TypeOK, bankState
<1>2. pc'[p] = s /\ req'[p] = req[p]
  BY DEF IInv, TypeOK
<1>3. \/ Holds(p)' \subseteq Holds(p)
      \/ Granted(p) /\ Holds(p)' \subseteq Holds(p) \cup Wants(p)
  BY <1>1, <1>2, LocksTaken, LocksKept DEF IInv
<1>4. QED
  BY <1>1, <1>3, QuietStep DEF IInv, TypeOK, bankState

LEMMA LookupStep ==
    ASSUME IInv, NEW p \in Clients, Lookup(p) \/ LookupErrorIgnored(p)
    PROVE  IInv'
<1>1. pc[p] = "lookup" /\ UNCHANGED bankState /\ faults' \in 0..MaxFaults
  BY MaxFaultsAssumption DEF Lookup, LookupErrorIgnored, IInv, TypeOK
<1>2. CASE Answer(p, "replayed")
  BY <1>1, <1>2, AnswerStep DEF Outcomes
<1>3. CASE Goto(p, "first") /\ UNCHANGED <<req, seen, work, outcome>>
  <2>1. pc'[p] = "first" /\ "first" \in Steps
    BY <1>3 DEF Goto, IInv, TypeOK, Steps, TransferSteps
  <2>2. req[p].kind \in TransferKinds
    BY <1>1, ActiveFacts DEF IInv, TypeOK, ShapeOf, ConfirmSteps
  <2>3. WorkOf(p)'
    BY <1>1, <1>3, <2>1
       DEF IInv, WorkIsComplete, WorkOf, Inserted, Journaled, Marked, Moved,
           ConfirmSteps, NoWork
  <2>4. ReadsOf(p)'
    BY <2>1, <2>2, <1>3 DEF ReadsOf, Inserted, Marked, SenderRead, FundsChecked,
       ConfirmSteps, TransferSteps, TransferKinds
  <2>5. QED
    BY <1>1, <1>3, <2>1, <2>2, <2>3, <2>4, MoveStep
       DEF Goto, IInv, TypeOK, TransferSteps, TransferKinds
<1>4. QED
  BY <1>2, <1>3 DEF Lookup, LookupErrorIgnored

LEMMA RetryStep ==
    ASSUME IInv, NEW p \in Clients, Retry(p)
    PROVE  IInv'
<1>1. pc[p] = "done" /\ UNCHANGED <<bankState, req, seen, work, faults>>
  BY DEF Retry, bankState
<1> DEFINE s == FirstStep(req[p].kind)
<1>2. /\ req[p].kind = "confirm" => s = "mark"
      /\ req[p].kind \in TransferKinds => s \in {"lookup", "first"}
      /\ req[p].kind = "confirm" \/ req[p].kind \in TransferKinds
  BY <1>1, ActiveFacts DEF FirstStep, TransferKinds, IInv
<1>3. pc' = [pc EXCEPT ![p] = s] /\ pc'[p] = s
  BY DEF Retry, Goto, IInv, TypeOK
<1> HIDE DEF s
<1>4. s \in Steps /\ s # "idle"
  BY <1>2 DEF Steps, TransferSteps, ConfirmSteps
<1>5. WorkOf(p)'
  <2>1. s \in {"mark", "lookup", "first"}
    BY <1>2
  <2>2. (req[p].kind = "confirm") => s = "mark"
    BY <1>2
  <2>3. QED
    BY <1>1, <1>3, <2>1, <2>2
       DEF IInv, WorkIsComplete, WorkOf, Inserted, Journaled, Marked, Moved,
           ConfirmSteps, NoWork
<1>6. ReadsOf(p)'
  BY <1>1, <1>2, <1>3 DEF ReadsOf, Inserted, Marked, SenderRead, FundsChecked,
     ConfirmSteps, TransferSteps, TransferKinds
<1>7. QED
  <2>1. outcome' \in [Clients -> Outcomes]
    BY DEF Retry, IInv, TypeOK, Outcomes
  <2>2. /\ req[p].kind = "confirm" => s \in ConfirmSteps
        /\ req[p].kind \in TransferKinds => s \in TransferSteps \cup {"lookup"}
    BY <1>2 DEF TransferSteps, ConfirmSteps, TransferKinds
  <2>3. s \in {"first", "lookup", "mark"}
    BY <1>2
  <2>4. QED
    BY <1>1, <1>3, <1>4, <1>5, <1>6, <2>1, <2>2, <2>3, MoveStep
       DEF IInv, TypeOK

LEMMA TakeStep ==
    ASSUME IInv, NEW p \in Clients, TakeFirst(p) \/ TakeSecond(p)
    PROVE  IInv'
<1>1. /\ Granted(p) /\ UNCHANGED <<bankState, req, work, outcome, faults>>
      /\ \A q \in Clients \ {p} : seen'[q] = seen[q]
  BY DEF TakeFirst, TakeSecond, LockAccount, IInv, TypeOK
<1>2. pc[p] \in {"first", "second"} /\ req[p].kind \in TransferKinds
  BY ActiveFacts DEF TakeFirst, TakeSecond, LockAccount, IInv, TypeOK, ShapeOf,
                     ConfirmSteps
<1>3. req[p].from \in Accounts /\ req[p].to \in Accounts /\ req[p].from # req[p].to
  BY <1>2, ActiveFacts DEF IInv
<1>4. seen' \in [Clients -> Int]
  BY <1>3, LockOrder DEF TakeFirst, TakeSecond, LockAccount, IInv, TypeOK
<1>5. WorkOf(p)'
  <2>1. pc'[p] \in {"second", "check"}
    BY DEF TakeFirst, TakeSecond, LockAccount, Goto, IInv, TypeOK
  <2>2. req[p].kind # "confirm"
    BY <1>2 DEF TransferKinds
  <2>3. QED
    BY <1>1, <1>2, <2>1, <2>2
       DEF IInv, WorkIsComplete, WorkOf, Inserted, Journaled, Marked, Moved, NoWork
<1>6. CASE TakeFirst(p)
  <2>1. /\ pc[p] = "first" /\ pc'[p] = "second"
        /\ pc' = [pc EXCEPT ![p] = "second"] /\ "second" \in Steps
    BY <1>6 DEF TakeFirst, LockAccount, Goto, IInv, TypeOK, Steps, TransferSteps
  <2>2. LockFirst(req[p]) = req[p].from => seen'[p] = balance[req[p].from]
    BY <1>6 DEF TakeFirst, LockAccount, IInv, TypeOK
  <2>3. ReadsOf(p)'
    BY <1>1, <1>2, <2>1, <2>2
       DEF ReadsOf, Inserted, Marked, SenderRead, FundsChecked, TransferSteps,
           TransferKinds, bankState, LockFirst
  <2>4. QED
    BY <1>1, <1>2, <1>4, <1>5, <2>1, <2>3, MoveStep
       DEF IInv, TypeOK, TransferSteps, TransferKinds
<1>7. CASE TakeSecond(p)
  <2>1. /\ pc[p] = "second" /\ pc'[p] = "check"
        /\ pc' = [pc EXCEPT ![p] = "check"] /\ "check" \in Steps
    BY <1>7 DEF TakeSecond, LockAccount, Goto, IInv, TypeOK, Steps, TransferSteps
  <2>2. seen'[p] = balance[req[p].from]
    <3>1. CASE LockFirst(req[p]) = req[p].from
      BY <1>3, <1>2, <1>7, <2>1, <3>1, LockOrder
         DEF TakeSecond, LockAccount, IInv, TypeOK, ReadsStayTrue, ReadsOf, SenderRead
    <3>2. CASE LockFirst(req[p]) # req[p].from
      BY <1>3, <1>7, <3>2, LockOrder DEF TakeSecond, LockAccount, IInv, TypeOK
    <3>3. QED
      BY <3>1, <3>2
  <2>3. ReadsOf(p)'
    BY <1>1, <1>2, <2>1, <2>2
       DEF ReadsOf, Inserted, Marked, SenderRead, FundsChecked, TransferSteps,
           TransferKinds, bankState
  <2>4. QED
    BY <1>1, <1>2, <1>4, <1>5, <2>1, <2>3, MoveStep
       DEF IInv, TypeOK, TransferSteps, TransferKinds
<1>8. QED
  BY <1>6, <1>7

LEMMA CheckFundsStep ==
    ASSUME IInv, NEW p \in Clients, CheckFunds(p)
    PROVE  IInv'
<1>1. pc[p] = "check" /\ UNCHANGED <<bankState, faults>>
  BY DEF CheckFunds
<1>2. CASE Answer(p, "insufficient")
  BY <1>1, <1>2, AnswerStep DEF Outcomes, IInv, TypeOK
<1>3. CASE /\ seen[p] >= req[p].amount /\ Goto(p, "insert")
           /\ UNCHANGED <<req, seen, work, outcome>>
  <2>1. req[p].kind \in TransferKinds /\ req[p].kind # "confirm"
    BY <1>1, ActiveFacts DEF IInv, TypeOK, ShapeOf, ConfirmSteps, TransferKinds
  <2>2. seen[p] = balance[req[p].from]
    BY <1>1, <2>1 DEF IInv, ReadsStayTrue, ReadsOf, SenderRead, TransferSteps
  <2>3. /\ pc' = [pc EXCEPT ![p] = "insert"] /\ pc'[p] = "insert"
        /\ "insert" \in Steps
    BY <1>3 DEF Goto, IInv, TypeOK, Steps, TransferSteps
  <2>4. WorkOf(p)'
    BY <1>1, <1>3, <2>1, <2>3
       DEF IInv, WorkIsComplete, WorkOf, Inserted, Journaled, Marked, Moved, NoWork
  <2>5. ReadsOf(p)'
    BY <1>1, <1>3, <2>1, <2>2, <2>3
       DEF ReadsOf, Inserted, Marked, SenderRead, FundsChecked, bankState
  <2>6. QED
    BY <1>1, <1>3, <2>1, <2>3, <2>4, <2>5, MoveStep
       DEF IInv, TypeOK, TransferSteps
<1>4. QED
  BY <1>2, <1>3 DEF CheckFunds

LEMMA MarkPaidStep ==
    ASSUME IInv, NEW p \in Clients, MarkPaid(p)
    PROVE  IInv'
<1>1. pc[p] = "mark" /\ Granted(p) /\ UNCHANGED <<bankState, faults>>
  BY DEF MarkPaid
<1>2. CASE Answer(p, "noop")
  BY <1>1, <1>2, AnswerStep DEF Outcomes, IInv, TypeOK
<1>3. CASE /\ deposit[req[p].key] = "created"
           /\ work' = [work EXCEPT ![p].paid = {req[p].key}]
           /\ Goto(p, "credit") /\ UNCHANGED <<req, seen, outcome>>
  <2>1. /\ req[p].kind = "confirm" /\ req[p].kind \notin TransferKinds
        /\ req[p].key \in Orders
    BY <1>1, ActiveFacts, KindFacts, ConfirmFacts
       DEF IInv, TypeOK, ShapeOf, TransferSteps
  <2>2. /\ pc' = [pc EXCEPT ![p] = "credit"] /\ pc'[p] = "credit"
        /\ "credit" \in Steps
    BY <1>3 DEF Goto, IInv, TypeOK, Steps, ConfirmSteps
  <2>3. work' \in [Clients -> Works] /\ \A q \in Clients \ {p} : work'[q] = work[q]
    BY <1>3, <2>1 DEF IInv, TypeOK, Works
  <2>4. /\ work'[p].paid = {req[p].key} /\ work'[p].delta = work[p].delta
        /\ work'[p].txns = work[p].txns /\ work'[p].entries = work[p].entries
    BY <1>3, Z3 DEF IInv, TypeOK, Works
  <2>5. WorkOf(p)'
    BY <1>1, <1>3, <2>1, <2>2, <2>4
       DEF IInv, WorkIsComplete, WorkOf, Inserted, Journaled,
           Marked, Moved, NoWork, ConfirmSteps
  <2>6. ReadsOf(p)'
    BY <1>1, <1>3, <2>1, <2>2
       DEF ReadsOf, Inserted, Marked, SenderRead, FundsChecked, bankState
  <2>7. QED
    BY <1>1, <1>3, <2>1, <2>2, <2>3, <2>5, <2>6, MoveStep
       DEF IInv, TypeOK, ConfirmSteps
<1>4. QED
  BY <1>2, <1>3 DEF MarkPaid

LEMMA CreditStep ==
    ASSUME IInv, NEW p \in Clients, Credit(p)
    PROVE  IInv'
<1>1. /\ pc[p] = "credit" /\ Granted(p)
      /\ work' = [work EXCEPT ![p].delta[req[p].to] = req[p].amount]
      /\ UNCHANGED <<bankState, req, seen, outcome, faults>>
  BY DEF Credit
<1>2. /\ req[p].kind = "confirm" /\ req[p].kind \notin TransferKinds
      /\ req[p].to \in Accounts /\ req[p].amount \in Int
  BY <1>1, ActiveFacts, KindFacts, ConfirmFacts
     DEF IInv, TypeOK, ShapeOf, TransferSteps
<1>3. /\ pc' = [pc EXCEPT ![p] = "insert"] /\ pc'[p] = "insert"
      /\ "insert" \in Steps
  BY DEF Credit, Goto, IInv, TypeOK, Steps, ConfirmSteps
<1>4. work[p].delta = NoWork.delta
  BY <1>1 DEF IInv, WorkIsComplete, WorkOf, Moved
<1>5. /\ work'[p].txns = work[p].txns /\ work'[p].entries = work[p].entries
      /\ work'[p].paid = work[p].paid
      /\ work'[p].delta = [work[p].delta EXCEPT ![req[p].to] = req[p].amount]
      /\ \A q \in Clients \ {p} : work'[q] = work[q]
  BY <1>1 DEF IInv, TypeOK, Works
<1>6. work'[p].delta = Moves(req[p])
  BY <1>2, <1>4, <1>5 DEF Moves, NoWork
<1>7. work' \in [Clients -> Works]
  <2>1. work[p] \in Works
    BY DEF IInv, TypeOK
  <2>2. [work[p] EXCEPT !.delta[req[p].to] = req[p].amount] \in Works
    BY <1>2, <2>1 DEF Works
  <2>3. QED
    BY <1>1, <2>2 DEF IInv, TypeOK
<1>8. WorkOf(p)'
  BY <1>1, <1>2, <1>3, <1>5, <1>6
     DEF IInv, WorkIsComplete, WorkOf, Inserted, Journaled, Marked, Moved,
         ConfirmSteps, Moves
<1>9. ReadsOf(p)'
  BY <1>1, <1>2, <1>3
     DEF IInv, ReadsStayTrue, ReadsOf, Inserted, Marked, SenderRead, FundsChecked,
         ConfirmSteps, bankState
<1>10. QED
  BY <1>1, <1>2, <1>3, <1>5, <1>7, <1>8, <1>9, MoveStep
     DEF IInv, TypeOK, ConfirmSteps

LEMMA InsertStep ==
    ASSUME IInv, NEW p \in Clients, Insert(p)
    PROVE  IInv'
<1>1. pc[p] = "insert" /\ Granted(p) /\ UNCHANGED <<bankState, faults>>
  BY DEF Insert
<1>2. CASE Answer(p, "duplicate")
  BY <1>1, <1>2, AnswerStep DEF Outcomes, IInv, TypeOK
<1>3. CASE /\ ~ KeyTaken(txns, req[p])
           /\ work' = [work EXCEPT ![p].txns = {Row(req[p])}]
           /\ Goto(p, "journal") /\ UNCHANGED <<req, seen, outcome>>
  <2>1. /\ Row(req[p]) \in TransactionRows
        /\ req[p].kind \in TransferKinds \/ req[p].kind = "confirm"
    BY <1>1, ActiveFacts DEF IInv
  <2>2. /\ pc' = [pc EXCEPT ![p] = "journal"] /\ pc'[p] = "journal"
        /\ "journal" \in Steps
    BY <1>3 DEF Goto, IInv, TypeOK, Steps, ConfirmSteps
  <2>3. work' \in [Clients -> Works] /\ \A q \in Clients \ {p} : work'[q] = work[q]
    <3>1. [work[p] EXCEPT !.txns = {Row(req[p])}] \in Works
      BY <2>1, WorkFacts DEF IInv, TypeOK
    <3>2. QED
      BY <1>3, <3>1, Z3 DEF IInv, TypeOK
  <2>4. /\ work'[p].txns = {Row(req[p])} /\ work'[p].delta = work[p].delta
        /\ work'[p].paid = work[p].paid /\ work'[p].entries = work[p].entries
    BY <1>3, Z3 DEF IInv, TypeOK, Works
  <2>5. WorkOf(p)'
    BY <1>1, <1>3, <2>1, <2>2, <2>4
       DEF IInv, WorkIsComplete, WorkOf, Inserted, Journaled,
           Marked, Moved, NoWork, ConfirmSteps, TransferKinds
  <2>6. ReadsOf(p)'
    BY <1>1, <1>3, <2>1, <2>2
       DEF IInv, ReadsStayTrue, ReadsOf, Inserted, Marked, SenderRead,
           FundsChecked, TransferSteps, ConfirmSteps, bankState
  <2>7. QED
    BY <1>1, <1>3, <2>1, <2>2, <2>3, <2>5, <2>6, MoveStep
       DEF IInv, TypeOK, ConfirmSteps, TransferSteps
<1>4. QED
  BY <1>2, <1>3 DEF Insert

LEMMA JournalStep ==
    ASSUME IInv, NEW p \in Clients, Journal(p)
    PROVE  IInv'
<1>1. /\ pc[p] = "journal" /\ UNCHANGED <<bankState, req, seen, outcome, faults>>
      /\ work' = [work EXCEPT ![p].entries = Entries(Row(req[p]))]
  BY DEF Journal
<1> DEFINE s == IF req[p].kind = "confirm" THEN "commit" ELSE "balances"
<1>2. /\ pc' = [pc EXCEPT ![p] = s] /\ pc'[p] = s
      /\ s \in Steps /\ s \in {"balances", "commit"}
  BY DEF Journal, Goto, IInv, TypeOK, Steps, TransferSteps
<1>3. /\ Entries(Row(req[p])) \subseteq EntryRows
      /\ req[p].kind \in TransferKinds \/ req[p].kind = "confirm"
      /\ req[p].kind = "confirm" => req[p].kind \notin TransferKinds
  BY <1>1, ActiveFacts, EntriesFacts DEF IInv, TransferKinds
<1>4. work' \in [Clients -> Works] /\ \A q \in Clients \ {p} : work'[q] = work[q]
  <2>1. [work[p] EXCEPT !.entries = Entries(Row(req[p]))] \in Works
    BY <1>3, WorkFacts DEF IInv, TypeOK
  <2>2. QED
    BY <1>1, <2>1, Z3 DEF IInv, TypeOK
<1>5. /\ work'[p].entries = Entries(Row(req[p])) /\ work'[p].delta = work[p].delta
      /\ work'[p].paid = work[p].paid /\ work'[p].txns = work[p].txns
  BY <1>1, Z3 DEF IInv, TypeOK, Works
<1>6. WorkOf(p)'
  BY <1>1, <1>2, <1>3, <1>5
     DEF IInv, WorkIsComplete, WorkOf, Inserted, Journaled,
         Marked, Moved, ConfirmSteps
<1>7. ReadsOf(p)'
  BY <1>1, <1>2
     DEF IInv, ReadsStayTrue, ReadsOf, Inserted, Marked, SenderRead,
         FundsChecked, TransferSteps, ConfirmSteps, bankState
<1>8. QED
  BY <1>1, <1>2, <1>3, <1>4, <1>6, <1>7, MoveStep
     DEF IInv, TypeOK, ConfirmSteps, TransferSteps

LEMMA BalancesStep ==
    ASSUME IInv, NEW p \in Clients, Balances(p)
    PROVE  IInv'
<1>1. /\ pc[p] = "balances" /\ UNCHANGED <<bankState, req, seen, outcome, faults>>
      /\ work' = [work EXCEPT ![p].delta = [@ EXCEPT ![req[p].from] = - req[p].amount,
                                                     ![req[p].to] = req[p].amount]]
  BY DEF Balances
<1>2. /\ pc' = [pc EXCEPT ![p] = "commit"] /\ pc'[p] = "commit"
      /\ "commit" \in Steps
  BY DEF Balances, Goto, IInv, TypeOK, Steps, TransferSteps
<1>3. /\ req[p].kind \in TransferKinds /\ req[p].kind # "confirm"
      /\ req[p] \in Requests
      /\ req[p].from \in Accounts /\ req[p].to \in Accounts
      /\ req[p].from # req[p].to /\ req[p].amount \in Int
  BY <1>1, ActiveFacts, KindFacts DEF IInv, TypeOK, ShapeOf, ConfirmSteps, TransferKinds
<1>4. work[p].delta = NoWork.delta
  BY <1>1, <1>3 DEF IInv, WorkIsComplete, WorkOf, Moved
<1>5. /\ work'[p].delta = [work[p].delta EXCEPT ![req[p].from] = - req[p].amount,
                                              ![req[p].to] = req[p].amount]
      /\ work'[p].paid = work[p].paid /\ work'[p].txns = work[p].txns
      /\ work'[p].entries = work[p].entries
      /\ \A q \in Clients \ {p} : work'[q] = work[q]
  BY <1>1, Z3 DEF IInv, TypeOK, Works
<1>6. work'[p].delta = Moves(req[p])
  BY <1>3, <1>4, <1>5 DEF Moves, NoWork
<1>7. work' \in [Clients -> Works]
  <2> DEFINE d == [work[p].delta EXCEPT ![req[p].from] = - req[p].amount,
                                        ![req[p].to] = req[p].amount]
  <2>1. d \in [Accounts -> Int]
    BY <1>3, <1>4 DEF NoWork
  <2> HIDE DEF d
  <2>2. [work[p] EXCEPT !.delta = d] \in Works
    BY <2>1, WorkFacts DEF IInv, TypeOK
  <2>3. work' = [work EXCEPT ![p] = [work[p] EXCEPT !.delta = d]]
    BY <1>1, Z3 DEF d, IInv, TypeOK
  <2>4. QED
    BY <2>2, <2>3 DEF IInv, TypeOK
<1>8. WorkOf(p)'
  BY <1>1, <1>2, <1>3, <1>5, <1>6
     DEF IInv, WorkIsComplete, WorkOf, Inserted, Journaled, Marked, Moved, Moves
<1>9. ReadsOf(p)'
  BY <1>1, <1>2, <1>3
     DEF IInv, ReadsStayTrue, ReadsOf, Inserted, Marked, SenderRead,
         FundsChecked, TransferSteps, bankState
<1>10. QED
  BY <1>1, <1>2, <1>3, <1>5, <1>7, <1>8, <1>9, MoveStep
     DEF IInv, TypeOK, TransferSteps

-----------------------------------------------------------------------------
\* The commit.  The locks p holds keep everyone else's reads true.

\* What p holds at its commit, and what another client holds when it relies on
\* a read.
LEMMA LocksAtCommit ==
    ASSUME IInv, NEW p \in Clients, pc[p] = "commit"
    PROVE  /\ req[p].kind \in TransferKinds =>
               {Lock(req[p].from, "update"), Lock(req[p].to, "update")} \subseteq Holds(p)
           /\ req[p].kind = "confirm" =>
               {Lock(req[p].key, "nokey"), Lock(req[p].to, "nokey"),
                Lock(req[p].from, "keyshare")} \subseteq Holds(p)
BY LockOrder, ActiveFacts DEF Holds, At, TransferSteps, ConfirmSteps, TransferKinds, IInv

LEMMA LocksOfReads ==
    ASSUME IInv, NEW q \in Clients
    PROVE  /\ SenderRead(q) => Lock(req[q].from, "update") \in Holds(q)
           /\ FundsChecked(q) => Lock(req[q].from, "update") \in Holds(q)
           /\ Inserted(q) /\ req[q].kind \in TransferKinds =>
                Lock(req[q].from, "update") \in Holds(q)
           /\ Inserted(q) /\ req[q].kind = "confirm" =>
                {Lock(req[q].from, "keyshare"), Lock(req[q].key, "nokey")} \subseteq Holds(q)
           /\ Marked(q) => Lock(req[q].key, "nokey") \in Holds(q)
<1>1. SenderRead(q) => Lock(req[q].from, "update") \in Holds(q)
  BY LockOrder DEF SenderRead, Holds, At, TransferSteps, TransferKinds
<1>2. FundsChecked(q) => SenderRead(q)
  BY DEF FundsChecked, SenderRead, TransferSteps
<1>3. Inserted(q) /\ req[q].kind \in TransferKinds => SenderRead(q)
  BY DEF Inserted, SenderRead, TransferSteps
<1>4. Inserted(q) /\ req[q].kind = "confirm" =>
        {Lock(req[q].from, "keyshare"), Lock(req[q].key, "nokey")} \subseteq Holds(q)
  BY DEF IInv, TypeOK, ShapeOf, Inserted, Holds, At, ConfirmSteps, TransferKinds
<1>5. Marked(q) => Lock(req[q].key, "nokey") \in Holds(q)
  BY DEF Marked, Holds, At, TransferKinds
<1>6. QED
  BY <1>1, <1>2, <1>3, <1>4, <1>5

LEMMA CommitApart ==
    ASSUME IInv, NEW p \in Clients, pc[p] = "commit", NEW q \in Clients, p # q
    PROVE  /\ SenderRead(q) \/ FundsChecked(q) =>
                req[q].from # req[p].to /\ req[q].from # req[p].from
           /\ Inserted(q) => ~ SameKey(Row(req[p]), req[q])
           /\ Marked(q) /\ req[p].kind = "confirm" => req[q].key # req[p].key
<1>1. req[p].kind \in TransferKinds \/ req[p].kind = "confirm"
  BY ActiveFacts DEF IInv
<1>2. \A l \in Holds(p), m \in Holds(q) : ~ Conflict(l, m)
  BY DEF IInv, LocksExclude
<1>3. SenderRead(q) \/ FundsChecked(q) =>
        req[q].from # req[p].to /\ req[q].from # req[p].from
  BY <1>1, <1>2, LocksAtCommit, LocksOfReads DEF Conflict, Lock
<1>4. Inserted(q) => ~ SameKey(Row(req[p]), req[q])
  <2>1. SUFFICES ASSUME Inserted(q), req[p].key = req[q].key,
                        req[p].from = req[q].from
                 PROVE  FALSE
    BY DEF SameKey, Row
  <2>2. req[q].kind \in TransferKinds \/ req[q].kind = "confirm"
    BY <2>1, ActiveFacts DEF IInv, Inserted
  <2>3. CASE req[p].kind \in TransferKinds
    BY <1>2, <2>1, <2>2, <2>3, LocksAtCommit, LocksOfReads DEF Conflict, Lock
  <2>4. CASE req[p].kind = "confirm"
    BY <1>2, <2>1, <2>2, <2>4, LocksAtCommit, LocksOfReads DEF Conflict, Lock
  <2>5. QED
    BY <1>1, <2>3, <2>4
<1>5. Marked(q) /\ req[p].kind = "confirm" => req[q].key # req[p].key
  BY <1>2, LocksAtCommit, LocksOfReads DEF Conflict, Lock
<1>6. QED
  BY <1>3, <1>4, <1>5

\* The state after a commit, in terms of the request that commits.
LEMMA PublishFacts ==
    ASSUME IInv, NEW p \in Clients, pc[p] = "commit", Publish(p)
    PROVE  /\ balance' = [a \in Accounts |-> balance[a] + Moves(req[p])[a]]
           /\ txns' = txns \cup {Row(req[p])}
           /\ journal' = journal \cup Entries(Row(req[p]))
           /\ req[p].kind = "confirm" =>
                deposit' = [deposit EXCEPT ![req[p].key] = "paid"]
           /\ req[p].kind # "confirm" => deposit' = deposit
           /\ req[p].kind = "confirm" => deposit[req[p].key] = "created"
           /\ ~ KeyTaken(txns, req[p])
           /\ req[p].kind # "confirm" => balance[req[p].from] >= req[p].amount
<1>1. req[p].kind \in TransferKinds \/ req[p].kind = "confirm"
  BY ActiveFacts DEF IInv
<1>2. WorkOf(p) /\ ReadsOf(p)
  BY DEF IInv, WorkIsComplete, ReadsStayTrue
<1>3. /\ Inserted(p) /\ Journaled(p) /\ Moved(p)
      /\ Marked(p) <=> req[p].kind = "confirm"
      /\ req[p].kind # "confirm" => FundsChecked(p)
  BY <1>1 DEF Inserted, Journaled, Moved, Marked, FundsChecked, ConfirmSteps
<1>4. deposit \in [Orders -> Statuses]
  BY DEF IInv, TypeOK
<1>5. QED
  BY <1>2, <1>3, <1>4 DEF WorkOf, ReadsOf, Publish

LEMMA CommitStep ==
    ASSUME IInv, NEW p \in Clients, pc[p] = "commit", Publish(p),
           NEW o \in Outcomes, Answer(p, o), faults' \in 0..MaxFaults
    PROVE  IInv'
<1> DEFINE r == req[p]
<1>1. /\ r \in Requests \cup ConfirmRequests
      /\ r.kind \in TransferKinds \/ r.kind = "confirm"
      /\ r.from \in Accounts /\ r.to \in Accounts /\ r.from # r.to
      /\ r.amount \in Nat /\ r.amount > 0
      /\ Row(r) \in TransactionRows
  BY ActiveFacts DEF IInv
<1>2. r.kind = "confirm" => r \in ConfirmRequests /\ r.key \in Orders
                              /\ r = ConfirmRequest(r.key)
  BY KindFacts, ConfirmFacts DEF IInv
<1>3. /\ pc' = [pc EXCEPT ![p] = "done"] /\ pc'[p] = "done" /\ req' = req
      /\ work'[p] = NoWork
      /\ \A q \in Clients \ {p} :
            /\ pc'[q] = pc[q] /\ seen'[q] = seen[q] /\ work'[q] = work[q]
  BY DEF Answer, Goto, IInv, TypeOK
<1>4. Moves(r) \in [Accounts -> Int] /\ Entries(Row(r)) \subseteq EntryRows
  BY <1>1, MovesFacts, EntriesFacts
<1>5. TypeOK'
  <2>1. NoWork \in Works
    BY DEF NoWork, Works
  <2>2. /\ balance' \in [Accounts -> Int] /\ txns' \subseteq TransactionRows
        /\ journal' \subseteq EntryRows
    BY <1>1, <1>4, PublishFacts DEF IInv, TypeOK
  <2>3. deposit' \in [Orders -> Statuses]
    BY <1>1, PublishFacts DEF IInv, TypeOK, Statuses
  <2>4. /\ pc' \in [Clients -> Steps] /\ seen' \in [Clients -> Int]
        /\ work' \in [Clients -> Works] /\ outcome' \in [Clients -> Outcomes]
        /\ req' \in [Clients -> {NoRequest} \cup Requests \cup ConfirmRequests]
    BY <2>1 DEF IInv, TypeOK, Answer, Goto, Steps
  <2>5. \A q \in Clients : ShapeOf(q)'
    BY <1>1, <1>3 DEF IInv, TypeOK, ShapeOf
  <2>6. QED
    BY <2>2, <2>3, <2>4, <2>5 DEF TypeOK
<1>6. LocksExclude'
  <2>1. Holds(p)' \subseteq Holds(p)
    BY <1>3, <1>5, LocksKept DEF IInv
  <2>2. QED
    BY <1>3, <2>1, LocksStep DEF IInv
<1>7. WorkIsComplete'
  <2>1. WorkOf(p)'
    BY <1>3 DEF WorkOf, Inserted, Journaled, Marked, Moved, NoWork, ConfirmSteps
  <2>2. \A q \in Clients \ {p} : WorkOf(q)'
    BY <1>3, WorkUnmoved DEF IInv, WorkIsComplete
  <2>3. QED
    BY <2>1, <2>2 DEF WorkIsComplete
<1>8. ReadsStayTrue'
  <2>1. ReadsOf(p)'
    BY <1>3 DEF ReadsOf, Inserted, Marked, SenderRead, FundsChecked, ConfirmSteps,
                TransferSteps
  <2>2. SUFFICES ASSUME NEW q \in Clients \ {p} PROVE ReadsOf(q)'
    BY <2>1 DEF ReadsStayTrue
  <2>3. /\ SenderRead(q)' <=> SenderRead(q)
        /\ FundsChecked(q)' <=> FundsChecked(q)
        /\ Inserted(q)' <=> Inserted(q)
        /\ Marked(q)' <=> Marked(q)
    BY <1>3 DEF SenderRead, FundsChecked, Inserted, Marked
  <2>4. ReadsOf(q)
    BY DEF IInv, ReadsStayTrue
  <2>5. SenderRead(q) \/ FundsChecked(q) => balance'[req[q].from] = balance[req[q].from]
    <3>1. SUFFICES ASSUME SenderRead(q) \/ FundsChecked(q)
                   PROVE  balance'[req[q].from] = balance[req[q].from]
      OBVIOUS
    <3>2. pc[q] # "idle"
      BY <3>1 DEF SenderRead, FundsChecked, TransferSteps
    <3>3. req[q].from \in Accounts
      BY <3>2, ActiveFacts DEF IInv
    <3>4. Moves(r)[req[q].from] = 0
      BY <3>1, <3>3, CommitApart DEF Moves
    <3>5. QED
      BY <3>3, <3>4, PublishFacts DEF IInv, TypeOK
  <2>6. Inserted(q) => ~ KeyTaken(txns', req[q])
    BY <2>4, CommitApart, PublishFacts DEF ReadsOf, KeyTaken
  <2>7. Marked(q) => deposit'[req[q].key] = "created"
    <3>1. SUFFICES ASSUME Marked(q) PROVE deposit'[req[q].key] = "created"
      OBVIOUS
    <3>2. req[q].key \in Orders
      BY <3>1, KindFacts, ConfirmFacts DEF Marked, IInv
    <3>3. deposit[req[q].key] = "created"
      BY <3>1, <2>4 DEF ReadsOf
    <3>4. QED
      BY <1>1, <3>1, <3>2, <3>3, CommitApart, PublishFacts DEF IInv, TypeOK
  <2>8. QED
    BY <1>3, <2>3, <2>4, <2>5, <2>6, <2>7 DEF ReadsOf
<1>9. NoOverdraft'
  <2>1. SUFFICES ASSUME NEW a \in Accounts PROVE balance'[a] >= 0
    BY DEF NoOverdraft
  <2>2. balance[a] \in Int /\ balance[a] >= 0 /\ balance'[a] = balance[a] + Moves(r)[a]
    BY PublishFacts DEF IInv, TypeOK, NoOverdraft
  <2>3. CASE a = r.from /\ r.kind # "confirm"
    BY <1>1, <2>2, <2>3, PublishFacts DEF Moves
  <2>4. CASE ~ (a = r.from /\ r.kind # "confirm")
    BY <1>1, <2>2, <2>4 DEF Moves
  <2>5. QED
    BY <2>3, <2>4
<1>10. ChargedOnce'
  <2>1. \A t \in txns : ~ SameKey(t, Row(r)) /\ ~ SameKey(Row(r), t)
    BY PublishFacts DEF KeyTaken, SameKey, Row
  <2>2. QED
    BY <2>1, PublishFacts DEF IInv, ChargedOnce
<1>11. DoubleEntry'
  <2>1. journal = UNION {Entries(t) : t \in txns}
    BY DEF IInv, DoubleEntry
  <2>2. UNION {Entries(t) : t \in txns \cup {Row(r)}}
          = (UNION {Entries(t) : t \in txns}) \cup Entries(Row(r))
    OBVIOUS
  <2>3. QED
    BY <2>1, <2>2, PublishFacts DEF DoubleEntry
<1>12. PaidMeansCredited'
  <2>1. SUFFICES ASSUME NEW x \in Orders
                 PROVE  deposit'[x] = "paid" <=> Row(ConfirmRequest(x)) \in txns'
    BY DEF PaidMeansCredited
  <2>2. deposit[x] = "paid" <=> Row(ConfirmRequest(x)) \in txns
    BY DEF IInv, PaidMeansCredited
  <2>3. CASE r.kind = "confirm"
    <3>1. Row(ConfirmRequest(x)) = Row(r) <=> x = r.key
      BY <1>2, <2>3 DEF Row, ConfirmRequest
    <3>2. QED
      BY <1>2, <2>2, <2>3, <3>1, PublishFacts DEF IInv, TypeOK
  <2>4. CASE r.kind # "confirm"
    <3>1. r \in Requests
      BY <1>1, <2>4, ConfirmFacts
    <3>2. Row(ConfirmRequest(x)) # Row(r)
      BY <3>1, RequestsAssumption DEF Row, ConfirmRequest
    <3>3. QED
      BY <2>2, <2>4, <3>2, PublishFacts
  <2>5. QED
    BY <2>3, <2>4
<1>13. QED
  BY <1>5, <1>6, <1>7, <1>8, <1>9, <1>10, <1>11, <1>12 DEF IInv

-----------------------------------------------------------------------------
\* The theorems.

LEMMA InitInvariant == Init => IInv
<1> SUFFICES ASSUME Init PROVE IInv
  OBVIOUS
<1>1. NoWork \in Works /\ NoRequest.kind = "none"
  BY DEF NoWork, Works, NoRequest
<1>2. TypeOK
  BY <1>1, AccountsAssumption, MaxFaultsAssumption
     DEF Init, TypeOK, ShapeOf, Steps, Outcomes, Statuses, TransferKinds
<1>3. LocksExclude
  BY <1>1 DEF Init, LocksExclude, Holds, TransferKinds
<1>4. WorkIsComplete
  BY <1>1 DEF Init, WorkIsComplete, WorkOf, Inserted, Journaled, Marked, Moved, NoWork
<1>5. ReadsStayTrue
  BY <1>1 DEF Init, ReadsStayTrue, ReadsOf, Inserted, Marked, SenderRead,
              FundsChecked, TransferKinds
<1>6. NoOverdraft /\ ChargedOnce /\ DoubleEntry /\ PaidMeansCredited
  BY AccountsAssumption DEF Init, NoOverdraft, ChargedOnce, DoubleEntry, PaidMeansCredited
<1>7. QED
  BY <1>2, <1>3, <1>4, <1>5, <1>6 DEF IInv

LEMMA FaultStep ==
    ASSUME IInv, NEW p \in Clients, Fault(p) \/ DeadlockAbort(p)
    PROVE  IInv'
<1>1. UNCHANGED bankState /\ faults' \in 0..MaxFaults
  BY MaxFaultsAssumption DEF Fault, DeadlockAbort, IInv, TypeOK
<1>2. CASE Fault(p)
  BY <1>1, <1>2, AnswerStep DEF Fault, Outcomes
<1>3. CASE DeadlockAbort(p)
  <2>1. \E q \in Clients : WaitsFor(p, q)
    BY <1>3 DEF DeadlockAbort, InCycle, IsCycle
  <2>2. pc[p] # "idle"
    BY <2>1 DEF WaitsFor, Wants, At
  <2>3. QED
    BY <1>1, <1>3, <2>2, AnswerStep DEF DeadlockAbort, Outcomes
<1>4. QED
  BY <1>2, <1>3

LEMMA CommitsStep ==
    ASSUME IInv, NEW p \in Clients, Commit(p) \/ CommitUnacknowledged(p)
    PROVE  IInv'
<1>1. pc[p] = "commit" /\ Publish(p) /\ faults' \in 0..MaxFaults
  BY MaxFaultsAssumption DEF Commit, CommitUnacknowledged, IInv, TypeOK
<1>2. \E o \in Outcomes : Answer(p, o)
  BY DEF Commit, CommitUnacknowledged, Outcomes
<1>3. QED
  BY <1>1, <1>2, CommitStep

LEMMA NextInvariant == IInv /\ [Next]_vars => IInv'
<1> SUFFICES ASSUME IInv, [Next]_vars PROVE IInv'
  OBVIOUS
<1>1. CASE UNCHANGED vars
  <2>1. TypeOK'
    BY <1>1 DEF vars, IInv, TypeOK, ShapeOf
  <2>2. LocksExclude'
    BY <1>1 DEF vars, IInv, LocksExclude, Holds, At
  <2>3. WorkIsComplete'
    BY <1>1 DEF vars, IInv, WorkIsComplete, WorkOf, Inserted, Journaled, Marked, Moved
  <2>4. ReadsStayTrue'
    BY <1>1 DEF vars, IInv, ReadsStayTrue, ReadsOf, SenderRead, FundsChecked, Inserted,
                Marked
  <2>5. (NoOverdraft /\ ChargedOnce /\ DoubleEntry /\ PaidMeansCredited)'
    BY <1>1 DEF vars, IInv, NoOverdraft, ChargedOnce, DoubleEntry, PaidMeansCredited
  <2>6. QED
    BY <2>1, <2>2, <2>3, <2>4, <2>5 DEF IInv
<1>2. CASE Next
  <2>1. PICK p \in Clients :
          \/ Submit(p) \/ Retry(p) \/ Step(p) \/ DeadlockAbort(p)
          \/ LookupErrorIgnored(p) \/ CommitUnacknowledged(p) \/ Fault(p)
    BY <1>2 DEF Next
  <2>2. CASE Submit(p)
    BY <2>2, SubmitStep
  <2>3. CASE Retry(p)
    BY <2>3, RetryStep
  <2>4. CASE Fault(p) \/ DeadlockAbort(p)
    BY <2>4, FaultStep
  <2>5. CASE LookupErrorIgnored(p) \/ Lookup(p)
    BY <2>5, LookupStep
  <2>6. CASE TakeFirst(p) \/ TakeSecond(p)
    BY <2>6, TakeStep
  <2>7. CASE CheckFunds(p)
    BY <2>7, CheckFundsStep
  <2>8. CASE MarkPaid(p)
    BY <2>8, MarkPaidStep
  <2>9. CASE Credit(p)
    BY <2>9, CreditStep
  <2>10. CASE Insert(p)
    BY <2>10, InsertStep
  <2>11. CASE Journal(p)
    BY <2>11, JournalStep
  <2>12. CASE Balances(p)
    BY <2>12, BalancesStep
  <2>13. CASE Commit(p) \/ CommitUnacknowledged(p)
    BY <2>13, CommitsStep
  <2>14. QED
    BY <2>1, <2>2, <2>3, <2>4, <2>5, <2>6, <2>7, <2>8, <2>9, <2>10, <2>11, <2>12,
       <2>13 DEF Step
<1>3. QED
  BY <1>1, <1>2

\* The inductive invariant holds in every reachable state.
THEOREM Invariance == Spec => []IInv
BY InitInvariant, NextInvariant, PTL DEF Spec

\* The state keeps its shape.
THEOREM TypeCorrect == Spec => []TypeOK
<1>1. IInv => TypeOK
  BY DEF IInv
<1>2. QED
  BY <1>1, Invariance, PTL

\* No account is overdrawn, whichever requests race for its balance.
THEOREM Solvency == Spec => []NoOverdraft
<1>1. IInv => NoOverdraft
  BY DEF IInv
<1>2. QED
  BY <1>1, Invariance, PTL

\* An idempotency key pays at most once, retries and lost answers included.
THEOREM KeysPayOnce == Spec => []ChargedOnce
<1>1. IInv => ChargedOnce
  BY DEF IInv
<1>2. QED
  BY <1>1, Invariance, PTL

\* The journal is the double-entry image of the transactions.
THEOREM JournalIsDoubleEntry == Spec => []DoubleEntry
<1>1. IInv => DoubleEntry
  BY DEF IInv
<1>2. QED
  BY <1>1, Invariance, PTL

\* An order is paid exactly when its credit is in the transactions.
THEOREM OrdersCreditedOnce == Spec => []PaidMeansCredited
<1>1. IInv => PaidMeansCredited
  BY DEF IInv
<1>2. QED
  BY <1>1, Invariance, PTL

\* Nobody holds a row another holds in a conflicting mode, and what a
\* transaction read under its locks is true until it commits.
THEOREM Isolation == Spec => [](LocksExclude /\ ReadsStayTrue)
<1>1. IInv => LocksExclude /\ ReadsStayTrue
  BY DEF IInv
<1>2. QED
  BY <1>1, Invariance, PTL

\* The five promises together, for any number of clients, accounts, orders and
\* requests, under retries, crashes and lost acknowledgements.
THEOREM MoneyIsSafe == Spec => []MoneySafe
<1>1. IInv => MoneySafe
  BY DEF IInv, MoneySafe
<1>2. QED
  BY <1>1, Invariance, PTL

-----------------------------------------------------------------------------
\* Answers.  Rows are never deleted and orders never reopened, so what was true
\* of an answer when it was given stays true.

HonestOf(p) ==
    /\ outcome[p] = "ok" => Row(req[p]) \in txns
    /\ outcome[p] \in {"replayed", "duplicate"} => KeyTaken(txns, req[p])
    /\ outcome[p] = "noop" => req[p].key \in Orders /\ deposit[req[p].key] = "paid"
    /\ pc[p] # "done" => outcome[p] = "none"

AnswersInv == \A p \in Clients : HonestOf(p)

\* What is committed stays.
Kept ==
    /\ txns \subseteq txns'
    /\ \A o \in Orders : deposit[o] = "paid" => deposit'[o] = "paid"

LEMMA HonestKept ==
    ASSUME NEW p \in Clients, HonestOf(p), Kept,
           req'[p] = req[p], outcome'[p] = outcome[p],
           outcome[p] # "none" => pc'[p] = pc[p]
    PROVE  HonestOf(p)'
<1>1. KeyTaken(txns, req[p]) => KeyTaken(txns', req[p])
  BY DEF KeyTaken, Kept
<1>2. KeyTaken(txns, req[p])' <=> KeyTaken(txns', req[p])
  BY DEF KeyTaken
<1>3. pc'[p] # "done" => outcome[p] = "none"
  BY DEF HonestOf
<1>4. QED
  BY <1>1, <1>2, <1>3 DEF HonestOf, Kept

\* An answer that is given is true of the state it is given in.
LEMMA AnswerHonest ==
    ASSUME TypeOK, AnswersInv, NEW p \in Clients, NEW o, Answer(p, o), Kept,
           o = "ok" => Row(req[p]) \in txns',
           o \in {"replayed", "duplicate"} => KeyTaken(txns, req[p]),
           o = "noop" => req[p].key \in Orders /\ deposit'[req[p].key] = "paid"
    PROVE  AnswersInv'
<1>1. \A q \in Clients \ {p} : HonestOf(q)'
  BY HonestKept DEF AnswersInv, Answer, Goto, TypeOK
<1>2. outcome'[p] = o /\ pc'[p] = "done" /\ req'[p] = req[p]
  BY DEF Answer, Goto, TypeOK
<1>3. KeyTaken(txns, req[p]) => KeyTaken(txns, req[p])'
  BY <1>2 DEF KeyTaken, Kept
<1>4. HonestOf(p)'
  BY <1>2, <1>3 DEF HonestOf
<1>5. QED
  BY <1>1, <1>4 DEF AnswersInv

\* A step that answers nobody.
LEMMA SilentHonest ==
    ASSUME TypeOK, AnswersInv, NEW p \in Clients, Kept,
           \A q \in Clients \ {p} :
              req'[q] = req[q] /\ outcome'[q] = outcome[q] /\ pc'[q] = pc[q],
           outcome'[p] = "none"
    PROVE  AnswersInv'
<1>1. \A q \in Clients \ {p} : HonestOf(q)'
  BY HonestKept DEF AnswersInv
<1>2. HonestOf(p)'
  BY DEF HonestOf
<1>3. QED
  BY <1>1, <1>2 DEF AnswersInv

LEMMA AnswersNext == IInv /\ AnswersInv /\ [Next]_vars => AnswersInv'
<1> SUFFICES ASSUME IInv, AnswersInv, [Next]_vars PROVE AnswersInv'
  OBVIOUS
<1>0. TypeOK
  BY DEF IInv
<1>1. CASE UNCHANGED vars
  BY <1>1 DEF vars, AnswersInv, HonestOf, KeyTaken
<1>2. ASSUME NEW p \in Clients,
             \/ Submit(p) \/ Retry(p) \/ LookupErrorIgnored(p)
             \/ TakeFirst(p) \/ TakeSecond(p) \/ Credit(p) \/ Journal(p) \/ Balances(p)
      PROVE  AnswersInv'
  <2>1. /\ UNCHANGED bankState
        /\ \A q \in Clients \ {p} :
              req'[q] = req[q] /\ outcome'[q] = outcome[q] /\ pc'[q] = pc[q]
    BY <1>0, <1>2 DEF Submit, Retry, LookupErrorIgnored, TakeFirst, TakeSecond, LockAccount,
       Credit, Journal, Balances, Goto, bankState, TypeOK
  <2>2. outcome'[p] = "none"
    <3>1. CASE Retry(p)
      BY <1>0, <3>1 DEF Retry, TypeOK
    <3>2. CASE ~ Retry(p)
      <4>1. pc[p] # "done" /\ outcome' = outcome
        BY <1>2, <3>2 DEF Submit, LookupErrorIgnored, TakeFirst, TakeSecond, LockAccount,
           Credit, Journal, Balances
      <4>2. QED
        BY <4>1 DEF AnswersInv, HonestOf
    <3>3. QED
      BY <3>1, <3>2
  <2>3. Kept
    BY <2>1 DEF Kept, bankState
  <2>4. QED
    BY <1>0, <2>1, <2>2, <2>3, SilentHonest
<1>3. ASSUME NEW p \in Clients,
             Lookup(p) \/ CheckFunds(p) \/ MarkPaid(p) \/ Insert(p)
      PROVE  AnswersInv'
  <2>1. UNCHANGED bankState /\ pc[p] # "done"
    BY <1>3 DEF Lookup, CheckFunds, MarkPaid, Insert, bankState
  <2>2. Kept
    BY <2>1 DEF Kept, bankState
  <2>3. CASE \E s \in Steps : Goto(p, s) /\ UNCHANGED <<req, outcome>>
    <3>1. \A q \in Clients \ {p} :
              req'[q] = req[q] /\ outcome'[q] = outcome[q] /\ pc'[q] = pc[q]
      BY <1>0, <2>3 DEF Goto, TypeOK
    <3>2. outcome'[p] = "none"
      BY <2>1, <2>3 DEF AnswersInv, HonestOf
    <3>3. QED
      BY <1>0, <2>2, <3>1, <3>2, SilentHonest
  <2>4. CASE (Lookup(p) \/ Insert(p)) /\ KeyTaken(txns, req[p])
    <3>1. \E o \in {"replayed", "duplicate"} : Answer(p, o)
      BY <2>4 DEF Lookup, Insert
    <3>2. QED
      BY <1>0, <2>2, <2>4, <3>1, AnswerHonest
  <2>5. CASE Answer(p, "insufficient")
    BY <1>0, <2>2, <2>5, AnswerHonest
  <2>6. CASE MarkPaid(p) /\ Answer(p, "noop") /\ deposit[req[p].key] # "created"
    <3>1. req[p].key \in Orders
      BY <1>0, <2>6, ActiveFacts, KindFacts, ConfirmFacts
         DEF MarkPaid, TypeOK, ShapeOf, TransferSteps
    <3>2. deposit'[req[p].key] = "paid"
      BY <1>0, <2>1, <2>6, <3>1 DEF TypeOK, Statuses, bankState
    <3>3. QED
      BY <1>0, <2>2, <2>6, <3>1, <3>2, AnswerHonest
  <2>7. QED
    BY <1>3, <2>3, <2>4, <2>5, <2>6
       DEF Lookup, CheckFunds, MarkPaid, Insert, Steps, TransferSteps, ConfirmSteps
<1>4. ASSUME NEW p \in Clients, Fault(p) \/ DeadlockAbort(p)
      PROVE  AnswersInv'
  <2>1. \E o \in {"error", "deadlock"} : Answer(p, o)
    BY <1>4 DEF Fault, DeadlockAbort
  <2>2. Kept
    BY <1>4 DEF Fault, DeadlockAbort, bankState, Kept
  <2>3. QED
    BY <1>0, <2>1, <2>2, AnswerHonest
<1>5. ASSUME NEW p \in Clients, Commit(p) \/ CommitUnacknowledged(p)
      PROVE  AnswersInv'
  <2>1. pc[p] = "commit" /\ Publish(p) /\ \E o \in {"ok", "error"} : Answer(p, o)
    BY <1>5 DEF Commit, CommitUnacknowledged
  <2>2. Kept
    BY <2>1 DEF Publish, Kept
  <2>3. Row(req[p]) \in txns'
    BY <2>1 DEF Publish, IInv, WorkIsComplete, WorkOf, Inserted
  <2>4. QED
    BY <1>0, <2>1, <2>2, <2>3, AnswerHonest
<1>6. QED
  BY <1>1, <1>2, <1>3, <1>4, <1>5 DEF Next, Step

\* Who is told that money has moved can rely on it: transfer_usecase.go's
\* replay and success, ConfirmPayment's no-op, a refused duplicate; under
\* retries, lost acknowledgements and every interleaving.
THEOREM AnswersAreTrue == Spec => []AnswersAreHonest
<1>1. Init => AnswersInv
  BY DEF Init, AnswersInv, HonestOf
<1>2. AnswersInv => AnswersAreHonest
  BY DEF AnswersInv, HonestOf, AnswersAreHonest
<1>3. QED
  BY <1>1, <1>2, AnswersNext, Invariance, PTL DEF Spec

-----------------------------------------------------------------------------
\* Books.  A commit adds one debit and one credit to the journal and moves the
\* two balances by the same amount; a confirmation moves one, and one order
\* more is paid.

Amounts == [e \in EntryRows |-> e.amount]
PaidIn == [o \in Orders |-> DepositOf[o].amount]

PostedRows(rows, a, direction) == {e \in rows : e.account = a /\ e.direction = direction}
PostedIn(rows, a, direction) == SumOver(Amounts, PostedRows(rows, a, direction))
PaidOrders == {o \in Orders : deposit[o] = "paid"}

BooksInv ==
    /\ IsFiniteSet(journal)
    /\ \A a \in Accounts \ {External} :
          balance[a] = Opening[a] + PostedIn(journal, a, "credit")
                                  - PostedIn(journal, a, "debit")
    /\ SumOver(balance, Accounts) = SumOver(Opening, Accounts) + SumOver(PaidIn, PaidOrders)

LEMMA BooksMean == TypeOK /\ BooksInv => BooksAgree
<1> SUFFICES ASSUME TypeOK, BooksInv PROVE BooksAgree
  OBVIOUS
<1>1. ASSUME NEW a, NEW direction
      PROVE  Posted(a, direction) = PostedIn(journal, a, direction)
  <2> DEFINE S == PostedRows(journal, a, direction)
             m == [e \in journal |-> e.amount]
  <2>1. Posted(a, direction) = SumOver(m, S)
    BY DEF Posted, Total, SumOver, PostedRows
  <2>2. IsFiniteSet(S) /\ S \subseteq journal /\ journal \subseteq EntryRows
    BY FS_Subset DEF BooksInv, TypeOK, PostedRows
  <2>3. \A e \in S : m[e] = Amounts[e]
    BY <2>2 DEF Amounts
  <2> HIDE DEF m, S
  <2>4. SumOver(m, S) = SumOver(Amounts, S)
    BY <2>2, <2>3, SumsAgree
  <2>5. QED
    BY <2>1, <2>4 DEF PostedIn, S
<1>2. /\ Total(balance, Accounts) = SumOver(balance, Accounts)
      /\ Total(Opening, Accounts) = SumOver(Opening, Accounts)
      /\ Total(PaidIn, PaidOrders) = SumOver(PaidIn, PaidOrders)
  BY DEF Total, SumOver
<1>3. QED
  BY <1>1, <1>2 DEF BooksAgree, BooksInv, PaidIn, PaidOrders

LEMMA BooksStart == Init => BooksInv
<1> SUFFICES ASSUME Init PROVE BooksInv
  OBVIOUS
<1>1. \A a, direction : PostedRows(journal, a, direction) = {}
  BY DEF Init, PostedRows
<1>2. \A a, direction : PostedIn(journal, a, direction) = 0
  BY <1>1, SumOfNothing DEF PostedIn
<1>3. PaidOrders = {}
  BY DEF Init, PaidOrders
<1>4. SumOver(PaidIn, PaidOrders) = 0
  BY <1>3, SumOfNothing
<1>5. \A a \in Accounts : Opening[a] \in Int
  BY AccountsAssumption
<1>6. SumOver(Opening, Accounts) \in Int
  BY <1>5, TablesAssumption, SumIsInteger
<1>7. IsFiniteSet(journal)
  BY FS_EmptySet DEF Init
<1>8. QED
  BY <1>2, <1>4, <1>5, <1>6, <1>7 DEF Init, BooksInv

\* A row that is new in the journal adds its amount to what is posted to its
\* account on its side, and nothing anywhere else.
LEMMA PostingOne ==
    ASSUME NEW rows \in SUBSET EntryRows, IsFiniteSet(rows), NEW e \in EntryRows, e \notin rows,
           NEW a, NEW direction
    PROVE  PostedIn(rows \cup {e}, a, direction) =
             PostedIn(rows, a, direction)
             + IF e.account = a /\ e.direction = direction THEN e.amount ELSE 0
<1> DEFINE S == PostedRows(rows, a, direction)
<1>1. IsFiniteSet(S) /\ e \notin S /\ S \subseteq EntryRows
  BY FS_Subset DEF PostedRows
<1>2. \A x \in S \cup {e} : Amounts[x] \in Int /\ Amounts[e] = e.amount
  BY <1>1 DEF Amounts, EntryRows
<1>3. CASE e.account = a /\ e.direction = direction
  <2>1. PostedRows(rows \cup {e}, a, direction) = S \cup {e}
    BY <1>3 DEF PostedRows
  <2> HIDE DEF S
  <2>2. SumOver(Amounts, S \cup {e}) = SumOver(Amounts, S) + Amounts[e]
    BY <1>1, <1>2, SumGrows
  <2>3. QED
    BY <1>2, <1>3, <2>1, <2>2 DEF PostedIn, S
<1>4. CASE ~ (e.account = a /\ e.direction = direction)
  <2>1. PostedRows(rows \cup {e}, a, direction) = S
    BY <1>4 DEF PostedRows
  <2> HIDE DEF S
  <2>2. SumOver(Amounts, S) \in Int
    BY <1>1, <1>2, SumIsInteger
  <2>3. QED
    BY <1>4, <2>1, <2>2 DEF PostedIn, S
<1>5. QED
  BY <1>3, <1>4

LEMMA PostedType ==
    ASSUME NEW rows \in SUBSET EntryRows, IsFiniteSet(rows), NEW a, NEW direction
    PROVE  PostedIn(rows, a, direction) \in Int
<1>1. /\ IsFiniteSet(PostedRows(rows, a, direction))
      /\ \A x \in PostedRows(rows, a, direction) : Amounts[x] \in Int
  BY FS_Subset DEF PostedRows, Amounts, EntryRows
<1>2. QED
  BY <1>1, SumIsInteger DEF PostedIn

\* Both entries of a row that is not in the books yet.
LEMMA PostingRow ==
    ASSUME NEW rows \in SUBSET EntryRows, IsFiniteSet(rows), NEW t \in TransactionRows,
           \A e \in rows : e.row # t, t.from # t.to
    PROVE  /\ IsFiniteSet(rows \cup Entries(t))
           /\ \A a \in Accounts :
                /\ PostedIn(rows \cup Entries(t), a, "credit") =
                     PostedIn(rows, a, "credit") + IF a = t.to THEN t.amount ELSE 0
                /\ PostedIn(rows \cup Entries(t), a, "debit") =
                     PostedIn(rows, a, "debit") + IF a = t.from THEN t.amount ELSE 0
<1> DEFINE d == [row |-> t, account |-> t.from, amount |-> t.amount, direction |-> "debit"]
           c == [row |-> t, account |-> t.to, amount |-> t.amount, direction |-> "credit"]
           more == rows \cup {d}
<1>1. d \in EntryRows /\ c \in EntryRows /\ d \notin rows /\ c \notin more
  BY DEF EntryRows, TransactionRows
<1>2. more \in SUBSET EntryRows /\ IsFiniteSet(more) /\ IsFiniteSet(more \cup {c})
  <2> HIDE DEF d, c
  <2>1. more \in SUBSET EntryRows /\ IsFiniteSet(more)
    BY <1>1, FS_AddElement
  <2> HIDE DEF more
  <2>2. IsFiniteSet(more \cup {c})
    BY <2>1, FS_AddElement
  <2>3. QED
    BY <2>1, <2>2
<1>3. rows \cup Entries(t) = more \cup {c}
  BY DEF Entries
<1>4. t.amount \in Int
  BY DEF TransactionRows
<1> SUFFICES ASSUME NEW a \in Accounts
             PROVE  /\ PostedIn(more \cup {c}, a, "credit") =
                         PostedIn(rows, a, "credit") + IF a = t.to THEN t.amount ELSE 0
                    /\ PostedIn(more \cup {c}, a, "debit") =
                         PostedIn(rows, a, "debit") + IF a = t.from THEN t.amount ELSE 0
  BY <1>2, <1>3
<1>5. /\ d.account = t.from /\ d.amount = t.amount /\ d.direction = "debit"
      /\ c.account = t.to /\ c.amount = t.amount /\ c.direction = "credit"
  OBVIOUS
<1> HIDE DEF d, c
<1>6. ASSUME NEW side \in {"credit", "debit"}
      PROVE  /\ PostedIn(more, a, side) =
                  PostedIn(rows, a, side)
                  + IF d.account = a /\ d.direction = side THEN d.amount ELSE 0
             /\ PostedIn(rows, a, side) \in Int
  BY <1>1, PostingOne, PostedType
<1> HIDE DEF more
<1>7. ASSUME NEW side \in {"credit", "debit"}
      PROVE  PostedIn(more \cup {c}, a, side) =
                PostedIn(more, a, side)
                + IF c.account = a /\ c.direction = side THEN c.amount ELSE 0
  BY <1>1, <1>2, PostingOne
<1>8. QED
  BY <1>4, <1>5, <1>6, <1>7

LEMMA BooksCommit ==
    ASSUME IInv, BooksInv, NEW p \in Clients, pc[p] = "commit", Publish(p)
    PROVE  BooksInv'
<1> DEFINE r == req[p]
           t == Row(r)
<1>1. /\ balance' = [a \in Accounts |-> balance[a] + Moves(r)[a]]
      /\ journal' = journal \cup Entries(t)
      /\ r.kind = "confirm" => deposit' = [deposit EXCEPT ![r.key] = "paid"]
                               /\ deposit[r.key] = "created"
      /\ r.kind # "confirm" => deposit' = deposit
      /\ ~ KeyTaken(txns, r)
  BY PublishFacts
<1>2. /\ r.from \in Accounts /\ r.to \in Accounts /\ r.from # r.to
      /\ r.amount \in Int /\ t \in TransactionRows
  BY ActiveFacts DEF IInv
<1>3. r.kind = "confirm" => /\ r.from = External /\ r.key \in Orders
                            /\ r.amount = DepositOf[r.key].amount
  <2>1. r.kind = "confirm" => r \in ConfirmRequests
    BY KindFacts DEF IInv
  <2>2. QED
    BY <2>1, ConfirmFacts DEF ConfirmRequest
<1>4. t.from = r.from /\ t.to = r.to /\ t.amount = r.amount
  BY DEF Row
<1>5. \A e \in journal : e.row # t
  <2>1. t \notin txns
    BY <1>1 DEF KeyTaken, SameKey, Row
  <2>2. \A e \in journal : e.row \in txns
    BY DEF IInv, DoubleEntry, Entries
  <2>3. QED
    BY <2>1, <2>2
<1>6. /\ journal \in SUBSET EntryRows /\ IsFiniteSet(journal)
      /\ balance \in [Accounts -> Int] /\ deposit \in [Orders -> Statuses]
  BY DEF IInv, TypeOK, BooksInv
<1> HIDE DEF t
<1>7. /\ IsFiniteSet(journal')
      /\ \A a \in Accounts :
           /\ PostedIn(journal', a, "credit") =
                PostedIn(journal, a, "credit") + IF a = r.to THEN r.amount ELSE 0
           /\ PostedIn(journal', a, "debit") =
                PostedIn(journal, a, "debit") + IF a = r.from THEN r.amount ELSE 0
  <2>1. t.from # t.to /\ journal' = journal \cup Entries(t)
    BY <1>1, <1>2, <1>4
  <2> HIDE DEF r
  <2>2. /\ IsFiniteSet(journal \cup Entries(t))
        /\ \A a \in Accounts :
             /\ PostedIn(journal \cup Entries(t), a, "credit") =
                  PostedIn(journal, a, "credit") + IF a = t.to THEN t.amount ELSE 0
             /\ PostedIn(journal \cup Entries(t), a, "debit") =
                  PostedIn(journal, a, "debit") + IF a = t.from THEN t.amount ELSE 0
    BY <1>2, <1>5, <1>6, <2>1, PostingRow
  <2>3. QED
    BY <1>4, <2>1, <2>2
<1>8. ASSUME NEW a \in Accounts \ {External}
      PROVE  balance'[a] = Opening[a] + PostedIn(journal', a, "credit")
                                      - PostedIn(journal', a, "debit")
  <2>1. balance[a] = Opening[a] + PostedIn(journal, a, "credit") - PostedIn(journal, a, "debit")
    BY DEF BooksInv
  <2>2. balance'[a] = balance[a] + Moves(r)[a]
    BY <1>1
  <2>3. Moves(r)[a] = (IF a = r.to THEN r.amount ELSE 0) - (IF a = r.from THEN r.amount ELSE 0)
    BY <1>2, <1>3, <1>8 DEF Moves
  <2>4. Opening[a] \in Int
    BY AccountsAssumption
  <2>5. PostedIn(journal, a, "credit") \in Int /\ PostedIn(journal, a, "debit") \in Int
    BY <1>6, PostedType
  <2> HIDE DEF r
  <2>6. QED
    BY <1>2, <1>7, <2>1, <2>2, <2>3, <2>4, <2>5
<1> HIDE DEF r
<1>9. SumOver(balance, Accounts) \in Int /\ \A a \in Accounts : balance[a] \in Int
  BY <1>6, TablesAssumption, SumIsInteger
<1>10. \A a \in Accounts : balance'[a] = balance[a] + Moves(r)[a] /\ Moves(r)[a] \in Int
  BY <1>1, <1>2 DEF Moves
<1>11. CASE r.kind # "confirm"
  <2> DEFINE between == [balance EXCEPT ![r.from] = balance[r.from] - r.amount]
  <2>1. between[r.from] = balance[r.from] - r.amount
    BY <1>2, <1>6
  <2>2. /\ \A a \in Accounts : between[a] \in Int
        /\ \A a \in Accounts \ {r.from} : between[a] = balance[a]
    BY <1>2, <1>6
  <2>3. /\ balance'[r.to] = between[r.to] + r.amount
        /\ \A a \in Accounts \ {r.to} : balance'[a] = between[a]
        /\ \A a \in Accounts : balance'[a] \in Int
    BY <1>2, <1>9, <1>10, <1>11, <2>1, <2>2 DEF Moves
  <2> HIDE DEF between
  <2>4. SumOver(between, Accounts) =
          SumOver(balance, Accounts) + between[r.from] - balance[r.from]
    BY <1>2, <1>9, <2>2, TablesAssumption, SumMoves
  <2>5. SumOver(balance', Accounts) =
          SumOver(between, Accounts) + balance'[r.to] - between[r.to]
    BY <1>2, <2>2, <2>3, TablesAssumption, SumMoves
  <2>6. SumOver(balance', Accounts) = SumOver(balance, Accounts)
    BY <1>2, <1>9, <2>1, <2>2, <2>3, <2>4, <2>5
  <2>7. PaidOrders' = PaidOrders
    BY <1>1, <1>11 DEF PaidOrders
  <2>8. QED
    BY <1>7, <1>8, <2>6, <2>7 DEF BooksInv
<1>12. CASE r.kind = "confirm"
  <2>1. /\ balance'[r.to] = balance[r.to] + r.amount
        /\ \A a \in Accounts \ {r.to} : balance'[a] = balance[a]
        /\ \A a \in Accounts : balance'[a] \in Int
    BY <1>2, <1>3, <1>9, <1>10, <1>12 DEF Moves
  <2>2. SumOver(balance', Accounts) =
          SumOver(balance, Accounts) + balance'[r.to] - balance[r.to]
    BY <1>2, <1>9, <2>1, TablesAssumption, SumMoves
  <2>3. SumOver(balance', Accounts) = SumOver(balance, Accounts) + r.amount
    BY <1>2, <1>9, <2>1, <2>2
  <2>4. PaidOrders' = PaidOrders \cup {r.key} /\ r.key \notin PaidOrders
    BY <1>1, <1>3, <1>6, <1>12 DEF PaidOrders
  <2>5. IsFiniteSet(PaidOrders) /\ \A o \in PaidOrders \cup {r.key} : PaidIn[o] \in Int
    BY <1>3, <1>12, TablesAssumption, FS_Subset, OrdersAssumption DEF PaidOrders, PaidIn
  <2>6. SumOver(PaidIn, PaidOrders') = SumOver(PaidIn, PaidOrders) + r.amount
    <3>1. SumOver(PaidIn, PaidOrders \cup {r.key}) = SumOver(PaidIn, PaidOrders) + PaidIn[r.key]
      BY <2>4, <2>5, SumGrows
    <3>2. PaidIn[r.key] = r.amount
      BY <1>3, <1>12 DEF PaidIn
    <3>3. QED
      BY <2>4, <3>1, <3>2
  <2>7. SumOver(PaidIn, PaidOrders) \in Int
    BY <2>5, SumIsInteger
  <2>8. SumOver(Opening, Accounts) \in Int
    BY AccountsAssumption, TablesAssumption, SumIsInteger
  <2>9. SumOver(balance', Accounts) =
          SumOver(Opening, Accounts) + SumOver(PaidIn, PaidOrders')
    BY <1>2, <2>3, <2>6, <2>7, <2>8 DEF BooksInv
  <2>10. PaidIn' = PaidIn /\ Opening' = Opening
    BY DEF PaidIn
  <2>11. QED
    BY <1>7, <1>8, <2>9, <2>10 DEF BooksInv
<1>13. QED
  BY <1>11, <1>12

LEMMA BooksNext == IInv /\ BooksInv /\ [Next]_vars => BooksInv'
<1> SUFFICES ASSUME IInv, BooksInv, [Next]_vars PROVE BooksInv'
  OBVIOUS
<1>1. ASSUME UNCHANGED bankState PROVE BooksInv'
  <2>1. balance' = balance /\ journal' = journal /\ PaidOrders' = PaidOrders
    BY <1>1 DEF bankState, PaidOrders
  <2>2. QED
    BY <2>1 DEF BooksInv
<1>2. ASSUME NEW p \in Clients, Commit(p) \/ CommitUnacknowledged(p) PROVE BooksInv'
  BY <1>2, BooksCommit DEF Commit, CommitUnacknowledged
<1>3. ASSUME NEW p \in Clients,
             \/ Submit(p) \/ Retry(p) \/ Fault(p) \/ DeadlockAbort(p) \/ Lookup(p)
             \/ LookupErrorIgnored(p) \/ TakeFirst(p) \/ TakeSecond(p)
             \/ CheckFunds(p) \/ MarkPaid(p) \/ Credit(p) \/ Insert(p)
             \/ Journal(p) \/ Balances(p)
      PROVE  UNCHANGED bankState
  BY <1>3 DEF Submit, Retry, Fault, DeadlockAbort, Lookup, LookupErrorIgnored,
     TakeFirst, TakeSecond, LockAccount, CheckFunds, MarkPaid, Credit, Insert,
     Journal, Balances, bankState
<1>4. UNCHANGED vars => UNCHANGED bankState
  BY DEF vars, bankState
<1>5. QED
  BY <1>1, <1>2, <1>3, <1>4 DEF Next, Step

\* The books (ledger_repo.go, ExecuteTransfer; deposits_repo.go,
\* ConfirmPayment), for every number of accounts, orders, requests, crashes and
\* retries: every balance but the external one is its opening balance and what
\* the journal posts to it, and money enters with paid orders only.
THEOREM BooksBalance == Spec => []BooksAgree
<1>1. IInv => TypeOK
  BY DEF IInv
<1>2. QED
  BY <1>1, BooksStart, BooksNext, BooksMean, Invariance, PTL DEF Spec

-----------------------------------------------------------------------------
\* Waiting.  A transfer that waits holds at most the lower of its accounts, so
\* another transfer that waits for it wants a lower one than it does.

LEMMA ClimbLemma == TypeOK => WaitsClimb
<1> SUFFICES ASSUME TypeOK, NEW p \in Clients, NEW q \in Clients, WaitsFor(p, q),
                    req[p].kind \in TransferKinds, req[q].kind \in TransferKinds,
                    NEW l \in Wants(p), NEW m \in Wants(q)
             PROVE  Rank[l.row] < Rank[m.row]
  BY DEF WaitsClimb
<1>1. req[q] \in Requests /\ req[p] \in Requests
  BY KindFacts
<1>2. pc[q] \in {"first", "second"}
  BY DEF Wants, At
<1>3. pc[q] = "second" /\ Holds(q) = {Lock(LockFirst(req[q]), "update")}
      /\ Wants(q) = {Lock(LockSecond(req[q]), "update")}
  BY <1>2 DEF WaitsFor, Holds, Wants, At, TransferSteps
<1>4. l.row = LockFirst(req[q])
  <2>1. \A k \in Wants(p) : k = l
    BY DEF Wants, At
  <2>2. QED
    BY <1>3, <2>1 DEF WaitsFor, Conflict, Lock
<1>5. m.row = LockSecond(req[q])
  BY <1>3 DEF Lock
<1>6. Rank[LockFirst(req[q])] < Rank[LockSecond(req[q])]
  <2>1. /\ req[q].from \in Accounts /\ req[q].to \in Accounts
        /\ req[q].from # req[q].to
    BY <1>1, RequestFacts
  <2>2. /\ Rank[req[q].from] \in Int /\ Rank[req[q].to] \in Int
        /\ Rank[req[q].from] # Rank[req[q].to]
    BY <2>1, AccountsAssumption
  <2>3. QED
    BY <2>2 DEF LockFirst, LockSecond
<1>7. QED
  BY <1>4, <1>5, <1>6

\* The waits among transfers climb the order of the account ids, which is why
\* they never close a circle.
THEOREM TransfersClimb == Spec => []WaitsClimb
BY TypeCorrect, ClimbLemma, PTL

-----------------------------------------------------------------------------
\* Deadlocks.  Along a circle of waiting transfers the rank of the wanted
\* account would grow all the way round, which the least rank rules out.

LEMMA Multiples ==
    ASSUME NEW n \in Nat \ {0}, NEW q \in Int
    PROVE  /\ n * q \in Int
           /\ q >= 1 => n * q >= n
           /\ q <= -1 => n * q <= - n
           /\ q = 0 => n * q = 0
OBVIOUS

LEMMA SmallRemainder ==
    ASSUME NEW n \in Nat \ {0}, NEW i \in 1 .. n, i < n
    PROVE  i % n = i
<1> DEFINE q == i \div n
           m == i % n
           product == n * q
<1>1. i = n * q + m /\ q \in Int /\ m \in Int /\ 0 <= m /\ m < n
  OBVIOUS
<1> HIDE DEF q, m
<1>2. /\ product \in Int /\ (q = 0 => product = 0)
      /\ (q >= 1 => product >= n) /\ (q <= -1 => product <= - n)
  BY <1>1, Multiples
<1>3. i = product + m
  BY <1>1
<1> HIDE DEF product
<1>4. m = i
  <2>1. ~ (q >= 1) /\ ~ (q <= -1)
    BY <1>1, <1>2, <1>3
  <2>2. q = 0
    BY <1>1, <2>1
  <2>3. QED
    BY <1>1, <1>2, <1>3, <2>2
<1>5. QED
  BY <1>4 DEF m

\* The neighbours on a circle.
LEMMA NextOnCircle ==
    ASSUME NEW n \in Nat \ {0}, NEW i \in 1 .. n
    PROVE  /\ (i % n) + 1 \in 1 .. n
           /\ i < n => (i % n) + 1 = i + 1
           /\ i = n => (i % n) + 1 = 1
           /\ \E j \in 1 .. n : (j % n) + 1 = i
<1>1. i < n => (i % n) + 1 = i + 1
  BY SmallRemainder
<1>2. n % n = 0
  OBVIOUS
<1>3. \E j \in 1 .. n : (j % n) + 1 = i
  <2>1. CASE i = 1
    BY <1>2, <2>1
  <2>2. CASE i # 1
    <3>1. i - 1 \in 1 .. n /\ i - 1 < n
      BY <2>2
    <3>2. (i - 1) % n = i - 1
      BY <3>1, SmallRemainder
    <3>3. QED
      BY <3>1, <3>2
  <2>3. QED
    BY <2>1, <2>2
<1>4. QED
  BY <1>1, <1>2, <1>3

LEMMA NothingGrowsRound ==
    ASSUME NEW n \in Nat \ {0}, NEW f \in [1 .. n -> Int],
           \A i \in 1 .. n : f[i] < f[(i % n) + 1]
    PROVE  FALSE
<1>1. f[n] < f[1]
  BY NextOnCircle
<1> DEFINE T == {k \in 1 .. n : f[k] < f[1]}
<1>2. T \subseteq Nat /\ n \in T
  BY <1>1
<1>3. PICK x \in T : \A y \in T : x <= y
  <2> HIDE DEF T
  <2> QED BY <1>2, LeastNumber
<1>4. x - 1 \in 1 .. n /\ x - 1 < n
  OBVIOUS
<1> DEFINE y == x - 1
<1>5. f[y] < f[x]
  <2>1. y \in 1 .. n /\ y < n /\ y + 1 = x
    BY <1>4
  <2> HIDE DEF y
  <2>2. (y % n) + 1 = x
    BY <2>1, NextOnCircle
  <2>3. QED
    BY <2>1, <2>2
<1>6. y \in T
  BY <1>4, <1>5
<1>7. QED
  BY <1>3, <1>6

\* Who waits wants one row, of the kind its statement locks.
LEMMA WaiterFacts ==
    ASSUME TypeOK, NEW p \in Clients, NEW q \in Clients, WaitsFor(p, q)
    PROVE  /\ pc[p] \in {"first", "second", "mark", "credit", "insert"}
           /\ req[p].kind \in TransferKinds =>
                \E a \in {req[p].from, req[p].to} :
                   a \in Accounts /\ Wants(p) = {Lock(a, "update")}
           /\ req[p].kind \notin TransferKinds =>
                /\ req[p].kind = "confirm"
                /\ req[p].key \in Orders /\ req[p].to \in Accounts
                /\ req[p].from = External
                /\ pc[p] = "mark" =>
                     Wants(p) = {Lock(req[p].key, "nokey")} /\ Holds(p) = {}
                /\ pc[p] = "credit" =>
                     /\ Wants(p) = {Lock(req[p].to, "nokey")}
                     /\ Holds(p) = {Lock(req[p].key, "nokey")}
                /\ pc[p] = "insert" => Wants(p) = {Lock(External, "keyshare")}
                /\ pc[p] \in {"mark", "credit", "insert"}
<1>1. Wants(p) # {}
  BY DEF WaitsFor
<1>2. CASE req[p].kind \in TransferKinds
  <2>1. req[p] \in Requests
    BY <1>2, KindFacts
  <2>2. req[p].from \in Accounts /\ req[p].to \in Accounts
    BY <2>1, RequestFacts
  <2>3. CASE pc[p] = "first"
    BY <1>2, <2>2, <2>3, LockOrder DEF Wants, At
  <2>4. CASE pc[p] = "second"
    BY <1>2, <2>2, <2>4, LockOrder DEF Wants, At
  <2>5. QED
    BY <1>1, <1>2, <2>3, <2>4 DEF Wants, At
<1>3. CASE req[p].kind \notin TransferKinds
  <2>1. req[p].kind = "confirm"
    BY <1>1, <1>3 DEF Wants
  <2>2. req[p] \in ConfirmRequests
    BY <2>1, KindFacts
  <2>3. req[p].key \in Orders /\ req[p].from = External /\ req[p].to \in Accounts
    BY <2>2, ConfirmFacts
  <2>4. pc[p] \in {"mark", "credit", "insert"}
    BY <1>1, <1>3, <2>1 DEF Wants, At
  <2>5. CASE pc[p] = "mark"
    BY <1>3, <2>1, <2>3, <2>5 DEF Wants, Holds, At, ConfirmSteps
  <2>6. CASE pc[p] = "credit"
    BY <1>3, <2>1, <2>3, <2>6 DEF Wants, Holds, At, ConfirmSteps
  <2>7. CASE pc[p] = "insert"
    BY <1>3, <2>1, <2>3, <2>7 DEF Wants, At
  <2>8. QED
    BY <1>3, <2>1, <2>3, <2>4, <2>5, <2>6, <2>7
<1>4. QED
  BY <1>2, <1>3

LEMMA CircleHasConfirmation ==
    ASSUME TypeOK, NEW n \in Nat \ {0}, NEW c \in [1 .. n -> Clients], IsCycle(c, n)
    PROVE  \E i \in 1 .. n : req[c[i]].kind = "confirm"
<1> SUFFICES ASSUME \A i \in 1 .. n : req[c[i]].kind # "confirm" PROVE FALSE
  OBVIOUS
<1>1. \A i \in 1 .. n : (i % n) + 1 \in 1 .. n /\ WaitsFor(c[i], c[(i % n) + 1])
  BY NextOnCircle DEF IsCycle
<1>2. \A i \in 1 .. n : \E a \in Accounts : Wants(c[i]) = {Lock(a, "update")}
  <2> SUFFICES ASSUME NEW i \in 1 .. n
               PROVE  \E a \in Accounts : Wants(c[i]) = {Lock(a, "update")}
    OBVIOUS
  <2>1. c[i] \in Clients /\ \E q \in Clients : WaitsFor(c[i], q)
    BY <1>1
  <2>2. req[c[i]].kind \in TransferKinds
    BY <2>1, WaiterFacts
  <2>3. \E a \in {req[c[i]].from, req[c[i]].to} :
           a \in Accounts /\ Wants(c[i]) = {Lock(a, "update")}
    BY <2>1, <2>2, WaiterFacts
  <2>4. QED
    BY <2>3
<1>3. \A i \in 1 .. n : req[c[i]].kind \in TransferKinds
  BY <1>1, WaiterFacts
<1> DEFINE wanted(i) == CHOOSE a \in Accounts : Wants(c[i]) = {Lock(a, "update")}
           f == [i \in 1 .. n |-> Rank[wanted(i)]]
<1>4. \A i \in 1 .. n : wanted(i) \in Accounts /\ Wants(c[i]) = {Lock(wanted(i), "update")}
  BY <1>2
<1>5. f \in [1 .. n -> Int]
  BY <1>4, AccountsAssumption
<1>6. \A i \in 1 .. n : f[i] < f[(i % n) + 1]
  <2> SUFFICES ASSUME NEW i \in 1 .. n PROVE f[i] < f[(i % n) + 1]
    OBVIOUS
  <2> DEFINE j == (i % n) + 1
  <2>1. j \in 1 .. n /\ WaitsFor(c[i], c[j])
    BY <1>1
  <2> HIDE DEF j
  <2>2. WaitsClimb
    BY ClimbLemma
  <2>3. Lock(wanted(i), "update") \in Wants(c[i]) /\ Lock(wanted(j), "update") \in Wants(c[j])
    BY <1>4, <2>1
  <2> HIDE DEF wanted
  <2>4. Rank[Lock(wanted(i), "update").row] < Rank[Lock(wanted(j), "update").row]
    BY <1>3, <2>1, <2>2, <2>3 DEF WaitsClimb
  <2>5. f[i] < f[j]
    BY <2>1, <2>4 DEF Lock
  <2>6. QED
    BY <2>5 DEF j
<1> HIDE DEF f
<1>7. QED
  BY <1>5, <1>6, NothingGrowsRound

LEMMA CircleHasExternal ==
    ASSUME TypeOK, NEW n \in Nat \ {0}, NEW c \in [1 .. n -> Clients], IsCycle(c, n)
    PROVE  \E i \in 1 .. n : /\ req[c[i]].kind \in TransferKinds
                             /\ External \in {req[c[i]].from, req[c[i]].to}
<1> SUFFICES ASSUME \A i \in 1 .. n : req[c[i]].kind \in TransferKinds =>
                       External \notin {req[c[i]].from, req[c[i]].to}
             PROVE  FALSE
  OBVIOUS
<1>1. \A i \in 1 .. n : (i % n) + 1 \in 1 .. n /\ WaitsFor(c[i], c[(i % n) + 1])
  BY NextOnCircle DEF IsCycle
<1>2. ASSUME NEW i \in 1 .. n PROVE \E j \in 1 .. n : WaitsFor(c[j], c[i])
  <2>1. PICK j \in 1 .. n : (j % n) + 1 = i
    BY NextOnCircle
  <2>2. WaitsFor(c[j], c[(j % n) + 1])
    BY <1>1
  <2>3. QED
    BY <2>1, <2>2
<1>3. ASSUME NEW i \in 1 .. n, req[c[i]].kind = "confirm", pc[c[i]] = "mark"
      PROVE  FALSE
  <2>1. Holds(c[i]) = {}
    BY <1>1, <1>3, WaiterFacts DEF TransferKinds
  <2>2. QED
    BY <1>2, <2>1 DEF WaitsFor
<1>4. ASSUME NEW i \in 1 .. n, req[c[i]].kind = "confirm", pc[c[i]] = "insert"
      PROVE  FALSE
  <2>1. PICK j \in 1 .. n : WaitsFor(c[i], c[j])
    BY <1>1
  <2>2. Wants(c[i]) = {Lock(External, "keyshare")}
    BY <1>1, <1>4, WaiterFacts DEF TransferKinds
  <2>3. PICK l \in Holds(c[j]) : l.row = External /\ l.mode = "update"
    BY <2>1, <2>2 DEF WaitsFor, Conflict, Lock
  <2>4. req[c[j]].kind \in TransferKinds
    BY <2>3 DEF Holds, At, Lock
  <2>5. l.row \in {req[c[j]].from, req[c[j]].to}
    BY <2>3, <2>4, LockOrder DEF Holds, At, Lock
  <2>6. QED
    BY <2>3, <2>4, <2>5
<1>5. ASSUME NEW i \in 1 .. n, req[c[i]].kind = "confirm", pc[c[i]] = "credit"
      PROVE  FALSE
  <2>1. Holds(c[i]) = {Lock(req[c[i]].key, "nokey")} /\ req[c[i]].key \in Orders
    BY <1>1, <1>5, WaiterFacts DEF TransferKinds
  <2>2. PICK j \in 1 .. n : WaitsFor(c[j], c[i])
    BY <1>2
  <2>3. PICK m \in Wants(c[j]) : m.row = req[c[i]].key
    BY <2>1, <2>2 DEF WaitsFor, Conflict, Lock
  <2>4. m.row \notin Accounts
    BY <2>1, <2>3, AccountsAssumption
  <2>5. req[c[j]].kind = "confirm" /\ pc[c[j]] \in {"mark", "credit", "insert"}
    <3>1. req[c[j]].kind \notin TransferKinds
      BY <2>2, <2>4, WaiterFacts DEF Lock
    <3>2. QED
      BY <2>2, <3>1, WaiterFacts
  <2>6. pc[c[j]] # "mark" /\ pc[c[j]] # "insert"
    BY <1>3, <1>4, <2>5
  <2>7. Wants(c[j]) = {Lock(req[c[j]].to, "nokey")} /\ req[c[j]].to \in Accounts
    BY <2>2, <2>5, <2>6, WaiterFacts DEF TransferKinds
  <2>8. QED
    BY <2>4, <2>7 DEF Lock
<1>6. PICK i \in 1 .. n : req[c[i]].kind = "confirm"
  BY CircleHasConfirmation
<1>7. pc[c[i]] \in {"mark", "credit", "insert"}
  BY <1>1, <1>6, WaiterFacts DEF TransferKinds
<1>8. QED
  BY <1>3, <1>4, <1>5, <1>6, <1>7

\* ledger_repo.go:35: locking both accounts in the order of their ids keeps any
\* number of transfers from waiting for each other in a circle.  What is left
\* are circles of a confirmation, which locks the order and the wallet before
\* the external account, and a transfer that has locked the external account.
THEOREM TransfersDoNotDeadlock == Spec => []TransfersNeverDeadlock
<1>1. TypeOK => TransfersNeverDeadlock
  <2> SUFFICES ASSUME TypeOK, NEW n \in 2 .. Cardinality(Clients),
                      NEW c \in [1 .. n -> Clients], IsCycle(c, n)
               PROVE  /\ \E i \in 1 .. n : req[c[i]].kind = "confirm"
                      /\ \E i \in 1 .. n :
                           /\ req[c[i]].kind \in TransferKinds
                           /\ External \in {req[c[i]].from, req[c[i]].to}
    BY DEF TransfersNeverDeadlock
  <2>1. n \in Nat \ {0}
    OBVIOUS
  <2>2. QED
    BY <2>1, CircleHasConfirmation, CircleHasExternal
<1>2. QED
  BY <1>1, TypeCorrect, PTL

-----------------------------------------------------------------------------
\* Ledger implements Bank.

LEMMA CommitRefines ==
    ASSUME IInv, NEW p \in Clients, pc[p] = "commit", Publish(p)
    PROVE  Abstract!BankNext
<1>1. /\ req[p].kind \in TransferKinds \/ req[p].kind = "confirm"
      /\ req[p].from \in Accounts /\ req[p].to \in Accounts
      /\ req[p].from # req[p].to /\ req[p].amount \in Int
  BY ActiveFacts DEF IInv
<1>2. balance \in [Accounts -> Int]
  BY DEF IInv, TypeOK
<1>3. CASE req[p].kind # "confirm"
  <2>1. req[p] \in Requests
    BY <1>1, <1>3, KindFacts DEF IInv
  <2>2. balance' = [balance EXCEPT ![req[p].from] = @ - req[p].amount,
                                   ![req[p].to] = @ + req[p].amount]
    BY <1>1, <1>2, <1>3, PublishFacts DEF Moves
  <2>3. Abstract!Transfer(req[p])
    BY <1>3, <2>2, PublishFacts
       DEF Abstract!Transfer, Abstract!KeyTaken, KeyTaken, Abstract!SameKey, SameKey,
           Abstract!Row, Row
  <2>4. QED
    BY <2>1, <2>3 DEF Abstract!BankNext
<1>4. CASE req[p].kind = "confirm"
  <2>1. req[p].key \in Orders /\ req[p] = ConfirmRequest(req[p].key)
    BY <1>4, KindFacts, ConfirmFacts DEF IInv
  <2>2. balance' = [balance EXCEPT ![req[p].to] = @ + req[p].amount]
    BY <1>1, <1>2, <1>4, PublishFacts DEF Moves
  <2>3. /\ txns' = txns \cup {Row(req[p])} /\ ~ KeyTaken(txns, req[p])
        /\ deposit[req[p].key] = "created"
        /\ deposit' = [deposit EXCEPT ![req[p].key] = "paid"]
    BY <1>4, PublishFacts
  <2>4. Abstract!ConfirmRequest(req[p].key) = req[p]
    BY <2>1 DEF Abstract!ConfirmRequest, ConfirmRequest
  <2>5. Abstract!KeyTaken(txns, req[p]) <=> KeyTaken(txns, req[p])
    BY DEF Abstract!KeyTaken, KeyTaken, Abstract!SameKey, SameKey
  <2>6. Abstract!Row(req[p]) = Row(req[p])
    BY DEF Abstract!Row, Row
  <2>7. Abstract!Confirm(req[p].key)
    BY <2>2, <2>3, <2>4, <2>5, <2>6 DEF Abstract!Confirm
  <2>8. QED
    BY <2>1, <2>7 DEF Abstract!BankNext
<1>5. QED
  BY <1>3, <1>4

LEMMA StepRefines ==
    IInv /\ [Next]_vars => [Abstract!BankNext]_(Abstract!bankVars)
<1> SUFFICES ASSUME IInv, [Next]_vars
             PROVE  Abstract!BankNext \/ UNCHANGED <<balance, txns, deposit>>
  BY DEF Abstract!bankVars
<1>1. CASE UNCHANGED vars
  BY <1>1 DEF vars
<1>2. ASSUME NEW p \in Clients, Commit(p) \/ CommitUnacknowledged(p)
      PROVE  Abstract!BankNext
  BY <1>2, CommitRefines DEF Commit, CommitUnacknowledged
<1>3. ASSUME NEW p \in Clients,
             \/ Submit(p) \/ Retry(p) \/ Fault(p) \/ DeadlockAbort(p) \/ Lookup(p)
             \/ LookupErrorIgnored(p) \/ TakeFirst(p) \/ TakeSecond(p)
             \/ CheckFunds(p) \/ MarkPaid(p) \/ Credit(p) \/ Insert(p)
             \/ Journal(p) \/ Balances(p)
      PROVE  UNCHANGED <<balance, txns, deposit>>
  BY <1>3 DEF Submit, Retry, Fault, DeadlockAbort, Lookup, LookupErrorIgnored,
     TakeFirst, TakeSecond, LockAccount, CheckFunds, MarkPaid, Credit, Insert,
     Journal, Balances, bankState
<1>4. QED
  BY <1>1, <1>2, <1>3 DEF Next, Step

LEMMA InitRefines == Init => Abstract!BankInit
BY DEF Init, Abstract!BankInit

\* Every behaviour of the statement-by-statement ledger is a behaviour of the
\* bank that moves money in one step.
THEOREM Refinement == Spec => ImplementsBank
BY Invariance, InitRefines, StepRefines, PTL
   DEF Spec, ImplementsBank, Abstract!BankSpec
=============================================================================
