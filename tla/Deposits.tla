------------------------------ MODULE Deposits ------------------------------
(***************************************************************************)
(* The way of a deposit through Razorpay: the service creates an order at  *)
(* Razorpay, stores it and answers with its id; the customer pays it in    *)
(* the checkout; the client reports the payment, with Razorpay's           *)
(* signature, and the service credits the wallet.  No other message tells  *)
(* the service of a payment.  ConfirmPayment is one step here, as Ledger   *)
(* shows it to be.                                                         *)
(***************************************************************************)
EXTENDS Paise

CONSTANTS
    Checkouts,    \* deposits that are asked for, one Razorpay order each
    Asked,        \* the amount the client writes, in paise
    MinDeposit,   \* minDepositPaise
    MaxDeposit,   \* maxDepositPaise
    MaxLosses     \* bound: requests and answers lost, crashes

ASSUME DepositsAssumption ==
    /\ MinDeposit \in Nat \ {0}
    /\ MaxDeposit \in Nat
    /\ Asked \in [Checkouts -> Nat \ {0}]
    /\ MaxLosses \in Nat

VARIABLES
    initiated,    \* how far InitiateDeposit is
    order,        \* the orders at Razorpay: amount and whether it is captured
    row,          \* payment.deposits: amount and status
    told,         \* orders whose id has reached the client
    reports,      \* confirmation requests on their way to the service
    credited,     \* what the wallets have been credited for each order
    losses

depositVars == <<initiated, order, row, told, reports, credited, losses>>

Nothing == [amount |-> 0, status |-> "none"]

DepositsInit ==
    /\ initiated = [o \in Checkouts |-> "idle"]
    /\ order = [o \in Checkouts |-> Nothing]
    /\ row = [o \in Checkouts |-> Nothing]
    /\ told = {}
    /\ reports = {}
    /\ credited = [o \in Checkouts |-> 0]
    /\ losses = 0

Reached(o, step) == initiated' = [initiated EXCEPT ![o] = step]

Lose ==
    /\ losses < MaxLosses
    /\ losses' = losses + 1

\* The handler turns rupees into paise, the usecase checks the bounds.
Initiate(o) ==
    /\ initiated[o] = "idle"
    /\ \/ /\ ThroughRupees(Asked[o]) \in MinDeposit..MaxDeposit
          /\ Reached(o, "order")
       \/ /\ ThroughRupees(Asked[o]) \notin MinDeposit..MaxDeposit
          /\ Reached(o, "failed")
    /\ UNCHANGED <<order, row, told, reports, credited, losses>>

\* The id of the order is Razorpay's, its amount went through rupees again.
CreateOrder(o) ==
    /\ initiated[o] = "order"
    /\ order' = [order EXCEPT ![o] =
           [amount |-> ThroughRupees(ThroughRupees(Asked[o])), status |-> "created"]]
    /\ Reached(o, "persist")
    /\ UNCHANGED <<row, told, reports, credited, losses>>

\* Variant: the client is answered before the row is written.
PersistLate(o) ==
    \/ /\ initiated[o] = "persist"
       /\ told' = told \cup {o}
       /\ Reached(o, "answer")
       /\ UNCHANGED <<order, row, reports, credited, losses>>
    \/ /\ initiated[o] = "answer"
       /\ row' = [row EXCEPT ![o] =
              [amount |-> ThroughRupees(Asked[o]), status |-> "created"]]
       /\ Reached(o, "done")
       /\ UNCHANGED <<order, told, reports, credited, losses>>

Persist(o) ==
    /\ initiated[o] = "persist"
    /\ row' = [row EXCEPT ![o] =
           [amount |-> ThroughRupees(Asked[o]), status |-> "created"]]
    /\ Reached(o, "answer")
    /\ UNCHANGED <<order, told, reports, credited, losses>>

AnswerClient(o) ==
    /\ initiated[o] = "answer"
    /\ told' = told \cup {o}
    /\ Reached(o, "done")
    /\ UNCHANGED <<order, row, reports, credited, losses>>

\* Razorpay or the database fails, the process dies or the answer is lost.
\* An order that exists by then stays, unknown to the client.
InitiateFails(o) ==
    /\ initiated[o] \in {"order", "persist", "answer"}
    /\ Lose
    /\ Reached(o, "failed")
    /\ UNCHANGED <<order, row, told, reports, credited>>

\* The customer pays in the checkout the client opened with the order's id.
Capture(o) ==
    /\ o \in told
    /\ order[o].status = "created"
    /\ order' = [order EXCEPT ![o].status = "captured"]
    /\ UNCHANGED <<initiated, row, told, reports, credited, losses>>

\* The checkout hands the client what Confirm asks for; a client may report
\* more than once.
Report(o) ==
    /\ order[o].status = "captured"
    /\ o \notin reports
    /\ reports' = reports \cup {o}
    /\ UNCHANGED <<initiated, order, row, told, credited, losses>>

LoseReport(o) ==
    /\ o \in reports
    /\ Lose
    /\ reports' = reports \ {o}
    /\ UNCHANGED <<initiated, order, row, told, credited>>

\* Variant: ConfirmPayment without the condition on the status.
ConfirmAgain(o) ==
    /\ o \in reports
    /\ reports' = reports \ {o}
    /\ row' = [row EXCEPT ![o].status = "paid"]
    /\ credited' = [credited EXCEPT ![o] = @ + row[o].amount]
    /\ UNCHANGED <<initiated, order, told, losses>>

\* The signature proves that Razorpay captured the payment.  A row that is not
\* open makes the confirmation a no-op.
ConfirmReport(o) ==
    /\ o \in reports
    /\ reports' = reports \ {o}
    /\ \/ /\ row[o].status = "created"
          /\ row' = [row EXCEPT ![o].status = "paid"]
          /\ credited' = [credited EXCEPT ![o] = @ + row[o].amount]
       \/ /\ row[o].status # "created"
          /\ UNCHANGED <<row, credited>>
    /\ UNCHANGED <<initiated, order, told, losses>>

DepositsNext ==
    \E o \in Checkouts :
        \/ Initiate(o) \/ CreateOrder(o) \/ Persist(o) \/ AnswerClient(o)
        \/ InitiateFails(o) \/ Capture(o) \/ Report(o) \/ LoseReport(o) \/ ConfirmReport(o)

DepositsSpec == DepositsInit /\ [][DepositsNext]_depositVars

\* What the service does of itself: it serves the requests it has received.
ServiceFairness ==
    \A o \in Checkouts : /\ WF_depositVars(CreateOrder(o) \/ Persist(o) \/ AnswerClient(o))
                      /\ WF_depositVars(ConfirmReport(o))

\* A client that reports a payment until the order is known to be paid.
PersistentClient ==
    \A o \in Checkouts : WF_depositVars(row[o].status # "paid" /\ Report(o))
PersistentSpec == DepositsSpec /\ ServiceFairness /\ PersistentClient

-----------------------------------------------------------------------------
(* Properties.                                                             *)

\* The shape of the state; a stored amount is within the bounds.
DepositsTypeOK ==
    /\ initiated \in [Checkouts -> {"idle", "order", "persist", "answer", "done", "failed"}]
    /\ order \in [Checkouts -> [amount : Nat, status : {"none", "created", "captured"}]]
    /\ row \in [Checkouts -> [amount : Nat, status : {"none", "created", "paid"}]]
    /\ told \subseteq Checkouts
    /\ reports \subseteq Checkouts
    /\ credited \in [Checkouts -> Nat]
    /\ losses \in 0..MaxLosses
    /\ \A o \in Checkouts : row[o] # Nothing => row[o].amount \in MinDeposit..MaxDeposit

\* Nothing is credited that Razorpay did not capture, and no order more than
\* once, however many reports arrive; a captured payment always has a row to
\* be credited by, whatever failed between the order and the answer.
CreditedOnceIfCaptured ==
    \A o \in Checkouts :
        /\ order[o].status = "captured" => row[o].status # "none"
        /\ credited[o] > 0 =>
             /\ order[o].status = "captured"
             /\ row[o].status = "paid"
             /\ credited[o] = row[o].amount

\* The two together: what a deposit leaves behind, whatever fails on its way.
CheckoutsHold == DepositsTypeOK /\ CreditedOnceIfCaptured

\* Two conversions through rupees can cost the customer's order a paisa each,
\* never more, and never to the customer's disadvantage.
WithinTwoPaise ==
    \A o \in Checkouts : order[o].status # "none" =>
        /\ order[o].amount \in (Asked[o] - 2)..Asked[o]
        /\ row[o].status # "none" => order[o].amount \in (row[o].amount - 1)..row[o].amount

\* A client that keeps reporting gets every captured payment credited; one that
\* vanishes does not, as no webhook reports in its place.
ReportedIsCredited ==
    \A o \in Checkouts : (order[o].status = "captured") ~> (credited[o] > 0)

\* deposits_repo.go:47 "credits the wallet, and records a double-entry
\* transaction (external settlement -> wallet)": the amount credited is the
\* amount that came in.
CreditedIsCaptured ==
    \A o \in Checkouts : credited[o] > 0 => credited[o] = order[o].amount
=============================================================================
