------------------------------- MODULE Money -------------------------------
(***************************************************************************)
(* What is built on the bank: pods, the history of transactions and the    *)
(* way of a deposit.  They share no request, so each behaviour is of one   *)
(* of them, the part.                                                      *)
(***************************************************************************)
EXTENDS Pods, History, Deposits

VARIABLE part

MoneyInit ==
    /\ part \in {"pods", "history", "deposits"}
    /\ Init /\ HistoryInit /\ DepositsInit

MoneyNext ==
    /\ UNCHANGED part
    /\ \/ part = "pods" /\ Next /\ UNCHANGED <<historyVars, depositVars>>
       \/ part = "history" /\ HistoryNext /\ UNCHANGED <<podVars, depositVars>>
       \/ part = "deposits" /\ DepositsNext /\ UNCHANGED <<bankVars, podVars, historyVars>>

MoneySpec ==
    /\ MoneyInit
    /\ [][MoneyNext]_<<bankVars, podVars, historyVars, depositVars, part>>
    /\ ServiceFairness /\ PersistentClient

RaceSpec == MoneyInit /\ part = "pods"
            /\ [][MoneyNext]_<<bankVars, podVars, historyVars, depositVars, part>>

PaiseSpec == MoneyInit /\ part = "deposits"
             /\ [][MoneyNext]_<<bankVars, podVars, historyVars, depositVars, part>>

\* TotalsUnmoved where money moves between a user's own accounts only.
PodsKeepTotals == part = "pods" => PodsTypeOK /\ TotalsUnmoved

HistoryIsTrue == part = "history" => HistoryTypeOK /\ HistoryHolds
=============================================================================
