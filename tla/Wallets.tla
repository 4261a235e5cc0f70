------------------------------ MODULE Wallets ------------------------------
(***************************************************************************)
(* The people of the payment service: each has one wallet, an account of   *)
(* the bank, found by its user id or by its handle.                        *)
(***************************************************************************)
EXTENDS Bank, FiniteSetsExt

CONSTANTS
    Users,
    WalletOf     \* GetWalletByUserID: the wallet of each user

Nobody == "nobody"

ASSUME WalletsAssumption ==
    /\ Nobody \notin Users
    /\ WalletOf \in [Users -> Accounts \ {External}]
    /\ \A u, v \in Users : WalletOf[u] = WalletOf[v] => u = v

\* The balances of some accounts, added up.
SumOf(amounts, S) == LET held(a) == amounts[a] IN MapThenSumSet(held, S)
=============================================================================
