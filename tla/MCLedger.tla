------------------------------ MODULE MCLedger ------------------------------
(***************************************************************************)
(* Small instances of Ledger.  Two wallets and the external account, an    *)
(* account whose id sorts between the ids of the two wallets, so that      *)
(* withdrawals of either wallet lock in either order.                      *)
(***************************************************************************)
EXTENDS Ledger, TLC

CONSTANTS w1, w2, ext, o1, o2, k1, k2, c1, c2, c3

MCAccounts == {w1, w2, ext}
MCRank == (w1 :> 1) @@ (ext :> 2) @@ (w2 :> 3)
MCOpening == (w1 :> 2) @@ (w2 :> 1) @@ (ext :> 0)
MCDepositOf ==
    (o1 :> [account |-> w2, amount |-> 1]) @@ (o2 :> [account |-> w1, amount |-> 2])

Ask(kind, from, to, amount, key) ==
    [kind |-> kind, from |-> from, to |-> to, amount |-> amount, key |-> key]

\* Two transfers under one key that the sender can pay once, a transfer the
\* other way, withdrawals of both wallets, a system transfer under a used key.
MCRequests ==
    {Ask("transfer", w1, w2, 2, k1), Ask("transfer", w2, w1, 1, k1),
     Ask("withdraw", w2, ext, 1, k2), Ask("withdraw", w1, ext, 1, k1),
     Ask("system", w1, w2, 1, k1)}

\* The requests of the liveness run: one of each way to wait.
LiveRequests ==
    {Ask("transfer", w1, w2, 2, k1), Ask("transfer", w2, w1, 1, k1),
     Ask("withdraw", w2, ext, 1, k2)}

ClientSymmetry == Permutations(Clients)

LiveDepositOf == (o1 :> [account |-> w2, amount |-> 1])
=============================================================================
