------------------------------ MODULE MCMoney ------------------------------
(***************************************************************************)
(* What is built on the bank, for TLC:                                     *)
(*   pods      two users, two pods, three concurrent handlers;             *)
(*   history   three transfers, two categories and a reader;               *)
(*   deposits  an amount that two conversions change twice (1.15 rupees),  *)
(*             one that they leave alone, one below the minimum.           *)
(***************************************************************************)
EXTENDS Money, TLC

CONSTANTS alice, bob, wa, wb, ext, d1, d2, pa1, pa2, k1, k2, t1, t2, c1, c2, c3,
          g1, g2, o1, o2, o3

MCAccounts == {wa, wb, ext, pa1, pa2}
MCRank == (wa :> 1) @@ (wb :> 2) @@ (ext :> 3) @@ (pa1 :> 4) @@ (pa2 :> 5)
MCOpening == (wa :> 2) @@ (wb :> 2) @@ (ext :> 0) @@ (pa1 :> 0) @@ (pa2 :> 0)
MCDepositOf == <<>>
MCWalletOf == (alice :> wa) @@ (bob :> wb)
MCAccountOf == (d1 :> pa1) @@ (d2 :> pa2)

MCJobs ==
    {[kind |-> "create", user |-> u, name |-> t1] : u \in {alice, bob}}
    \cup {[kind |-> "deposit", user |-> u, pod |-> d1, amount |-> 2, key |-> k1] : u \in {alice, bob}}
    \cup {[kind |-> "deposit", user |-> alice, pod |-> d1, amount |-> 1, key |-> k2]}
    \cup {[kind |-> "withdraw", user |-> alice, pod |-> d1, amount |-> 1, key |-> k1]}
    \cup {[kind |-> "update", user |-> alice, pod |-> d1, field |-> f, text |-> t2] : f \in {"name", "icon"}}
    \cup {[kind |-> "delete", user |-> alice, pod |-> d1]}

Pay(u, v, amount, key, category) ==
    [user |-> u, to |-> v, amount |-> amount, key |-> key, category |-> category]

\* One transfer under a category and one without, and one in the other
\* direction whose category may be somebody else's.
MCPayments ==
    {Pay(alice, bob, 1, k1, g1), Pay(alice, bob, 1, k2, NoCategory), Pay(bob, alice, 2, k1, g1)}

\* Lists of everything, and of the transactions of one instant.
MCListRanges == {Always, [from |-> 1, to |-> 2]}

MCAsked == (o1 :> 115) @@ (o2 :> 250) @@ (o3 :> 99)
=============================================================================
