----------------------------- MODULE MCRewards -----------------------------
(***************************************************************************)
(* The rewards service for TLC: three rules and payments around every      *)
(* threshold, cap and rounding boundary; and, as the other part, two       *)
(* events of one payment (its two recipients) and one more of the first.   *)
(***************************************************************************)
EXTENDS RewardsParts, TLC

CONSTANTS e1, e2, e3, c1, c2, r1, r2

MCPayoutOf == (e1 :> "t1 user") @@ (e2 :> "t1 merchant") @@ (e3 :> "t1 user")
MCAmountOf == [e \in Events |-> 20000]

Rule(min, max, threshold, cap, active) ==
    [min |-> min, max |-> max, threshold |-> threshold, cap |-> cap, active |-> active]

\* A rule that rewards the events, and one whose threshold they miss.
MCPayoutRules == {Rule(50, 100, 100, 150, TRUE), Rule(50, 100, 30000, 150, TRUE)}

\* The rule of rule_engine_test.go, rules at the bounds of the validation, and
\* two that only the table's constraints have to let pass or to stop.
MCInputs ==
    MCPayoutRules \cup
    {Rule(50, 150, 10000, 500, TRUE), Rule(0, 10000, 0, 1, TRUE),
     Rule(50, 150, 10000, 500, FALSE), Rule(33, 33, 1, 7, TRUE),
     Rule(20000, 20000, 100, 90000, TRUE), Rule(10, 5, 0, 10, TRUE),
     Rule(0, 0, 0, 0, FALSE)}

MCAmounts == {-1, 0, 1, 99, 100, 302, 303, 304, 9999, 10000, 10066, 10067, 33333, 40000}
MCRolls == {0, 33, 49, 50, 100, 150, 151, 20001}
=============================================================================
