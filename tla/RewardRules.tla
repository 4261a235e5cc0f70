---------------------------- MODULE RewardRules ----------------------------
(***************************************************************************)
(* The cashback rules of the rewards service: the administration of        *)
(* reward_rules and the pure rule engine CalculateReward.  Percentages are *)
(* in basis points, amounts in paise.                                      *)
(***************************************************************************)
EXTENDS Integers, FiniteSets

CONSTANTS
    RuleIds,    \* ids of the rows of reward_rules
    Inputs,     \* the rules an administrator may send, see RuleShape
    Amounts,    \* payments the engine is evaluated on
    Rolls       \* what the random roll may return

\* min, max: basis points; threshold: min_transaction_amount_paise;
\* cap: max_payout_amount_paise.
RuleShape ==
    [min : Int, max : Int, threshold : Int, cap : Int, active : BOOLEAN]

ASSUME InputsAssumption ==
    /\ Inputs \subseteq RuleShape
    /\ Amounts \subseteq Int
    /\ Rolls \subseteq Nat

VARIABLE rules   \* reward_rules

NoRule == [active |-> FALSE]

RulesInit == rules = [i \in RuleIds |-> NoRule]

\* The CHECK constraints of the table.
Admissible(r) ==
    /\ r.min >= 0
    /\ r.max >= r.min
    /\ r.threshold >= 0
    /\ r.cap > 0

\* What CreateRule demands on top of them; UpdateRule demands nothing.
Validated(r) == Admissible(r) /\ r.max <= 10000

ActiveRules == {i \in RuleIds : rules[i].active}

\* idx_reward_rules_one_active.
Unique(i, r) == r.active => ActiveRules \subseteq {i}

CreateRule ==
    \E i \in RuleIds, r \in Inputs :
        /\ rules[i] = NoRule
        /\ Validated(r)
        /\ Unique(i, r)
        /\ rules' = [rules EXCEPT ![i] = r]

UpdateRule ==
    \E i \in RuleIds, r \in Inputs :
        /\ rules[i] # NoRule
        /\ Admissible(r)
        /\ Unique(i, r)
        /\ rules' = [rules EXCEPT ![i] = r]

DeactivateRule ==
    \E i \in RuleIds :
        /\ rules[i] # NoRule
        /\ rules' = [rules EXCEPT ![i].active = FALSE]

RulesNext == CreateRule \/ UpdateRule \/ DeactivateRule

-----------------------------------------------------------------------------
(* The rule engine.                                                        *)

\* Variant: the lower bound alone is enforced on the roll.
ClampBelow(bps, r) == IF bps < r.min THEN r.min ELSE bps

\* The roll, brought into the rule's range.
Clamp(bps, r) ==
    IF bps < r.min THEN r.min ELSE IF bps > r.max THEN r.max ELSE bps

Share(amount, bps) == (amount * bps) \div 10000

Lesser(a, b) == IF a < b THEN a ELSE b

\* CalculateReward: 0 stands for "not eligible", an eligible reward is never 0.
CalculateReward(amount, r, roll) ==
    IF r.active /\ amount > 0 /\ amount >= r.threshold
    THEN Lesser(Share(amount, Clamp(roll, r)), r.cap)
    ELSE 0

-----------------------------------------------------------------------------
(* Properties.                                                             *)

\* The shape of the rules, and the constraints of the table.
RulesTypeOK ==
    /\ rules \in [RuleIds -> RuleShape \cup {NoRule}]
    /\ \A i \in RuleIds : rules[i] # NoRule => Admissible(rules[i])

\* A reward is worth giving if the rule gives at least that much.
Covered(n, amount, r, roll) ==
    n <= r.cap /\ n * 10000 <= amount * Clamp(roll, r)

\* The reward of an eligible payment is the largest number of paise that
\* neither the percentage nor the cap forbids, for every rule that can be
\* active, and the roll stays in the range the rule promises.
RewardIsLargest ==
    \A i \in ActiveRules, amount \in Amounts, roll \in Rolls :
        LET r == rules[i]
            reward == CalculateReward(amount, r, roll)
        IN amount > 0 /\ amount >= r.threshold =>
             /\ Covered(reward, amount, r, roll)
             /\ ~ Covered(reward + 1, amount, r, roll)
             /\ reward * 10000 <= amount * r.max
             /\ reward < r.cap => (reward + 1) * 10000 > amount * r.min

\* A higher payment, or a higher roll, is never rewarded less.
RewardIsMonotone ==
    \A i \in ActiveRules, a, b \in Amounts, s, t \in Rolls :
        a <= b /\ s <= t
        => CalculateReward(a, rules[i], s) <= CalculateReward(b, rules[i], t)
=============================================================================
