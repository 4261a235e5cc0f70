--------------------------- MODULE RewardsParts ----------------------------
(***************************************************************************)
(* The two halves of the rewards service side by side.  Behaviours are of  *)
(*   rules     any number of rules that are created, replaced and          *)
(*             deactivated, with nothing to pay;                           *)
(*   payouts   events, replays and faults under one rule that an           *)
(*             administrator switches on, off and replaces meanwhile.      *)
(***************************************************************************)
EXTENDS Rewards

CONSTANT PayoutRules   \* the rules of the second part

ASSUME PayoutRulesAssumption == PayoutRules \subseteq Inputs

VARIABLE part

RewardsInit == Init /\ part \in {"rules", "payouts"}

\* One row, which holds one of the rules of this part, active or not.
FewRules ==
    /\ \A i \in RuleIds \ {1} : rules[i] = NoRule
    /\ rules[1] # NoRule => [rules[1] EXCEPT !.active = TRUE] \in PayoutRules

RewardsNext ==
    /\ UNCHANGED part
    /\ \/ part = "rules" /\ Administer
       \/ part = "payouts" /\ Next /\ FewRules'

RewardsSpec == RewardsInit /\ [][RewardsNext]_<<vars, part>> /\ Fairness

CrashSpec ==
    RewardsInit /\ part = "payouts" /\ [][RewardsNext]_<<vars, part>> /\ Fairness

\* Whatever the administration of the rules leads to, the engine
\* (rule_engine.go) gives each payment the largest reward that percentage and
\* cap of the active rule allow, and never less for more.
EngineHolds == part = "rules" => RewardIsLargest /\ RewardIsMonotone
=============================================================================
