SPECIFICATION RewardsSpec
CONSTANTS
    e1 = e1
    e2 = e2
    e3 = e3
    c1 = c1
    c2 = c2
    r1 = r1
    r2 = r2
    RuleIds = {1, 2, 3}
    Inputs <- MCInputs
    Amounts <- MCAmounts
    Rolls <- MCRolls
    PayoutRules <- MCPayoutRules
    Events = {e1, e2, e3}
    PayoutOf <- MCPayoutOf
    AmountOf <- MCAmountOf
    Consumers = {c1, c2}
    Replayers = {r1, r2}
    ReplayLimit = 1
    MaxDeliveries = 1
    MaxReplays = 2
    MaxRefusals = 1
    MaxFaults = 1
INVARIANTS
    EngineHolds
    CompletedMeansPaid
PROPERTIES
    PayoutsAreFinal
    CarefulPaysOnce
    FaultlessSettles
CHECK_DEADLOCK FALSE
