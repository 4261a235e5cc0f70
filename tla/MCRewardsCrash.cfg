SPECIFICATION CrashSpec
CONSTANTS
    e1 = e1
    e2 = e2
    e3 = e3
    c1 = c1
    c2 = c2
    r1 = r1
    r2 = r2
    RuleIds = {1, 2, 3}
    Inputs <- MCInputs
    Amounts <- MCAmounts
    Rolls <- MCRolls
    PayoutRules <- MCPayoutRules
    Events = {e1}
    PayoutOf <- MCPayoutOf
    AmountOf <- MCAmountOf
    Consumers = {c1, c2}
    Replayers = {}
    ReplayLimit = 1
    MaxDeliveries = 2
    MaxReplays = 2
    MaxRefusals = 0
    MaxFaults = 1
PROPERTIES
    PendingIsSettled
CHECK_DEADLOCK FALSE
