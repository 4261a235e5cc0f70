SPECIFICATION FairSpec
CONSTANTS
    w1 = w1
    w2 = w2
    ext = ext
    o1 = o1
    o2 = o2
    k1 = k1
    k2 = k2
    Accounts <- MCAccounts
    External = ext
    Rank <- MCRank
    Opening <- MCOpening
    Orders = {o1}
    DepositOf <- LiveDepositOf
    Keys = {k1, k2}
    Requests <- LiveRequests
    Clients = {c1, c2, c3}
    c1 = c1
    c2 = c2
    c3 = c3
    MaxFaults = 0
PROPERTIES
    Answered
CHECK_DEADLOCK FALSE
