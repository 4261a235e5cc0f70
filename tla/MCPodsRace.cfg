SPECIFICATION RaceSpec
CONSTANTS
    alice = alice
    bob = bob
    wa = wa
    wb = wb
    ext = ext
    d1 = d1
    d2 = d2
    pa1 = pa1
    pa2 = pa2
    k1 = k1
    k2 = k2
    t1 = t1
    t2 = t2
    c1 = c1
    c2 = c2
    c3 = c3
    g1 = g1
    g2 = g2
    o1 = o1
    o2 = o2
    o3 = o3
    Accounts <- MCAccounts
    External = ext
    Rank <- MCRank
    Opening <- MCOpening
    Orders = {}
    DepositOf <- MCDepositOf
    Keys = {k1, k2}
    Requests = {}
    Users = {alice, bob}
    WalletOf <- MCWalletOf
    PodIds = {d1, d2}
    AccountOf <- MCAccountOf
    Texts = {t1, t2}
    Clients = {c1, c2, c3}
    Jobs <- MCJobs
    CategoryIds = {g1, g2}
    Names = {"food", "uncategorized"}
    Payments <- MCPayments
    Readers = {r1}
    PageSize = 1
    ListRanges <- MCListRanges
    Spans = {2}
    MaxCategoryCalls = 3
    MaxReadings = 1
    MaxLookupFaults = 1
    Checkouts = {o1, o2, o3}
    Asked <- MCAsked
    MinDeposit = 100
    MaxDeposit = 50000000
    MaxLosses = 2
INVARIANT
    DeletedPodsAreEmpty
CHECK_DEADLOCK FALSE
