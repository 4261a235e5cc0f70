SPECIFICATION Spec
CONSTANTS
    w1 = w1
    w2 = w2
    ext = ext
    o1 = o1
    o2 = o2
    k1 = k1
    k2 = k2
    Accounts <- MCAccounts
    External = ext
    Rank <- MCRank
    Opening <- MCOpening
    Orders = {o1, o2}
    DepositOf <- MCDepositOf
    Keys = {k1, k2}
    Requests <- MCRequests
    Clients = {c1, c2, c3}
    c1 = c1
    c2 = c2
    c3 = c3
    MaxFaults = 2
INVARIANTS
    TypeOK
    MoneySafe
    BooksAgree
    AnswersAreHonest
    TransfersNeverDeadlock
PROPERTIES
    ImplementsBank
SYMMETRY ClientSymmetry
CHECK_DEADLOCK FALSE
