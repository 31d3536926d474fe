SPECIFICATION FairSpec
CONSTANTS
    u1 = u1
    v1 = v1
    o1 = o1
    o2 = o2
    t1 = t1
    t2 = t2
    t3 = t3
    Users <- MCUsers
    Subjects <- MCSubjects
    Orders <- MCOrders
    UserOf <- MCUserOf
    Costs = {2}
    Allowances = {3}
    SharePct = 50
    MaxEntries = 4
    Txs = {t1, t2, t3}
    None = None
\* A user's ledger stops growing at MaxEntries rows.
CHECK_DEADLOCK FALSE
INVARIANTS
    ReadIsCurrent
PROPERTIES
    ImplementsLedger
    EveryTransactionEnds
