SPECIFICATION Spec
CONSTANTS
    u1 = u1
    u2 = u2
    v1 = v1
    r1 = r1
    v2 = v2
    o1 = o1
    o2 = o2
    o3 = o3
    Users <- MCUsers
    Subjects <- MCSubjects
    Orders <- MCOrders
    UserOf <- MCUserOf
    Costs = {1, 2}
    Allowances = {3}
    SharePct = 50
    MaxEntries = 5
\* A user's ledger stops growing at MaxEntries rows.
CHECK_DEADLOCK FALSE
INVARIANTS
    TypeOK
    LedgerExplainsBalance
    AtMostOneOpenCharge
    KeysAreUnique
    RefundUndoesItsCharge
PROPERTY ImplementsAccount
