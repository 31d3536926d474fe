SPECIFICATION Spec
CONSTANTS
    annual = annual
    monthly = monthly
    h1 = h1
    h2 = h2
    i1 = i1
    i2 = i2
    None = None
    Subs <- OneMonthly
    PeriodOf <- MCPeriodOf
    Handlers = {h1, h2}
    Instances = {}
    OrderMetadata = {TRUE}
    FailsAt <- Anywhere
    StartDates = {}
    FirstDays = {}
    LastMonth = 1
    MaxResends = 0
    MaxFaults = 1
\* The clock stops at LastMonth.
CHECK_DEADLOCK FALSE
INVARIANT AnsweredIsGranted
