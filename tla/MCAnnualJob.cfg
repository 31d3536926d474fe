SPECIFICATION FairSpec
CONSTANTS
    annual = annual
    monthly = monthly
    h1 = h1
    h2 = h2
    i1 = i1
    i2 = i2
    None = None
    Subs <- OneAnnual
    PeriodOf <- MCPeriodOf
    Handlers = {h1}
    Instances = {i1, i2}
    OrderMetadata = {TRUE, FALSE}
    FailsAt <- BeforeClaim
    StartDates <- MonthEnds
    FirstDays <- LateDays
    LastMonth = 3
    MaxResends = 0
    MaxFaults = 1
\* The clock stops at LastMonth.
CHECK_DEADLOCK FALSE
INVARIANTS
    TypeOK
    NoMonthTwice
    CalendarCountsMonths
PROPERTY DueMonthsAreGranted
