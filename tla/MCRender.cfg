SPECIFICATION FairSpec
CONSTANTS
    w1 = w1
    w2 = w2
    q1 = q1
    q2 = q2
    None = None
    Slots = {w1, w2}
    Requests = {q1, q2}
    MaxStalls = 1
    MaxAttempts = 2
    Downloads = {w1}
    FaultyCalls <- AllCalls
    Bound <- RenderBound
\* A completed render needs nothing more.
CHECK_DEADLOCK FALSE
INVARIANTS
    FailedIsRefunded
    CompletedIsStored
PROPERTIES
    ImplementsLifecycle
    RenderingEnds
