SPECIFICATION Spec
CONSTANTS
    q1 = q1
    q2 = q2
    i1 = i1
    i2 = i2
    None = None
    Requests = {q1, q2}
    Instances = {i1, i2}
    Ttl = 1
    LinkTtl = 1
    MaxTime = 2
    MaxLinks = 2
    MaxChanges = 2
    MaxRequests = 4
SYMMETRY Symmetry
\* The clock stops at MaxTime.
CHECK_DEADLOCK FALSE
INVARIANTS
    CheckIsFresh
    CurrentPasswordHolds
    ChangeEndsLinks
