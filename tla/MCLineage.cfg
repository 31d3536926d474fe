SPECIFICATION Spec
CONSTANTS
    q1 = q1
    q2 = q2
    moment = moment
    manual = manual
    Unset = Unset
    Requests = {q1, q2}
    Candidates = {moment}
    Fresh = {manual}
    MinDuration = 2
    MaxDuration = 20
    RangeOf <- MCRangeOf
    Duration = 12
    Inputs <- MCInputs
    RemovesAlone = TRUE
    MaxRenders = 3
    MaxRequests = 5
SYMMETRY Symmetry
\* After MaxRequests there may be nothing left to do.
CHECK_DEADLOCK FALSE
INVARIANTS
    VersionsAreConsecutive
    NewestIsLatest
    SnapshotIsRenderable
