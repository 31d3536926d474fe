SPECIFICATION FairSpec
CONSTANTS
    q1 = q1
    q2 = q2
    w1 = w1
    w2 = w2
    None = None
    Requests = {q1, q2}
    Slots = {w1, w2}
    MiB = 3
    MinPart = 6
    MaxParts = 3
    PreferredPart = 4
    Threshold = 10
    Batch = 1
    Sizes = {4, 11}
    Files <- MCFiles
    Preferences <- MCPreferences
    MaxUploads = 2
    MaxStalls = 1
    MaxAttempts = 2
    Bound <- UploadBound
\* A purged video needs nothing more.
CHECK_DEADLOCK FALSE
INVARIANTS
    QueuedHasSource
    PurgeIsComplete
    PlanFits
PROPERTIES
    UploadEndsOnce
    RemovedIsPurged
