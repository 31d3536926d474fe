SPECIFICATION Spec
CONSTANTS
    w1 = w1
    w2 = w2
    q1 = q1
    q2 = q2
    None = None
    Slots = {w1, w2}
    Requests = {q1, q2}
    MaxStalls = 2
    MaxAttempts <- MCMaxAttempts
    FaultyCalls <- StageCalls
    LostEnqueues = {"ingest"}
    MaxRuns = 4
    Duration = 8
    Gap = 0
    LongSegment = 5
    ManyWords = 3
    Slack = 0
    WindowSize = 4
    Overlap = 1
    Snap = 1
    MinLength = 3
    MaxLength = 4
    PreRoll = 1
    PostRoll = 1
    Same = 50
    Transcripts <- MCTranscripts
    Picks <- MCPicks
    Proposals <- MCProposals
    Bound <- UserBound
SYMMETRY Symmetry
\* A processed video needs nothing more.
CHECK_DEADLOCK FALSE
INVARIANTS
    TypeOK
    FailedIsRefunded
    ReadyIsPaid
    MomentsMatchTranscript
    MomentsAreSound
PROPERTIES
    ImplementsLifecycle
    CompletedStays
