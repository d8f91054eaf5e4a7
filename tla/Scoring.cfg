\* Two runs over a job of every shape: options, shared patches, malformed rewards, edits
\* between runs, kills at any point.
CONSTANTS
    NumTrials = 2
    Tasks <- MCTasks
    Versions <- MCVersions
    Origins <- MCOrigins
    Patches <- MCPatches
    Rewards <- MCRewards
    Numbers <- MCNumbers
    None = None
    Jobs <- MCJobs
    OptionSets <- MCOptions
    Concurrency = 2
    MaxAttempts = 2
    MaxRuns = 2
    EditsDuringRun = FALSE
    o1 = o1
    o2 = o2
    k1 = k1
    v1 = v1
    v2 = v2
    p1 = p1
    p2 = p2
    text = text
SPECIFICATION FairSpec
INVARIANTS
    TypeOK
    SummaryLast
    GradedUnderFingerprint
    ExitZeroMeansComplete
PROPERTIES
    RunEnds
CHECK_DEADLOCK FALSE
