\* Repeated, forced and interrupted runs over a job whose patches are shared; retries are
\* the subject of Scoring.cfg.
CONSTANTS
    NumTrials = 2
    Tasks <- MCTasks
    Versions <- OneVersion
    Origins <- MCOrigins
    Patches <- MCPatches
    Rewards <- MCNumbers
    Numbers <- MCNumbers
    None = None
    Jobs <- RerunJobs
    OptionSets <- RerunOptions
    Concurrency = 2
    MaxAttempts = 1
    MaxRuns = 3
    EditsDuringRun = FALSE
    o1 = o1
    o2 = o2
    k1 = k1
    v1 = v1
    v2 = v2
    p1 = p1
    p2 = p2
    text = text
SPECIFICATION Spec
INVARIANTS
    NoRepeatedWork
PROPERTIES
    SuccessKept
    RerunIsNoOp
    LedgerSpec
CHECK_DEADLOCK FALSE
