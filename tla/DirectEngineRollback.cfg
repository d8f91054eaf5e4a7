\* Rollback and trust: one review, two attempts, agents that stage, commit or rewind,
\* one turn that leaves a process writing to the tree, and the scan of what was left.
CONSTANTS
    BaseFile = BaseFile
    Habits = {"edit", "add", "commit", "commit-fresh", "rewind"}
    MaxReviews = 1
    MaxAgentAttempts = 2
    TotalTimeout = 1
    MinTurn = 1
    ReviewerTimeout = 0
    RevisionTimeout = 0
    Strict = FALSE
    MaxLoose = 1
    Vanishing = {}
SPECIFICATION DSpec
INVARIANTS
    OnlyAcceptedWork
    RollbackComplete
    InfrastructureExposure
    OriginsOnRecord
    IneligibleDeliveredNothing
CHECK_DEADLOCK FALSE
