\* docs/collab-timeout-policy.md: every timeout kind maps to degradedReason timeout.
CONSTANTS
    BaseFile = BaseFile
    Habits = {"edit"}
    MaxReviews = 1
    MaxAgentAttempts = 2
    TotalTimeout = 2
    MinTurn = 1
    ReviewerTimeout = 1
    RevisionTimeout = 0
    Strict = FALSE
    MaxLoose = 0
SPECIFICATION Spec
INVARIANTS
    TimeoutKindMeansTimeout
CHECK_DEADLOCK FALSE
