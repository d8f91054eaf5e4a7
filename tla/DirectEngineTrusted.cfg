\* The comment above run(): an exception after a checkpoint delivers that checkpoint.
CONSTANTS
    BaseFile = BaseFile
    Habits = {"edit", "commit"}
    MaxReviews = 1
    MaxAgentAttempts = 1
    TotalTimeout = 1
    MinTurn = 1
    ReviewerTimeout = 0
    RevisionTimeout = 0
    Strict = FALSE
    MaxLoose = 0
SPECIFICATION Spec
INVARIANTS
    TrustedDelivery
CHECK_DEADLOCK FALSE
