\* The review loop: two reviews, two attempts, caps per stage, a deadline that can
\* pass at any point, and the scan of what the loop left.  Agents only edit; no process
\* is left behind.
CONSTANTS
    BaseFile = BaseFile
    Habits = {"edit"}
    MaxReviews = 2
    MaxAgentAttempts = 2
    TotalTimeout = 3
    MinTurn = 2
    ReviewerTimeout = 2
    RevisionTimeout = 2
    Strict = FALSE
    MaxLoose = 0
    Vanishing = {"task"}
SPECIFICATION DFairSpec
INVARIANTS
    VerdictsApply
    CountsAgree
    TimeoutExplained
    ScanIsFaithful
PROPERTIES
    ContractSpec
    Termination
CHECK_DEADLOCK FALSE
