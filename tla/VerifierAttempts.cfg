\* Three attempts in one output directory.
CONSTANTS
    MaxAttempts = 3
    Installed <- MCInstalled
    Pinned = "0.3.0"
    NoVersion = "unknown"
SPECIFICATION FairSpec
INVARIANTS
    NoBoxForgotten
    RewardIsOwn
PROPERTIES
    AttemptEnds
CHECK_DEADLOCK FALSE
