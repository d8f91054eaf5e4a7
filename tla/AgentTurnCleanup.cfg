\* What an aborted turn leaves behind: three processes, an opencode adapter.
CONSTANTS
    Pids = {p1, p2, p3}
    Root = Root
    Reaper = Reaper
    NoParent = NoParent
    WallKind = "stage_timeout"
    Opencode = TRUE
SPECIFICATION FairSpec
INVARIANTS
    
    QuietAfterReturn
    EndIsReported
PROPERTIES
    TurnReturns
CHECK_DEADLOCK FALSE
