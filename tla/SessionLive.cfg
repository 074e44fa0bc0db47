CONSTANTS
    Hole = {b1, b2}
    NoKey = NoKey
    NoView = NoView
    End = End
    QueueSize = 1
    MaxPending = 2
    Requests = {"report", "retry", "delete", "complete", "reopen", "move"}
SPECIFICATION FairSpec
INVARIANTS NothingMissing
PROPERTIES CatchesUp
CHECK_DEADLOCK FALSE
