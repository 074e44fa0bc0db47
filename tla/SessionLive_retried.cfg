CONSTANTS
    Hole = {b1, b2}
    NoKey = NoKey
    NoView = NoView
    End = End
    QueueSize = 2
    MaxPending = 1
    Requests = {"report", "retry", "delete"}
SPECIFICATION Spec
SYMMETRY Interchangeable
INVARIANTS QuietIsCurrent
