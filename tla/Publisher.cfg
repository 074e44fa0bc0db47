CONSTANTS
    MaxValues = 2
    Attempts = 2
    Hole = {b1, b2}
    NoThread = NoThread
    NoHole = NoHole
    NoKey = NoKey
SPECIFICATION FairSpec
INVARIANTS StoredInOrder NothingSkipped
PROPERTIES LeavingEnds
