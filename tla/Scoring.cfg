CONSTANTS
    Position <- MCPosition
    Sheets = {0, 1}
    Placement = {0, 1}
    MaxMarks = 2
    StartMarks = {0}
    Offset <- MCOffset
    Tolerance = 1
    MinRefitPairs = 1
    MoveMax = 1
    ErrorLimit = 1
    Fps = 30
    BaselineFrames = 3
    Strides = {1, 4}
    Start = 0
    End = 50
SPECIFICATION ToolSpec
INVARIANTS UnpairedIsTold PassIsNoWorse MoveReaches
