CONSTANTS
    Baseline = 2
    Stride = 2
    LastFrame = 7
    MaxGap = 1
    MaxLag = 1
    MaxFaults = 1
    NoFrame = NoFrame
    Spot = {p1}
    Window = 5
SPECIFICATION FairSpec
INVARIANTS EarlyVerdictStands DueCountedOnce AnnouncedOnce FinishBounded PlacedByTime
PROPERTIES StopEnds
