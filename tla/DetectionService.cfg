CONSTANTS
    SessionId = {s1, s2}
    RunId = {r1, r2}
    Thread = {t1, t2}
    NoRun = NoRun
SPECIFICATION DetectorFairSpec
INVARIANTS AnsweredAfterDrain FailedStartLeavesNothing
PROPERTIES HoldsOneRun CallsAnswered
