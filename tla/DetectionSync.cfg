CONSTANTS
    Session = {s1}
    Handler = {h1}
    Tick = Tick
    NoSession = NoSession
    Scenarios <- FaultScenarios
SPECIFICATION FairSpec
INVARIANTS RunsAreKnown NoSilentLoss
PROPERTIES UnwantedEnds WatchedAgain
