CONSTANTS
    Gauges <- MCGauges
    Moves <- MCMoves
    Speeds = {2}
    Near = 1
    MaxConns = 2
    MaxCommands = 2
    MaxFires = 2
    MaxFaults = 2
SPECIFICATION FairSpec
CHECK_DEADLOCK FALSE
INVARIANTS ShownIsOurs MoveTold PollingAlive ButtonTruthful
PROPERTIES Arrives
