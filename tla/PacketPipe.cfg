CONSTANTS
    Packet = {p1, p2, p3}
    Unparsable = {p3}
    Handler = {h1}
    Writer = {w1, w2}
    RawCapacity = 1
    ParsedCapacity = 1
    Burst = 2
    BatchSize = 2
    Faults = {"ingress", "lost", "other", "stop"}
    MaxFaults = 2
    None = None
SPECIFICATION PipeFairSpec
INVARIANTS NothingVanishes
PROPERTIES Delivered StopEnds
CHECK_DEADLOCK FALSE
