CONSTANTS
    s1 = s1
    Part = {p1}
    Session = {s1}
    Player = {t1, t2}
    Deleter = Deleter
    Cleaner = Cleaner
    Entry = {e1, e2, e3}
    NoPart = NoPart
    NoSession = NoSession
    NoThread = NoThread
    NoEntry = NoEntry
    Owner <- OwnerOfParts
    Budget = 0
    Scenarios <- FaultScenarios
SPECIFICATION FairSpec
INVARIANTS GoneOnceDeleted NeverLost
PROPERTIES DeletionEnds
