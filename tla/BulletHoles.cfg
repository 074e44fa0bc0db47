CONSTANTS
    Thread = {t1, t2, t3}
    Hole = {b1, b2, b3}
    Key = {k1, k2}
    NoThread = NoThread
    NoHole = NoHole
    NoKey = NoKey
SPECIFICATION Spec
SYMMETRY Interchangeable
INVARIANTS KeysAreStoredOnce
PROPERTIES StoredWhileAllowed ChangesAreAtomic
