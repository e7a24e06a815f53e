SPECIFICATION Spec
CONSTANTS
    MaxSequence = 4
    Thread = {t1, t2}
    None = None
    MaxFaults = 1
    MaxCrashes = 2
    MaxDamage = 1
SYMMETRY Symmetry
INVARIANTS
    RestartKeepsPack
PROPERTIES
    FallsOnlyOnRequest
