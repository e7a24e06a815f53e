SPECIFICATION Spec
CONSTANTS
    Setting = {u, h}
    Value = {v1, v2}
    Helper = {h}
    Irreversible = {}
    Point = Point
    Plan = {p1, p2}
    None = None
    MaxChanges = 1
    MaxFaults = 1
    MaxCrashes = 1
    MaxEdits = 1
CHECK_DEADLOCK FALSE
SYMMETRY Symmetry
INVARIANTS
    RolledBackMeansRestored
PROPERTIES
    ConsentIntentEffect
