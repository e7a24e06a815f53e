SPECIFICATION FairSpec
CONSTANTS
    Setting = {d, Point}
    Value = {v1, v2}
    Helper = {d, Point}
    Irreversible = {d}
    Point = Point
    Plan = {p1}
    None = None
    MaxChanges = 3
    MaxFaults = 1
    MaxCrashes = 1
    MaxEdits = 1
CHECK_DEADLOCK FALSE
INVARIANTS
    EffectsStayAccounted
    GuardedByRestorePoint
PROPERTIES
    ExecutionEnds
