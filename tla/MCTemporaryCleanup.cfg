SPECIFICATION FairSpec
CONSTANTS
    Item = {a, b}
    Plan = {p1}
    Run = {r1}
    Cross = {b}
    None = None
    MaxCrashes = 2
    MaxEdits = 1
    MaxSwitches = 1
CHECK_DEADLOCK FALSE
INVARIANTS
    NothingLeftBehind
PROPERTIES
    DataPreserved
    MaintenanceEnds
