SPECIFICATION FairSpec
CONSTANTS
    Job = {j1, j2}
    Program = {g}
    Thread = {t1, t2}
    None = None
    Other = Other
    MaxFaults = 1
    MaxCrashes = 1
CHECK_DEADLOCK FALSE
INVARIANTS
    CancelIsFinal
    LaunchIsDurable
PROPERTIES
    NoReplay
    CancelEndsQueue
