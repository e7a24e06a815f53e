CONSTANTS
    Scans = 3
    Root = {r1}
    Module = {files, duplicates, drives}
    Native = {drives}
    Rooted = files
    Feature <- MCFeature
    None = None
    MaxSnapshots = 2
SPECIFICATION FairSpec
CHECK_DEADLOCK FALSE
INVARIANTS
    PagesMirrorCompleted
    CancelIsKept
    TrustedAreWhole
PROPERTIES
    CancelledEnds
