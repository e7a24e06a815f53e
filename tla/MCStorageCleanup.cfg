SPECIFICATION Spec
CONSTANTS
    File = {f1, f2}
    Plan = {p1, p2}
    NoFile = NoFile
    NoPlan = NoPlan
    SpuriousGuard = FALSE
    MaxWriteFaults = 1
    MaxCrashes = 2
    MaxEdits = 1
CHECK_DEADLOCK FALSE
SYMMETRY Symmetry
INVARIANTS
    WriteAhead
    Truthful
    CopyRemains
PROPERTIES
    JournalLifecycle
    StartUpAccountsForPayloads
    VaultSpec
