SPECIFICATION Spec
CONSTANTS
    File = {f1}
    Entry = {e1, e2}
    Thread = {t1, t2}
    Start = Start
    None = None
    MaxFaults = 2
    MaxCrashes = 2
    MaxEdits = 2
SYMMETRY Symmetry
CHECK_DEADLOCK FALSE
INVARIANTS
    ContentSurvives
    HiddenIsAtWork
PROPERTIES
    UsersFilesStay
