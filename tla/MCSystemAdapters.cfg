SPECIFICATION AdapterSpec
CONSTANTS
    MaxLines = 2
    Newest <- Versions
    KeepBackups = 2
    MaxRuns = 3
    MaxForeign = 1
CHECK_DEADLOCK FALSE
INVARIANTS
    UndoRestores
    OfferedIsTaken
PROPERTIES
    WritesOverWhatWasShown
