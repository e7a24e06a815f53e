SPECIFICATION FairSpec
CONSTANTS
    Profile = {p1, p2}
    Build = {b1, b2}
    Analyst = {a1}
    None = None
    Other = Other
    MaxUpsets = 1
CHECK_DEADLOCK FALSE
INVARIANTS
    LedgerIsTrue
PROPERTIES
    CancelEndsRun
