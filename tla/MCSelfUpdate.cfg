SPECIFICATION UpdateSpec
CONSTANTS
    MaxVersion = 3
    MaxUpdateFaults = 2
    MaxUpdateCrashes = 2
    MaxEdits = 2
INVARIANTS
    LaunchIsRemembered
PROPERTIES
    OpensOnlyVerified
