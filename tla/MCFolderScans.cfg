\* One edit by another program at any moment, and a cancellation.
SPECIFICATION FolderSpec
CONSTANTS
    d1 = d1
    d2 = d2
    d3 = d3
    Path <- MCPath
    Rank <- MCRank
    Data <- MCData
    Size <- MCSize
    Prefix <- MCPrefix
    Protections <- MCProtections
    Starts <- MCStarts
    MaxEdits = 1
    Rule <- MCRule
    Bounds <- MCBounds
    Limits <- MCLimits
    Request <- MCRequest
    Catalog <- MCCatalog
    Extension <- MCExtension
    Category <- MCCategory
    Hidden <- MCHidden
    Reserved <- MCReserved
    Profile <- MCProfile
    ProfileFolders <- MCProfileFolders
    Sweep <- MCSweep
    KnownHash <- MCKnownHash
    KnownBytes <- MCKnownBytes
    PatternBytes = 1
    KnownName <- MCKnownName
    SystemBinary <- MCSystemBinary
    Executable <- MCExecutable
    Disguise <- MCDisguise
    MZ <- MCMZ
    Signer <- MCSigner
    Location <- MCLocation
INVARIANTS
    TotalsWereReal
    SilenceMeansComplete
    EmptyIsEmpty
    CompleteMeansAll
    DuplicatesSpareACopy
    NothingOverlooked
