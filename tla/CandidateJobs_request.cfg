SPECIFICATION Spec
CONSTANTS
    MaximumVerificationEntries = 2
    MaximumObservedRoutes = 2
    MaximumJournalEntries = 2
    MaximumRecordCount = 6
    MaximumEnvelopeBytes = 12
    EntryByteCount = 5
    MaximumRequestBytes = 9
    PathOrder <- MCPathOrder
    IllFormedPaths <- MCIllFormedPaths
    ThemeCatalog <- MCThemeCatalog
    Toolchain <- MCToolchain
    Runner <- MCRunner
    Checkouts <- MCCheckouts
    OtherBuilds <- MCOtherBuilds
    StrayPaths <- MCStrayPaths
    StrayBytes <- MCStrayBytes
INVARIANTS AcceptedIsCanonical RequestIsOfOneBuild HonestCandidateIsRequested
CHECK_DEADLOCK FALSE
