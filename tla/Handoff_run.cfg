SPECIFICATION Spec
CONSTANTS
    MaximumVerificationEntries = 2
    MaximumObservedRoutes = 2
    MaximumJournalEntries = 2
    MaximumRecordCount = 6
    MaximumEnvelopeBytes = 20
    EntryByteCount = 4
    MaximumRequestBytes = 9
    PathOrder <- MCPathOrder
    IllFormedPaths = {}
    ThemeCatalog <- MCThemeCatalog
    Toolchains <- MCToolchains
    Runner <- MCRunner
    Checkouts <- MCCheckouts
    OtherRuns <- MCOtherRuns
    Endings <- MCEndings
    ServedGenerations <- MCServedGenerations
    Lifetime = 1
    MaximumTime = 1
    MaximumAttempts = 2
INVARIANTS KernelGetsItsOwnIntent HonestIntentIsDeployed WhatDeployLeftIsReported
CHECK_DEADLOCK FALSE
