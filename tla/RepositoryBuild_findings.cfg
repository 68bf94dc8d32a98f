SPECIFICATION BuildSpec
CONSTANTS
    Limits <- MCLimits
    InstalledToolchain <- MCToolchain
    About <- MCAbout
    Beginnings <- MCBeginnings
    Commands <- MCCommands
    Replacements <- MCReplacements
    EditedText = "edited"
    OriginsOfEnvironment <- MCOriginsOfEnvironment
    SharingDocuments <- MCSharingDocuments
    RevisionIsGit = FALSE
    DirectoriesInside = TRUE
    RenderedFiles = {"page", "style"}
    MaximumBuilds = 2
    MaximumEdits = 1
    MaximumCrashes = 1
\* Both are violated; TLC stops at the first it finds, so keep the one whose behaviour is wanted.
INVARIANTS
    RootDigestIsOfTheSource
    BuildIsSafeToRepeat
CHECK_DEADLOCK FALSE
