SPECIFICATION BuildSpec
CONSTANTS
    Limits <- MCLimits
    InstalledToolchain <- MCToolchain
    About <- MCAbout
    Beginnings <- MCBeginnings
    Commands <- MCCommands
    Replacements <- MCReplacements
    EditedText = "edited"
    OriginsOfEnvironment <- MCOriginsOfEnvironment
    SharingDocuments <- MCSharingDocuments
    RevisionIsGit = FALSE
    DirectoriesInside = FALSE
    RenderedFiles = {"page", "style"}
    MaximumBuilds = 2
    MaximumEdits = 1
    MaximumCrashes = 1
INVARIANTS InventoryIsExact BrokenReferencesAreAllNamed OnlyWhatIsPublishedIsBuilt
INVARIANTS RefusalTouchesNothing WorkDescribesTheOutput
CHECK_DEADLOCK FALSE
