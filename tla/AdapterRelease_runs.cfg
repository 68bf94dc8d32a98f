\* As an invariant of this instance, violated: TemplateIsAdmitted (with Deletable = {}
\* as well) and NothingIsSkipped (README, section 6).
\* With BeforeIsKnown = FALSE, violated: GreenMainIsReleased (the same section).
SPECIFICATION Spec
CONSTANTS
    ReleaseOrder <- MCReleaseOrder
    Protocol <- MCProtocol
    Files <- MCFiles
    Deletable <- MCDeletable
    BeforeIsKnown = TRUE
    MaximumCommits = 3
    MaximumRuns = 3
    MaximumFaults = 1
INVARIANTS GreenMainIsReleased
PROPERTIES PushIsReleasedWhole VersionsGoUp
CHECK_DEADLOCK FALSE
