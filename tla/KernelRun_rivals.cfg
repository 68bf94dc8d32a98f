\* As an invariant of this instance, violated: CleanupOnlyWhenResolved (README, section 6).
SPECIFICATION Spec
CONSTANTS
    r1 = r1
    r2 = r2
    g0 = g0
    g1 = g1
    g2 = g2
    Nothing = Nothing
    ExpectNothing = ExpectNothing
    Runs <- MCRuns
    Generations <- MCGenerations
    Proposed <- RivalProposed
    Expected <- RivalExpected
    Concurrency = "best-effort"
    Malformed = {"inspect", "preflight", "stage", "observe"}
INVARIANTS
    ChangeIsJournalled
    RefusalLeavesDestination
    SuccessHasLanded
    OutcomeMatchesJournal
    JournalIsAdmitted
PROPERTY
    Publishes
CHECK_DEADLOCK FALSE
