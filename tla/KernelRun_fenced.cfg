SPECIFICATION FairSpec
CONSTANTS
    r1 = r1
    r2 = r2
    g0 = g0
    g1 = g1
    g2 = g2
    Nothing = Nothing
    ExpectNothing = ExpectNothing
    Runs <- MCRuns
    Generations <- MCGenerations
    Proposed <- RivalProposed
    Expected <- RivalExpected
    Concurrency = "expected-generation"
    Malformed = {}
PROPERTIES
    LateRunsAreFenced
    ChangeIsEventuallyJournalled
CHECK_DEADLOCK FALSE
\* As an invariant of this instance, violated: NoLostUpdate (README, section 6).
