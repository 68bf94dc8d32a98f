\* As an invariant of this instance, violated: TransientErrorsAreWaitedOut (README, section 6).
SPECIFICATION FairObservationSpec
CONSTANTS
    index = index
    about = about
    style = style
    reset = reset
    timeout = timeout
    Routes <- MCRoutes
    TransientCodes <- MCCodes
    SampleRoutes = 1
    ConfirmMaximum = 3
    TransientStreak = 3
    MarginPasses = 2
    CursorPeriod = 6
    NoCode = NoCode
INVARIANTS
    VerifiedOnLastAnswers
    FailsForAReason
CHECK_DEADLOCK FALSE
