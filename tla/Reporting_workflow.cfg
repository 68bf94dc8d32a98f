\* As an invariant of this instance, violated: ReplayIsToldApart (README, section 6).
SPECIFICATION FairSpec
CONSTANTS
    MaximumAttempts = 2
    Sends = 2
    CapabilityLimit = 3
INVARIANTS
    OneDeployment
    ReportTellsWhatHappened
    GreenIsReported
PROPERTY
    WorkflowEnds
