\* As an invariant of this instance, violated: PriorIsRetained, ReplayHasStage, BookkeepingIsReadable (README, section 6).
SPECIFICATION Spec
CONSTANTS
    first = first
    retry = retry
    second = second
    back = back
    a1 = a1
    a2 = a2
    g1 = g1
    g2 = g2
    g3 = g3
    Nothing = Nothing
    ExpectNothing = ExpectNothing
    Torn = Torn
    MaximumPrior = 1
    Exclusive = TRUE
    Runs <- MCRuns
    Artifacts <- MCArtifacts
    Generations <- MCGenerations
    GenerationOf <- MCGenerationOf
    ArtifactsOf <- MCArtifactsOf
    KeyOf <- MCKeyOf
    TokenOf <- MCTokenOf
    TargetOf <- MCTargetOf
INVARIANTS
    ServedIsWhole
    RetainedIsOnDisk
    SweepLeavesRetained
PROPERTIES
    ActivationIsAtomic
CHECK_DEADLOCK FALSE
