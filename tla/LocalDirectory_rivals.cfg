SPECIFICATION Spec
CONSTANTS
    first = first
    retry = retry
    second = second
    back = back
    a1 = a1
    a2 = a2
    g1 = g1
    g2 = g2
    g3 = g3
    Nothing = Nothing
    ExpectNothing = ExpectNothing
    Torn = Torn
    MaximumPrior = 5
    Exclusive = FALSE
    Runs <- RivalRuns
    Artifacts <- MCArtifacts
    Generations <- MCGenerations
    GenerationOf <- RivalGenerationOf
    ArtifactsOf <- RivalArtifactsOf
    KeyOf <- RivalKeyOf
    TokenOf <- RivalTokenOf
    TargetOf <- RivalTargetOf
INVARIANT
    ServedIsWhole
CHECK_DEADLOCK FALSE
\* As a property of this instance, violated: SwapRespectsFence (README, section 6).
