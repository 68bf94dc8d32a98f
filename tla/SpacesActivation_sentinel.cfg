SPECIFICATION Spec
CONSTANTS
    one = one
    two = two
    three = three
    g0 = g0
    g1 = g1
    g2 = g2
    page = page
    asset = asset
    b0 = b0
    b1 = b1
    b2 = b2
    Nothing = Nothing
    ExpectNothing = ExpectNothing
    NoObject = NoObject
    Marker = Marker
    Runs <- MCRuns
    Generations <- MCGenerations
    Objects <- MCObjects
    Bytes <- MCBytes
    LargeBytes <- MCLargeBytes
    Parts = 2
    FilesOf <- MCFilesOf
    GenerationOf <- MCGenerationOf
    Expected <- FirstExpected
    Honoured = {TRUE}
    Flaky = TRUE
    Exclusive = TRUE
\* Each of the two is violated; TLC stops at the first it finds, so keep the one whose behaviour is wanted.
INVARIANTS
    NothingLeftBehind
PROPERTIES
    SentinelRefuses
CHECK_DEADLOCK FALSE
