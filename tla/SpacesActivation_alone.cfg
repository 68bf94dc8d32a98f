SPECIFICATION Spec
CONSTANTS
    one = one
    two = two
    three = three
    g0 = g0
    g1 = g1
    g2 = g2
    page = page
    asset = asset
    b0 = b0
    b1 = b1
    b2 = b2
    Nothing = Nothing
    ExpectNothing = ExpectNothing
    NoObject = NoObject
    Marker = Marker
    Runs <- ChainRuns
    Generations <- MCGenerations
    Objects <- MCObjects
    Bytes <- MCBytes
    LargeBytes <- MCLargeBytes
    Parts = 2
    FilesOf <- MCFilesOf
    GenerationOf <- ChainGenerationOf
    Expected <- ChainExpected
    Honoured = {TRUE, FALSE}
    Flaky = TRUE
    Exclusive = TRUE
PROPERTIES
    PointerIsLast
    GenerationFenceHolds
CHECK_DEADLOCK FALSE
