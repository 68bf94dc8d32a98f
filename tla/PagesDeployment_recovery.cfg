SPECIFICATION FairSpec
CONSTANTS
    prior = prior
    recovery = recovery
    rival = rival
    old = old
    new = new
    other = other
    head = head
    head2 = head2
    NoAttempt = NoAttempt
    Nothing = Nothing
    ExpectNothing = ExpectNothing
    Attempts <- MCAttempts
    Generations <- MCGenerations
    GenerationOf <- MCGenerationOf
    Expected <- MCExpected
    PriorOf <- MCPriorOf
    Versions = {head, head2}
    VersionOf <- MCVersionOf
    InputsOf <- MCInputsOf
    RepositoryId = "repository"
    Polls = 2
    RecoveryPolls = 2
INVARIANTS
    PriorStaysDead
    ActivateAnswerIsTrue
    ReconcileChangesNothing
