------------------------------- MODULE Handoff -------------------------------
(***************************************************************************)
(* The hand-over of a publication from the job that asks for it to the     *)
(* jobs that make it and report it: one workflow run, re-run as a whole or *)
(* from its failed jobs, in which authorize exchanges a request for an     *)
(* intent, deploy binds that intent to its own run, and report submits     *)
(* what deploy left. The Gala API may answer an honest intent, with the    *)
(* identities this run derived or with its own, or one that is wrong: of   *)
(* another run, of an earlier attempt, or with one member of either.       *)
(*                                                                         *)
(* The candidate jobs are those of CandidateJobs with nothing going wrong, *)
(* the kernel is one of Endings (see KernelRun).                           *)
(*                                                                         *)
(* Source: scripts/workflow/{exchange,deploy,report,workload-requests,     *)
(* verify-spaces-configuration}.mjs.                                       *)
(***************************************************************************)
EXTENDS AuthorizedIntent, TemplateRender

CONSTANTS
    Toolchains,          \* the toolchains the workflow may be pinned to
    Runner,              \* the GITHUB_* facts of the run's jobs
    Checkouts,           \* the sources it may publish
    OtherRuns,           \* [runner, checkout] of the runs whose intents get mixed up
    Endings,             \* what a kernel run may leave
    ServedGenerations,   \* what the API may take to be served, None for nothing
    Lifetime,            \* how long an intent is valid
    MaximumTime,         \* bound: the clock
    MaximumAttempts      \* bound: attempts of the run

ASSUME HandoffAssumption ==
    /\ {"ref", "repositoryId", "runId", "runAttempt"} \subseteq DOMAIN Runner
    /\ \A other \in OtherRuns :       \* no two runs of a repository have one id
          \/ other.runner.repositoryId # Runner.repositoryId
          \/ other.runner.runId # Runner.runId
    /\ Lifetime \in Nat \ {0}
    /\ MaximumTime \in Nat
    /\ MaximumAttempts \in 1 .. MaximumRunAttempt

VARIABLES
    now,             \* the clock
    toolchain,       \* what the workflow installs
    source,          \* the checkout
    attempt,         \* GITHUB_RUN_ATTEMPT
    job,             \* the next job, or how the attempt ended
    served,          \* the generation the API holds to be served
    issued,          \* the intents it has answered
    candidate,       \* what the candidate jobs of the last whole run left
    authorization,   \* the uploaded authorization
    journal,         \* the journal the deploy job left, or None
    submission,      \* what the report job sent
    entered,         \* history: what the kernel was entered with
    faults           \* history: what went wrong outside the program

run == <<toolchain, source, served>>
vars == <<now, run, attempt, job, issued, candidate, authorization, journal,
          submission, entered, faults>>

None == <<>>
NoMembers == <<>>
RunnerOf(n) == [Runner EXCEPT !.runAttempt = n]
Faults == {"answer", "options", "carrier", "oidc", "rerun", "upload"}

CandidateOf(tools, runner, checkout) ==
    LET inputs == VerifiedInputs(runner, checkout.files)
        output == [files |-> Rendered(runner.sha, checkout)]
        envelope == BuildFrozenEnvelope(runner, inputs, output)
        input == DeriveAuthorizationInput(tools, runner, inputs, output, envelope,
                    [artifactId |-> "frozen", name |-> "frozen-envelope",
                     retentionDays |-> MaximumRetentionDays, expiresAt |-> "later"])
    IN  [envelope |-> envelope, input |-> input,
         request |-> BuildDeploymentIntentRequest(input)]

-----------------------------------------------------------------------------
(* The intent the API retains for a request. External.                     *)

(* The ids this run derived, or ids of the API's own choosing. *)
RemintedIds(ids) ==
    [ids EXCEPT !.attemptId = [minted |-> @], !.proposedGenerationId = [minted |-> @]]

CompleteDestination(request) ==
    request.destination ++
    [environment |-> AdapterEnvironments[request.adapter.adapterId],
     targetDigest |-> [target |-> request.destination.baseUrl]] ++
    (IF request.adapter.adapterId = "do-spaces"
     THEN [providerBinding |-> [region |-> "fra1", servedBucket |-> "served",
                                stagingBucket |-> "staging"]]
     ELSE NoMembers)

Fence(expected) ==
    IF expected = None THEN NoMembers ELSE [expectedGenerationId |-> expected]

NamedBy(of, ids) ==
    [operationId |-> of.input.operationId,
     attemptId |-> ids.attemptId,
     proposedGenerationId |-> ids.proposedGenerationId]

RetainedMembers ==
    {"artifactId", "artifactDigest", "manifestDigest", "provenanceDigest",
     "sbomDigest", "artifactFileCount", "artifactByteCount", "sourceCommit",
     "lockDigest", "rebuildRecord", "adapter", "pagesBuildVersion",
     "spacesStagePrefix"}

UndecidedIntentFor(of, ids, expected, at) ==
    LET request == of.request
        destination == CompleteDestination(request)
        named == NamedBy(of, ids)
    IN  Fence(expected) ++ named ++
        [marker |-> [schemaId |-> MarkerSchemaId,
                     artifactId |-> request.artifactId,
                     artifactDigest |-> request.artifactDigest,
                     generationId |-> ids.proposedGenerationId],
         audience |-> KernelAudience,
         capability |-> "deploy",
         idempotencyKey |-> named,
         intentDigest |-> [intentOf |-> named],
         expiresAt |-> at + Lifetime,
         operationDeadline |-> at + Lifetime,
         subject |-> [repositoryId |-> of.input.repositoryId,
                      runId |-> of.input.runId,
                      runAttempt |-> of.input.runAttempt],
         workloadBindingDigest |-> [workload |-> of.input.runId],
         destination |-> destination,
         destinationMutationAuthority |->
            named ++ [profile |-> AuthorityProfile, destination |-> destination]
                  ++ Fence(expected)]
        ++ Restrict(request, RetainedMembers \cap DOMAIN request)

IntentFor(of, ids, expected, at) ==
    LET intent == UndecidedIntentFor(of, ids, expected, at)
    IN  intent ++
        [capabilityDecisionDigest |->
            CapabilityDecisionDigestOf(IssuancePhaseDecision(intent, intent.subject))]

HonestIntents(of, at) ==
    {IntentFor(of, ids, served, at) :
        ids \in {DerivedIds(of.input), RemintedIds(DerivedIds(of.input))}}

OneMemberOff(own, other) ==
    {[own EXCEPT ![member] = other[member]] : member \in DOMAIN own \cap DOMAIN other}

(* Wrong answers: another intent, one member of it, or a legacy subject. *)
WrongIntents(of, at) ==
    LET own == IntentFor(of, DerivedIds(of.input), served, at)
        others == issued \cup
                  {LET other == CandidateOf(toolchain, o.runner, o.checkout)
                   IN  IntentFor(other, DerivedIds(other.input), None, at) :
                      o \in OtherRuns}
    IN  others
        \cup (UNION {OneMemberOff(own, other) : other \in others})
        \cup {Without(own, {"expectedGenerationId"})}
        \cup {[own EXCEPT !.subject = LegacySubject]}

-----------------------------------------------------------------------------
Init ==
    /\ now = 0
    /\ toolchain \in Toolchains
    /\ source \in Checkouts
    /\ attempt = 1
    /\ job = "authorize"
    /\ served \in ServedGenerations
    /\ issued = {}
    /\ candidate = CandidateOf(toolchain, RunnerOf(1), source)
    /\ authorization = None /\ journal = None /\ submission = None
    /\ entered = {}
    /\ faults = {}

(* Time passes while a job waits for its runner. *)
Tick ==
    /\ job \in {"deploy", "verify", "report"} /\ now < MaximumTime
    /\ now' = now + 1
    /\ UNCHANGED <<run, attempt, job, issued, candidate, authorization, journal,
                   submission, entered, faults>>

-----------------------------------------------------------------------------
(* authorize: exchangeDeploymentIntent.                                    *)

AnswersTheLock(intent) ==
    LET lockAdapterId == candidate.input.adapter.adapterId
    IN  /\ intent.adapter.adapterId \in ManagedAdapters
        /\ intent.adapter.adapterId = lockAdapterId
        /\ intent.destination.adapterId = lockAdapterId
        /\ intent.destination.environment = AdapterEnvironments[lockAdapterId]

Accept(intent) ==
    IF AnswersTheLock(intent)
    THEN /\ authorization' = [deploymentIntent |-> intent, marker |-> intent.marker,
                              responseKind |-> "issued"]
         /\ job' = IF intent.adapter.adapterId = "do-spaces" THEN "verify" ELSE "deploy"
    ELSE job' = "refused" /\ UNCHANGED authorization

Authorize ==
    /\ job = "authorize"
    /\ \E intent \in HonestIntents(candidate, now) :
          issued' = issued \cup {intent} /\ Accept(intent)
    /\ UNCHANGED <<now, run, attempt, candidate, journal, submission, entered, faults>>

AuthorizeWrongly ==
    /\ job = "authorize"
    /\ faults = {}              \* bound: a run has one of them
    /\ \E intent \in WrongIntents(candidate, now) : Accept(intent)
    /\ faults' = faults \cup {"answer"}
    /\ UNCHANGED <<now, run, attempt, issued, candidate, journal, submission, entered>>

-----------------------------------------------------------------------------
(* deploy: its checks, named by the stage a failure of theirs reports.     *)

DeployStages ==
    <<"envelope", "authorization", "intent", "verification-origin",
      "capability-decision", "adapter-version", "options", "carrier", "oidc",
      "destination", "artifact-digest">>

FailureCodes ==
    [stage \in ToSet(DeployStages) |->
        CASE stage = "envelope" -> "ENVELOPE_INVALID"
          [] stage = "authorization" -> "AUTHORIZATION_INVALID"
          [] stage \in {"intent", "verification-origin", "adapter-version"} ->
                "INTENT_MISMATCH"
          [] stage = "capability-decision" -> "CAPABILITY_MISMATCH"
          [] stage = "options" -> "OPTIONS_INVALID"
          [] stage = "carrier" -> "CARRIER_UNREADABLE"
          [] stage = "oidc" -> "OIDC_FAILED"
          [] stage = "destination" -> "BINDING_INVALID"
          [] stage = "artifact-digest" -> "DIGEST_MISMATCH"]

RequireEnvelopeIntentAgreement(intent, envelope) ==
    \A member \in {"manifestDigest", "provenanceDigest", "sbomDigest"} :
        intent[member] = envelope[member]

\* Mutant: an installed adapter must be the one the lock names.
RequireSameAdapterVersion(intent, installed) ==
    installed = intent.adapter.adapterVersion

RequireAdapterVersionAgreement(intent, installed) ==
    \/ installed = intent.adapter.adapterVersion
    \/ \A version \in {installed, intent.adapter.adapterVersion} :
          IsAdmittedAdapterVersion(toolchain,
              PackageOf(toolchain, intent.adapter.adapterId), version)

(* A Pages deployment can only be made in the repository it runs in. *)
PagesDestinationBinding(intent, runner) ==
    /\ Has(intent.destination, "providerBinding")
    /\ intent.destination.providerBinding
          = [owner |-> runner.repository.owner, repository |-> runner.repository.name]

Installed(adapterId) ==
    FindAdapterArtifact(toolchain, PackageOf(toolchain, adapterId)).version

Holds(stage, broken) ==
    LET intent == authorization.deploymentIntent
        runner == RunnerOf(attempt)
        envelope == DecodeFrozenEnvelope(candidate.envelope)
    IN  CASE stage = "envelope" -> Decodes(candidate.envelope)
          [] stage = "authorization" ->
                /\ BindsAuthorizedIntent(authorization, runner, now)
                /\ intent.adapter.adapterId = "github-pages"
          [] stage = "intent" -> RequireEnvelopeIntentAgreement(intent, envelope)
          [] stage = "verification-origin" -> VerificationBaseUrlIsValid(intent)
          [] stage = "capability-decision" ->
                RequireCapabilityDecisionAgreement(toolchain, intent, runner)
          [] stage = "adapter-version" ->
                RequireAdapterVersionAgreement(intent, Installed(intent.adapter.adapterId))
          [] stage = "destination" -> PagesDestinationBinding(intent, runner)
          [] stage = "artifact-digest" ->
                ArtifactDigestUnder(PackageOf(toolchain, intent.adapter.adapterId),
                                    ToSet(envelope.files)) = intent.artifactDigest
          [] OTHER -> stage \notin broken

(* The journal's head has grown by what has passed. *)
JournalHead(failed) ==
    LET intent == authorization.deploymentIntent
        passed(stage) ==
            failed = 0 \/ \E i \in 1 .. failed - 1 : DeployStages[i] = stage
    IN  (IF passed("authorization")
         THEN [adapterId |-> intent.adapter.adapterId,
               operationId |-> intent.operationId,
               attemptId |-> intent.attemptId,
               generationId |-> intent.proposedGenerationId,
               authorization |-> BoundJournal(authorization)]
         ELSE NoMembers)
        ++ (IF passed("capability-decision")
            THEN [adapterVersion |-> Installed(intent.adapter.adapterId),
                  deployPhase |->
                     DeployPhaseEvaluation(DecodeFrozenEnvelope(candidate.envelope).files)]
            ELSE NoMembers)
        ++ (IF passed("adapter-version")
            THEN [lockedAdapterVersion |-> intent.adapter.adapterVersion,
                  installedAdapterVersion |-> Installed(intent.adapter.adapterId)]
            ELSE NoMembers)
        ++ (IF failed = 0 THEN [verifiedAt |-> [origin |-> intent.destination.baseUrl.host]]
            ELSE NoMembers)

FailureJournal(failed) ==
    JournalHead(failed) ++
    [outcome |-> "failed", attempts |-> <<>>, observations |-> <<>>, observedRoutes |-> 0,
     failure |-> [code |-> FailureCodes[DeployStages[failed]],
                  stage |-> DeployStages[failed]]]

KernelEntry ==
    [intent |-> authorization.deploymentIntent, attempt |-> attempt, at |-> now,
     envelope |-> candidate.envelope]

(* Where deploy stops: the first of its checks that fails, 0 for none. *)
StoppedAt(broken) == SelectInSeq(DeployStages, LAMBDA stage : ~Holds(stage, broken))

Deploy(broken) ==
    LET failed == StoppedAt(broken)
    IN  /\ job = "deploy"
        /\ broken # {} => faults = {}
        /\ job' = "report"
        /\ faults' = faults \cup broken
        /\ IF failed > 0
           THEN journal' = FailureJournal(failed) /\ UNCHANGED entered
           ELSE /\ entered' = entered \cup {KernelEntry}
                /\ \E ending \in Endings :
                      journal' = JournalHead(0) ++ ending
        /\ UNCHANGED <<now, run, attempt, issued, candidate, authorization, submission>>

(* verify-do-spaces-configuration: without live evidence of the buckets'   *)
(* configuration it never passes, and deploy-do-spaces never runs.         *)
VerifySpacesConfiguration ==
    /\ job = "verify"
    /\ job' = "report"
    /\ UNCHANGED <<now, run, attempt, issued, candidate, authorization, journal,
                   submission, entered, faults>>

(* The journal cannot be uploaded and observed again. *)
LoseJournal ==
    /\ job = "report" /\ journal # None /\ faults \subseteq {"rerun"}
    /\ journal' = None
    /\ faults' = faults \cup {"upload"}
    /\ UNCHANGED <<now, run, attempt, job, issued, candidate, authorization, submission,
                   entered>>

-----------------------------------------------------------------------------
(* report: the submission, with the kernel's evidence or without it.       *)

HasKernelEvidence == journal # None /\ journal.attempts # <<>>

\* Mutant: what a failure did not say is filled in.
FailureOfAny(document) ==
    IF document # None /\ Has(document, "failure")
    THEN [failureCode |-> document.failure.code, stage |-> document.failure.stage]
    ELSE [failureCode |-> "DEPLOY_CRASHED", stage |-> "unknown", message |-> "none"]

FailureOf(document) ==
    IF document # None /\ Has(document, "failure")
    THEN [failureCode |-> document.failure.code, stage |-> document.failure.stage]
    ELSE [failureCode |-> "DEPLOY_CRASHED"]

SubmissionBase(intent, runner) ==
    [operationId |-> intent.operationId,
     repositoryId |-> runner.repositoryId,
     sourceCommit |-> intent.sourceCommit,
     runId |-> runner.runId,
     runAttempt |-> runner.runAttempt,
     artifactManifestDigest |-> intent.manifestDigest,
     artifactByteCount |-> intent.artifactByteCount,
     artifactFileCount |-> intent.artifactFileCount,
     provenanceDigest |-> intent.provenanceDigest,
     sbomDigest |-> intent.sbomDigest,
     publisherPackage |-> intent.rebuildRecord.builder.package,
     publisherVersion |-> intent.rebuildRecord.builder.version,
     adapterId |-> intent.adapter.adapterId,
     adapterVersion |-> intent.adapter.adapterVersion,
     publicBaseUrl |-> intent.destination.baseUrl,
     workflowStartedAt |-> "instant",
     workflowCompletedAt |-> "instant"]
    ++ (IF journal # None /\ Has(journal, "verifiedAt")
        THEN [verifiedAt |-> journal.verifiedAt] ELSE NoMembers)

BuildReceiptSubmission(intent, runner) ==
    SubmissionBase(intent, runner) ++
    [kernelJournal |-> Restrict(journal, {"attempts", "observations"}),
     observedRoutes |-> journal.observedRoutes]
    ++ Restrict(journal, {"destinationGenerationId"} \cap DOMAIN journal)
    ++ (IF Has(journal, "failure")
        THEN [deployFailure |-> [journal |-> "present"] ++ FailureOf(journal)]
        ELSE NoMembers)

BuildJournalAbsentSubmission(intent, runner) ==
    SubmissionBase(intent, runner) ++
    [observedRoutes |-> 0,
     deployFailure |-> [journal |-> "absent"] ++ FailureOf(journal)]

Reports(intent, runner) ==
    /\ AssertIntentBoundToRunner(intent, runner)
    /\ HasKernelEvidence => JournalAgreesWithIntent(toolchain, journal, intent)
    /\ intent.rebuildRecord.repositoryId = runner.repositoryId

Report ==
    LET intent == authorization.deploymentIntent
        runner == RunnerOf(attempt)
        made == IF HasKernelEvidence THEN BuildReceiptSubmission(intent, runner)
                ELSE BuildJournalAbsentSubmission(intent, runner)
    IN  /\ job = "report"
        /\ IF Reports(intent, runner) /\ ValidateSubmission(made)
           THEN submission' = made /\ job' = "reported"
           ELSE submission' = None /\ job' = "unreported"
        /\ UNCHANGED <<now, run, attempt, issued, candidate, authorization, journal,
                       entered, faults>>

-----------------------------------------------------------------------------
Ended == {"refused", "reported", "unreported"}

(* "Re-run all jobs" builds and asks again; "re-run failed jobs" gives the *)
(* new attempt the carriers of the old one.                                *)
RerunAll ==
    /\ job \in Ended /\ attempt < MaximumAttempts
    /\ attempt' = attempt + 1
    /\ candidate' = CandidateOf(toolchain, RunnerOf(attempt'), source)
    /\ authorization' = None /\ journal' = None /\ submission' = None
    /\ job' = "authorize"
    /\ UNCHANGED <<now, run, issued, entered, faults>>

RerunFailed ==
    /\ job \in Ended /\ attempt < MaximumAttempts
    /\ authorization # None
    /\ attempt' = attempt + 1
    /\ faults' = faults \cup {"rerun"}
    /\ IF journal # None /\ Has(journal, "decision") /\ journal.decision = "activate"
       THEN job' = "report" /\ UNCHANGED journal
       ELSE /\ job' = IF authorization.deploymentIntent.adapter.adapterId = "do-spaces"
                      THEN "verify" ELSE "deploy"
            /\ journal' = None
    /\ submission' = None
    /\ UNCHANGED <<now, run, issued, candidate, authorization, entered>>

Next ==
    \/ Tick
    \/ Authorize \/ AuthorizeWrongly
    \/ \E broken \in {{}, {"options"}, {"carrier"}, {"oidc"}} : Deploy(broken)
    \/ VerifySpacesConfiguration \/ LoseJournal \/ Report
    \/ RerunAll \/ RerunFailed

Spec == Init /\ [][Next]_vars

-----------------------------------------------------------------------------
TypeOK ==
    /\ now \in 0 .. MaximumTime
    /\ toolchain \in Toolchains /\ source \in Checkouts /\ served \in ServedGenerations
    /\ attempt \in 1 .. MaximumAttempts
    /\ job \in {"authorize", "deploy", "verify", "report"} \cup Ended
    /\ faults \subseteq Faults
    /\ submission # None <=> job = "reported"
    /\ job \in {"deploy", "verify", "report", "reported", "unreported"}
          => authorization # None

(* What deploy never compares: these are evidence, or bound by the API.    *)
Unbound ==
    {"sourceCommit", "lockDigest", "rebuildRecord", "idempotencyKey", "intentDigest",
     "workloadBindingDigest", "expiresAt", "operationDeadline"}

(* The kernel is entered only with an intent for the very attempt, payload *)
(* and destination it runs with, while it is valid: no member of the       *)
(* intent of another run, of an earlier attempt or of a site that was      *)
(* built before reaches it, except those deploy has nothing to compare     *)
(* with (bindAuthorizedIntent, requireEnvelopeIntentAgreement,             *)
(* requireCapabilityDecisionAgreement, the artifact digest).               *)
KernelGetsItsOwnIntent ==
    \A entry \in entered :
        LET of == CandidateOf(toolchain, RunnerOf(entry.attempt), source)
            bound(intent) == Without(intent, Unbound)
        IN  /\ entry.envelope = of.envelope
            /\ entry.intent.expiresAt > entry.at
            /\ \E honest \in HonestIntents(of, entry.at) :
                  bound(entry.intent) = bound(honest)

(* Every version a lock may name has an admission row that is in force.    *)
AdmitsItsCatalog(tools) ==
    \A entry \in tools.catalog \cup tools.previous :
        HasAdmissionRow(tools, [adapterId |-> entry.adapterId,
                                adapterVersion |-> entry.version])

(* A deploy job refuses nothing it could deploy: with an honest intent of  *)
(* the attempt that has not expired, a job that failed before the kernel   *)
(* failed on its own runner, or its toolchain does not admit the adapter   *)
(* version the lock names.                                                 *)
HonestIntentIsDeployed ==
    /\ journal # None /\ Has(journal, "failure") /\ journal.attempts = <<>>
    /\ faults \cap {"answer", "options", "carrier", "oidc", "rerun"} = {}
    /\ now < authorization.deploymentIntent.expiresAt
    => ~AdmitsItsCatalog(toolchain)

(* What a deploy job leaves is reported: in the attempt an intent is bound *)
(* to, whatever the job refused, the kernel did or the upload lost makes a *)
(* submission the contract accepts. An intent whose rebuild record names   *)
(* another repository is refused here, and only here.                      *)
WhatDeployLeftIsReported ==
    job = "unreported" =>
        \/ "rerun" \in faults
        \/ LET intent == authorization.deploymentIntent
           IN  \/ ~AssertIntentBoundToRunner(intent, RunnerOf(attempt))
              \/ intent.rebuildRecord.repositoryId # Runner.repositoryId
-----------------------------------------------------------------------------
(* What the proofs assume of the constants, and the code sees to. *)

(* The jobs before it pass: what they refuse, no job asks an intent for.   *)
JobsPass(tools, runner, checkout) ==
    LET inputs == VerifiedInputs(runner, checkout.files)
        output == [files |-> Rendered(runner.sha, checkout)]
        of == CandidateOf(tools, runner, checkout)
    IN  /\ Freezes(tools, runner, inputs, output)
        /\ AuthorizationInputIsDerived(tools, runner, inputs, output, of.envelope)
        /\ RequestIsValid(of.request)

CandidatesAreRequested ==
    \A tools \in Toolchains :
        /\ \A checkout \in Checkouts, n \in 1 .. MaximumAttempts :
              JobsPass(tools, RunnerOf(n), checkout)
        /\ \A other \in OtherRuns : JobsPass(tools, other.runner, other.checkout)

(* The catalogs have one package for an adapter and one adapter for a package. *)
AdaptersHaveOnePackage ==
    \A tools \in Toolchains : \A row1, row2 \in tools.catalog \cup tools.previous :
        row1.package = row2.package <=> row1.adapterId = row2.adapterId

(* The publish action ships an adapter for github-pages. *)
PagesIsInstalled ==
    \A tools \in Toolchains : \E package \in AdapterPackages(tools) :
        FindAdapterArtifact(tools, package).adapterId = "github-pages"

(* A kernel run leaves a journal the API admits (JournalIsAdmitted of       *)
(* KernelRun), and deploy a bounded sample of routes (observedRoutesFor).   *)
EndingsAreJournals ==
    \A ending \in Endings :
        /\ {"attempts", "observations", "observedRoutes"} \subseteq DOMAIN ending
        /\ ending.observedRoutes <= MaximumObservedRoutes
        /\ CheckKernelJournal(Restrict(ending, {"attempts", "observations"}))
=============================================================================
