-------------------------- MODULE AuthorizedIntent --------------------------
(***************************************************************************)
(* What a deploy job requires of the authorization it downloads before it  *)
(* touches a destination, and what a report job requires of the journal it *)
(* submits: the intent is whole, agrees with itself, is bound to this run  *)
(* and attempt, is still valid, and carries the capability decision that   *)
(* this toolchain computes from the intent's own members.                  *)
(*                                                                         *)
(* An authorization is [deploymentIntent, marker, responseKind]; a subject *)
(* is [repositoryId, runId, runAttempt], or <<>> in its legacy form. An instant is a      *)
(* number. A toolchain is [catalog, previous, admission, installed]: the   *)
(* two catalogs of AdapterCatalog, the admission rows and the versions of  *)
(* the adapters it installs.                                               *)
(*                                                                         *)
(* Source: scripts/workflow/{authorized-intent,capability-decision}.mjs.   *)
(***************************************************************************)
EXTENDS FrozenCandidate

MarkerSchemaId == "generation-marker"
AuthorityProfile == "destination-mutation-authority"
KernelAudience == "publish-kernel"

ProviderBindingIsValid(intent) ==
    LET members == ProviderBindingFields[intent.destination.adapterId]
    IN  IF members = {} THEN ~Has(intent.destination, "providerBinding")
        ELSE /\ Has(intent.destination, "providerBinding")
             /\ members \subseteq DOMAIN intent.destination.providerBinding

DestinationIdentityFrom(intent) ==
    Restrict(intent.destination, DestinationFields \cap DOMAIN intent.destination)

VerificationBaseUrlIsValid(intent) ==
    Has(intent.destination, "verificationBaseUrl") =>
        CheckVerificationBaseUrl(intent.destination.verificationBaseUrl)

-----------------------------------------------------------------------------
(* bindAuthorizedIntent, in the order of its checks.                       *)

IntentMembers ==
    {"operationId", "attemptId", "proposedGenerationId", "artifactId",
     "idempotencyKey", "artifactDigest", "manifestDigest", "intentDigest",
     "expiresAt", "operationDeadline", "audience", "capability", "adapter",
     "destination", "marker", "destinationMutationAuthority", "subject",
     "workloadBindingDigest"}

IntentIsShaped(intent) ==
    /\ IntentMembers \subseteq DOMAIN intent
    /\ intent.audience = KernelAudience
    /\ intent.capability = "deploy"
    /\ intent.adapter.adapterId \in AdmittedAdapterIds
    /\ CheckDestination(intent.destination)

AdapterAgrees(intent) ==
    /\ intent.destination.adapterId = intent.adapter.adapterId
    /\ intent.destination.adapterVersion = intent.adapter.adapterVersion
    /\ ProviderBindingIsValid(intent)

MarkerAgrees(authorization) ==
    LET intent == authorization.deploymentIntent
    IN  /\ intent.marker.schemaId = MarkerSchemaId
        /\ intent.marker.artifactId = intent.artifactId
        /\ intent.marker.artifactDigest = intent.artifactDigest
        /\ intent.marker.generationId = intent.proposedGenerationId
        /\ Has(authorization, "marker") => authorization.marker = intent.marker

\* Mutant: the authority's attempt is not compared.
AuthorityAgreesButAttempt(intent) ==
    LET authority == intent.destinationMutationAuthority
    IN  /\ authority.profile = AuthorityProfile
        /\ authority.operationId = intent.operationId
        /\ authority.proposedGenerationId = intent.proposedGenerationId
        /\ authority.destination = intent.destination

AuthorityAgrees(intent) ==
    LET authority == intent.destinationMutationAuthority
    IN  /\ authority.profile = AuthorityProfile
        /\ authority.operationId = intent.operationId
        /\ authority.attemptId = intent.attemptId
        /\ authority.proposedGenerationId = intent.proposedGenerationId
        /\ authority.destination = intent.destination
        /\ Has(authority, "expectedGenerationId") =>
              /\ Has(intent, "expectedGenerationId")
              /\ authority.expectedGenerationId = intent.expectedGenerationId

(* The intent alone selects the fence: no member is a first publish, and   *)
(* what is observed at the destination never stands in for it.             *)
ExpectNothingServed == [sentinel |-> "expect-nothing-served"]
FenceOf(intent) ==
    IF Has(intent, "expectedGenerationId") THEN intent.expectedGenerationId
    ELSE ExpectNothingServed

LegacySubject == <<>>

AssertIntentBoundToRunner(intent, runner) ==
    /\ runner.ref.kind = "publish"
    /\ intent.operationId = runner.ref.operationId
    /\ intent.subject # LegacySubject
    /\ intent.subject = [repositoryId |-> runner.repositoryId,
                         runId |-> runner.runId,
                         runAttempt |-> runner.runAttempt]

IsUnexpired(intent, now) == intent.expiresAt > now /\ intent.operationDeadline > now

BindsAuthorizedIntent(authorization, runner, now) ==
    LET intent == authorization.deploymentIntent
    IN  /\ IntentIsShaped(intent)
        /\ AdapterAgrees(intent)
        /\ MarkerAgrees(authorization)
        /\ AuthorityAgrees(intent)
        /\ AssertIntentBoundToRunner(intent, runner)
        /\ IsUnexpired(intent, now)

(* What the journal's head records of the binding. *)
BoundJournal(authorization) ==
    LET intent == authorization.deploymentIntent
    IN  [responseKind |-> authorization.responseKind,
         intentDigest |-> intent.intentDigest,
         operationId |-> intent.operationId,
         attemptId |-> intent.attemptId,
         proposedGenerationId |-> intent.proposedGenerationId,
         artifactId |-> intent.artifactId,
         artifactDigest |-> intent.artifactDigest,
         expectedGenerationId |-> FenceOf(intent),
         adapter |-> intent.adapter,
         destination |-> DestinationIdentityFrom(intent),
         subject |-> intent.subject]

-----------------------------------------------------------------------------
(* The capability decision. An admission row is [adapterId, adapterVersion,*)
(* superseded]; its digests and limits name the row they are of.           *)

PackageOf(toolchain, adapterId) ==
    CHOOSE package \in AdapterPackages(toolchain) :
        FindAdapterArtifact(toolchain, package).adapterId = adapterId

AdmissionRows(toolchain, adapter) ==
    {row \in toolchain.admission :
        /\ row.adapterId = adapter.adapterId
        /\ row.adapterVersion = adapter.adapterVersion
        /\ ~row.superseded}

HasAdmissionRow(toolchain, adapter) == AdmissionRows(toolchain, adapter) # {}

(* The API's row: its digests are derived from its canonical text.         *)
AdmissionRow(adapter) ==
    [capabilityDigest |-> [canonicalText |-> adapter.adapterId, of |-> adapter.adapterVersion],
     limits |-> [declaredLimits |-> adapter.adapterId]]

PagesActionsArtifactName(run) == [pages |-> run.runId, attempt |-> run.runAttempt]

SpacesRecordMembers ==
    {"spacesWebsiteConfigurationDigest", "spacesControlPlaneBindingDigest",
     "spacesControlPlaneCatalogDigests"}

(* The Spaces records are recomputed from the provider's coordinates and   *)
(* the base path the intent retains.                                       *)
SpacesRecordsAreComputable(intent) ==
    /\ Has(intent.destination, "providerBinding")
    /\ Has(intent.rebuildRecord, "basePath")

RecomputeSpacesClosedRecords(intent) ==
    LET binding == intent.destination.providerBinding
    IN  [member \in SpacesRecordMembers |->
            IF member = "spacesWebsiteConfigurationDigest"
            THEN [website |-> intent.rebuildRecord.basePath]
            ELSE [binding |-> binding]]

IssuancePhaseDecision(intent, run) ==
    LET record ==
            AdmissionRow(intent.adapter) ++
            [artifactId |-> intent.artifactId,
             artifactDigest |-> intent.artifactDigest,
             manifestDigest |-> intent.manifestDigest,
             destination |-> intent.destination,
             adapter |-> intent.adapter,
             artifactFileCount |-> intent.artifactFileCount,
             deploymentObjectCount |-> intent.artifactFileCount + 1,
             artifactByteCount |-> intent.artifactByteCount,
             markerJcs |-> Without(intent.marker, {"schemaId"})]
    IN  CASE intent.adapter.adapterId = "github-pages" ->
                record ++ [pagesActionsArtifactName |-> PagesActionsArtifactName(run)]
                       ++ Restrict(intent, {"pagesBuildVersion"} \cap DOMAIN intent)
          [] intent.adapter.adapterId = "do-spaces" ->
                record ++ RecomputeSpacesClosedRecords(intent)
                       ++ Restrict(intent, {"spacesStagePrefix"} \cap DOMAIN intent)
          [] OTHER -> record

CapabilityDecisionDigestOf(record) == [capabilityDecision |-> record]

RequireCapabilityDecisionAgreement(toolchain, intent, run) ==
    /\ intent.adapter.adapterId = "do-spaces" => SpacesRecordsAreComputable(intent)
    /\ HasAdmissionRow(toolchain, intent.adapter)
    /\ intent.capabilityDecisionDigest
          = CapabilityDecisionDigestOf(IssuancePhaseDecision(intent, run))

(* What the deploy job measures of the payload, beside what was decided. *)
DeployPhaseEvaluation(files) ==
    [artifactFileCount |-> Len(files),
     deploymentObjectCount |-> Len(files) + 1,
     artifactByteCount |-> SumOf([i \in DOMAIN files |-> files[i].bytes.byteLength])]

-----------------------------------------------------------------------------
(* assertJournalAgreesWithIntent: the journal was produced under the intent. *)

JournalAgreesWithIntent(toolchain, journal, intent) ==
    /\ Has(journal, "operationId") /\ journal.operationId = intent.operationId
    /\ journal.attemptId = intent.attemptId
    /\ journal.generationId = intent.proposedGenerationId
    /\ journal.adapterId = intent.adapter.adapterId
    /\ Has(journal, "lockedAdapterVersion") =>
          journal.lockedAdapterVersion = intent.adapter.adapterVersion
    /\ ~Has(journal, "lockedAdapterVersion") =>
          journal.adapterVersion = intent.adapter.adapterVersion
    /\ journal.authorization.intentDigest = intent.intentDigest
    /\ Has(journal, "installedAdapterVersion") =>
          IsAdmittedAdapterVersion(toolchain,
              PackageOf(toolchain, intent.adapter.adapterId),
              journal.installedAdapterVersion)
=============================================================================
