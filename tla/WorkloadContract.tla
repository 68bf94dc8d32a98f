-------------------------- MODULE WorkloadContract --------------------------
(***************************************************************************)
(* The closed shapes of what a publish workflow sends to the Gala API and  *)
(* of what it accepts back: the deployment-intent request, the intent's    *)
(* destination, the receipt request and the three forms of a submission.   *)
(* A document is a record; a member that is absent or off its pattern is   *)
(* no member of its domain, a digest or an identity is an opaque value, a  *)
(* size is a number. Vocabularies and bounds are kept.                     *)
(*                                                                         *)
(* Source: scripts/workflow/workload-contract.mjs.                         *)
(***************************************************************************)
EXTENDS Naturals, Sequences, Functions

CONSTANTS
    MaximumVerificationEntries,      \* 900
    MaximumObservedRoutes,           \* 16
    MaximumJournalEntries            \* 100, per stream

ASSUME ContractAssumption ==
    /\ MaximumVerificationEntries \in Nat \ {0}
    /\ MaximumObservedRoutes \in Nat \ {0}
    /\ MaximumJournalEntries \in Nat \ {0}

MaximumRunAttempt == 51
MaximumRetentionDays == 7

Has(document, member) == member \in DOMAIN document

(* Two documents in one; a member of both is the left one's. (The @@ of    *)
(* TLC, by a definition that is no primitive of the prover.)               *)
left ++ right ==
    [member \in DOMAIN left \cup DOMAIN right |->
        IF member \in DOMAIN left THEN left[member] ELSE right[member]]

(* A closed object: every required member is there and no undeclared one. *)
Closed(document, declared, required) ==
    /\ DOMAIN document \subseteq declared
    /\ required \subseteq DOMAIN document

AdmittedAdapterIds == {"local-directory", "github-pages", "do-spaces"}
PublisherPackage == "publish-action"

-----------------------------------------------------------------------------
(* Destinations. The request names what the workflow knows; the retained   *)
(* destination is complete, and names the provider's own coordinates.      *)

DestinationFields ==
    {"environment", "adapterId", "adapterVersion", "targetDigest", "baseUrl",
     "providerBinding"}
DestinationExtensionFields == {"verificationBaseUrl"}
DestinationRequired == DestinationFields \ {"providerBinding"}
RequestDestinationRequired == {"adapterId", "adapterVersion", "baseUrl"}

ProviderBindingFields ==
    [adapterId \in AdmittedAdapterIds |->
        CASE adapterId = "github-pages" -> {"owner", "repository"}
          [] adapterId = "do-spaces" -> {"region", "servedBucket", "stagingBucket"}
          [] OTHER -> {}]

RequestProviderBindingFields ==
    [adapterId \in AdmittedAdapterIds |->
        CASE adapterId = "github-pages" -> {"owner", "repository"}
          [] adapterId = "do-spaces" -> {}
          [] OTHER -> {"rootIdentityDigest", "mutationSurfaceDigest"}]

(* ADAPTER_ENVIRONMENTS names every adapter's environment after it. *)
AdapterEnvironments == [adapterId \in AdmittedAdapterIds |-> adapterId]

CheckRequestDestination(destination) ==
    /\ Closed(destination, DestinationFields, RequestDestinationRequired)
    /\ destination.adapterId \in AdmittedAdapterIds
    /\ Has(destination, "environment") =>
          destination.environment = AdapterEnvironments[destination.adapterId]
    /\ Has(destination, "providerBinding") =>
          LET admitted == RequestProviderBindingFields[destination.adapterId]
          IN  /\ admitted # {}
              /\ DOMAIN destination.providerBinding = admitted

CheckDestination(destination) ==
    /\ Closed(destination, DestinationFields \cup DestinationExtensionFields,
              DestinationRequired)
    /\ destination.adapterId \in AdmittedAdapterIds
    /\ destination.environment = AdapterEnvironments[destination.adapterId]
    /\ Has(destination, "providerBinding") =>
          /\ destination.adapterId # "local-directory"
          /\ DOMAIN destination.providerBinding
                = ProviderBindingFields[destination.adapterId]

(* A base URL is its host, whether it ends in a slash, and the parts that  *)
(* a verification base may not have: user information, a port, a query, a  *)
(* fragment.                                                               *)
CheckVerificationBaseUrl(url) == url.scheme = "https" /\ url.extras = {}

-----------------------------------------------------------------------------
(* The deployment-intent request.                                          *)

PackageIdentityFields == {"package", "version", "integrity", "registry"}

CheckPackageIdentity(row, admittedPackages) ==
    /\ DOMAIN row = PackageIdentityFields
    /\ row.package \in admittedPackages

RebuildRecordApiDerived ==
    {"policyReleaseId", "buildPolicyDecisionDigest",
     "packageReleaseCatalogDigest", "destinationCapabilityDigest"}
RebuildRecordRequired ==
    {"contractVersion", "repositoryId", "sourceCommit", "sourceTree",
     "repositoryRootDigest", "buildEpoch", "buildInputDigest",
     "dependencyLockDigest", "stylingContractDigest", "workflowIdentity",
     "baseUrl", "basePath", "builder", "schemas", "template", "theme",
     "renderPolicy"}

CheckRebuildRecord(record, themePackages) ==
    /\ Closed(record, RebuildRecordRequired \cup RebuildRecordApiDerived,
              RebuildRecordRequired)
    /\ record.contractVersion = "2.0.0"
    /\ CheckPackageIdentity(record.builder, {PublisherPackage})
    /\ CheckPackageIdentity(record.schemas, {"schemas"})
    /\ CheckPackageIdentity(record.template, {"template"})
    /\ CheckPackageIdentity(record.theme, themePackages)

CheckVerificationSubmission(submission) ==
    \/ /\ submission.state = "fit"
       /\ DOMAIN submission = {"state", "verificationEntries"}
       /\ submission.verificationEntries \in 1 .. MaximumVerificationEntries
    \/ /\ submission.state = "unfit"
       /\ DOMAIN submission \subseteq
             {"state", "reason", "requiredVerificationEntryCount",
              "canonicalFitRequestByteCount"}
       /\ submission.reason \in
             {"entry-count-exceeded", "encoded-request-limit-exceeded"}
       /\ submission.requiredVerificationEntryCount \in 1 .. 200000
       /\ submission.canonicalFitRequestByteCount >= 1

IntentConditional ==
    {"pagesBuildVersion", "spacesStagePrefix", "capabilityDecisionDigest",
     "pageCount"}
IntentRequired ==
    {"purpose", "sourceCommit", "workflowTriggerCommit", "artifactId",
     "artifactDigest", "manifestDigest", "provenanceDigest", "sbomDigest",
     "frozenHandoffArtifactId", "frozenHandoffName", "frozenEnvelopeDigest",
     "frozenEnvelopeByteCount", "artifactByteCount", "artifactFileCount",
     "requestedArtifactRetentionDays", "effectiveArtifactExpiresAt",
     "verificationSubmission", "lockDigest", "rebuildRecord", "publisher",
     "adapter", "destination"}

CheckAuthorizeDeployment(body, themePackages) ==
    /\ Closed(body, IntentRequired \cup IntentConditional, IntentRequired)
    /\ body.artifactFileCount >= 1
    /\ body.requestedArtifactRetentionDays \in 1 .. MaximumRetentionDays
    /\ CheckVerificationSubmission(body.verificationSubmission)
    /\ CheckRebuildRecord(body.rebuildRecord, themePackages)
    /\ CheckPackageIdentity(body.publisher, {PublisherPackage})
    /\ DOMAIN body.adapter = {"adapterId", "adapterVersion", "adapterDigest"}
    /\ body.adapter.adapterId \in AdmittedAdapterIds
    /\ CheckRequestDestination(body.destination)
    /\ Has(body, "pagesBuildVersion") => body.adapter.adapterId = "github-pages"
    /\ Has(body, "spacesStagePrefix") => body.adapter.adapterId = "do-spaces"

ReceiptFields ==
    {"purpose", "operationId", "attemptId", "intentDigest", "reportChallengeId"}

ValidateExchangeRequest(body, themePackages) ==
    \/ /\ body.purpose = "deployment-intent"
       /\ CheckAuthorizeDeployment(body, themePackages)
    \/ /\ body.purpose = "deployment-receipt"
       /\ DOMAIN body = ReceiptFields

-----------------------------------------------------------------------------
(* The submission, in its three forms: the journal of a run, the journal   *)
(* of a run that failed, and the failure of a job that left no journal.    *)

AdmittedStages == {"staging", "activation", "cleanup"}
AdmittedOutcomes == {"succeeded", "failed", "skipped", "unknown"}

CheckKernelJournal(journal) ==
    /\ DOMAIN journal = {"attempts", "observations"}
    /\ \A stream \in {journal.attempts, journal.observations} :
          Len(stream) \in 1 .. MaximumJournalEntries
    /\ \A i \in DOMAIN journal.attempts :
          /\ journal.attempts[i].stage \in AdmittedStages
          /\ journal.attempts[i].outcome \in AdmittedOutcomes

DeployFailureFields == {"journal", "failureCode", "stage", "toHost"}

CheckDeployFailure(failure, journal) ==
    /\ Closed(failure, DeployFailureFields, {"journal", "failureCode"})
    /\ failure.journal = journal

SubmissionRequired ==
    {"operationId", "repositoryId", "sourceCommit", "runId", "runAttempt",
     "artifactManifestDigest", "artifactByteCount", "artifactFileCount",
     "provenanceDigest", "sbomDigest", "publisherPackage", "publisherVersion",
     "adapterId", "adapterVersion", "publicBaseUrl", "observedRoutes",
     "workflowStartedAt", "workflowCompletedAt", "kernelJournal"}
SubmissionFields ==
    SubmissionRequired \cup {"destinationGenerationId", "destinationReceiptDigest"}

CheckSubmissionMembers(body) ==
    /\ body.runAttempt \in 1 .. MaximumRunAttempt
    /\ body.artifactFileCount >= 1
    /\ body.publisherPackage = PublisherPackage
    /\ body.adapterId \in AdmittedAdapterIds
    /\ body.observedRoutes <= MaximumObservedRoutes

ValidateReceiptSubmission(body) ==
    /\ Closed(body, SubmissionFields, SubmissionRequired)
    /\ CheckSubmissionMembers(body)
    /\ CheckKernelJournal(body.kernelJournal)

Without(body, members) == Restrict(body, DOMAIN body \ members)

ValidateJournalAbsentSubmission(body) ==
    LET absent(fields) == (fields \ {"kernelJournal"}) \cup {"deployFailure"}
    IN  /\ Closed(body, absent(SubmissionFields), absent(SubmissionRequired))
        /\ CheckSubmissionMembers(body)
        /\ CheckDeployFailure(body.deployFailure, "absent")

ValidateJournalPresentSubmission(body) ==
    /\ ValidateReceiptSubmission(Without(body, {"deployFailure"}))
    /\ CheckDeployFailure(body.deployFailure, "present")

ValidateSubmission(body) ==
    LET rest == Without(body, {"verifiedAt", "performance"})
    IN  /\ Has(body, "verifiedAt") => DOMAIN body.verifiedAt = {"origin"}
        /\ IF ~Has(rest, "deployFailure") THEN ValidateReceiptSubmission(rest)
           ELSE IF rest.deployFailure.journal = "absent"
                THEN ValidateJournalAbsentSubmission(rest)
                ELSE ValidateJournalPresentSubmission(rest)
=============================================================================
