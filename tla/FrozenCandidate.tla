--------------------------- MODULE FrozenCandidate ---------------------------
(***************************************************************************)
(* From a checkout to a deployment-intent request: what the jobs before    *)
(* the deploy job derive, from what, and what they refuse. prep packs the  *)
(* checkout (the verified inputs), build packs what publish-action wrote   *)
(* (the unfrozen output), freeze makes the frozen envelope of the two and  *)
(* authorize derives the request from all three.                           *)
(*                                                                         *)
(* A carrier is [metadata, files], its files a function from member paths  *)
(* to bytes. A runner is the record of the GITHUB_* facts of one job. The  *)
(* operators refuse by a predicate named for the refusal: a document is    *)
(* meant only where its predicate holds.                                   *)
(*                                                                         *)
(* Source: scripts/workflow/{build-verified-inputs,verified-source,freeze, *)
(* build-facts,build-provenance,sbom,build-authorization-input,            *)
(* workload-requests,workload-identity}.mjs.                               *)
(***************************************************************************)
EXTENDS FrozenEnvelope, AdapterCatalog

CONSTANTS
    ThemeCatalog,            \* the rows of the themes the toolchain ships
    EntryByteCount,          \* the encoded size of one verification entry
    MaximumRequestBytes      \* 1 MiB

LockPath == "source/gala.lock.json"
PublicationPath == "source/publication.json"
UnfrozenManifestMember == "metadata/artifact-manifest.json"
BuildInputMember == "metadata/build-input.json"
ThemeContractMember == "metadata/theme-contract.json"
BuildDirectoryMarker == ".gala-build-directory"
MarkerPath == "gala-generation.json"
UnfrozenMetadataMembers ==
    {UnfrozenManifestMember, BuildInputMember, ThemeContractMember}

HasJson(files, path) ==
    path \in DOMAIN files /\ DOMAIN files[path] \subseteq {"json", "jcs"}
JsonMember(files, path) ==
    IF Has(files[path], "jcs") THEN files[path].jcs ELSE files[path].json

(* The order in which a directory is walked is not the order of an          *)
(* envelope: here it is the reverse.                                       *)
FileSequence(files) ==
    LET greater(path) == {other \in DOMAIN files : CompareUtf8(path, other)}
        walked(i) == CHOOSE path \in DOMAIN files : Cardinality(greater(path)) = i - 1
    IN  [i \in 1 .. Cardinality(DOMAIN files) |->
            [path |-> walked(i), bytes |-> files[walked(i)]]]

-----------------------------------------------------------------------------
(* The verified inputs: the lock and the publication of the checkout.      *)

LockDigestOf(lock) == [lock |-> Without(lock, {"lockDigest"})]

Identity(row) == Restrict(row, PackageIdentityFields)

LockDocumentIsValid(files) ==
    /\ HasJson(files, LockPath)
    /\ LET lock == JsonMember(files, LockPath)
       IN  /\ lock.schemaId = "lock"
           /\ lock.lockDigest = LockDigestOf(lock)
           /\ lock.theme \in ThemeCatalog

RowsOf(lock, packages) ==
    {i \in DOMAIN lock.publisher : lock.publisher[i].package \in packages}

LockFactsAreValid(toolchain, files) ==
    /\ LockDocumentIsValid(files)
    /\ LET lock == JsonMember(files, LockPath)
           adapterRows == RowsOf(lock, AdapterPackages(toolchain))
       IN  /\ Cardinality(RowsOf(lock, {PublisherPackage})) = 1
           /\ Cardinality(adapterRows) = 1
           /\ \A i \in adapterRows :
                 AdmitsAdapterRow(toolchain, lock.publisher[i])

ReadLockFacts(toolchain, files) ==
    LET lock == JsonMember(files, LockPath)
        rowOf(packages) == lock.publisher[CHOOSE i \in RowsOf(lock, packages) : TRUE]
        adapter == rowOf(AdapterPackages(toolchain))
    IN  [lockDigest |-> lock.lockDigest,
         publisher |-> Identity(rowOf({PublisherPackage})),
         adapter |-> [adapterId |-> AdmittedArtifact(toolchain, adapter).adapterId,
                      adapterVersion |-> adapter.version,
                      adapterDigest |-> adapter.integrity],
         adapterPackage |-> adapter.package]

(* Unlike a verification base, the canonical base may have a port, and has *)
(* to end in a slash.                                                      *)
PublicationIsValid(files) ==
    /\ HasJson(files, PublicationPath)
    /\ LET base == JsonMember(files, PublicationPath).canonicalBase
       IN  base.scheme = "https" /\ base.extras \subseteq {"port"} /\ base.endsInSlash

(* Outside GitHub Actions the commit's facts may be null; there the        *)
(* authorization input is incomplete. On it prep refuses.                  *)
VerifiedInputs(runner, checkout) ==
    [metadata |-> [sourceCommit |-> runner.sha,
                   workflowTriggerCommit |-> runner.sha,
                   sourceTree |-> [tree |-> runner.sha],
                   buildEpoch |-> [epoch |-> runner.sha]],
     files |-> checkout]

-----------------------------------------------------------------------------
(* The build's output and the facts it carries of itself.                  *)

\* Mutant: the build input is not compared with the manifest.
BuildFactsAreJson(files, manifest) ==
    \A member \in {BuildInputMember, ThemeContractMember} :
        member \in DOMAIN files => HasJson(files, member)

BuildFactsAreValid(files, manifest) ==
    /\ BuildInputMember \in DOMAIN files =>
          /\ HasJson(files, BuildInputMember)
          /\ JsonMember(files, BuildInputMember).inputDigest = manifest.buildInputDigest
    /\ ThemeContractMember \in DOMAIN files => HasJson(files, ThemeContractMember)

SplitIsValid(files) ==
    /\ HasJson(files, UnfrozenManifestMember)
    /\ LET manifest == JsonMember(files, UnfrozenManifestMember)
           named == {ManifestInventory(manifest)[i].path :
                        i \in DOMAIN ManifestEntries(manifest)}
       IN  /\ manifest.schemaId = "artifact-manifest"
           /\ MarkerPath \notin DOMAIN files
           /\ ManifestInventoryIsValid(manifest)
           /\ DOMAIN files \ (UnfrozenMetadataMembers \cup {BuildDirectoryMarker})
                 \subseteq named

PayloadFiles(files) ==
    Without(files, UnfrozenMetadataMembers \cup {BuildDirectoryMarker})

(* The digest the adapter computes of the files, beside the manifest's. *)
ArtifactDigestUnder(adapterPackage, files) ==
    [artifactUnder |-> adapterPackage, files |-> files]

-----------------------------------------------------------------------------
(* The SBOM: the payload, and the packages the lock says it was built by.  *)

DirectPackageRows(lock) ==
    <<lock.schemas, lock.template, lock.theme>> \o lock.publisher

SbomIsBuildable(files, manifest, lock) ==
    /\ DOMAIN files # {}
    /\ lock.publisher[1].package = PublisherPackage
    /\ {"generatedAt", "sourceCommit"} \subseteq DOMAIN manifest
    /\ Len(DirectPackageRows(lock)) = 7

BuildSbom(files, manifest, lock) ==
    LET direct == DirectPackageRows(lock)
    IN  [artifact |-> ArtifactDigestOf(ManifestInventory(manifest)),
         versionInfo |-> manifest.sourceCommit,
         created |-> manifest.generatedAt,
         creator |-> lock.publisher[1].version,
         packages |-> [i \in DOMAIN direct |-> Restrict(direct[i],
                          {"package", "version", "integrity"})],
         files |-> InByteOrder([i \in DOMAIN FileSequence(files) |->
                      EntryOf(FileSequence(files)[i])])]

-----------------------------------------------------------------------------
(* The provenance: the run that built the payload, and from what.          *)

AdmittedEventNames == {"create", "workflow_dispatch"}

Handoff(purpose, artifactId, name, carrier) ==
    [purpose |-> purpose, artifactId |-> artifactId, name |-> name,
     digest |-> TaggedSha256(carrier)]

BuildProvenanceRecord(runner, inputs, output, lock, manifest, sbom) ==
    [schemaId |-> "build-provenance",
     assertedWorkload |->
        [repository |-> runner.repository,
         repositoryId |-> runner.repositoryId,
         ref |-> runner.ref,
         sourceCommit |-> inputs.metadata.sourceCommit,
         workflowTriggerCommit |-> inputs.metadata.workflowTriggerCommit,
         runId |-> runner.runId,
         runAttempt |-> runner.runAttempt,
         eventName |-> runner.eventName],
     verifiedInputHandoff |->
        Handoff("verified-inputs", runner.runId, "verified-inputs", inputs),
     unfrozenOutputHandoff |->
        Handoff("unfrozen-output", runner.runId, "unfrozen-output", output),
     lockDigest |-> lock.lockDigest,
     buildInputDigest |-> manifest.buildInputDigest,
     artifactDigest |-> ArtifactDigestOf(ManifestInventory(manifest)),
     manifestDigest |-> manifest.manifestDigest,
     sbomDigest |-> TaggedSha256(JcsBytes(sbom))]

ProvenanceIsValid(provenance) ==
    /\ provenance.assertedWorkload.runAttempt \in 1 .. MaximumRunAttempt
    /\ provenance.assertedWorkload.eventName \in AdmittedEventNames
    /\ provenance.verifiedInputHandoff.purpose = "verified-inputs"
    /\ provenance.unfrozenOutputHandoff.purpose = "unfrozen-output"

-----------------------------------------------------------------------------
(* freeze: buildFrozenEnvelope.                                            *)

EnvelopeInput(runner, inputs, output) ==
    LET lock == JsonMember(inputs.files, LockPath)
        manifest == JsonMember(output.files, UnfrozenManifestMember)
        files == PayloadFiles(output.files)
        sbom == BuildSbom(files, manifest, lock)
    IN  [files |-> FileSequence(files),
         manifest |-> manifest,
         provenance |-> BuildProvenanceRecord(runner, inputs, output, lock,
                                              manifest, sbom),
         sbom |-> sbom]

Freezes(toolchain, runner, inputs, output) ==
    /\ LockFactsAreValid(toolchain, inputs.files)
    /\ SplitIsValid(output.files)
    /\ LET manifest == JsonMember(output.files, UnfrozenManifestMember)
       IN  /\ BuildFactsAreValid(output.files, manifest)
           /\ manifest.artifactDigest = ArtifactDigestOf(ManifestInventory(manifest))
           /\ manifest.manifestDigest = ManifestDigestOf(manifest)
           /\ SbomIsBuildable(PayloadFiles(output.files), manifest,
                              JsonMember(inputs.files, LockPath))
    /\ LET input == EnvelopeInput(runner, inputs, output)
       IN  ProvenanceIsValid(input.provenance) /\ Encodes(input)

BuildFrozenEnvelope(runner, inputs, output) ==
    EncodeFrozenEnvelope(EnvelopeInput(runner, inputs, output))

-----------------------------------------------------------------------------
(* What the request says of the payload. Sizes choose between the two      *)
(* forms of a verification submission.                                     *)

BuildVerificationSubmission(files) ==
    LET count == Len(files)
        unfit(reason) ==
            [state |-> "unfit", reason |-> reason,
             requiredVerificationEntryCount |-> count,
             canonicalFitRequestByteCount |-> count * EntryByteCount]
    IN  IF count > MaximumVerificationEntries THEN unfit("entry-count-exceeded")
        ELSE IF count * EntryByteCount > MaximumRequestBytes
             THEN unfit("encoded-request-limit-exceeded")
             ELSE [state |-> "fit", verificationEntries |-> count]

DeriveArtifactFacts(files, manifest) ==
    [manifestDigest |-> manifest.manifestDigest,
     artifactByteCount |->
        SumOf([i \in DOMAIN files |-> files[i].bytes.byteLength]),
     artifactFileCount |-> Len(files),
     pageCount |-> Len(manifest.routes),
     verificationSubmission |-> BuildVerificationSubmission(files)]

-----------------------------------------------------------------------------
(* authorize: the rebuild record, and the checks that the build the output *)
(* came from is the build of these inputs.                                 *)

ManagedAdapters == {"github-pages", "do-spaces"}

BuildAgrees(toolchain, inputs, output) ==
    LET lock == JsonMember(inputs.files, LockPath)
        buildInput == JsonMember(output.files, BuildInputMember)
        themeContract == JsonMember(output.files, ThemeContractMember)
    IN  /\ BuildInputMember \in DOMAIN output.files =>
              /\ buildInput.baseUrl
                    = JsonMember(inputs.files, PublicationPath).canonicalBase
              /\ \A member \in {"schemas", "template", "theme"} :
                    Identity(buildInput.packages[member]) = Identity(lock[member])
              /\ Identity(buildInput.packages.publisher[1])
                    = ReadLockFacts(toolchain, inputs.files).publisher
              /\ Cardinality(buildInput.renderPolicies) = 1
        /\ ThemeContractMember \in DOMAIN output.files =>
              /\ themeContract.package = lock.theme.package
              /\ themeContract.version = lock.theme.version

(* missing: the members the workflow has no honest source for. *)
NothingMissing(output) ==
    {BuildInputMember, ThemeContractMember} \subseteq DOMAIN output.files

DeriveRebuildRecord(toolchain, runner, inputs, output, manifest) ==
    LET lock == JsonMember(inputs.files, LockPath)
        buildInput == JsonMember(output.files, BuildInputMember)
    IN  [contractVersion |-> "2.0.0",
         repositoryId |-> runner.repositoryId,
         sourceCommit |-> inputs.metadata.sourceCommit,
         sourceTree |-> inputs.metadata.sourceTree,
         repositoryRootDigest |-> buildInput.rootDigest,
         buildEpoch |-> inputs.metadata.buildEpoch,
         buildInputDigest |-> manifest.buildInputDigest,
         dependencyLockDigest |-> lock.lockDigest,
         stylingContractDigest |->
            JsonMember(output.files, ThemeContractMember).stylingContractDigest,
         workflowIdentity |-> manifest.workflowIdentity,
         baseUrl |-> JsonMember(inputs.files, PublicationPath).canonicalBase,
         basePath |-> buildInput.basePath,
         builder |-> ReadLockFacts(toolchain, inputs.files).publisher,
         schemas |-> Identity(lock.schemas),
         template |-> Identity(lock.template),
         theme |-> Identity(lock.theme),
         renderPolicy |-> CHOOSE policy \in buildInput.renderPolicies : TRUE]

AuthorizationInputIsDerived(toolchain, runner, inputs, output, envelope) ==
    /\ LockFactsAreValid(toolchain, inputs.files)
    /\ PublicationIsValid(inputs.files)
    /\ ReadLockFacts(toolchain, inputs.files).adapter.adapterId \in ManagedAdapters
    /\ runner.ref.kind = "publish"          \* operationIdFromPublishRef
    /\ BuildFactsAreValid(output.files, DecodeFrozenEnvelope(envelope).manifest)
    /\ BuildAgrees(toolchain, inputs, output)
    /\ NothingMissing(output)

(* handoff: what the store answered of the frozen artifact that was uploaded. *)
DeriveAuthorizationInput(toolchain, runner, inputs, output, envelope, handoff) ==
    LET lock == ReadLockFacts(toolchain, inputs.files)
        decoded == DecodeFrozenEnvelope(envelope)
        artifact == DeriveArtifactFacts(decoded.files, decoded.manifest)
        destination == [adapterId |-> lock.adapter.adapterId,
                        adapterVersion |-> lock.adapter.adapterVersion,
                        baseUrl |-> JsonMember(inputs.files, PublicationPath).canonicalBase]
    IN  artifact ++
        [operationId |-> runner.ref.operationId,
         repositoryId |-> runner.repositoryId,
         runId |-> runner.runId,
         runAttempt |-> runner.runAttempt,
         sourceCommit |-> inputs.metadata.sourceCommit,
         workflowTriggerCommit |-> inputs.metadata.workflowTriggerCommit,
         artifactDigest |->
            ArtifactDigestUnder(lock.adapterPackage, ToSet(decoded.files)),
         provenanceDigest |-> decoded.provenanceDigest,
         sbomDigest |-> decoded.sbomDigest,
         frozenEnvelopeDigest |-> TaggedSha256(envelope),
         frozenEnvelopeByteCount |-> EnvelopeByteCount(envelope),
         frozenHandoffArtifactId |-> handoff.artifactId,
         frozenHandoffName |-> handoff.name,
         requestedArtifactRetentionDays |-> handoff.retentionDays,
         effectiveArtifactExpiresAt |-> handoff.expiresAt,
         lockDigest |-> lock.lockDigest,
         rebuildRecord |-> DeriveRebuildRecord(toolchain, runner, inputs, output,
                                               decoded.manifest),
         publisher |-> lock.publisher,
         adapter |-> lock.adapter,
         destination |->
            IF lock.adapter.adapterId = "github-pages"
            THEN destination ++
                 [providerBinding |-> [owner |-> runner.repository.owner,
                                       repository |-> runner.repository.name]]
            ELSE destination]

-----------------------------------------------------------------------------
(* The request: the input without the run's own members, and the ids that  *)
(* are derived from them. A derived id names what it was derived from.     *)

DeriveStableId(domain, binding) == binding ++ [stableId |-> domain]
DerivePagesBuildVersion(workflowTriggerCommit) == workflowTriggerCommit
DeriveSpacesStagePrefix(operationId, attemptId, generationId) ==
    <<operationId, attemptId, generationId>>

RequestBinding(input) ==
    Restrict(input, {"repositoryId", "operationId", "runId", "runAttempt",
                     "artifactDigest"})

DerivedIds(input) ==
    LET binding == RequestBinding(input)
        attemptId == DeriveStableId("gala-attempt-id-v2", binding)
        generationId == DeriveStableId("gala-generation-id-v2", binding)
        ids == [artifactId |-> DeriveStableId("gala-artifact-id-v2", binding),
                attemptId |-> attemptId,
                proposedGenerationId |-> generationId]
    IN  CASE input.adapter.adapterId = "github-pages" ->
                ids ++ [pagesBuildVersion |->
                           DerivePagesBuildVersion(input.workflowTriggerCommit)]
          [] input.adapter.adapterId = "do-spaces" ->
                ids ++ [spacesStagePrefix |->
                           DeriveSpacesStagePrefix(input.operationId, attemptId,
                                                   generationId)]
          [] OTHER -> ids

(* The workflow always sends the conditional members it derived. *)
BuildDeploymentIntentRequest(input) ==
    LET derived == DerivedIds(input)
        conditional == {"pagesBuildVersion", "spacesStagePrefix"}
    IN  Without(input, {"operationId", "repositoryId", "runId", "runAttempt"})
        ++ [purpose |-> "deployment-intent", artifactId |-> derived.artifactId]
        ++ Restrict(derived, conditional \cap DOMAIN derived)

RequestIsValid(request) ==
    ValidateExchangeRequest(request, {theme.package : theme \in ThemeCatalog})
=============================================================================
