---------------------------- MODULE HandoffProofs ----------------------------
(***************************************************************************)
(* Proofs about the hand-over of a publication between the jobs of a run.  *)
(***************************************************************************)
EXTENDS Handoff, TLAPS, WellFoundedInduction, FiniteSetTheorems

-----------------------------------------------------------------------------
(* Documents in one another.                                               *)

LEMMA JoinDomain ==
    ASSUME NEW left, NEW right
    PROVE  DOMAIN (left ++ right) = DOMAIN left \cup DOMAIN right
BY DEF ++

LEMMA JoinLeft ==
    ASSUME NEW left, NEW right, NEW member \in DOMAIN left
    PROVE  (left ++ right)[member] = left[member]
BY DEF ++

LEMMA JoinRight ==
    ASSUME NEW left, NEW right, NEW member \in DOMAIN right, member \notin DOMAIN left
    PROVE  (left ++ right)[member] = right[member]
BY DEF ++

LEMMA JoinWithNothing ==
    ASSUME NEW left, NEW member \in DOMAIN left
    PROVE  /\ DOMAIN (left ++ NoMembers) = DOMAIN left
           /\ (left ++ NoMembers)[member] = left[member]
BY DEF ++, NoMembers

-----------------------------------------------------------------------------
(* What the capability decision is taken over.                             *)

DecidedMembers ==
    {"artifactId", "artifactDigest", "manifestDigest", "destination", "adapter",
     "artifactFileCount", "artifactByteCount"}

RecordOf(intent) ==
    AdmissionRow(intent.adapter) ++
    [artifactId |-> intent.artifactId,
     artifactDigest |-> intent.artifactDigest,
     manifestDigest |-> intent.manifestDigest,
     destination |-> intent.destination,
     adapter |-> intent.adapter,
     artifactFileCount |-> intent.artifactFileCount,
     deploymentObjectCount |-> intent.artifactFileCount + 1,
     artifactByteCount |-> intent.artifactByteCount,
     markerJcs |-> Without(intent.marker, {"schemaId"})]

LEMMA RecordMembers ==
    ASSUME NEW intent
    PROVE  /\ DecidedMembers \cup {"markerJcs"} \subseteq DOMAIN RecordOf(intent)
           /\ DOMAIN RecordOf(intent)
                 = DecidedMembers \cup {"markerJcs", "deploymentObjectCount",
                                        "capabilityDigest", "limits"}
           /\ \A member \in DecidedMembers : RecordOf(intent)[member] = intent[member]
           /\ RecordOf(intent)["markerJcs"] = Without(intent.marker, {"schemaId"})
BY DEF RecordOf, DecidedMembers, AdmissionRow, ++

LEMMA PagesDecision ==
    ASSUME NEW intent, NEW runner, intent.adapter.adapterId = "github-pages"
    PROVE  IssuancePhaseDecision(intent, runner)
              = RecordOf(intent)
                ++ [pagesActionsArtifactName |-> PagesActionsArtifactName(runner)]
                ++ Restrict(intent, {"pagesBuildVersion"} \cap DOMAIN intent)
BY DEF IssuancePhaseDecision, RecordOf

(* Whatever the adapter, the decision names what it was taken over.        *)
LEMMA DecisionNames ==
    ASSUME NEW intent, NEW runner
    PROVE  /\ \A member \in DecidedMembers :
                 IssuancePhaseDecision(intent, runner)[member] = intent[member]
           /\ IssuancePhaseDecision(intent, runner)["markerJcs"]
                 = Without(intent.marker, {"schemaId"})
<1> DEFINE D == IssuancePhaseDecision(intent, runner)
           R == RecordOf(intent)
<1> HIDE DEF D, R
<1>1. ASSUME NEW first, NEW second, D = R ++ first ++ second
      PROVE  \A member \in DOMAIN R : D[member] = R[member]
  <2>1. SUFFICES ASSUME NEW member \in DOMAIN R
                 PROVE  D[member] = R[member]
    OBVIOUS
  <2>2. member \in DOMAIN (R ++ first) /\ (R ++ first)[member] = R[member]
    BY JoinDomain, JoinLeft
  <2>3. QED  BY <1>1, <2>2, JoinLeft
<1>2. \A member \in DOMAIN R : D[member] = R[member]
  <2>1. CASE intent.adapter.adapterId = "github-pages"
    <3>1. D = R ++ [pagesActionsArtifactName |-> PagesActionsArtifactName(runner)]
                ++ Restrict(intent, {"pagesBuildVersion"} \cap DOMAIN intent)
      BY <2>1, PagesDecision DEF D, R
    <3>2. QED  BY <3>1, <1>1
  <2>2. CASE intent.adapter.adapterId = "do-spaces"
    <3>1. D = R ++ RecomputeSpacesClosedRecords(intent)
                ++ Restrict(intent, {"spacesStagePrefix"} \cap DOMAIN intent)
      BY <2>2 DEF IssuancePhaseDecision, RecordOf, D, R
    <3>2. QED  BY <3>1, <1>1
  <2>3. CASE intent.adapter.adapterId \notin {"github-pages", "do-spaces"}
    <3>1. D = R
      BY <2>3 DEF IssuancePhaseDecision, RecordOf, D, R
    <3>2. QED  BY <3>1
  <2>4. QED  BY <2>1, <2>2, <2>3
<1>3. QED  BY <1>2, RecordMembers DEF D, R

LEMMA PagesDecisionNames ==
    ASSUME NEW intent, NEW runner, intent.adapter.adapterId = "github-pages",
           Has(intent, "pagesBuildVersion")
    PROVE  IssuancePhaseDecision(intent, runner)["pagesBuildVersion"]
              = intent["pagesBuildVersion"]
<1> DEFINE R == RecordOf(intent)
           N == [pagesActionsArtifactName |-> PagesActionsArtifactName(runner)]
           P == Restrict(intent, {"pagesBuildVersion"} \cap DOMAIN intent)
<1>1. IssuancePhaseDecision(intent, runner) = R ++ N ++ P
  BY PagesDecision
<1>2. "pagesBuildVersion" \notin DOMAIN R
  BY RecordMembers DEF DecidedMembers
<1>3. "pagesBuildVersion" \notin DOMAIN N
  OBVIOUS
<1>4. "pagesBuildVersion" \in DOMAIN P /\ P["pagesBuildVersion"] = intent["pagesBuildVersion"]
  BY DEF Restrict, Has
<1> HIDE DEF R, N, P
<1>5. "pagesBuildVersion" \notin DOMAIN (R ++ N)
  BY <1>2, <1>3, JoinDomain
<1>6. QED  BY <1>1, <1>4, <1>5, JoinRight

LEMMA DecisionDigests ==
    ASSUME NEW record1, NEW record2,
           CapabilityDecisionDigestOf(record1) = CapabilityDecisionDigestOf(record2)
    PROVE  record1 = record2
<1>1. CapabilityDecisionDigestOf(record1).capabilityDecision
         = CapabilityDecisionDigestOf(record2).capabilityDecision
  OBVIOUS
<1>2. QED  BY <1>1 DEF CapabilityDecisionDigestOf

(* It is taken over the run by its id and its attempt alone.               *)
LEMMA DecisionOfTheRun ==
    ASSUME NEW intent, NEW run1, NEW run2,
           run1.runId = run2.runId, run1.runAttempt = run2.runAttempt
    PROVE  IssuancePhaseDecision(intent, run1) = IssuancePhaseDecision(intent, run2)
BY DEF IssuancePhaseDecision, PagesActionsArtifactName

-----------------------------------------------------------------------------
(* An intent that is whole: it has its members, and those that repeat one  *)
(* another agree.                                                          *)

FixedMembers ==
    {"operationId", "attemptId", "proposedGenerationId", "marker", "audience",
     "capability", "idempotencyKey", "intentDigest", "expiresAt", "operationDeadline",
     "subject", "workloadBindingDigest", "destination", "destinationMutationAuthority",
     "artifactId", "artifactDigest", "manifestDigest", "provenanceDigest", "sbomDigest",
     "artifactFileCount", "artifactByteCount", "sourceCommit", "lockDigest",
     "rebuildRecord", "adapter", "capabilityDecisionDigest"}

ConditionalMembers == {"expectedGenerationId", "pagesBuildVersion", "spacesStagePrefix"}

FenceIn(intent) ==
    IF Has(intent, "expectedGenerationId")
    THEN [expectedGenerationId |-> intent.expectedGenerationId] ELSE NoMembers

AuthorityOf(intent) ==
    [operationId |-> intent.operationId, attemptId |-> intent.attemptId,
     proposedGenerationId |-> intent.proposedGenerationId,
     profile |-> AuthorityProfile, destination |-> intent.destination]
    ++ FenceIn(intent)

MarkerOf(intent) ==
    [schemaId |-> MarkerSchemaId, artifactId |-> intent.artifactId,
     artifactDigest |-> intent.artifactDigest,
     generationId |-> intent.proposedGenerationId]

DecisionIsOf(intent, runner) ==
    intent.capabilityDecisionDigest
        = CapabilityDecisionDigestOf(IssuancePhaseDecision(intent, runner))

Whole(intent) ==
    /\ FixedMembers \subseteq DOMAIN intent
    /\ DOMAIN intent \subseteq FixedMembers \cup ConditionalMembers
    /\ Has(intent, "spacesStagePrefix") => intent.adapter.adapterId = "do-spaces"
    /\ intent.audience = KernelAudience
    /\ intent.capability = "deploy"
    /\ intent.marker = MarkerOf(intent)
    /\ intent.destinationMutationAuthority = AuthorityOf(intent)
    /\ DecisionIsOf(intent, intent.subject)

(* What the deploy job compares of an answer with itself and with its run. *)
Passes(answer, own) ==
    /\ answer.audience = KernelAudience
    /\ answer.capability = "deploy"
    /\ answer.adapter.adapterId = "github-pages"
    /\ answer.operationId = own.operationId
    /\ answer.subject = own.subject
    /\ answer.marker.schemaId = MarkerSchemaId
    /\ answer.marker.artifactId = answer.artifactId
    /\ answer.marker.artifactDigest = answer.artifactDigest
    /\ answer.marker.generationId = answer.proposedGenerationId
    /\ AuthorityAgrees(answer)
    /\ DecisionIsOf(answer, own.subject)
    /\ answer.provenanceDigest = own.provenanceDigest
    /\ answer.sbomDigest = own.sbomDigest

LEMMA AuthorityMembers ==
    ASSUME NEW intent
    PROVE  /\ AuthorityOf(intent).operationId = intent.operationId
           /\ AuthorityOf(intent).attemptId = intent.attemptId
           /\ AuthorityOf(intent).proposedGenerationId = intent.proposedGenerationId
           /\ AuthorityOf(intent).profile = AuthorityProfile
           /\ AuthorityOf(intent).destination = intent.destination
           /\ Has(AuthorityOf(intent), "expectedGenerationId")
                 <=> Has(intent, "expectedGenerationId")
           /\ Has(intent, "expectedGenerationId") =>
                 AuthorityOf(intent).expectedGenerationId = intent.expectedGenerationId
BY DEF AuthorityOf, FenceIn, NoMembers, Has, ++

(* An intent with one member of another's.                                 *)
IsSwap(answer, own, other, member) ==
    /\ member \in DOMAIN own \cap DOMAIN other
    /\ answer = [own EXCEPT ![member] = other[member]]

(* An intent without a fence is of another attempt than one with a fence.  *)
ApartByFence(own, other) ==
    Has(own, "expectedGenerationId") /\ ~Has(other, "expectedGenerationId")
       => other.attemptId # own.attemptId

(* One member of another whole intent does not pass in place of the own    *)
(* one: it is the own one, or no member that deploy compares.              *)
LEMMA SwappedMember ==
    ASSUME NEW own, NEW other, Whole(own), Whole(other),
           NEW member, NEW answer, IsSwap(answer, own, other, member),
           Passes(answer, own), ApartByFence(own, other)
    PROVE  \A m \in DOMAIN own \ Unbound : answer[m] = own[m]
<1>1. /\ member \in DOMAIN own
      /\ DOMAIN answer = DOMAIN own
      /\ answer[member] = other[member]
      /\ \A m \in DOMAIN own \ {member} : answer[m] = own[m]
  BY DEF IsSwap
<1>2. SUFFICES ASSUME member \notin Unbound
               PROVE  answer[member] = own[member]
  BY <1>1
<1>3. member \in (FixedMembers \cup ConditionalMembers) \ Unbound
  BY <1>1, <1>2 DEF Whole
<1>4. FixedMembers \subseteq DOMAIN own
  BY DEF Whole
<1>5. CASE member \in DecidedMembers \cup {"pagesBuildVersion", "spacesStagePrefix"}
  <2>1. /\ answer.capabilityDecisionDigest = own.capabilityDecisionDigest
        /\ answer.subject = own.subject
    BY <1>1, <1>4, <1>5 DEF FixedMembers, DecidedMembers
  <2>2. IssuancePhaseDecision(answer, own.subject) = IssuancePhaseDecision(own, own.subject)
    <3>1. DecisionIsOf(answer, own.subject) /\ DecisionIsOf(own, own.subject)
      BY DEF Passes, Whole
    <3>2. QED  BY <2>1, <3>1, DecisionDigests DEF DecisionIsOf
  <2>3. \A m \in DecidedMembers : answer[m] = own[m]
    <3>1. \A m \in DecidedMembers :
             IssuancePhaseDecision(answer, own.subject)[m] = answer[m]
      BY DecisionNames
    <3>2. \A m \in DecidedMembers : IssuancePhaseDecision(own, own.subject)[m] = own[m]
      BY DecisionNames
    <3>3. QED  BY <2>2, <3>1, <3>2
  <2>4. own.adapter.adapterId = "github-pages"
    <3>1. answer["adapter"] = own["adapter"]
      BY <2>3 DEF DecidedMembers
    <3>2. QED  BY <3>1 DEF Passes
  <2>5. CASE member = "pagesBuildVersion"
    <3>1. Has(answer, "pagesBuildVersion") /\ Has(own, "pagesBuildVersion")
      BY <1>1, <2>5 DEF Has
    <3>2. answer.adapter.adapterId = "github-pages"
      BY DEF Passes
    <3>3. IssuancePhaseDecision(answer, own.subject)["pagesBuildVersion"]
             = answer["pagesBuildVersion"]
      BY <3>1, <3>2, PagesDecisionNames
    <3>4. IssuancePhaseDecision(own, own.subject)["pagesBuildVersion"]
             = own["pagesBuildVersion"]
      BY <3>1, <2>4, PagesDecisionNames
    <3>5. QED  BY <2>2, <2>5, <3>3, <3>4
  <2>6. CASE member = "spacesStagePrefix"
    BY <1>1, <2>4, <2>6 DEF Whole, Has
  <2>7. QED  BY <1>5, <2>3, <2>5, <2>6
<1>6. CASE member = "marker"
  <2>1. /\ answer.artifactId = own.artifactId
        /\ answer.artifactDigest = own.artifactDigest
        /\ answer.proposedGenerationId = own.proposedGenerationId
    BY <1>1, <1>4, <1>6 DEF FixedMembers
  <2>2. answer.marker = MarkerOf(other)
    BY <1>1, <1>6 DEF Whole
  <2>3. MarkerOf(other) = MarkerOf(own)
    BY <2>1, <2>2 DEF Passes, MarkerOf
  <2>4. QED  BY <1>6, <2>2, <2>3 DEF Whole
<1>7. CASE member \in {"attemptId", "proposedGenerationId", "expectedGenerationId"}
  <2>1. answer.destinationMutationAuthority = AuthorityOf(own)
    BY <1>1, <1>4, <1>7 DEF FixedMembers, Whole
  <2>2. QED
    BY <1>1, <1>7, <2>1, AuthorityMembers DEF Passes, AuthorityAgrees, Has
<1>8. CASE member = "destinationMutationAuthority"
  <2>1. answer.destinationMutationAuthority = AuthorityOf(other)
    BY <1>1, <1>8 DEF Whole
  <2>2. /\ answer.operationId = own.operationId
        /\ answer.attemptId = own.attemptId
        /\ answer.proposedGenerationId = own.proposedGenerationId
        /\ answer.destination = own.destination
        /\ Has(answer, "expectedGenerationId") <=> Has(own, "expectedGenerationId")
        /\ Has(own, "expectedGenerationId") =>
              answer.expectedGenerationId = own.expectedGenerationId
    BY <1>1, <1>4, <1>8 DEF FixedMembers, Has
  <2>3. /\ other.operationId = own.operationId
        /\ other.attemptId = own.attemptId
        /\ other.proposedGenerationId = own.proposedGenerationId
        /\ other.destination = own.destination
    BY <2>1, <2>2, AuthorityMembers DEF Passes, AuthorityAgrees
  <2>4. FenceIn(other) = FenceIn(own)
    BY <2>1, <2>2, <2>3, AuthorityMembers DEF Passes, AuthorityAgrees, FenceIn, ApartByFence
  <2>5. AuthorityOf(other) = AuthorityOf(own)
    BY <2>3, <2>4 DEF AuthorityOf
  <2>6. QED  BY <1>8, <2>1, <2>5 DEF Whole
<1>9. CASE member = "capabilityDecisionDigest"
  <2>1. \A m \in DOMAIN own \ {"capabilityDecisionDigest"} : answer[m] = own[m]
    BY <1>1, <1>9
  <2>2. \A m \in DecidedMembers \cup {"marker", "subject"} : answer[m] = own[m]
    BY <2>1, <1>4 DEF DecidedMembers, FixedMembers
  <2>3. /\ Has(answer, "pagesBuildVersion") <=> Has(own, "pagesBuildVersion")
        /\ Has(own, "pagesBuildVersion") =>
              answer["pagesBuildVersion"] = own["pagesBuildVersion"]
    BY <2>1, <1>1 DEF Has
  <2>4. IssuancePhaseDecision(answer, own.subject) = IssuancePhaseDecision(own, own.subject)
    <3>1. RecordOf(answer) = RecordOf(own)
      BY <2>2 DEF RecordOf, DecidedMembers
    <3>2. Restrict(answer, {"pagesBuildVersion"} \cap DOMAIN answer)
             = Restrict(own, {"pagesBuildVersion"} \cap DOMAIN own)
      BY <2>3 DEF Restrict, Has
    <3>3. answer.adapter.adapterId = "github-pages"
      BY DEF Passes
    <3>4. own.adapter.adapterId = "github-pages"
      BY <2>2, <3>3 DEF DecidedMembers
    <3>5. QED  BY <3>1, <3>2, <3>3, <3>4, PagesDecision
  <2>5. answer.capabilityDecisionDigest = own.capabilityDecisionDigest
    BY <2>4 DEF Passes, Whole, DecisionIsOf
  <2>6. QED  BY <2>5, <1>9
<1>10. CASE member \in {"operationId", "subject", "audience", "capability",
                        "provenanceDigest", "sbomDigest"}
  BY <1>10 DEF Passes, Whole
<1>11. QED
  BY <1>3, <1>5, <1>6, <1>7, <1>8, <1>9, <1>10
     DEF FixedMembers, ConditionalMembers, DecidedMembers, Unbound

-----------------------------------------------------------------------------
(* What the candidate jobs leave.                                          *)

LEMMA InputMembers ==
    ASSUME NEW tools, NEW runner, NEW inputs, NEW output, NEW envelope, NEW handoff,
           NEW input,
           input = DeriveAuthorizationInput(tools, runner, inputs, output, envelope,
                                            handoff)
    PROVE  /\ input.operationId = runner.ref.operationId
           /\ input.repositoryId = runner.repositoryId
           /\ input.runId = runner.runId
           /\ input.runAttempt = runner.runAttempt
           /\ input.provenanceDigest = DecodeFrozenEnvelope(envelope).provenanceDigest
           /\ input.sbomDigest = DecodeFrozenEnvelope(envelope).sbomDigest
           /\ {"operationId", "repositoryId", "runId", "runAttempt", "artifactDigest",
               "manifestDigest", "provenanceDigest", "sbomDigest", "artifactFileCount",
               "artifactByteCount", "sourceCommit", "workflowTriggerCommit", "lockDigest",
               "rebuildRecord", "adapter", "destination"} \subseteq DOMAIN input
           /\ {"artifactId", "purpose", "pagesBuildVersion", "spacesStagePrefix",
               "expectedGenerationId"} \cap DOMAIN input = {}
BY DEF DeriveAuthorizationInput, DeriveArtifactFacts, ++

LEMMA DerivedIdsMembers ==
    ASSUME NEW input
    PROVE  /\ {"artifactId", "attemptId", "proposedGenerationId"}
                 \subseteq DOMAIN DerivedIds(input)
           /\ DerivedIds(input).attemptId
                 = DeriveStableId("gala-attempt-id-v2", RequestBinding(input))
           /\ Has(DerivedIds(input), "spacesStagePrefix")
                 => input.adapter.adapterId = "do-spaces"
BY DEF DerivedIds, Has, ++

LEMMA StableIdNames ==
    ASSUME NEW input, NEW domain
    PROVE  /\ DeriveStableId(domain, RequestBinding(input)).repositoryId = input.repositoryId
           /\ DeriveStableId(domain, RequestBinding(input)).runId = input.runId
BY DEF DeriveStableId, RequestBinding, Restrict, ++

OfTheRun == {"operationId", "repositoryId", "runId", "runAttempt"}

LEMMA RequestMembers ==
    ASSUME NEW input, NEW request, request = BuildDeploymentIntentRequest(input),
           "spacesStagePrefix" \notin DOMAIN input
    PROVE  /\ \A m \in DOMAIN input \ OfTheRun : m \in DOMAIN request /\ request[m] = input[m]
           /\ "artifactId" \in DOMAIN request
           /\ Has(request, "spacesStagePrefix") => input.adapter.adapterId = "do-spaces"
<1> DEFINE A == Without(input, OfTheRun)
           B == [purpose |-> "deployment-intent", artifactId |-> DerivedIds(input).artifactId]
           C == Restrict(DerivedIds(input),
                   {"pagesBuildVersion", "spacesStagePrefix"} \cap DOMAIN DerivedIds(input))
<1>1. request = A ++ B ++ C
  BY DEF BuildDeploymentIntentRequest, OfTheRun
<1>2. DOMAIN A = DOMAIN input \ OfTheRun /\ \A m \in DOMAIN A : A[m] = input[m]
  BY DEF Without, Restrict
<1>3. DOMAIN B = {"purpose", "artifactId"}
  OBVIOUS
<1>4. DOMAIN C \subseteq DOMAIN DerivedIds(input)
  BY DEF Restrict
<1> HIDE DEF A, B, C
<1>5. /\ DOMAIN request = DOMAIN A \cup DOMAIN B \cup DOMAIN C
      /\ \A m \in DOMAIN A : request[m] = A[m]
  BY <1>1 DEF ++
<1>6. "spacesStagePrefix" \in DOMAIN request
         => "spacesStagePrefix" \in DOMAIN DerivedIds(input)
  BY <1>2, <1>3, <1>4, <1>5
<1>7. QED  BY <1>2, <1>3, <1>5, <1>6, DerivedIdsMembers DEF Has

(* The retained members that every request has.                            *)
AlwaysRetained == RetainedMembers \ {"pagesBuildVersion", "spacesStagePrefix"}

Requestable(of) ==
    /\ AlwaysRetained \subseteq DOMAIN of.request
    /\ Has(of.request, "spacesStagePrefix") => of.request.adapter.adapterId = "do-spaces"

LEMMA CandidateIsRequestable ==
    ASSUME NEW tools, NEW runner, NEW checkout, NEW of,
           of = CandidateOf(tools, runner, checkout)
    PROVE  /\ Requestable(of)
           /\ of.input.operationId = runner.ref.operationId
           /\ of.input.repositoryId = runner.repositoryId
           /\ of.input.runId = runner.runId
           /\ of.input.runAttempt = runner.runAttempt
           /\ of.request.provenanceDigest = DecodeFrozenEnvelope(of.envelope).provenanceDigest
           /\ of.request.sbomDigest = DecodeFrozenEnvelope(of.envelope).sbomDigest
           /\ DerivedIds(of.input).attemptId.repositoryId = runner.repositoryId
           /\ DerivedIds(of.input).attemptId.runId = runner.runId
<1>1. PICK inputs, output, handoff :
         of.input = DeriveAuthorizationInput(tools, runner, inputs, output, of.envelope,
                                             handoff)
  BY DEF CandidateOf
<1>2. of.request = BuildDeploymentIntentRequest(of.input)
  BY DEF CandidateOf
<1> DEFINE input == of.input
<1>3. /\ input.operationId = runner.ref.operationId
      /\ input.repositoryId = runner.repositoryId
      /\ input.runId = runner.runId
      /\ input.runAttempt = runner.runAttempt
      /\ input.provenanceDigest = DecodeFrozenEnvelope(of.envelope).provenanceDigest
      /\ input.sbomDigest = DecodeFrozenEnvelope(of.envelope).sbomDigest
  BY <1>1, InputMembers
<1>4. /\ AlwaysRetained \subseteq DOMAIN input \cup {"artifactId"}
      /\ "spacesStagePrefix" \notin DOMAIN input
      /\ {"adapter", "provenanceDigest", "sbomDigest"} \subseteq DOMAIN input
  <2>1. {"operationId", "repositoryId", "runId", "runAttempt", "artifactDigest",
         "manifestDigest", "provenanceDigest", "sbomDigest", "artifactFileCount",
         "artifactByteCount", "sourceCommit", "workflowTriggerCommit", "lockDigest",
         "rebuildRecord", "adapter", "destination"} \subseteq DOMAIN input
    BY <1>1, InputMembers
  <2>2. {"artifactId", "purpose", "pagesBuildVersion", "spacesStagePrefix",
         "expectedGenerationId"} \cap DOMAIN input = {}
    BY <1>1, InputMembers
  <2> HIDE DEF input
  <2>3. QED  BY <2>1, <2>2 DEF AlwaysRetained, RetainedMembers
<1> HIDE DEF input
<1>5. /\ \A m \in DOMAIN input \ OfTheRun : m \in DOMAIN of.request /\ of.request[m] = input[m]
      /\ "artifactId" \in DOMAIN of.request
      /\ Has(of.request, "spacesStagePrefix") => input.adapter.adapterId = "do-spaces"
  BY <1>2, <1>4, RequestMembers DEF input
<1>6. \A m \in {"adapter", "provenanceDigest", "sbomDigest"} : of.request[m] = input[m]
  BY <1>4, <1>5 DEF OfTheRun
<1>7. AlwaysRetained \subseteq DOMAIN of.request
  BY <1>4, <1>5 DEF OfTheRun, AlwaysRetained, RetainedMembers
<1>8. Has(of.request, "spacesStagePrefix") => of.request.adapter.adapterId = "do-spaces"
  BY <1>5, <1>6
<1>9. /\ DerivedIds(input).attemptId.repositoryId = input.repositoryId
      /\ DerivedIds(input).attemptId.runId = input.runId
  BY DerivedIdsMembers, StableIdNames
<1>10. QED  BY <1>3, <1>6, <1>7, <1>8, <1>9 DEF Requestable, input

-----------------------------------------------------------------------------
(* The intent the API retains is whole.                                    *)

NamedMembers == {"operationId", "attemptId", "proposedGenerationId"}
GivenMembers ==
    {"marker", "audience", "capability", "idempotencyKey", "intentDigest", "expiresAt",
     "operationDeadline", "subject", "workloadBindingDigest", "destination",
     "destinationMutationAuthority"}
FenceMembers(expected) == IF expected = None THEN {} ELSE {"expectedGenerationId"}

GivenTo(of, ids, expected, at) ==
    [marker |-> [schemaId |-> MarkerSchemaId,
                 artifactId |-> of.request.artifactId,
                 artifactDigest |-> of.request.artifactDigest,
                 generationId |-> ids.proposedGenerationId],
     audience |-> KernelAudience,
     capability |-> "deploy",
     idempotencyKey |-> NamedBy(of, ids),
     intentDigest |-> [intentOf |-> NamedBy(of, ids)],
     expiresAt |-> at + Lifetime,
     operationDeadline |-> at + Lifetime,
     subject |-> [repositoryId |-> of.input.repositoryId,
                  runId |-> of.input.runId,
                  runAttempt |-> of.input.runAttempt],
     workloadBindingDigest |-> [workload |-> of.input.runId],
     destination |-> CompleteDestination(of.request),
     destinationMutationAuthority |->
        NamedBy(of, ids) ++ [profile |-> AuthorityProfile,
                             destination |-> CompleteDestination(of.request)]
                         ++ Fence(expected)]

LEMMA UndecidedMembers ==
    ASSUME NEW of, NEW ids, NEW expected, NEW at
    PROVE  LET intent == UndecidedIntentFor(of, ids, expected, at)
           IN  /\ expected # None => intent.expectedGenerationId = expected
               /\ \A m \in NamedMembers : intent[m] = NamedBy(of, ids)[m]
               /\ \A m \in GivenMembers : intent[m] = GivenTo(of, ids, expected, at)[m]
               /\ \A m \in RetainedMembers \cap DOMAIN of.request :
                     intent[m] = of.request[m]
               /\ \A m : m \in DOMAIN intent <=>
                     m \in FenceMembers(expected) \cup NamedMembers \cup GivenMembers
                              \cup (RetainedMembers \cap DOMAIN of.request)
<1> DEFINE intent == UndecidedIntentFor(of, ids, expected, at)
           A == Fence(expected)
           B == NamedBy(of, ids)
           C == GivenTo(of, ids, expected, at)
           D == Restrict(of.request, RetainedMembers \cap DOMAIN of.request)
<1>1. intent = A ++ B ++ C ++ D
  BY DEF UndecidedIntentFor, GivenTo
<1>2. /\ DOMAIN A = FenceMembers(expected)
      /\ expected # None => A["expectedGenerationId"] = expected
  BY DEF Fence, FenceMembers, NoMembers
<1>3. DOMAIN B = NamedMembers
  BY DEF NamedBy, NamedMembers
<1>4. DOMAIN C = GivenMembers
  BY DEF GivenTo, GivenMembers
<1>5. /\ DOMAIN D = RetainedMembers \cap DOMAIN of.request
      /\ \A m \in DOMAIN D : D[m] = of.request[m]
  BY DEF Restrict
<1> HIDE DEF A, B, C, D, intent
<1>6. /\ DOMAIN intent = DOMAIN A \cup DOMAIN B \cup DOMAIN C \cup DOMAIN D
      /\ \A m \in DOMAIN A : intent[m] = A[m]
      /\ \A m \in DOMAIN B \ DOMAIN A : intent[m] = B[m]
      /\ \A m \in DOMAIN C \ (DOMAIN A \cup DOMAIN B) : intent[m] = C[m]
      /\ \A m \in DOMAIN D \ (DOMAIN A \cup DOMAIN B \cup DOMAIN C) : intent[m] = D[m]
  BY <1>1 DEF ++
<1>7. FenceMembers(expected) \subseteq {"expectedGenerationId"}
  BY DEF FenceMembers
<1>8. /\ NamedMembers \cap {"expectedGenerationId"} = {}
      /\ GivenMembers \cap ({"expectedGenerationId"} \cup NamedMembers) = {}
      /\ RetainedMembers \cap ({"expectedGenerationId"} \cup NamedMembers \cup GivenMembers) = {}
  BY DEF NamedMembers, GivenMembers, RetainedMembers
<1>9. expected # None => intent["expectedGenerationId"] = expected
  BY <1>2, <1>6 DEF FenceMembers
<1>10. /\ \A m \in NamedMembers : intent[m] = B[m]
       /\ \A m \in GivenMembers : intent[m] = C[m]
       /\ \A m \in RetainedMembers \cap DOMAIN of.request : intent[m] = of.request[m]
  BY <1>2, <1>3, <1>4, <1>5, <1>6, <1>7, <1>8
<1>11. DOMAIN intent = FenceMembers(expected) \cup NamedMembers \cup GivenMembers
                          \cup (RetainedMembers \cap DOMAIN of.request)
  BY <1>2, <1>3, <1>4, <1>5, <1>6
<1>12. QED  BY <1>9, <1>10, <1>11 DEF B, C, intent

(* The members a decision reads.                                           *)
ReadAlike(intent1, intent2) ==
    /\ \A m \in {"subject", "destination", "marker", "artifactId", "artifactDigest",
                 "manifestDigest", "artifactFileCount", "artifactByteCount",
                 "rebuildRecord", "adapter"} : intent1[m] = intent2[m]
    /\ \A m \in {"pagesBuildVersion", "spacesStagePrefix"} :
          Restrict(intent1, {m} \cap DOMAIN intent1)
             = Restrict(intent2, {m} \cap DOMAIN intent2)

LEMMA DecisionReads ==
    ASSUME NEW intent1, NEW intent2, ReadAlike(intent1, intent2)
    PROVE  IssuancePhaseDecision(intent1, intent1.subject)
              = IssuancePhaseDecision(intent2, intent2.subject)
<1>1. /\ RecordOf(intent1) = RecordOf(intent2)
      /\ RecomputeSpacesClosedRecords(intent1) = RecomputeSpacesClosedRecords(intent2)
  BY DEF RecordOf, RecomputeSpacesClosedRecords, ReadAlike
<1>2. intent1.subject = intent2.subject /\ intent1.adapter = intent2.adapter
  BY DEF ReadAlike
<1>3. \A m \in {"pagesBuildVersion", "spacesStagePrefix"} :
         Restrict(intent1, {m} \cap DOMAIN intent1)
            = Restrict(intent2, {m} \cap DOMAIN intent2)
  BY DEF ReadAlike
<1>4. CASE intent1.adapter.adapterId = "github-pages"
  BY <1>1, <1>2, <1>3, <1>4, PagesDecision
<1>5. CASE intent1.adapter.adapterId = "do-spaces"
  <2>1. ASSUME NEW i, NEW r, i.adapter.adapterId = "do-spaces"
        PROVE  IssuancePhaseDecision(i, r)
                  = RecordOf(i) ++ RecomputeSpacesClosedRecords(i)
                    ++ Restrict(i, {"spacesStagePrefix"} \cap DOMAIN i)
    BY <2>1 DEF IssuancePhaseDecision, RecordOf
  <2>2. QED  BY <2>1, <1>1, <1>2, <1>3, <1>5
<1>6. CASE intent1.adapter.adapterId \notin {"github-pages", "do-spaces"}
  <2>1. ASSUME NEW i, NEW r, i.adapter.adapterId \notin {"github-pages", "do-spaces"}
        PROVE  IssuancePhaseDecision(i, r) = RecordOf(i)
    BY <2>1 DEF IssuancePhaseDecision, RecordOf
  <2>2. QED  BY <2>1, <1>1, <1>2, <1>6
<1>7. QED  BY <1>4, <1>5, <1>6

(* The digest of its decision joins it; the decision reads nothing of that. *)
LEMMA DecidedIntent ==
    ASSUME NEW of, NEW ids, NEW expected, NEW at, Requestable(of)
    PROVE  LET intent == IntentFor(of, ids, expected, at)
               undecided == UndecidedIntentFor(of, ids, expected, at)
           IN  /\ DOMAIN intent = DOMAIN undecided \cup {"capabilityDecisionDigest"}
               /\ \A m \in DOMAIN undecided : intent[m] = undecided[m]
               /\ DecisionIsOf(intent, intent.subject)
<1> DEFINE intent == IntentFor(of, ids, expected, at)
           undecided == UndecidedIntentFor(of, ids, expected, at)
           digest == CapabilityDecisionDigestOf(
                        IssuancePhaseDecision(undecided, undecided.subject))
<1>1. intent = undecided ++ [capabilityDecisionDigest |-> digest]
  BY DEF IntentFor
<1>2. /\ "capabilityDecisionDigest" \notin DOMAIN undecided
      /\ {"subject", "destination", "marker"} \subseteq DOMAIN undecided
      /\ AlwaysRetained \subseteq DOMAIN undecided
  <2>1. \A m : m \in DOMAIN undecided <=>
                  m \in FenceMembers(expected) \cup NamedMembers \cup GivenMembers
                           \cup (RetainedMembers \cap DOMAIN of.request)
    BY UndecidedMembers
  <2>2. "capabilityDecisionDigest" \notin FenceMembers(expected)
    BY DEF FenceMembers
  <2>3. "capabilityDecisionDigest" \notin NamedMembers \cup GivenMembers \cup RetainedMembers
    BY DEF NamedMembers, GivenMembers, RetainedMembers
  <2>4. {"subject", "destination", "marker"} \subseteq GivenMembers
    BY DEF GivenMembers
  <2>5. AlwaysRetained \subseteq RetainedMembers \cap DOMAIN of.request
    BY DEF AlwaysRetained, Requestable
  <2> HIDE DEF undecided
  <2>6. QED  BY <2>1, <2>2, <2>3, <2>4, <2>5
<1> HIDE DEF intent, undecided, digest
<1>3. /\ DOMAIN intent = DOMAIN undecided \cup {"capabilityDecisionDigest"}
      /\ \A m \in DOMAIN undecided : intent[m] = undecided[m]
      /\ intent["capabilityDecisionDigest"] = digest
  BY <1>1, <1>2 DEF ++
<1>4. ReadAlike(intent, undecided)
  BY <1>2, <1>3 DEF ReadAlike, AlwaysRetained, RetainedMembers, Restrict
<1>5. QED  BY <1>3, <1>4, DecisionReads DEF DecisionIsOf, digest, intent, undecided

LEMMA IntentIsWhole ==
    ASSUME NEW of, NEW ids, NEW expected, NEW at, Requestable(of)
    PROVE  LET intent == IntentFor(of, ids, expected, at)
           IN  /\ Whole(intent)
               /\ intent.operationId = of.input.operationId
               /\ intent.attemptId = ids.attemptId
               /\ intent.subject = [repositoryId |-> of.input.repositoryId,
                                    runId |-> of.input.runId,
                                    runAttempt |-> of.input.runAttempt]
               /\ intent.expiresAt = at + Lifetime
               /\ intent.provenanceDigest = of.request.provenanceDigest
               /\ intent.sbomDigest = of.request.sbomDigest
               /\ Has(intent, "expectedGenerationId") <=> expected # None
               /\ expected # None => intent.expectedGenerationId = expected
<1> DEFINE intent == IntentFor(of, ids, expected, at)
           undecided == UndecidedIntentFor(of, ids, expected, at)
           given == GivenTo(of, ids, expected, at)
<1>1. /\ DOMAIN intent = DOMAIN undecided \cup {"capabilityDecisionDigest"}
      /\ \A m \in DOMAIN undecided : intent[m] = undecided[m]
      /\ DecisionIsOf(intent, intent.subject)
  BY DecidedIntent
<1>2. /\ expected # None => undecided.expectedGenerationId = expected
      /\ \A m \in NamedMembers : undecided[m] = NamedBy(of, ids)[m]
      /\ \A m \in GivenMembers : undecided[m] = given[m]
      /\ \A m \in RetainedMembers \cap DOMAIN of.request : undecided[m] = of.request[m]
      /\ \A m : m \in DOMAIN undecided <=>
            m \in FenceMembers(expected) \cup NamedMembers \cup GivenMembers
                     \cup (RetainedMembers \cap DOMAIN of.request)
  BY UndecidedMembers
<1> HIDE DEF intent, undecided, given
<1>3. /\ \A m \in NamedMembers : m \in DOMAIN intent /\ intent[m] = NamedBy(of, ids)[m]
      /\ \A m \in GivenMembers : m \in DOMAIN intent /\ intent[m] = given[m]
      /\ \A m \in AlwaysRetained : m \in DOMAIN intent /\ intent[m] = of.request[m]
      /\ \A m \in ConditionalMembers \ {"expectedGenerationId"} :
            m \in DOMAIN intent <=> m \in DOMAIN of.request
      /\ Has(intent, "expectedGenerationId") <=> expected # None
      /\ expected # None => intent.expectedGenerationId = expected
      /\ DOMAIN intent \subseteq FixedMembers \cup ConditionalMembers
  <2>1. AlwaysRetained \subseteq RetainedMembers \cap DOMAIN of.request
    BY DEF AlwaysRetained, Requestable
  <2>2. \A m \in NamedMembers \cup GivenMembers \cup AlwaysRetained :
           m \in DOMAIN intent /\ intent[m] = undecided[m]
    BY <1>1, <1>2, <2>1
  <2>3. "expectedGenerationId" \in FenceMembers(expected) <=> expected # None
    BY DEF FenceMembers
  <2>4. "expectedGenerationId" \notin NamedMembers \cup GivenMembers \cup RetainedMembers
                                        \cup {"capabilityDecisionDigest"}
    BY DEF NamedMembers, GivenMembers, RetainedMembers
  <2>5. \A m \in ConditionalMembers \ {"expectedGenerationId"} :
           /\ m \in RetainedMembers
           /\ m \notin FenceMembers(expected) \cup NamedMembers \cup GivenMembers
                          \cup {"capabilityDecisionDigest"}
    BY DEF ConditionalMembers, NamedMembers, GivenMembers, RetainedMembers, FenceMembers
  <2>6. FenceMembers(expected) \cup NamedMembers \cup GivenMembers \cup RetainedMembers
           \cup {"capabilityDecisionDigest"} \subseteq FixedMembers \cup ConditionalMembers
    BY DEF FenceMembers, NamedMembers, GivenMembers, RetainedMembers, FixedMembers,
           ConditionalMembers
  <2>7. Has(intent, "expectedGenerationId") <=> expected # None
    BY <1>1, <1>2, <2>3, <2>4 DEF Has
  <2>8. expected # None => intent.expectedGenerationId = expected
    BY <1>1, <1>2, <2>3
  <2>9. \A m \in ConditionalMembers \ {"expectedGenerationId"} :
            m \in DOMAIN intent <=> m \in DOMAIN of.request
    BY <1>1, <1>2, <2>5
  <2>10. DOMAIN intent \subseteq FixedMembers \cup ConditionalMembers
    BY <1>1, <1>2, <2>6
  <2>11. QED  BY <1>2, <2>1, <2>2, <2>7, <2>8, <2>9, <2>10
<1>4. /\ intent.operationId = of.input.operationId
      /\ intent.attemptId = ids.attemptId
      /\ intent.proposedGenerationId = ids.proposedGenerationId
  BY <1>3 DEF NamedBy, NamedMembers
<1>5. \A m \in {"artifactId", "artifactDigest", "adapter", "provenanceDigest", "sbomDigest"} :
         intent[m] = of.request[m]
  BY <1>3 DEF AlwaysRetained, RetainedMembers
<1>6. /\ intent.audience = KernelAudience
      /\ intent.capability = "deploy"
      /\ intent.expiresAt = at + Lifetime
      /\ intent.destination = CompleteDestination(of.request)
      /\ intent.subject = [repositoryId |-> of.input.repositoryId,
                           runId |-> of.input.runId,
                           runAttempt |-> of.input.runAttempt]
  BY <1>3 DEF GivenTo, GivenMembers, given
<1>7. intent.marker = MarkerOf(intent)
  <2>1. intent.marker = [schemaId |-> MarkerSchemaId,
                         artifactId |-> of.request.artifactId,
                         artifactDigest |-> of.request.artifactDigest,
                         generationId |-> ids.proposedGenerationId]
    BY <1>3 DEF GivenTo, GivenMembers, given
  <2>2. QED  BY <2>1, <1>4, <1>5 DEF MarkerOf
<1>8. intent.destinationMutationAuthority = AuthorityOf(intent)
  <2>1. intent.destinationMutationAuthority
           = NamedBy(of, ids) ++ [profile |-> AuthorityProfile,
                                  destination |-> CompleteDestination(of.request)]
                              ++ Fence(expected)
    BY <1>3 DEF GivenTo, GivenMembers, given
  <2>2. FenceIn(intent) = Fence(expected)
    BY <1>3 DEF FenceIn, Fence
  <2>3. NamedBy(of, ids) ++ [profile |-> AuthorityProfile,
                             destination |-> CompleteDestination(of.request)]
           = [operationId |-> of.input.operationId, attemptId |-> ids.attemptId,
              proposedGenerationId |-> ids.proposedGenerationId,
              profile |-> AuthorityProfile,
              destination |-> CompleteDestination(of.request)]
    BY DEF NamedBy, ++
  <2>4. QED  BY <2>1, <2>2, <2>3, <1>4, <1>6 DEF AuthorityOf
<1>9. FixedMembers \subseteq DOMAIN intent
  <2>1. FixedMembers \subseteq NamedMembers \cup GivenMembers \cup AlwaysRetained
                                  \cup {"capabilityDecisionDigest"}
    BY DEF FixedMembers, NamedMembers, GivenMembers, AlwaysRetained, RetainedMembers
  <2>2. QED  BY <1>1, <1>3, <2>1
<1>10. Has(intent, "spacesStagePrefix") => intent.adapter.adapterId = "do-spaces"
  BY <1>3, <1>5 DEF ConditionalMembers, Requestable, Has
<1>11. Whole(intent)
  BY <1>1, <1>3, <1>6, <1>7, <1>8, <1>9, <1>10 DEF Whole
<1>12. QED  BY <1>3, <1>4, <1>5, <1>6, <1>11 DEF intent

-----------------------------------------------------------------------------
(* What deploy compares of an intent does not depend on when it was issued. *)

Bound(intent) == Without(intent, Unbound)

LEMMA BoundAlike ==
    ASSUME NEW intent1, NEW intent2, DOMAIN intent1 = DOMAIN intent2,
           \A m \in DOMAIN intent1 \ Unbound : intent1[m] = intent2[m]
    PROVE  Bound(intent1) = Bound(intent2)
BY DEF Bound, Without, Restrict

LEMMA BoundToNoInstant ==
    ASSUME NEW of, NEW ids, NEW expected, NEW at1, NEW at2, Requestable(of)
    PROVE  Bound(IntentFor(of, ids, expected, at1)) = Bound(IntentFor(of, ids, expected, at2))
<1> DEFINE intent1 == IntentFor(of, ids, expected, at1)
           intent2 == IntentFor(of, ids, expected, at2)
           undecided1 == UndecidedIntentFor(of, ids, expected, at1)
           undecided2 == UndecidedIntentFor(of, ids, expected, at2)
           given1 == GivenTo(of, ids, expected, at1)
           given2 == GivenTo(of, ids, expected, at2)
           names == FenceMembers(expected) \cup NamedMembers \cup GivenMembers
                       \cup (RetainedMembers \cap DOMAIN of.request)
<1>1. /\ expected # None => undecided1.expectedGenerationId = expected
      /\ \A m \in NamedMembers : undecided1[m] = NamedBy(of, ids)[m]
      /\ \A m \in GivenMembers : undecided1[m] = given1[m]
      /\ \A m \in RetainedMembers \cap DOMAIN of.request : undecided1[m] = of.request[m]
      /\ \A m : m \in DOMAIN undecided1 <=> m \in names
  BY UndecidedMembers
<1>2. /\ expected # None => undecided2.expectedGenerationId = expected
      /\ \A m \in NamedMembers : undecided2[m] = NamedBy(of, ids)[m]
      /\ \A m \in GivenMembers : undecided2[m] = given2[m]
      /\ \A m \in RetainedMembers \cap DOMAIN of.request : undecided2[m] = of.request[m]
      /\ \A m : m \in DOMAIN undecided2 <=> m \in names
  BY UndecidedMembers
<1>3. /\ DOMAIN intent1 = DOMAIN undecided1 \cup {"capabilityDecisionDigest"}
      /\ \A m \in DOMAIN undecided1 : intent1[m] = undecided1[m]
      /\ DecisionIsOf(intent1, intent1.subject)
  BY DecidedIntent
<1>4. /\ DOMAIN intent2 = DOMAIN undecided2 \cup {"capabilityDecisionDigest"}
      /\ \A m \in DOMAIN undecided2 : intent2[m] = undecided2[m]
      /\ DecisionIsOf(intent2, intent2.subject)
  BY DecidedIntent
<1>5. \A m \in GivenMembers \ Unbound : given1[m] = given2[m]
  BY DEF GivenTo, GivenMembers, Unbound
<1>6. /\ FenceMembers(expected) \subseteq {"expectedGenerationId"}
      /\ "expectedGenerationId" \in FenceMembers(expected) => expected # None
      /\ AlwaysRetained \subseteq names
      /\ GivenMembers \subseteq names
  BY DEF FenceMembers, Requestable, AlwaysRetained
<1> HIDE DEF intent1, intent2, undecided1, undecided2, given1, given2
<1>7. DOMAIN intent1 = DOMAIN intent2
  <2> HIDE DEF names
  <2>1. QED  BY <1>1, <1>2, <1>3, <1>4
<1>8. \A m \in names \ Unbound : undecided1[m] = undecided2[m]
  BY <1>1, <1>2, <1>5, <1>6
<1> HIDE DEF names
<1>9. \A m \in names : /\ m \in DOMAIN intent1 /\ m \in DOMAIN intent2
                       /\ m \notin Unbound => intent1[m] = intent2[m]
  BY <1>1, <1>2, <1>3, <1>4, <1>8
<1>10. ReadAlike(intent1, intent2)
  <2>1. \A m \in {"subject", "destination", "marker", "artifactId", "artifactDigest",
                  "manifestDigest", "artifactFileCount", "artifactByteCount", "adapter"} :
           m \in names \ Unbound
    BY <1>6 DEF AlwaysRetained, RetainedMembers, GivenMembers, Unbound
  <2>2. intent1["rebuildRecord"] = intent2["rebuildRecord"]
    <3>1. /\ "rebuildRecord" \in RetainedMembers \cap DOMAIN of.request
          /\ "rebuildRecord" \in names
      BY <1>6 DEF AlwaysRetained, RetainedMembers, Requestable
    <3>2. QED  BY <3>1, <1>1, <1>2, <1>3, <1>4
  <2>3. \A m \in {"pagesBuildVersion", "spacesStagePrefix"} :
           m \in DOMAIN intent1 => intent1[m] = intent2[m]
    <3>1. \A m \in {"pagesBuildVersion", "spacesStagePrefix"} :
             m \notin Unbound /\ m # "capabilityDecisionDigest"
      BY DEF Unbound
    <3>2. QED  BY <3>1, <1>1, <1>3, <1>9
  <2>4. \A m \in {"pagesBuildVersion", "spacesStagePrefix"} :
           Restrict(intent1, {m} \cap DOMAIN intent1)
              = Restrict(intent2, {m} \cap DOMAIN intent2)
    BY <2>3, <1>7 DEF Restrict
  <2>5. QED  BY <2>1, <2>2, <2>4, <1>9 DEF ReadAlike
<1>11. intent1["capabilityDecisionDigest"] = intent2["capabilityDecisionDigest"]
  BY <1>3, <1>4, <1>10, DecisionReads DEF DecisionIsOf
<1>12. \A m \in DOMAIN intent1 \ Unbound : intent1[m] = intent2[m]
  BY <1>1, <1>3, <1>9, <1>11
<1>13. QED  BY <1>7, <1>12, BoundAlike DEF intent1, intent2

LEMMA LeastMember ==
    ASSUME NEW I \in SUBSET Nat, I # {}
    PROVE  \E i \in I : \A k \in I : i <= k
<1> DEFINE less == {pair \in Nat \X Nat : pair[1] < pair[2]}
<1>1. IsWellFoundedOn(less, Nat)
  BY NatLessThanWellFounded DEF OpToRel
<1>2. \A x, y \in Nat : y < x => <<y, x>> \in less
  OBVIOUS
<1> HIDE DEF less
<1>3. PICK x \in I : \A y \in I : ~(<<y, x>> \in less)
  BY <1>1, WFMin
<1>4. ASSUME NEW y \in I PROVE x <= y
  <2>1. x \in Nat /\ y \in Nat /\ ~(y < x)
    BY <1>2, <1>3
  <2>2. QED  BY <2>1
<1>5. QED  BY <1>4

(***************************************************************************)
(* What the deploy job has established when it enters the kernel.          *)
(***************************************************************************)
LEMMA StoppedAtStage ==
    ASSUME NEW broken
    PROVE  /\ StoppedAt(broken) \in Nat
           /\ StoppedAt(broken) = 0 =>
                 \A i \in 1 .. Len(DeployStages) : Holds(DeployStages[i], broken)
<1> DEFINE I == {i \in 1 .. Len(DeployStages) : ~Holds(DeployStages[i], broken)}
<1>1. Len(DeployStages) = 11
  BY DEF DeployStages
<1>2. StoppedAt(broken) = IF I # {} THEN Min(I) ELSE 0
  BY DEF StoppedAt, SelectInSeq
<1> HIDE DEF I
<1>3. CASE I # {}
  <2>1. I \in SUBSET Nat /\ 0 \notin I
    BY <1>1 DEF I
  <2>2. \E i \in I : \A k \in I : i <= k
    BY <2>1, <1>3, LeastMember
  <2>3. Min(I) \in I
    BY <2>2 DEF Min
  <2>4. StoppedAt(broken) \in Nat /\ StoppedAt(broken) # 0
    BY <1>2, <1>3, <2>1, <2>3
  <2>5. QED  BY <2>4
<1>4. CASE I = {}
  <2>1. StoppedAt(broken) = 0
    BY <1>2, <1>4
  <2>2. QED  BY <2>1, <1>4 DEF I
<1>5. QED  BY <1>3, <1>4

LEMMA DeployEstablishes ==
    ASSUME NEW broken, StoppedAt(broken) = 0
    PROVE  LET intent == authorization.deploymentIntent
           IN  /\ BindsAuthorizedIntent(authorization, RunnerOf(attempt), now)
               /\ intent.adapter.adapterId = "github-pages"
               /\ RequireEnvelopeIntentAgreement(intent,
                     DecodeFrozenEnvelope(candidate.envelope))
               /\ RequireCapabilityDecisionAgreement(toolchain, intent, RunnerOf(attempt))
<1>1. \A i \in 1 .. 11 : Holds(DeployStages[i], broken)
  BY StoppedAtStage DEF DeployStages
<1>2. /\ DeployStages[2] = "authorization"
      /\ DeployStages[3] = "intent"
      /\ DeployStages[5] = "capability-decision"
  BY DEF DeployStages
<1>3. /\ Holds("authorization", broken)
      /\ Holds("intent", broken)
      /\ Holds("capability-decision", broken)
  BY <1>1, <1>2
<1>4. /\ BindsAuthorizedIntent(authorization, RunnerOf(attempt), now)
      /\ authorization.deploymentIntent.adapter.adapterId = "github-pages"
  BY <1>3 DEF Holds
<1>5. RequireEnvelopeIntentAgreement(authorization.deploymentIntent,
         DecodeFrozenEnvelope(candidate.envelope))
  BY <1>3 DEF Holds
<1>6. RequireCapabilityDecisionAgreement(toolchain, authorization.deploymentIntent,
         RunnerOf(attempt))
  BY <1>3 DEF Holds
<1>7. QED  BY <1>4, <1>5, <1>6

-----------------------------------------------------------------------------
(* The intents of this run's attempts, and those that are not.             *)

CandidateOfAttempt(n) == CandidateOf(toolchain, RunnerOf(n), source)

SubjectOfAttempt(n) ==
    [repositoryId |-> Runner.repositoryId, runId |-> Runner.runId, runAttempt |-> n]

OwnIntent(n, at) ==
    IntentFor(CandidateOfAttempt(n), DerivedIds(CandidateOfAttempt(n).input), served, at)

Instants == 0 .. MaximumTime

OfEarlierAttempt(intent, n) ==
    \E b \in 1 .. n - 1 : \E at \in Instants :
        intent \in HonestIntents(CandidateOfAttempt(b), at)

IntentOfRun(other, at) ==
    LET of == CandidateOf(toolchain, other.runner, other.checkout)
    IN  IntentFor(of, DerivedIds(of.input), None, at)

OfOtherRun(intent) ==
    \E other \in OtherRuns : \E at \in Instants : intent = IntentOfRun(other, at)

Foreign(intent, n) == OfEarlierAttempt(intent, n) \/ OfOtherRun(intent)

IsOneMemberOff(intent, own, n) ==
    \E other : /\ Foreign(other, n)
               /\ \E member : IsSwap(intent, own, other, member)

(* What the API may have answered the request of an attempt with.          *)
Answered(intent, n) ==
    \E at \in Instants :
        \/ intent \in HonestIntents(CandidateOfAttempt(n), at)
        \/ Foreign(intent, n)
        \/ IsOneMemberOff(intent, OwnIntent(n, at), n)
        \/ intent = Without(OwnIntent(n, at), {"expectedGenerationId"})
        \/ intent = [OwnIntent(n, at) EXCEPT !.subject = LegacySubject]

LEMMA RunnerMembers ==
    ASSUME NEW n
    PROVE  /\ RunnerOf(n).ref = Runner.ref
           /\ RunnerOf(n).repositoryId = Runner.repositoryId
           /\ RunnerOf(n).runId = Runner.runId
           /\ RunnerOf(n).runAttempt = n
BY HandoffAssumption DEF RunnerOf

(* An honest intent of an attempt is whole and is of that attempt.         *)
OfAttempt(intent, n) ==
    /\ Whole(intent)
    /\ intent.operationId = Runner.ref.operationId
    /\ intent.subject = SubjectOfAttempt(n)
    /\ intent.provenanceDigest
          = DecodeFrozenEnvelope(CandidateOfAttempt(n).envelope).provenanceDigest
    /\ intent.sbomDigest = DecodeFrozenEnvelope(CandidateOfAttempt(n).envelope).sbomDigest
    /\ Has(intent, "expectedGenerationId") <=> served # None

LEMMA IntentIsOfAttempt ==
    ASSUME NEW n, NEW ids, NEW at
    PROVE  /\ OfAttempt(IntentFor(CandidateOfAttempt(n), ids, served, at), n)
           /\ IntentFor(CandidateOfAttempt(n), ids, served, at).attemptId = ids.attemptId
<1> DEFINE of == CandidateOfAttempt(n)
           intent == IntentFor(of, ids, served, at)
<1>1. /\ Requestable(of)
      /\ of.input.operationId = RunnerOf(n).ref.operationId
      /\ of.input.repositoryId = RunnerOf(n).repositoryId
      /\ of.input.runId = RunnerOf(n).runId
      /\ of.input.runAttempt = RunnerOf(n).runAttempt
      /\ of.request.provenanceDigest = DecodeFrozenEnvelope(of.envelope).provenanceDigest
      /\ of.request.sbomDigest = DecodeFrozenEnvelope(of.envelope).sbomDigest
  BY CandidateIsRequestable DEF CandidateOfAttempt
<1> HIDE DEF of
<1>2. /\ Whole(intent)
      /\ intent.operationId = of.input.operationId
      /\ intent.attemptId = ids.attemptId
      /\ intent.subject = [repositoryId |-> of.input.repositoryId,
                           runId |-> of.input.runId,
                           runAttempt |-> of.input.runAttempt]
      /\ intent.provenanceDigest = of.request.provenanceDigest
      /\ intent.sbomDigest = of.request.sbomDigest
      /\ Has(intent, "expectedGenerationId") <=> served # None
  BY <1>1, IntentIsWhole
<1> HIDE DEF intent
<1>3. QED
  BY <1>1, <1>2, RunnerMembers DEF OfAttempt, SubjectOfAttempt, of, intent

LEMMA OwnAttemptId ==
    ASSUME NEW n, NEW at
    PROVE  /\ OwnIntent(n, at).attemptId.repositoryId = Runner.repositoryId
           /\ OwnIntent(n, at).attemptId.runId = Runner.runId
<1> DEFINE of == CandidateOfAttempt(n)
<1>1. /\ DerivedIds(of.input).attemptId.repositoryId = RunnerOf(n).repositoryId
      /\ DerivedIds(of.input).attemptId.runId = RunnerOf(n).runId
  BY CandidateIsRequestable DEF CandidateOfAttempt
<1>2. OwnIntent(n, at).attemptId = DerivedIds(of.input).attemptId
  BY IntentIsOfAttempt DEF OwnIntent
<1>3. QED  BY <1>1, <1>2, RunnerMembers

(* An intent of another run is whole too, and is of no attempt of this one. *)
LEMMA IntentOfOtherRun ==
    ASSUME NEW other \in OtherRuns, NEW at, NEW n, NEW when
    PROVE  LET intent == IntentOfRun(other, at)
           IN  /\ Whole(intent)
               /\ intent.subject # SubjectOfAttempt(n)
               /\ intent.attemptId # OwnIntent(n, when).attemptId
<1> DEFINE of == CandidateOf(toolchain, other.runner, other.checkout)
           ids == DerivedIds(of.input)
           intent == IntentFor(of, ids, None, at)
<1>1. /\ Requestable(of)
      /\ of.input.repositoryId = other.runner.repositoryId
      /\ of.input.runId = other.runner.runId
      /\ ids.attemptId.repositoryId = other.runner.repositoryId
      /\ ids.attemptId.runId = other.runner.runId
  BY CandidateIsRequestable
<1> HIDE DEF of, ids
<1>2. /\ Whole(intent)
      /\ intent.attemptId = ids.attemptId
      /\ intent.subject = [repositoryId |-> of.input.repositoryId,
                           runId |-> of.input.runId,
                           runAttempt |-> of.input.runAttempt]
  BY <1>1, IntentIsWhole
<1> HIDE DEF intent
<1>3. \/ other.runner.repositoryId # Runner.repositoryId
      \/ other.runner.runId # Runner.runId
  BY HandoffAssumption
<1>4. intent.subject # SubjectOfAttempt(n)
  <2>1. /\ intent.subject.repositoryId = other.runner.repositoryId
        /\ intent.subject.runId = other.runner.runId
    BY <1>1, <1>2
  <2>2. /\ SubjectOfAttempt(n).repositoryId = Runner.repositoryId
        /\ SubjectOfAttempt(n).runId = Runner.runId
    BY DEF SubjectOfAttempt
  <2>3. QED  BY <1>3, <2>1, <2>2
<1>5. intent.attemptId # OwnIntent(n, when).attemptId
  BY <1>1, <1>2, <1>3, OwnAttemptId
<1>6. QED  BY <1>2, <1>4, <1>5 DEF IntentOfRun, intent, ids, of

LEMMA ForeignIsOfNoneOfOurs ==
    ASSUME NEW n \in Nat, NEW at, NEW other, Foreign(other, n)
    PROVE  /\ Whole(other)
           /\ \A k \in Nat : k >= n => other.subject # SubjectOfAttempt(k)
           /\ ApartByFence(OwnIntent(n, at), other)
<1>1. CASE OfEarlierAttempt(other, n)
  <2>1. PICK b \in 1 .. n - 1 : \E when \in Instants :
               other \in HonestIntents(CandidateOfAttempt(b), when)
    BY <1>1 DEF OfEarlierAttempt
  <2>2. PICK when \in Instants : other \in HonestIntents(CandidateOfAttempt(b), when)
    BY <2>1
  <2>3. \E ids : other = IntentFor(CandidateOfAttempt(b), ids, served, when)
    BY <2>2 DEF HonestIntents
  <2>4. OfAttempt(other, b)
    BY <2>3, IntentIsOfAttempt
  <2>5. ASSUME NEW k \in Nat, k >= n PROVE other.subject # SubjectOfAttempt(k)
    <3>1. other.subject.runAttempt = b
      BY <2>4 DEF OfAttempt, SubjectOfAttempt
    <3>2. SubjectOfAttempt(k).runAttempt = k
      BY DEF SubjectOfAttempt
    <3>3. b # k
      BY <2>1, <2>5
    <3>4. QED  BY <3>1, <3>2, <3>3
  <2>6. OfAttempt(OwnIntent(n, at), n)
    BY IntentIsOfAttempt DEF OwnIntent
  <2>7. QED  BY <2>4, <2>5, <2>6 DEF OfAttempt, ApartByFence
<1>2. CASE OfOtherRun(other)
  <2>1. PICK run2 \in OtherRuns : \E when \in Instants : other = IntentOfRun(run2, when)
    BY <1>2 DEF OfOtherRun
  <2>2. PICK when \in Instants : other = IntentOfRun(run2, when)
    BY <2>1
  <2>3. QED  BY <2>2, IntentOfOtherRun DEF ApartByFence
<1>3. QED  BY <1>1, <1>2 DEF Foreign

(***************************************************************************)
(* Of all answers, deploy lets pass the honest ones of its own attempt and *)
(* those that are no different in what it compares.                        *)
(***************************************************************************)
Established(intent, n, envelope, at) ==
    /\ \E authorized : /\ authorized.deploymentIntent = intent
                       /\ BindsAuthorizedIntent(authorized, RunnerOf(n), at)
    /\ intent.adapter.adapterId = "github-pages"
    /\ RequireEnvelopeIntentAgreement(intent, DecodeFrozenEnvelope(envelope))
    /\ RequireCapabilityDecisionAgreement(toolchain, intent, RunnerOf(n))

LEMMA EstablishedMembers ==
    ASSUME NEW intent, NEW n, NEW envelope, NEW at, Established(intent, n, envelope, at)
    PROVE  /\ intent.audience = KernelAudience
           /\ intent.capability = "deploy"
           /\ intent.adapter.adapterId = "github-pages"
           /\ intent.operationId = Runner.ref.operationId
           /\ intent.subject = SubjectOfAttempt(n)
           /\ intent.subject # LegacySubject
           /\ intent.marker.schemaId = MarkerSchemaId
           /\ intent.marker.artifactId = intent.artifactId
           /\ intent.marker.artifactDigest = intent.artifactDigest
           /\ intent.marker.generationId = intent.proposedGenerationId
           /\ AuthorityAgrees(intent)
           /\ DecisionIsOf(intent, SubjectOfAttempt(n))
           /\ intent.provenanceDigest = DecodeFrozenEnvelope(envelope).provenanceDigest
           /\ intent.sbomDigest = DecodeFrozenEnvelope(envelope).sbomDigest
           /\ intent.expiresAt > at
<1>1. PICK authorized : /\ authorized.deploymentIntent = intent
                        /\ BindsAuthorizedIntent(authorized, RunnerOf(n), at)
  BY DEF Established
<1>2. /\ IntentIsShaped(intent)
      /\ MarkerAgrees(authorized)
      /\ AuthorityAgrees(intent)
      /\ AssertIntentBoundToRunner(intent, RunnerOf(n))
      /\ IsUnexpired(intent, at)
  BY <1>1 DEF BindsAuthorizedIntent
<1>3. /\ intent.audience = KernelAudience
      /\ intent.capability = "deploy"
  BY <1>2 DEF IntentIsShaped
<1>4. /\ intent.marker.schemaId = MarkerSchemaId
      /\ intent.marker.artifactId = intent.artifactId
      /\ intent.marker.artifactDigest = intent.artifactDigest
      /\ intent.marker.generationId = intent.proposedGenerationId
  BY <1>1, <1>2 DEF MarkerAgrees
<1>5. /\ intent.operationId = Runner.ref.operationId
      /\ intent.subject = SubjectOfAttempt(n)
      /\ intent.subject # LegacySubject
  BY <1>2, RunnerMembers DEF AssertIntentBoundToRunner, SubjectOfAttempt
<1>6. DecisionIsOf(intent, SubjectOfAttempt(n))
  <2>1. /\ RunnerOf(n).runId = SubjectOfAttempt(n).runId
        /\ RunnerOf(n).runAttempt = SubjectOfAttempt(n).runAttempt
    BY RunnerMembers DEF SubjectOfAttempt
  <2>2. IssuancePhaseDecision(intent, RunnerOf(n))
           = IssuancePhaseDecision(intent, SubjectOfAttempt(n))
    BY <2>1, DecisionOfTheRun
  <2>3. QED  BY <2>2 DEF Established, RequireCapabilityDecisionAgreement, DecisionIsOf
<1>7. /\ intent.provenanceDigest = DecodeFrozenEnvelope(envelope).provenanceDigest
      /\ intent.sbomDigest = DecodeFrozenEnvelope(envelope).sbomDigest
  BY DEF Established, RequireEnvelopeIntentAgreement
<1>8. QED  BY <1>2, <1>3, <1>4, <1>5, <1>6, <1>7 DEF Established, IsUnexpired

LEMMA OwnPasses ==
    ASSUME NEW intent, NEW own, NEW n, NEW at,
           Established(intent, n, CandidateOfAttempt(n).envelope, at), OfAttempt(own, n)
    PROVE  Passes(intent, own)
BY EstablishedMembers DEF OfAttempt, Passes

LEMMA HonestIsBoundAlike ==
    ASSUME NEW n, NEW at, NEW now2,
           NEW intent \in HonestIntents(CandidateOfAttempt(n), at)
    PROVE  \E honest \in HonestIntents(CandidateOfAttempt(n), now2) :
              Bound(intent) = Bound(honest)
<1> DEFINE of == CandidateOfAttempt(n)
<1>1. Requestable(of)
  BY CandidateIsRequestable DEF CandidateOfAttempt
<1> HIDE DEF of
<1>2. PICK ids \in {DerivedIds(of.input), RemintedIds(DerivedIds(of.input))} :
         intent = IntentFor(of, ids, served, at)
  BY DEF HonestIntents, of
<1>3. Bound(intent) = Bound(IntentFor(of, ids, served, now2))
  BY <1>1, <1>2, BoundToNoInstant
<1>4. IntentFor(of, ids, served, now2) \in HonestIntents(of, now2)
  BY DEF HonestIntents
<1>5. QED  BY <1>3, <1>4 DEF of

LEMMA OwnIsHonest ==
    ASSUME NEW n, NEW at
    PROVE  OwnIntent(n, at) \in HonestIntents(CandidateOfAttempt(n), at)
BY DEF OwnIntent, HonestIntents

(* The attempt an intent was asked for in is the attempt deploy runs in.   *)
LEMMA SubjectNamesTheAttempt ==
    ASSUME NEW k, NEW n, SubjectOfAttempt(k) = SubjectOfAttempt(n)
    PROVE  k = n
<1>1. SubjectOfAttempt(k).runAttempt = k /\ SubjectOfAttempt(n).runAttempt = n
  BY DEF SubjectOfAttempt
<1>2. QED  BY <1>1

LEMMA SwappedIsOwn ==
    ASSUME NEW k \in Nat, NEW n \in Nat, n <= k, NEW at, NEW intent, NEW now2,
           Established(intent, k, CandidateOfAttempt(n).envelope, now2),
           IsOneMemberOff(intent, OwnIntent(n, at), n)
    PROVE  k = n /\ Bound(intent) = Bound(OwnIntent(n, at))
<1> DEFINE own == OwnIntent(n, at)
<1>1. PICK other : /\ Foreign(other, n)
                   /\ \E member : IsSwap(intent, own, other, member)
  BY DEF IsOneMemberOff
<1>2. PICK member : IsSwap(intent, own, other, member)
  BY <1>1
<1>3. OfAttempt(own, n)
  BY IntentIsOfAttempt DEF OwnIntent
<1>4. /\ Whole(other)
      /\ other.subject # SubjectOfAttempt(k)
      /\ ApartByFence(own, other)
  BY <1>1, ForeignIsOfNoneOfOurs
<1> HIDE DEF own
<1>5. intent.subject = SubjectOfAttempt(k)
  BY EstablishedMembers
<1>6. "subject" \in DOMAIN own
  BY <1>3 DEF OfAttempt, Whole, FixedMembers
<1>7. member # "subject"
  <2>1. ASSUME member = "subject" PROVE intent.subject = other.subject
    BY <1>2, <2>1 DEF IsSwap
  <2>2. QED  BY <2>1, <1>4, <1>5
<1>8. intent.subject = own.subject
  BY <1>2, <1>6, <1>7 DEF IsSwap
<1>9. k = n
  BY <1>3, <1>5, <1>8, SubjectNamesTheAttempt DEF OfAttempt
<1>10. Passes(intent, own)
  BY <1>3, <1>9, OwnPasses
<1>11. Whole(own)
  BY <1>3 DEF OfAttempt
<1>12. \A m \in DOMAIN own \ Unbound : intent[m] = own[m]
  BY <1>2, <1>4, <1>10, <1>11, SwappedMember
<1>13. DOMAIN intent = DOMAIN own
  BY <1>2 DEF IsSwap
<1>14. QED  BY <1>9, <1>12, <1>13, BoundAlike DEF own

LEMMA UnfencedIsOwn ==
    ASSUME NEW k \in Nat, NEW n \in Nat, NEW at, NEW intent, NEW now2,
           Established(intent, k, CandidateOfAttempt(n).envelope, now2),
           intent = Without(OwnIntent(n, at), {"expectedGenerationId"})
    PROVE  k = n /\ Bound(intent) = Bound(OwnIntent(n, at))
<1> DEFINE own == OwnIntent(n, at)
<1>1. /\ DOMAIN intent = DOMAIN own \ {"expectedGenerationId"}
      /\ \A m \in DOMAIN intent : intent[m] = own[m]
  BY DEF Without, Restrict
<1>2. OfAttempt(own, n)
  BY IntentIsOfAttempt DEF OwnIntent
<1> HIDE DEF own
<1>3. FixedMembers \subseteq DOMAIN own /\ own.destinationMutationAuthority = AuthorityOf(own)
  BY <1>2 DEF OfAttempt, Whole
<1>4. /\ intent.subject = own.subject
      /\ intent.destinationMutationAuthority = AuthorityOf(own)
  BY <1>1, <1>3 DEF FixedMembers
<1>5. AuthorityAgrees(intent) /\ intent.subject = SubjectOfAttempt(k)
  BY EstablishedMembers
<1>6. k = n
  BY <1>2, <1>4, <1>5, SubjectNamesTheAttempt DEF OfAttempt
<1>7. ~Has(own, "expectedGenerationId")
  BY <1>1, <1>4, <1>5, AuthorityMembers DEF AuthorityAgrees, Has
<1>8. DOMAIN intent = DOMAIN own
  BY <1>1, <1>7 DEF Has
<1>9. QED  BY <1>1, <1>6, <1>8, BoundAlike DEF own

LEMMA EnteredWithItsOwn ==
    ASSUME NEW k \in Nat, NEW n \in Nat, n <= k, NEW intent, NEW now2,
           Established(intent, k, CandidateOfAttempt(n).envelope, now2),
           Answered(intent, n)
    PROVE  /\ k = n
           /\ \E honest \in HonestIntents(CandidateOfAttempt(n), now2) :
                 Bound(intent) = Bound(honest)
<1>1. /\ intent.subject = SubjectOfAttempt(k)
      /\ intent.subject # LegacySubject
  BY EstablishedMembers
<1>2. PICK at \in Instants :
         \/ intent \in HonestIntents(CandidateOfAttempt(n), at)
         \/ Foreign(intent, n)
         \/ IsOneMemberOff(intent, OwnIntent(n, at), n)
         \/ intent = Without(OwnIntent(n, at), {"expectedGenerationId"})
         \/ intent = [OwnIntent(n, at) EXCEPT !.subject = LegacySubject]
  BY DEF Answered
<1>3. OfAttempt(OwnIntent(n, at), n)
  BY IntentIsOfAttempt DEF OwnIntent
<1>4. OwnIntent(n, at) \in HonestIntents(CandidateOfAttempt(n), at)
  BY OwnIsHonest
<1>5. CASE intent \in HonestIntents(CandidateOfAttempt(n), at)
  <2>1. \E ids : intent = IntentFor(CandidateOfAttempt(n), ids, served, at)
    BY <1>5 DEF HonestIntents
  <2>2. OfAttempt(intent, n)
    BY <2>1, IntentIsOfAttempt
  <2>3. k = n
    BY <1>1, <2>2, SubjectNamesTheAttempt DEF OfAttempt
  <2>4. QED  BY <1>5, <2>3, HonestIsBoundAlike
<1>6. CASE Foreign(intent, n)
  BY <1>1, <1>6, ForeignIsOfNoneOfOurs
<1>7. CASE IsOneMemberOff(intent, OwnIntent(n, at), n)
  <2>1. k = n /\ Bound(intent) = Bound(OwnIntent(n, at))
    BY <1>7, SwappedIsOwn
  <2>2. QED  BY <2>1, <1>4, HonestIsBoundAlike
<1>8. CASE intent = Without(OwnIntent(n, at), {"expectedGenerationId"})
  <2>1. k = n /\ Bound(intent) = Bound(OwnIntent(n, at))
    BY <1>8, UnfencedIsOwn
  <2>2. QED  BY <2>1, <1>4, HonestIsBoundAlike
<1>9. CASE intent = [OwnIntent(n, at) EXCEPT !.subject = LegacySubject]
  <2>1. "subject" \in DOMAIN OwnIntent(n, at)
    BY <1>3 DEF OfAttempt, Whole, FixedMembers
  <2>2. QED  BY <1>1, <1>9, <2>1
<1>10. QED  BY <1>2, <1>5, <1>6, <1>7, <1>8, <1>9

-----------------------------------------------------------------------------
(* The type invariant.                                                     *)

LEMMA RecordsAreSomething ==
    ASSUME NEW document, NEW member \in DOMAIN document
    PROVE  document # None
BY DEF None

LEMMA SubmissionsAreSomething ==
    ASSUME NEW intent, NEW runner
    PROVE  /\ BuildReceiptSubmission(intent, runner) # None
           /\ BuildJournalAbsentSubmission(intent, runner) # None
<1>1. \A left, right, m : m \in DOMAIN left => m \in DOMAIN (left ++ right)
  BY JoinDomain
<1>2. "operationId" \in DOMAIN SubmissionBase(intent, runner)
  BY <1>1 DEF SubmissionBase
<1>3. "operationId" \in DOMAIN BuildReceiptSubmission(intent, runner)
  BY <1>1, <1>2 DEF BuildReceiptSubmission
<1>4. "operationId" \in DOMAIN BuildJournalAbsentSubmission(intent, runner)
  BY <1>1, <1>2 DEF BuildJournalAbsentSubmission
<1>5. QED  BY <1>3, <1>4, RecordsAreSomething

LEMMA AuthorizationIsSomething ==
    ASSUME NEW intent, NEW marker, NEW kind
    PROVE  [deploymentIntent |-> intent, marker |-> marker, responseKind |-> kind] # None
<1>1. "deploymentIntent" \in
         DOMAIN [deploymentIntent |-> intent, marker |-> marker, responseKind |-> kind]
  OBVIOUS
<1>2. QED  BY <1>1, RecordsAreSomething

(* The hand-over keeps to its types, and to its order: from authorize on   *)
(* there is an authorization, and a submission where a job reported one.   *)
THEOREM HandoffTypes == Spec => []TypeOK
<1>1. ASSUME Init PROVE TypeOK
  BY <1>1, HandoffAssumption DEF Init, TypeOK, Ended, Faults, None
<1>2. ASSUME TypeOK, [Next]_vars PROVE TypeOK'
  <2> USE DEF TypeOK, run
  <2>1. CASE Tick
    BY <1>2, <2>1, HandoffAssumption DEF Tick
  <2>2. ASSUME NEW intent, Accept(intent), job = "authorize"
        PROVE  /\ job' \in {"deploy", "verify", "refused"}
               /\ job' # "refused" => authorization' # None
    <3>1. CASE AnswersTheLock(intent)
      BY <2>2, <3>1, AuthorizationIsSomething DEF Accept
    <3>2. CASE ~AnswersTheLock(intent)
      BY <2>2, <3>2 DEF Accept
    <3>3. QED  BY <3>1, <3>2
  <2>3. CASE Authorize
    <3>1. PICK intent : Accept(intent)
      BY <2>3 DEF Authorize
    <3>2. /\ job = "authorize"
          /\ UNCHANGED <<now, run, attempt, submission, faults>>
      BY <2>3 DEF Authorize
    <3>3. QED  BY <1>2, <3>1, <3>2, <2>2 DEF Ended
  <2>4. CASE AuthorizeWrongly
    <3>1. PICK intent : Accept(intent)
      BY <2>4 DEF AuthorizeWrongly
    <3>2. /\ job = "authorize" /\ faults' = faults \cup {"answer"}
          /\ UNCHANGED <<now, run, attempt, submission>>
      BY <2>4 DEF AuthorizeWrongly
    <3>3. QED  BY <1>2, <3>1, <3>2, <2>2 DEF Ended, Faults
  <2>5. ASSUME NEW broken \in {{}, {"options"}, {"carrier"}, {"oidc"}}, Deploy(broken)
        PROVE  TypeOK'
    BY <1>2, <2>5 DEF Deploy, Ended, Faults
  <2>6. CASE VerifySpacesConfiguration
    BY <1>2, <2>6 DEF VerifySpacesConfiguration, Ended
  <2>7. CASE LoseJournal
    BY <1>2, <2>7 DEF LoseJournal, Faults
  <2>8. CASE Report
    <3>1. /\ job = "report"
          /\ UNCHANGED <<now, run, attempt, authorization, faults>>
      BY <2>8 DEF Report
    <3>2. \/ submission' # None /\ job' = "reported"
          \/ submission' = None /\ job' = "unreported"
      BY <2>8, SubmissionsAreSomething DEF Report
    <3>3. QED  BY <1>2, <3>1, <3>2 DEF Ended
  <2>9. CASE RerunAll
    BY <1>2, <2>9, HandoffAssumption DEF RerunAll, Ended
  <2>10. CASE RerunFailed
    BY <1>2, <2>10, HandoffAssumption DEF RerunFailed, Ended, Faults
  <2>11. CASE UNCHANGED vars
    BY <1>2, <2>11 DEF vars
  <2>12. QED
    BY <1>2, <2>1, <2>3, <2>4, <2>5, <2>6, <2>7, <2>8, <2>9, <2>10, <2>11 DEF Next
<1>3. QED  BY <1>1, <1>2, PTL DEF Spec

-----------------------------------------------------------------------------
(* The kernel gets its own intent. The inductive invariant: of which       *)
(* attempts the candidate, the API's answers and the authorization are.    *)

CandidateIsOf(n) ==
    /\ candidate = CandidateOfAttempt(n)
    /\ authorization # None => Answered(authorization.deploymentIntent, n)
    /\ job = "authorize" => n = attempt

CandidateIsOfAttempt == \E n \in 1 .. attempt : CandidateIsOf(n)

(* While a job asks, what has been issued is of the attempts before.       *)
IssuedIsOfAttempts ==
    /\ \A intent \in issued : OfEarlierAttempt(intent, attempt + 1)
    /\ job = "authorize" => \A intent \in issued : OfEarlierAttempt(intent, attempt)

HandoffInv ==
    /\ CandidateIsOfAttempt
    /\ IssuedIsOfAttempts
    /\ KernelGetsItsOwnIntent

LEMMA TheRunStands ==
    ASSUME UNCHANGED run
    PROVE  /\ \A n : CandidateOfAttempt(n)' = CandidateOfAttempt(n)
           /\ \A intent, n : OfEarlierAttempt(intent, n)' <=> OfEarlierAttempt(intent, n)
           /\ \A intent, n : Answered(intent, n)' <=> Answered(intent, n)
           /\ \A of, at : HonestIntents(of, at)' = HonestIntents(of, at)
<1>1. \A n : CandidateOfAttempt(n)' = CandidateOfAttempt(n)
  BY DEF run, CandidateOfAttempt
<1>2. \A of, at : HonestIntents(of, at)' = HonestIntents(of, at)
  BY DEF run, HonestIntents
<1>3. \A n, at : OwnIntent(n, at)' = OwnIntent(n, at)
  BY <1>1 DEF run, OwnIntent
<1>4. \A intent, n : OfEarlierAttempt(intent, n)' <=> OfEarlierAttempt(intent, n)
  BY <1>1, <1>2 DEF OfEarlierAttempt
<1>5. \A intent : OfOtherRun(intent)' <=> OfOtherRun(intent)
  BY DEF run, OfOtherRun, IntentOfRun
<1>6. \A intent, n : Foreign(intent, n)' <=> Foreign(intent, n)
  BY <1>4, <1>5 DEF Foreign
<1>7. \A intent, own, n : IsOneMemberOff(intent, own, n)' <=> IsOneMemberOff(intent, own, n)
  BY <1>6 DEF IsOneMemberOff
<1>8. \A intent, n : Answered(intent, n)' <=> Answered(intent, n)
  BY <1>1, <1>2, <1>3, <1>6, <1>7 DEF Answered
<1>9. QED  BY <1>1, <1>2, <1>4, <1>8

LEMMA EarlierThanLater ==
    ASSUME NEW n \in Nat, NEW intent, OfEarlierAttempt(intent, n)
    PROVE  OfEarlierAttempt(intent, n + 1)
BY DEF OfEarlierAttempt

LEMMA EnteredStays ==
    ASSUME KernelGetsItsOwnIntent, UNCHANGED <<run, entered>>
    PROVE  KernelGetsItsOwnIntent'
BY DEF KernelGetsItsOwnIntent, run, HonestIntents

(* A step of a later job leaves it: it asks nobody and enters no kernel.   *)
LEMMA LaterJobs ==
    ASSUME TypeOK, HandoffInv, job # "authorize", job' # "authorize",
           UNCHANGED <<run, attempt, issued, candidate, authorization, entered>>
    PROVE  HandoffInv'
<1>1. PICK n \in 1 .. attempt : CandidateIsOf(n)
  BY DEF HandoffInv, CandidateIsOfAttempt
<1>2. CandidateIsOf(n)'
  BY <1>1, TheRunStands DEF CandidateIsOf
<1>3. CandidateIsOfAttempt'
  BY <1>1, <1>2 DEF CandidateIsOfAttempt
<1>4. IssuedIsOfAttempts'
  BY TheRunStands DEF HandoffInv, IssuedIsOfAttempts
<1>5. QED  BY <1>3, <1>4, EnteredStays DEF HandoffInv

LEMMA AnswerIsAnswered ==
    ASSUME NEW intent, Accept(intent), Answered(intent, attempt), UNCHANGED run,
           CandidateIsOf(attempt), UNCHANGED <<attempt, candidate>>
    PROVE  CandidateIsOf(attempt)' /\ job' # "authorize"
<1>1. CASE AnswersTheLock(intent)
  <2>1. /\ authorization'.deploymentIntent = intent
        /\ job' # "authorize"
    BY <1>1 DEF Accept
  <2>2. QED  BY <2>1, TheRunStands DEF CandidateIsOf
<1>2. CASE ~AnswersTheLock(intent)
  <2>1. UNCHANGED authorization /\ job' # "authorize"
    BY <1>2 DEF Accept
  <2>2. QED  BY <2>1, TheRunStands DEF CandidateIsOf
<1>3. QED  BY <1>1, <1>2

LEMMA WrongIsAnswered ==
    ASSUME TypeOK, candidate = CandidateOfAttempt(attempt),
           \A intent \in issued : OfEarlierAttempt(intent, attempt),
           NEW intent \in WrongIntents(candidate, now)
    PROVE  Answered(intent, attempt)
<1> DEFINE own == OwnIntent(attempt, now)
           others == issued \cup {IntentOfRun(other, now) : other \in OtherRuns}
<1>1. WrongIntents(candidate, now)
         = others \cup (UNION {OneMemberOff(own, other) : other \in others})
                  \cup {Without(own, {"expectedGenerationId"})}
                  \cup {[own EXCEPT !.subject = LegacySubject]}
  <2>1. own = IntentFor(candidate, DerivedIds(candidate.input), served, now)
    BY DEF OwnIntent
  <2>2. QED  BY <2>1 DEF WrongIntents, IntentOfRun
<1>2. now \in Instants
  BY DEF TypeOK, Instants
<1>3. \A other \in others : Foreign(other, attempt)
  BY <1>2 DEF Foreign, OfOtherRun
<1> HIDE DEF own, others
<1>4. ASSUME NEW other \in others, intent \in OneMemberOff(own, other)
      PROVE  IsOneMemberOff(intent, own, attempt)
  <2>1. \E member : IsSwap(intent, own, other, member)
    BY <1>4 DEF OneMemberOff, IsSwap
  <2>2. QED  BY <1>3, <1>4, <2>1 DEF IsOneMemberOff
<1>5. \/ intent \in others
      \/ \E other \in others : intent \in OneMemberOff(own, other)
      \/ intent = Without(own, {"expectedGenerationId"})
      \/ intent = [own EXCEPT !.subject = LegacySubject]
  BY <1>1
<1>6. QED  BY <1>2, <1>3, <1>4, <1>5 DEF Answered, own

LEMMA AuthorizeStep ==
    ASSUME TypeOK, HandoffInv, Authorize
    PROVE  HandoffInv'
<1>1. /\ job = "authorize"
      /\ UNCHANGED <<now, run, attempt, candidate, entered>>
  BY DEF Authorize
<1>2. CandidateIsOf(attempt)
  BY <1>1 DEF HandoffInv, CandidateIsOfAttempt, CandidateIsOf
<1>3. PICK intent \in HonestIntents(candidate, now) :
         issued' = issued \cup {intent} /\ Accept(intent)
  BY DEF Authorize
<1>4. now \in Instants /\ attempt \in Nat /\ attempt \in 1 .. attempt
  BY DEF TypeOK, Instants
<1>5. intent \in HonestIntents(CandidateOfAttempt(attempt), now)
  BY <1>2, <1>3 DEF CandidateIsOf
<1>6. Answered(intent, attempt)
  BY <1>4, <1>5 DEF Answered
<1>7. CandidateIsOf(attempt)' /\ job' # "authorize"
  BY <1>1, <1>2, <1>3, <1>6, AnswerIsAnswered
<1>8. CandidateIsOfAttempt'
  BY <1>1, <1>4, <1>7 DEF CandidateIsOfAttempt
<1>9. OfEarlierAttempt(intent, attempt + 1)
  BY <1>4, <1>5 DEF OfEarlierAttempt
<1>10. IssuedIsOfAttempts'
  BY <1>1, <1>3, <1>7, <1>9, TheRunStands DEF HandoffInv, IssuedIsOfAttempts
<1>11. QED  BY <1>1, <1>8, <1>10, EnteredStays DEF HandoffInv

LEMMA AuthorizeWronglyStep ==
    ASSUME TypeOK, HandoffInv, AuthorizeWrongly
    PROVE  HandoffInv'
<1>1. /\ job = "authorize"
      /\ UNCHANGED <<now, run, attempt, issued, candidate, entered>>
  BY DEF AuthorizeWrongly
<1>2. CandidateIsOf(attempt)
  BY <1>1 DEF HandoffInv, CandidateIsOfAttempt, CandidateIsOf
<1>3. PICK intent \in WrongIntents(candidate, now) : Accept(intent)
  BY DEF AuthorizeWrongly
<1>4. attempt \in 1 .. attempt
  BY DEF TypeOK
<1>5. Answered(intent, attempt)
  BY <1>1, <1>2, <1>3, WrongIsAnswered DEF HandoffInv, IssuedIsOfAttempts, CandidateIsOf
<1>6. CandidateIsOf(attempt)' /\ job' # "authorize"
  BY <1>1, <1>2, <1>3, <1>5, AnswerIsAnswered
<1>7. CandidateIsOfAttempt'
  BY <1>1, <1>4, <1>6 DEF CandidateIsOfAttempt
<1>8. IssuedIsOfAttempts'
  BY <1>1, <1>6, TheRunStands DEF HandoffInv, IssuedIsOfAttempts
<1>9. QED  BY <1>1, <1>7, <1>8, EnteredStays DEF HandoffInv

LEMMA DeployStep ==
    ASSUME TypeOK, HandoffInv, NEW broken, Deploy(broken)
    PROVE  HandoffInv'
<1>1. /\ job = "deploy" /\ job' = "report"
      /\ UNCHANGED <<now, run, attempt, issued, candidate, authorization>>
  BY DEF Deploy
<1>2. PICK n \in 1 .. attempt : CandidateIsOf(n)
  BY DEF HandoffInv, CandidateIsOfAttempt
<1>3. CandidateIsOf(n)'
  BY <1>1, <1>2, TheRunStands DEF CandidateIsOf
<1>4. CandidateIsOfAttempt'
  BY <1>1, <1>2, <1>3 DEF CandidateIsOfAttempt
<1>5. IssuedIsOfAttempts'
  BY <1>1, TheRunStands DEF HandoffInv, IssuedIsOfAttempts
<1>6. KernelGetsItsOwnIntent'
  <2>1. CASE UNCHANGED entered
    BY <1>1, <2>1, EnteredStays DEF HandoffInv
  <2>2. CASE ~UNCHANGED entered
    <3>1. /\ StoppedAt(broken) = 0
          /\ entered' = entered \cup {KernelEntry}
      <4>1. StoppedAt(broken) \in Nat
        BY StoppedAtStage
      <4>2. IF StoppedAt(broken) > 0 THEN UNCHANGED entered
            ELSE entered' = entered \cup {KernelEntry}
        BY DEF Deploy
      <4>3. QED  BY <4>1, <4>2, <2>2
    <3> DEFINE intent == authorization.deploymentIntent
    <3>2. Established(intent, attempt, candidate.envelope, now)
      <4>1. /\ BindsAuthorizedIntent(authorization, RunnerOf(attempt), now)
            /\ intent.adapter.adapterId = "github-pages"
            /\ RequireEnvelopeIntentAgreement(intent,
                  DecodeFrozenEnvelope(candidate.envelope))
            /\ RequireCapabilityDecisionAgreement(toolchain, intent, RunnerOf(attempt))
        BY <3>1, DeployEstablishes
      <4>2. \E authorized : /\ authorized.deploymentIntent = intent
                            /\ BindsAuthorizedIntent(authorized, RunnerOf(attempt), now)
        BY <4>1
      <4>3. QED  BY <4>1, <4>2 DEF Established
    <3>3. authorization # None /\ attempt \in Nat
      BY <1>1 DEF TypeOK
    <3>4. Answered(intent, n) /\ candidate = CandidateOfAttempt(n)
      BY <1>2, <3>3 DEF CandidateIsOf
    <3> HIDE DEF intent
    <3>5. n \in Nat /\ n <= attempt
      BY <3>3
    <3>6. /\ attempt = n
          /\ \E honest \in HonestIntents(CandidateOfAttempt(n), now) :
                Bound(intent) = Bound(honest)
      BY <3>2, <3>3, <3>4, <3>5, EnteredWithItsOwn
    <3>7. intent.expiresAt > now
      BY <3>2, EstablishedMembers
    <3>8. SUFFICES ASSUME NEW entry \in entered'
                   PROVE  /\ entry.envelope = CandidateOfAttempt(entry.attempt).envelope
                          /\ entry.intent.expiresAt > entry.at
                          /\ \E honest \in
                                HonestIntents(CandidateOfAttempt(entry.attempt), entry.at) :
                                Bound(entry.intent) = Bound(honest)
      BY <1>1, TheRunStands DEF KernelGetsItsOwnIntent, CandidateOfAttempt, Bound, run
    <3>9. CASE entry \in entered
      BY <3>9 DEF HandoffInv, KernelGetsItsOwnIntent, CandidateOfAttempt, Bound
    <3>10. CASE entry = KernelEntry
      <4>1. /\ entry.envelope = candidate.envelope /\ entry.attempt = attempt
            /\ entry.intent = intent /\ entry.at = now
        BY <3>10 DEF KernelEntry, intent
      <4>2. QED  BY <4>1, <3>4, <3>6, <3>7
    <3>11. QED  BY <3>1, <3>9, <3>10
  <2>3. QED  BY <2>1, <2>2
<1>7. QED  BY <1>4, <1>5, <1>6 DEF HandoffInv

LEMMA RerunAllStep ==
    ASSUME TypeOK, HandoffInv, RerunAll
    PROVE  HandoffInv'
<1>1. /\ job \in Ended /\ job' = "authorize" /\ attempt' = attempt + 1
      /\ candidate' = CandidateOf(toolchain, RunnerOf(attempt + 1), source)
      /\ authorization' = None
      /\ UNCHANGED <<now, run, issued, entered>>
  BY DEF RerunAll
<1>2. PICK n : n = attempt + 1
  OBVIOUS
<1>3. candidate' = CandidateOfAttempt(n)' /\ attempt \in Nat \ {0} /\ n \in 1 .. n
  BY <1>1, <1>2, TheRunStands DEF CandidateOfAttempt, TypeOK
<1>4. CandidateIsOf(n)'
  BY <1>1, <1>2, <1>3 DEF CandidateIsOf
<1>5. CandidateIsOfAttempt'
  BY <1>1, <1>2, <1>3, <1>4 DEF CandidateIsOfAttempt
<1>6. IssuedIsOfAttempts'
  <2>1. \A intent \in issued : OfEarlierAttempt(intent, attempt + 1)
    BY DEF HandoffInv, IssuedIsOfAttempts
  <2>2. \A intent \in issued : OfEarlierAttempt(intent, (attempt + 1) + 1)
    BY <2>1, <1>3, EarlierThanLater
  <2>3. QED  BY <2>1, <2>2, <1>1, TheRunStands DEF IssuedIsOfAttempts
<1>7. QED  BY <1>1, <1>5, <1>6, EnteredStays DEF HandoffInv

LEMMA RerunFailedStep ==
    ASSUME TypeOK, HandoffInv, RerunFailed
    PROVE  HandoffInv'
<1>1. /\ job \in Ended /\ job' \in {"verify", "deploy", "report"} /\ attempt' = attempt + 1
      /\ UNCHANGED <<now, run, issued, candidate, authorization, entered>>
  BY DEF RerunFailed
<1>2. PICK n \in 1 .. attempt : CandidateIsOf(n)
  BY DEF HandoffInv, CandidateIsOfAttempt
<1>3. attempt \in Nat \ {0} /\ n \in 1 .. (attempt + 1)
  BY DEF TypeOK
<1>4. CandidateIsOf(n)'
  BY <1>1, <1>2, TheRunStands DEF CandidateIsOf
<1>5. CandidateIsOfAttempt'
  BY <1>1, <1>3, <1>4 DEF CandidateIsOfAttempt
<1>6. IssuedIsOfAttempts'
  <2>1. \A intent \in issued : OfEarlierAttempt(intent, attempt + 1)
    BY DEF HandoffInv, IssuedIsOfAttempts
  <2>2. \A intent \in issued : OfEarlierAttempt(intent, (attempt + 1) + 1)
    BY <2>1, <1>3, EarlierThanLater
  <2>3. QED  BY <2>1, <2>2, <1>1, TheRunStands DEF IssuedIsOfAttempts
<1>7. QED  BY <1>1, <1>5, <1>6, EnteredStays DEF HandoffInv

LEMMA StutterStep ==
    ASSUME TypeOK, HandoffInv,
           UNCHANGED <<run, attempt, job, issued, candidate, authorization, entered>>
    PROVE  HandoffInv'
<1>1. PICK n \in 1 .. attempt : CandidateIsOf(n)
  BY DEF HandoffInv, CandidateIsOfAttempt
<1>2. CandidateIsOf(n)'
  BY <1>1, TheRunStands DEF CandidateIsOf
<1>3. CandidateIsOfAttempt'
  BY <1>1, <1>2 DEF CandidateIsOfAttempt
<1>4. IssuedIsOfAttempts'
  BY TheRunStands DEF HandoffInv, IssuedIsOfAttempts
<1>5. QED  BY <1>3, <1>4, EnteredStays DEF HandoffInv

LEMMA HandoffInvHolds == Spec => [](TypeOK /\ HandoffInv)
<1>1. ASSUME Init PROVE HandoffInv
  <2>1. /\ attempt = 1 /\ candidate = CandidateOf(toolchain, RunnerOf(1), source)
        /\ issued = {} /\ authorization = None /\ entered = {}
    BY <1>1 DEF Init
  <2>2. CandidateIsOf(1)
    BY <2>1 DEF CandidateIsOf, CandidateOfAttempt
  <2>3. CandidateIsOfAttempt
    BY <2>1, <2>2 DEF CandidateIsOfAttempt
  <2>4. QED  BY <2>1, <2>3 DEF HandoffInv, IssuedIsOfAttempts, KernelGetsItsOwnIntent
<1>2. ASSUME TypeOK, HandoffInv, [Next]_vars PROVE HandoffInv'
  <2>1. CASE Tick
    BY <1>2, <2>1, StutterStep DEF Tick
  <2>2. CASE VerifySpacesConfiguration
    BY <1>2, <2>2, LaterJobs DEF VerifySpacesConfiguration
  <2>3. CASE LoseJournal
    BY <1>2, <2>3, StutterStep DEF LoseJournal
  <2>4. CASE Report
    <3>1. /\ job = "report" /\ job' # "authorize"
          /\ UNCHANGED <<run, attempt, issued, candidate, authorization, entered>>
      BY <2>4 DEF Report
    <3>2. QED  BY <1>2, <3>1, LaterJobs
  <2>5. CASE UNCHANGED vars
    BY <1>2, <2>5, StutterStep DEF vars
  <2>6. QED
    BY <1>2, <2>1, <2>2, <2>3, <2>4, <2>5, AuthorizeStep, AuthorizeWronglyStep, DeployStep,
       RerunAllStep, RerunFailedStep DEF Next
<1>3. QED  BY <1>1, <1>2, HandoffTypes, PTL DEF Spec

(* The kernel is entered only with an intent for the very attempt, payload *)
(* and destination it runs with, while it is valid, whatever toolchains,   *)
(* sources and other runs there are and however often the run is repeated: *)
(* bindAuthorizedIntent and the capability decision let no member of a     *)
(* foreign intent through that deploy has anything to compare with.        *)
THEOREM KernelGetsItsOwnIntentHolds == Spec => []KernelGetsItsOwnIntent
<1>1. HandoffInv => KernelGetsItsOwnIntent
  BY DEF HandoffInv
<1>2. QED  BY <1>1, HandoffInvHolds, PTL

-----------------------------------------------------------------------------
(* What the API answers can be reported.                                   *)

(* What the submission repeats of the intent and the API checks of it.     *)
Reportable(intent) ==
    /\ intent.artifactFileCount >= 1
    /\ intent.rebuildRecord.builder.package = PublisherPackage

LEMMA RequestedIsReportable ==
    ASSUME NEW of, NEW ids, NEW expected, NEW at, Requestable(of),
           RequestIsValid(of.request)
    PROVE  Reportable(IntentFor(of, ids, expected, at))
<1> DEFINE intent == IntentFor(of, ids, expected, at)
           undecided == UndecidedIntentFor(of, ids, expected, at)
<1>1. \A m \in DOMAIN undecided : intent[m] = undecided[m]
  BY DecidedIntent
<1>2. /\ \A m \in RetainedMembers \cap DOMAIN of.request : undecided[m] = of.request[m]
      /\ \A m \in RetainedMembers \cap DOMAIN of.request : m \in DOMAIN undecided
  <2>1. \A m : m \in DOMAIN undecided <=>
           m \in FenceMembers(expected) \cup NamedMembers \cup GivenMembers
                    \cup (RetainedMembers \cap DOMAIN of.request)
    BY UndecidedMembers
  <2>2. \A m \in RetainedMembers \cap DOMAIN of.request : undecided[m] = of.request[m]
    BY UndecidedMembers
  <2> HIDE DEF undecided
  <2>3. QED  BY <2>1, <2>2
<1> HIDE DEF intent, undecided
<1>3. /\ {"artifactFileCount", "rebuildRecord"} \subseteq RetainedMembers
      /\ {"artifactFileCount", "rebuildRecord"} \subseteq DOMAIN of.request
  BY DEF Requestable, AlwaysRetained, RetainedMembers
<1>4. /\ intent.artifactFileCount = of.request.artifactFileCount
      /\ intent.rebuildRecord = of.request.rebuildRecord
  BY <1>1, <1>2, <1>3
<1>5. CheckAuthorizeDeployment(of.request, {theme.package : theme \in ThemeCatalog})
  <2>1. DOMAIN of.request # ReceiptFields
    BY <1>3 DEF ReceiptFields
  <2>2. QED  BY <2>1 DEF RequestIsValid, ValidateExchangeRequest
<1>6. QED
  BY <1>4, <1>5 DEF Reportable, CheckAuthorizeDeployment, CheckRebuildRecord,
     CheckPackageIdentity, intent

ReportedMembers == {"artifactFileCount", "rebuildRecord"}

LEMMA ReportableByItsMembers ==
    ASSUME NEW intent, NEW own, NEW other, Reportable(own), Reportable(other),
           \A m \in ReportedMembers : intent[m] = own[m] \/ intent[m] = other[m]
    PROVE  Reportable(intent)
BY DEF Reportable, ReportedMembers

LEMMA ForeignIsReportable ==
    ASSUME CandidatesAreRequested, TypeOK, NEW n \in 1 .. MaximumAttempts,
           NEW intent, Foreign(intent, n)
    PROVE  Reportable(intent)
<1>1. CASE OfEarlierAttempt(intent, n)
  <2>1. PICK b \in 1 .. n - 1 : \E at \in Instants :
               intent \in HonestIntents(CandidateOfAttempt(b), at)
    BY <1>1 DEF OfEarlierAttempt
  <2>2. \E ids, at : intent = IntentFor(CandidateOfAttempt(b), ids, served, at)
    BY <2>1 DEF HonestIntents
  <2>3. b \in 1 .. MaximumAttempts
    BY <2>1, HandoffAssumption
  <2>4. RequestIsValid(CandidateOfAttempt(b).request)
    BY <2>3 DEF CandidatesAreRequested, JobsPass, CandidateOfAttempt, TypeOK
  <2>5. Requestable(CandidateOfAttempt(b))
    BY CandidateIsRequestable DEF CandidateOfAttempt
  <2>6. QED  BY <2>2, <2>4, <2>5, RequestedIsReportable
<1>2. CASE OfOtherRun(intent)
  <2>1. PICK other \in OtherRuns : \E at \in Instants : intent = IntentOfRun(other, at)
    BY <1>2 DEF OfOtherRun
  <2>2. PICK of : of = CandidateOf(toolchain, other.runner, other.checkout)
    OBVIOUS
  <2>3. \E at : intent = IntentFor(of, DerivedIds(of.input), None, at)
    BY <2>1, <2>2 DEF IntentOfRun
  <2>4. RequestIsValid(of.request)
    BY <2>2 DEF CandidatesAreRequested, JobsPass, TypeOK
  <2>5. Requestable(of)
    BY <2>2, CandidateIsRequestable
  <2>6. QED  BY <2>3, <2>4, <2>5, RequestedIsReportable
<1>3. QED  BY <1>1, <1>2 DEF Foreign

(* Whatever the API answers, honest or wrong, repeats what some request said. *)
LEMMA AnsweredIsReportable ==
    ASSUME CandidatesAreRequested, TypeOK, NEW n \in 1 .. MaximumAttempts,
           NEW intent, Answered(intent, n)
    PROVE  Reportable(intent)
<1>1. PICK at \in Instants :
         \/ intent \in HonestIntents(CandidateOfAttempt(n), at)
         \/ Foreign(intent, n)
         \/ IsOneMemberOff(intent, OwnIntent(n, at), n)
         \/ intent = Without(OwnIntent(n, at), {"expectedGenerationId"})
         \/ intent = [OwnIntent(n, at) EXCEPT !.subject = LegacySubject]
  BY DEF Answered
<1>2. /\ RequestIsValid(CandidateOfAttempt(n).request)
      /\ Requestable(CandidateOfAttempt(n))
  BY CandidateIsRequestable DEF CandidatesAreRequested, JobsPass, CandidateOfAttempt, TypeOK
<1>3. \A ids, t : Reportable(IntentFor(CandidateOfAttempt(n), ids, served, t))
  BY <1>2, RequestedIsReportable
<1> DEFINE own == OwnIntent(n, at)
<1>4. Reportable(own)
  BY <1>3 DEF OwnIntent
<1>5. ReportedMembers \subseteq DOMAIN own
  <2>1. Whole(own)
    BY IntentIsOfAttempt DEF OwnIntent, OfAttempt
  <2>2. QED  BY <2>1 DEF Whole, FixedMembers, ReportedMembers
<1> HIDE DEF own
<1>6. CASE intent \in HonestIntents(CandidateOfAttempt(n), at)
  <2>1. \E ids : intent = IntentFor(CandidateOfAttempt(n), ids, served, at)
    BY <1>6 DEF HonestIntents
  <2>2. QED  BY <2>1, <1>3
<1>7. CASE Foreign(intent, n)
  BY <1>7, ForeignIsReportable
<1>8. CASE IsOneMemberOff(intent, own, n)
  <2>1. PICK other : Foreign(other, n) /\ \E member : IsSwap(intent, own, other, member)
    BY <1>8 DEF IsOneMemberOff
  <2>2. Reportable(other)
    BY <2>1, ForeignIsReportable
  <2>3. \A m \in ReportedMembers : intent[m] = own[m] \/ intent[m] = other[m]
    BY <2>1, <1>5 DEF IsSwap
  <2>4. QED  BY <1>4, <2>2, <2>3, ReportableByItsMembers
<1>9. CASE intent = Without(own, {"expectedGenerationId"})
  <2>1. \A m \in ReportedMembers : intent[m] = own[m]
    BY <1>5, <1>9 DEF Without, Restrict, ReportedMembers
  <2>2. QED  BY <1>4, <2>1, ReportableByItsMembers
<1>10. CASE intent = [own EXCEPT !.subject = LegacySubject]
  <2>1. \A m \in ReportedMembers : intent[m] = own[m]
    BY <1>5, <1>10 DEF ReportedMembers
  <2>2. QED  BY <1>4, <2>1, ReportableByItsMembers
<1>11. QED  BY <1>1, <1>6, <1>7, <1>8, <1>9, <1>10 DEF own

-----------------------------------------------------------------------------
(* The journal's head: what deploy knew when it stopped.                   *)
HeadMembers ==
    {"adapterId", "operationId", "attemptId", "generationId", "authorization",
     "adapterVersion", "deployPhase", "lockedAdapterVersion",
     "installedAdapterVersion", "verifiedAt"}

LEMMA JournalHeadMembers ==
    ASSUME NEW failed
    PROVE  /\ DOMAIN JournalHead(failed) \subseteq HeadMembers
           /\ Has(JournalHead(failed), "verifiedAt") =>
                 DOMAIN JournalHead(failed).verifiedAt = {"origin"}
<1> DEFINE intent == authorization.deploymentIntent
           full1 == [adapterId |-> intent.adapter.adapterId,
                     operationId |-> intent.operationId,
                     attemptId |-> intent.attemptId,
                     generationId |-> intent.proposedGenerationId,
                     authorization |-> BoundJournal(authorization)]
           full2 == [adapterVersion |-> Installed(intent.adapter.adapterId),
                     deployPhase |->
                        DeployPhaseEvaluation(DecodeFrozenEnvelope(candidate.envelope).files)]
           full3 == [lockedAdapterVersion |-> intent.adapter.adapterVersion,
                     installedAdapterVersion |-> Installed(intent.adapter.adapterId)]
           full4 == [verifiedAt |-> [origin |-> intent.destination.baseUrl.host]]
<1>1. \E A \in {full1, NoMembers}, B \in {full2, NoMembers}, C \in {full3, NoMembers},
         D \in {full4, NoMembers} : JournalHead(failed) = A ++ B ++ C ++ D
  BY DEF JournalHead
<1>2. PICK A \in {full1, NoMembers}, B \in {full2, NoMembers}, C \in {full3, NoMembers},
         D \in {full4, NoMembers} : JournalHead(failed) = A ++ B ++ C ++ D
  BY <1>1
<1>3. /\ DOMAIN A \subseteq {"adapterId", "operationId", "attemptId", "generationId",
                             "authorization"}
      /\ DOMAIN B \subseteq {"adapterVersion", "deployPhase"}
      /\ DOMAIN C \subseteq {"lockedAdapterVersion", "installedAdapterVersion"}
      /\ DOMAIN D \subseteq {"verifiedAt"}
      /\ "verifiedAt" \in DOMAIN D => DOMAIN D["verifiedAt"] = {"origin"}
  BY DEF NoMembers
<1> HIDE DEF full1, full2, full3, full4
<1>4. /\ DOMAIN (A ++ B ++ C ++ D) = DOMAIN A \cup DOMAIN B \cup DOMAIN C \cup DOMAIN D
      /\ "verifiedAt" \in DOMAIN D => (A ++ B ++ C ++ D)["verifiedAt"] = D["verifiedAt"]
  BY <1>3 DEF ++
<1>5. DOMAIN JournalHead(failed) \subseteq HeadMembers
  BY <1>2, <1>3, <1>4 DEF HeadMembers
<1>6. QED  BY <1>2, <1>3, <1>4, <1>5 DEF Has

LEMMA WholeHead ==
    LET intent == authorization.deploymentIntent
        head == JournalHead(0)
    IN  /\ {"adapterId", "operationId", "attemptId", "generationId", "authorization",
            "lockedAdapterVersion", "installedAdapterVersion"} \subseteq DOMAIN head
        /\ head.adapterId = intent.adapter.adapterId
        /\ head.operationId = intent.operationId
        /\ head.attemptId = intent.attemptId
        /\ head.generationId = intent.proposedGenerationId
        /\ head.authorization = BoundJournal(authorization)
        /\ head.lockedAdapterVersion = intent.adapter.adapterVersion
        /\ head.installedAdapterVersion = Installed(intent.adapter.adapterId)
<1> DEFINE intent == authorization.deploymentIntent
           A == [adapterId |-> intent.adapter.adapterId,
                 operationId |-> intent.operationId,
                 attemptId |-> intent.attemptId,
                 generationId |-> intent.proposedGenerationId,
                 authorization |-> BoundJournal(authorization)]
           B == [adapterVersion |-> Installed(intent.adapter.adapterId),
                 deployPhase |->
                    DeployPhaseEvaluation(DecodeFrozenEnvelope(candidate.envelope).files)]
           C == [lockedAdapterVersion |-> intent.adapter.adapterVersion,
                 installedAdapterVersion |-> Installed(intent.adapter.adapterId)]
           D == [verifiedAt |-> [origin |-> intent.destination.baseUrl.host]]
<1>1. JournalHead(0) = A ++ B ++ C ++ D
  BY DEF JournalHead
<1>2. \A m : /\ m \in DOMAIN A => m \in DOMAIN (A ++ B ++ C ++ D)
             /\ m \in DOMAIN A => (A ++ B ++ C ++ D)[m] = A[m]
             /\ m \in DOMAIN C => m \in DOMAIN (A ++ B ++ C ++ D)
             /\ m \in DOMAIN C /\ m \notin DOMAIN A \cup DOMAIN B =>
                   (A ++ B ++ C ++ D)[m] = C[m]
  <2> HIDE DEF A, B, C, D
  <2>1. QED  BY DEF ++
<1>3. QED  BY <1>1, <1>2

(* What deploy leaves: nothing yet, a failure, or what a kernel run left.  *)
DeployFailed == \E failed \in Nat \ {0} : journal = FailureJournal(failed)

KernelEnded ==
    /\ authorization.deploymentIntent.adapter.adapterId = "github-pages"
    /\ \E ending \in Endings : journal = JournalHead(0) ++ ending

LEMMA FailureHasNoEvidence ==
    ASSUME DeployFailed
    PROVE  /\ ~HasKernelEvidence
           /\ Has(journal, "verifiedAt") => DOMAIN journal.verifiedAt = {"origin"}
<1>1. PICK failed \in Nat \ {0} : journal = FailureJournal(failed)
  BY DEF DeployFailed
<1> DEFINE head == JournalHead(failed)
           rest == [outcome |-> "failed", attempts |-> <<>>, observations |-> <<>>,
                    observedRoutes |-> 0,
                    failure |-> [code |-> FailureCodes[DeployStages[failed]],
                                 stage |-> DeployStages[failed]]]
<1>2. journal = head ++ rest
  BY <1>1 DEF FailureJournal
<1>3. /\ DOMAIN head \subseteq HeadMembers
      /\ Has(head, "verifiedAt") => DOMAIN head.verifiedAt = {"origin"}
  BY JournalHeadMembers
<1>4. /\ DOMAIN rest = {"outcome", "attempts", "observations", "observedRoutes", "failure"}
      /\ rest["attempts"] = <<>>
  OBVIOUS
<1> HIDE DEF head, rest
<1>5. journal["attempts"] = <<>>
  BY <1>2, <1>3, <1>4, JoinRight DEF HeadMembers
<1>6. Has(journal, "verifiedAt") => DOMAIN journal.verifiedAt = {"origin"}
  BY <1>2, <1>3, <1>4 DEF Has, ++
<1>7. QED  BY <1>5, <1>6 DEF HasKernelEvidence

LEMMA EndingMembers ==
    ASSUME EndingsAreJournals, KernelEnded
    PROVE  /\ {"attempts", "observations", "observedRoutes"} \subseteq DOMAIN journal
           /\ journal.observedRoutes <= MaximumObservedRoutes
           /\ CheckKernelJournal(Restrict(journal, {"attempts", "observations"}))
           /\ \A m \in DOMAIN JournalHead(0) :
                 m \in DOMAIN journal /\ journal[m] = JournalHead(0)[m]
           /\ Has(journal, "verifiedAt") => DOMAIN journal.verifiedAt = {"origin"}
<1>1. PICK ending \in Endings : journal = JournalHead(0) ++ ending
  BY DEF KernelEnded
<1> DEFINE head == JournalHead(0)
<1>2. /\ {"attempts", "observations", "observedRoutes"} \subseteq DOMAIN ending
      /\ ending.observedRoutes <= MaximumObservedRoutes
      /\ CheckKernelJournal(Restrict(ending, {"attempts", "observations"}))
  BY DEF EndingsAreJournals
<1>3. /\ DOMAIN head \subseteq HeadMembers
      /\ Has(head, "verifiedAt") => DOMAIN head.verifiedAt = {"origin"}
  BY JournalHeadMembers
<1>4. "verifiedAt" \in DOMAIN head
  <2>1. PICK A, value : head = A ++ [verifiedAt |-> value]
    BY DEF JournalHead
  <2>2. "verifiedAt" \in DOMAIN [verifiedAt |-> value]
    OBVIOUS
  <2> HIDE DEF head
  <2>3. QED  BY <2>1, <2>2, JoinDomain
<1> HIDE DEF head
<1>5. /\ DOMAIN journal = DOMAIN head \cup DOMAIN ending
      /\ \A m \in DOMAIN head : journal[m] = head[m]
      /\ \A m \in {"attempts", "observations", "observedRoutes"} : journal[m] = ending[m]
  BY <1>1, <1>2, <1>3 DEF head, HeadMembers, ++
<1>6. Restrict(journal, {"attempts", "observations"})
         = Restrict(ending, {"attempts", "observations"})
  BY <1>5 DEF Restrict
<1>7. QED  BY <1>2, <1>3, <1>4, <1>5, <1>6 DEF Has, head

LEMMA EndingAgreesWithIntent ==
    ASSUME TypeOK, PagesIsInstalled, EndingsAreJournals, KernelEnded
    PROVE  JournalAgreesWithIntent(toolchain, journal, authorization.deploymentIntent)
<1> DEFINE intent == authorization.deploymentIntent
           package == PackageOf(toolchain, intent.adapter.adapterId)
<1>1. \A m \in DOMAIN JournalHead(0) : m \in DOMAIN journal /\ journal[m] = JournalHead(0)[m]
  BY EndingMembers
<1>2. /\ Has(journal, "operationId") /\ journal.operationId = intent.operationId
      /\ journal.attemptId = intent.attemptId
      /\ journal.generationId = intent.proposedGenerationId
      /\ journal.adapterId = intent.adapter.adapterId
      /\ Has(journal, "lockedAdapterVersion")
      /\ journal.lockedAdapterVersion = intent.adapter.adapterVersion
      /\ journal.authorization = BoundJournal(authorization)
      /\ journal.installedAdapterVersion = Installed(intent.adapter.adapterId)
  BY <1>1, WholeHead DEF Has
<1>3. journal.authorization.intentDigest = intent.intentDigest
  BY <1>2 DEF BoundJournal
<1>4. package \in AdapterPackages(toolchain)
  <2>1. \E p \in AdapterPackages(toolchain) :
           FindAdapterArtifact(toolchain, p).adapterId = intent.adapter.adapterId
    BY DEF PagesIsInstalled, TypeOK, KernelEnded
  <2>2. QED  BY <2>1 DEF PackageOf
<1>5. IsAdmittedAdapterVersion(toolchain, package, Installed(intent.adapter.adapterId))
  <2>1. \E entry \in toolchain.catalog : entry.package = package
    BY <1>4 DEF AdapterPackages
  <2>2. FindAdapterArtifact(toolchain, package) \in toolchain.catalog
        /\ FindAdapterArtifact(toolchain, package).package = package
    BY <2>1 DEF FindAdapterArtifact
  <2>3. Installed(intent.adapter.adapterId) = FindAdapterArtifact(toolchain, package).version
    BY DEF Installed
  <2> HIDE DEF package
  <2>4. QED
    BY <1>4, <2>2, <2>3 DEF IsAdmittedAdapterVersion, AdmittedAdapterArtifacts
<1>6. QED  BY <1>2, <1>3, <1>5 DEF JournalAgreesWithIntent

-----------------------------------------------------------------------------
(* The submission.                                                         *)

BaseFields ==
    {"operationId", "repositoryId", "sourceCommit", "runId", "runAttempt",
     "artifactManifestDigest", "artifactByteCount", "artifactFileCount",
     "provenanceDigest", "sbomDigest", "publisherPackage", "publisherVersion",
     "adapterId", "adapterVersion", "publicBaseUrl", "workflowStartedAt",
     "workflowCompletedAt"}

VerifiedIn(document) ==
    IF document # None /\ Has(document, "verifiedAt")
    THEN [verifiedAt |-> document.verifiedAt] ELSE NoMembers

LEMMA BaseMembers ==
    ASSUME NEW intent, NEW runner
    PROVE  LET base == SubmissionBase(intent, runner)
           IN  /\ DOMAIN base = BaseFields \cup DOMAIN VerifiedIn(journal)
               /\ base.runAttempt = runner.runAttempt
               /\ base.artifactFileCount = intent.artifactFileCount
               /\ base.publisherPackage = intent.rebuildRecord.builder.package
               /\ base.adapterId = intent.adapter.adapterId
               /\ Has(base, "verifiedAt") => base.verifiedAt = journal.verifiedAt
<1> DEFINE members ==
              [operationId |-> intent.operationId,
               repositoryId |-> runner.repositoryId,
               sourceCommit |-> intent.sourceCommit,
               runId |-> runner.runId,
               runAttempt |-> runner.runAttempt,
               artifactManifestDigest |-> intent.manifestDigest,
               artifactByteCount |-> intent.artifactByteCount,
               artifactFileCount |-> intent.artifactFileCount,
               provenanceDigest |-> intent.provenanceDigest,
               sbomDigest |-> intent.sbomDigest,
               publisherPackage |-> intent.rebuildRecord.builder.package,
               publisherVersion |-> intent.rebuildRecord.builder.version,
               adapterId |-> intent.adapter.adapterId,
               adapterVersion |-> intent.adapter.adapterVersion,
               publicBaseUrl |-> intent.destination.baseUrl,
               workflowStartedAt |-> "instant",
               workflowCompletedAt |-> "instant"]
<1>1. SubmissionBase(intent, runner) = members ++ VerifiedIn(journal)
  BY DEF SubmissionBase, VerifiedIn
<1>2. DOMAIN members = BaseFields
  BY DEF BaseFields
<1>3. /\ members["runAttempt"] = runner.runAttempt
      /\ members["artifactFileCount"] = intent.artifactFileCount
      /\ members["publisherPackage"] = intent.rebuildRecord.builder.package
      /\ members["adapterId"] = intent.adapter.adapterId
  OBVIOUS
<1>4. /\ "verifiedAt" \notin BaseFields
      /\ {"runAttempt", "artifactFileCount", "publisherPackage", "adapterId"}
            \subseteq BaseFields
  BY DEF BaseFields
<1>5. "verifiedAt" \in DOMAIN VerifiedIn(journal) =>
         VerifiedIn(journal)["verifiedAt"] = journal.verifiedAt
  BY DEF VerifiedIn, NoMembers
<1> HIDE DEF members
<1>6. QED  BY <1>1, <1>2, <1>3, <1>4, <1>5 DEF Has, ++

(* A body whose checked members are admitted.                              *)
Admitted(body) ==
    /\ body.runAttempt \in 1 .. MaximumRunAttempt
    /\ body.artifactFileCount >= 1
    /\ body.publisherPackage = PublisherPackage
    /\ body.adapterId \in AdmittedAdapterIds

IntentIsReportable(intent) ==
    Reportable(intent) /\ intent.adapter.adapterId \in ManagedAdapters

LEMMA BaseIsAdmitted ==
    ASSUME TypeOK, NEW intent, IntentIsReportable(intent)
    PROVE  Admitted(SubmissionBase(intent, RunnerOf(attempt)))
<1>1. attempt \in 1 .. MaximumRunAttempt
  BY HandoffAssumption DEF TypeOK, MaximumRunAttempt
<1>2. RunnerOf(attempt).runAttempt = attempt
  BY RunnerMembers
<1>3. QED
  BY <1>1, <1>2, BaseMembers DEF Admitted, IntentIsReportable, Reportable, ManagedAdapters,
     AdmittedAdapterIds

LEMMA AdmittedByItsMembers ==
    ASSUME NEW body, NEW base, Admitted(base), BaseFields \subseteq DOMAIN base,
           \A m \in BaseFields : body[m] = base[m]
    PROVE  Admitted(body)
BY DEF Admitted, BaseFields

LEMMA FailuresAreTold ==
    ASSUME NEW document, NEW kind
    PROVE  /\ CheckDeployFailure([journal |-> kind] ++ FailureOf(document), kind)
           /\ ([journal |-> kind] ++ FailureOf(document)).journal = kind
<1> DEFINE told == FailureOf(document)
           tag == [journal |-> kind]
<1>1. /\ "failureCode" \in DOMAIN told
      /\ DOMAIN told \subseteq {"failureCode", "stage"}
  BY DEF FailureOf
<1>2. DOMAIN tag = {"journal"} /\ tag["journal"] = kind
  OBVIOUS
<1> HIDE DEF told, tag
<1>3. /\ DOMAIN (tag ++ told) = DOMAIN tag \cup DOMAIN told
      /\ (tag ++ told)["journal"] = kind
  BY <1>2, JoinDomain, JoinLeft
<1>4. QED
  BY <1>1, <1>2, <1>3 DEF CheckDeployFailure, Closed, DeployFailureFields, told, tag

LEMMA WithoutMembers ==
    ASSUME NEW body, NEW members
    PROVE  /\ DOMAIN Without(body, members) = DOMAIN body \ members
           /\ \A m \in DOMAIN body \ members : Without(body, members)[m] = body[m]
BY DEF Without, Restrict

VerifiedAtIsWhole ==
    journal # None /\ Has(journal, "verifiedAt") => DOMAIN journal.verifiedAt = {"origin"}

LEMMA VerifiedAtIsAdmitted ==
    ASSUME VerifiedAtIsWhole, NEW intent, NEW runner,
           Has(SubmissionBase(intent, runner), "verifiedAt")
    PROVE  DOMAIN SubmissionBase(intent, runner).verifiedAt = {"origin"}
<1>1. "verifiedAt" \in DOMAIN VerifiedIn(journal)
  BY BaseMembers DEF BaseFields, Has
<1>2. journal # None /\ Has(journal, "verifiedAt")
  BY <1>1 DEF VerifiedIn, NoMembers
<1>3. QED  BY <1>2, BaseMembers DEF VerifiedAtIsWhole

LEMMA AbsentIsValid ==
    ASSUME TypeOK, VerifiedAtIsWhole, NEW intent, IntentIsReportable(intent)
    PROVE  ValidateSubmission(BuildJournalAbsentSubmission(intent, RunnerOf(attempt)))
<1> DEFINE base == SubmissionBase(intent, RunnerOf(attempt))
           failure == [journal |-> "absent"] ++ FailureOf(journal)
           told == [observedRoutes |-> 0, deployFailure |-> failure]
           made == BuildJournalAbsentSubmission(intent, RunnerOf(attempt))
           rest == Without(made, {"verifiedAt", "performance"})
<1>1. made = base ++ told
  BY DEF BuildJournalAbsentSubmission
<1>2. DOMAIN base = BaseFields \cup DOMAIN VerifiedIn(journal) /\ Admitted(base)
  BY BaseMembers, BaseIsAdmitted
<1>3. DOMAIN VerifiedIn(journal) \subseteq {"verifiedAt"}
  BY DEF VerifiedIn, NoMembers
<1>4. /\ DOMAIN told = {"observedRoutes", "deployFailure"}
      /\ told["observedRoutes"] = 0 /\ told["deployFailure"] = failure
  OBVIOUS
<1>5. Has(base, "verifiedAt") => DOMAIN base.verifiedAt = {"origin"}
  BY VerifiedAtIsAdmitted
<1>6. CheckDeployFailure(failure, "absent") /\ failure.journal = "absent"
  BY FailuresAreTold
<1> HIDE DEF base, failure, told, made
<1>7. /\ DOMAIN made = BaseFields \cup DOMAIN VerifiedIn(journal)
                          \cup {"observedRoutes", "deployFailure"}
      /\ \A m \in DOMAIN base : made[m] = base[m]
      /\ made["observedRoutes"] = 0
      /\ made["deployFailure"] = failure
  BY <1>1, <1>2, <1>3, <1>4 DEF BaseFields, ++
<1>8. /\ DOMAIN rest = DOMAIN made \ {"verifiedAt", "performance"}
      /\ \A m \in DOMAIN made \ {"verifiedAt", "performance"} : rest[m] = made[m]
  BY WithoutMembers
<1> HIDE DEF rest
<1>9. /\ DOMAIN rest = BaseFields \cup {"observedRoutes", "deployFailure"}
      /\ \A m \in BaseFields : rest[m] = base[m]
      /\ rest["observedRoutes"] = 0
      /\ rest["deployFailure"] = failure
  BY <1>2, <1>3, <1>7, <1>8 DEF BaseFields
<1>10. Admitted(rest)
  BY <1>2, <1>9, AdmittedByItsMembers
<1>11. CheckSubmissionMembers(rest)
  BY <1>9, <1>10, ContractAssumption DEF CheckSubmissionMembers, Admitted
<1>12. ValidateJournalAbsentSubmission(rest)
  <2>1. /\ DOMAIN rest \subseteq (SubmissionFields \ {"kernelJournal"}) \cup {"deployFailure"}
        /\ (SubmissionRequired \ {"kernelJournal"}) \cup {"deployFailure"} \subseteq DOMAIN rest
    BY <1>9 DEF BaseFields, SubmissionFields, SubmissionRequired
  <2>2. QED
    BY <2>1, <1>6, <1>9, <1>11 DEF ValidateJournalAbsentSubmission, Closed
<1>13. Has(made, "verifiedAt") => DOMAIN made.verifiedAt = {"origin"}
  BY <1>2, <1>5, <1>7 DEF Has, BaseFields
<1>14. Has(rest, "deployFailure") /\ rest.deployFailure.journal = "absent"
  BY <1>6, <1>9 DEF Has
<1>15. QED
  BY <1>12, <1>13, <1>14 DEF ValidateSubmission, rest, made

(* What a receipt says beside its base.                                    *)
LEMMA ReceiptIsValid ==
    ASSUME NEW body, Admitted(body), NEW generation,
           generation \subseteq {"destinationGenerationId"},
           DOMAIN body = BaseFields \cup {"kernelJournal", "observedRoutes"} \cup generation,
           CheckKernelJournal(body.kernelJournal),
           body.observedRoutes <= MaximumObservedRoutes
    PROVE  ValidateReceiptSubmission(body)
<1>1. /\ DOMAIN body \subseteq SubmissionFields
      /\ SubmissionRequired \subseteq DOMAIN body
  BY DEF BaseFields, SubmissionFields, SubmissionRequired
<1>2. CheckSubmissionMembers(body)
  BY DEF Admitted, CheckSubmissionMembers
<1>3. QED  BY <1>1, <1>2 DEF ValidateReceiptSubmission, Closed

LEMMA PresentIsValid ==
    ASSUME TypeOK, EndingsAreJournals, KernelEnded, HasKernelEvidence,
           NEW intent, IntentIsReportable(intent)
    PROVE  ValidateSubmission(BuildReceiptSubmission(intent, RunnerOf(attempt)))
<1> DEFINE base == SubmissionBase(intent, RunnerOf(attempt))
           told == [kernelJournal |-> Restrict(journal, {"attempts", "observations"}),
                    observedRoutes |-> journal.observedRoutes]
           names == {"destinationGenerationId"} \cap DOMAIN journal
           generation == Restrict(journal, names)
           failure == [journal |-> "present"] ++ FailureOf(journal)
           failed == IF Has(journal, "failure") THEN [deployFailure |-> failure]
                     ELSE NoMembers
           made == BuildReceiptSubmission(intent, RunnerOf(attempt))
           rest == Without(made, {"verifiedAt", "performance"})
<1>1. made = base ++ told ++ generation ++ failed
  BY DEF BuildReceiptSubmission
<1>2. DOMAIN base = BaseFields \cup DOMAIN VerifiedIn(journal) /\ Admitted(base)
  BY BaseMembers, BaseIsAdmitted
<1>3. DOMAIN VerifiedIn(journal) \subseteq {"verifiedAt"}
  BY DEF VerifiedIn, NoMembers
<1>4. /\ DOMAIN told = {"kernelJournal", "observedRoutes"}
      /\ told["kernelJournal"] = Restrict(journal, {"attempts", "observations"})
      /\ told["observedRoutes"] = journal.observedRoutes
  OBVIOUS
<1>5. DOMAIN generation = names /\ names \subseteq {"destinationGenerationId"}
  BY DEF Restrict
<1>6. /\ DOMAIN failed \subseteq {"deployFailure"}
      /\ "deployFailure" \in DOMAIN failed => failed["deployFailure"] = failure
  BY DEF NoMembers
<1>7. Has(base, "verifiedAt") => DOMAIN base.verifiedAt = {"origin"}
  BY VerifiedAtIsAdmitted, EndingMembers DEF VerifiedAtIsWhole
<1>8. CheckDeployFailure(failure, "present") /\ failure.journal = "present"
  BY FailuresAreTold
<1>9. /\ CheckKernelJournal(Restrict(journal, {"attempts", "observations"}))
      /\ journal.observedRoutes <= MaximumObservedRoutes
  BY EndingMembers
<1> HIDE DEF base, failure, told, made, generation, failed, names
<1>10. /\ DOMAIN made = BaseFields \cup DOMAIN VerifiedIn(journal)
                           \cup {"kernelJournal", "observedRoutes"} \cup names
                           \cup DOMAIN failed
       /\ \A m \in DOMAIN base : made[m] = base[m]
       /\ \A m \in {"kernelJournal", "observedRoutes"} : made[m] = told[m]
       /\ \A m \in DOMAIN failed : made[m] = failed[m]
  <2>1. /\ DOMAIN made = DOMAIN base \cup DOMAIN told \cup DOMAIN generation
                            \cup DOMAIN failed
        /\ \A m \in DOMAIN base : made[m] = base[m]
        /\ \A m \in DOMAIN told \ DOMAIN base : made[m] = told[m]
        /\ \A m \in DOMAIN failed \ (DOMAIN base \cup DOMAIN told \cup DOMAIN generation) :
              made[m] = failed[m]
    BY <1>1 DEF ++
  <2>2. /\ {"kernelJournal", "observedRoutes"} \cap DOMAIN base = {}
        /\ DOMAIN failed \cap (DOMAIN base \cup DOMAIN told \cup DOMAIN generation) = {}
    BY <1>2, <1>3, <1>4, <1>5, <1>6 DEF BaseFields
  <2>3. QED  BY <1>2, <1>4, <1>5, <2>1, <2>2
<1>11. /\ DOMAIN rest = DOMAIN made \ {"verifiedAt", "performance"}
       /\ \A m \in DOMAIN made \ {"verifiedAt", "performance"} : rest[m] = made[m]
  BY WithoutMembers
<1> HIDE DEF rest
<1>12. /\ DOMAIN rest = BaseFields \cup {"kernelJournal", "observedRoutes"} \cup names
                           \cup DOMAIN failed
       /\ \A m \in BaseFields : rest[m] = base[m]
       /\ rest["kernelJournal"] = Restrict(journal, {"attempts", "observations"})
       /\ rest["observedRoutes"] = journal.observedRoutes
       /\ "deployFailure" \in DOMAIN failed => rest["deployFailure"] = failure
  <2>1. BaseFields \cap {"verifiedAt", "performance"} = {}
    BY DEF BaseFields
  <2>2. QED  BY <2>1, <1>2, <1>3, <1>4, <1>5, <1>6, <1>10, <1>11
<1>13. Has(made, "verifiedAt") => DOMAIN made.verifiedAt = {"origin"}
  <2>1. "verifiedAt" \in DOMAIN made => "verifiedAt" \in DOMAIN base
    BY <1>2, <1>5, <1>6, <1>10
  <2>2. QED  BY <2>1, <1>7, <1>10 DEF Has
<1>14. CASE ~Has(rest, "deployFailure")
  <2>1. DOMAIN rest = BaseFields \cup {"kernelJournal", "observedRoutes"} \cup names
    BY <1>6, <1>12, <1>14 DEF Has
  <2>2. Admitted(rest)
    BY <1>2, <1>12, AdmittedByItsMembers
  <2>3. ValidateReceiptSubmission(rest)
    BY <2>1, <2>2, <1>5, <1>9, <1>12, ReceiptIsValid
  <2>4. QED  BY <2>3, <1>13, <1>14 DEF ValidateSubmission, rest, made
<1>15. CASE Has(rest, "deployFailure")
  <2> DEFINE receipt == Without(rest, {"deployFailure"})
  <2>1. "deployFailure" \in DOMAIN failed
    BY <1>5, <1>12, <1>15 DEF Has, BaseFields
  <2>2. /\ DOMAIN receipt = DOMAIN rest \ {"deployFailure"}
        /\ \A m \in DOMAIN rest \ {"deployFailure"} : receipt[m] = rest[m]
    BY WithoutMembers
  <2> HIDE DEF receipt
  <2>3. /\ DOMAIN receipt = BaseFields \cup {"kernelJournal", "observedRoutes"} \cup names
        /\ \A m \in BaseFields : receipt[m] = base[m]
        /\ receipt["kernelJournal"] = rest["kernelJournal"]
        /\ receipt["observedRoutes"] = rest["observedRoutes"]
    <3>1. "deployFailure" \notin BaseFields \cup {"kernelJournal", "observedRoutes"} \cup names
      BY <1>5 DEF BaseFields
    <3>2. QED  BY <3>1, <2>2, <1>6, <1>12
  <2>4. Admitted(receipt)
    BY <2>3, <1>2, AdmittedByItsMembers
  <2>5. ValidateReceiptSubmission(receipt)
    BY <2>3, <2>4, <1>5, <1>9, <1>12, ReceiptIsValid
  <2>6. CheckDeployFailure(rest.deployFailure, "present")
        /\ rest.deployFailure.journal = "present"
    BY <2>1, <1>8, <1>12
  <2>7. ValidateJournalPresentSubmission(rest)
    BY <2>5, <2>6 DEF ValidateJournalPresentSubmission, receipt
  <2>8. QED  BY <2>6, <2>7, <1>13, <1>15 DEF ValidateSubmission, rest, made
<1>16. QED  BY <1>14, <1>15

-----------------------------------------------------------------------------
(* What deploy leaves is reported. The inductive invariant: an adapter     *)
(* that was authorized is a managed one, and until a re-run from failed    *)
(* jobs the journal is of the authorization that is at hand.               *)

JournalIsOfAuthorization ==
    "rerun" \notin faults => journal = None \/ DeployFailed \/ KernelEnded

AuthorizedIsManaged ==
    authorization # None =>
        authorization.deploymentIntent.adapter.adapterId \in ManagedAdapters

ReportInv ==
    /\ AuthorizedIsManaged
    /\ job = "authorize" => journal = None
    /\ JournalIsOfAuthorization
    /\ WhatDeployLeftIsReported

LEMMA JournalStays ==
    ASSUME UNCHANGED <<toolchain, candidate, authorization>>
    PROVE  /\ \A failed : FailureJournal(failed)' = FailureJournal(failed)
           /\ JournalHead(0)' = JournalHead(0)
           /\ UNCHANGED journal => (DeployFailed' <=> DeployFailed)
           /\ UNCHANGED journal => (KernelEnded' <=> KernelEnded)
<1>1. \A adapterId : Installed(adapterId)' = Installed(adapterId)
  BY DEF Installed
<1>2. \A failed : JournalHead(failed)' = JournalHead(failed)
  BY <1>1 DEF JournalHead
<1>3. \A failed : FailureJournal(failed)' = FailureJournal(failed)
  BY <1>2 DEF FailureJournal
<1>4. UNCHANGED journal => (DeployFailed' <=> DeployFailed)
  BY <1>3 DEF DeployFailed
<1>5. UNCHANGED journal => (KernelEnded' <=> KernelEnded)
  BY <1>2 DEF KernelEnded
<1>6. QED  BY <1>2, <1>3, <1>4, <1>5

LEMMA ReportSubmits ==
    ASSUME TypeOK, HandoffInv, ReportInv, CandidatesAreRequested, PagesIsInstalled,
           EndingsAreJournals, authorization # None, "rerun" \notin faults,
           AssertIntentBoundToRunner(authorization.deploymentIntent, RunnerOf(attempt)),
           authorization.deploymentIntent.rebuildRecord.repositoryId = Runner.repositoryId
    PROVE  LET intent == authorization.deploymentIntent
               runner == RunnerOf(attempt)
               made == IF HasKernelEvidence THEN BuildReceiptSubmission(intent, runner)
                       ELSE BuildJournalAbsentSubmission(intent, runner)
           IN  Reports(intent, runner) /\ ValidateSubmission(made)
<1> DEFINE intent == authorization.deploymentIntent
           runner == RunnerOf(attempt)
<1>1. IntentIsReportable(intent)
  <2>1. PICK n \in 1 .. attempt : CandidateIsOf(n)
    BY DEF HandoffInv, CandidateIsOfAttempt
  <2>2. Answered(intent, n)
    BY <2>1 DEF CandidateIsOf
  <2>3. n \in 1 .. MaximumAttempts
    BY <2>1, HandoffAssumption DEF TypeOK
  <2>4. QED
    BY <2>2, <2>3, AnsweredIsReportable DEF IntentIsReportable, ReportInv, AuthorizedIsManaged
<1>2. journal = None \/ DeployFailed \/ KernelEnded
  BY DEF ReportInv, JournalIsOfAuthorization
<1>3. HasKernelEvidence => KernelEnded
  BY <1>2, FailureHasNoEvidence DEF HasKernelEvidence
<1>4. VerifiedAtIsWhole
  BY <1>2, FailureHasNoEvidence, EndingMembers DEF VerifiedAtIsWhole
<1>5. Reports(intent, runner)
  <2>1. runner.repositoryId = Runner.repositoryId
    BY RunnerMembers
  <2>2. HasKernelEvidence => JournalAgreesWithIntent(toolchain, journal, intent)
    BY <1>3, EndingAgreesWithIntent
  <2>3. QED  BY <2>1, <2>2 DEF Reports
<1>6. HasKernelEvidence => ValidateSubmission(BuildReceiptSubmission(intent, runner))
  BY <1>1, <1>3, PresentIsValid
<1>7. ValidateSubmission(BuildJournalAbsentSubmission(intent, runner))
  BY <1>1, <1>4, AbsentIsValid
<1>8. QED  BY <1>5, <1>6, <1>7

LEMMA AcceptKeepsReportInv ==
    ASSUME TypeOK, ReportInv, job = "authorize", UNCHANGED journal,
           NEW intent, Accept(intent)
    PROVE  ReportInv'
<1>1. job' # "authorize" /\ job' # "unreported"
  BY DEF Accept
<1>2. AuthorizedIsManaged'
  <2>1. CASE AnswersTheLock(intent)
    <3>1. authorization'.deploymentIntent = intent
      BY <2>1 DEF Accept
    <3>2. intent.adapter.adapterId \in ManagedAdapters
      BY <2>1 DEF AnswersTheLock
    <3>3. QED  BY <3>1, <3>2 DEF AuthorizedIsManaged
  <2>2. CASE ~AnswersTheLock(intent)
    BY <2>2 DEF Accept, ReportInv, AuthorizedIsManaged
  <2>3. QED  BY <2>1, <2>2
<1>3. journal' = None
  BY DEF ReportInv
<1>4. QED
  BY <1>1, <1>2, <1>3 DEF ReportInv, JournalIsOfAuthorization, WhatDeployLeftIsReported

LEMMA DeployKeepsReportInv ==
    ASSUME TypeOK, ReportInv, NEW broken, Deploy(broken)
    PROVE  ReportInv'
<1>1. /\ job' = "report"
      /\ faults' = faults \cup broken
      /\ UNCHANGED <<toolchain, candidate, authorization>>
  BY DEF Deploy, run
<1>2. DeployFailed' \/ KernelEnded'
  <2>1. StoppedAt(broken) \in Nat
    BY StoppedAtStage
  <2>2. CASE StoppedAt(broken) > 0
    <3>1. journal' = FailureJournal(StoppedAt(broken))
      BY <2>2 DEF Deploy
    <3>2. StoppedAt(broken) \in Nat \ {0}
      BY <2>1, <2>2
    <3>3. \E failed \in Nat \ {0} : journal' = FailureJournal(failed)
      BY <3>1, <3>2
    <3>4. QED  BY <3>3, <1>1, JournalStays DEF DeployFailed
  <2>3. CASE StoppedAt(broken) = 0
    <3>1. PICK ending \in Endings : journal' = JournalHead(0) ++ ending
      BY <2>3 DEF Deploy
    <3>2. authorization.deploymentIntent.adapter.adapterId = "github-pages"
      BY <2>3, DeployEstablishes
    <3>3. QED  BY <3>1, <3>2, <1>1, JournalStays DEF KernelEnded
  <2>4. QED  BY <2>1, <2>2, <2>3
<1>3. AuthorizedIsManaged'
  BY <1>1 DEF ReportInv, AuthorizedIsManaged
<1>4. QED
  BY <1>1, <1>2, <1>3 DEF ReportInv, JournalIsOfAuthorization, WhatDeployLeftIsReported

LEMMA ReportKeepsReportInv ==
    ASSUME TypeOK, HandoffInv, ReportInv, CandidatesAreRequested, PagesIsInstalled,
           EndingsAreJournals, Report
    PROVE  ReportInv'
<1> DEFINE intent == authorization.deploymentIntent
<1>1. /\ job = "report" /\ job' \in {"reported", "unreported"}
      /\ UNCHANGED <<toolchain, attempt, candidate, authorization, journal, faults>>
  BY DEF Report, run
<1>2. authorization # None
  BY <1>1 DEF TypeOK
<1>3. WhatDeployLeftIsReported'
  <2>1. SUFFICES ASSUME "rerun" \notin faults,
                        AssertIntentBoundToRunner(intent, RunnerOf(attempt)),
                        intent.rebuildRecord.repositoryId = Runner.repositoryId
                 PROVE  job' = "reported"
    BY <1>1 DEF WhatDeployLeftIsReported
  <2>2. QED  BY <2>1, <1>2, ReportSubmits DEF Report
<1>4. AuthorizedIsManaged' /\ JournalIsOfAuthorization'
  BY <1>1, JournalStays DEF ReportInv, AuthorizedIsManaged, JournalIsOfAuthorization
<1>5. QED  BY <1>1, <1>3, <1>4 DEF ReportInv

LEMMA StutterKeepsReportInv ==
    ASSUME ReportInv, job' = job \/ job' \notin {"authorize", "unreported"},
           job = "authorize" => job' = job, UNCHANGED <<run, attempt, candidate, authorization, faults>>,
           UNCHANGED journal
    PROVE  ReportInv'
<1>1. UNCHANGED <<toolchain, candidate, authorization>>
  BY DEF run
<1>2. AuthorizedIsManaged' /\ JournalIsOfAuthorization'
  BY <1>1, JournalStays DEF ReportInv, AuthorizedIsManaged, JournalIsOfAuthorization
<1>3. WhatDeployLeftIsReported'
  BY DEF ReportInv, WhatDeployLeftIsReported
<1>4. QED  BY <1>2, <1>3 DEF ReportInv

LEMMA ReportInvHolds ==
    ASSUME CandidatesAreRequested, PagesIsInstalled, EndingsAreJournals
    PROVE  Spec => []ReportInv
<1>1. ASSUME Init PROVE ReportInv
  BY <1>1 DEF Init, ReportInv, AuthorizedIsManaged, JournalIsOfAuthorization,
     WhatDeployLeftIsReported
<1>2. ASSUME TypeOK, HandoffInv, ReportInv, [Next]_vars PROVE ReportInv'
  <2>1. CASE Tick \/ VerifySpacesConfiguration \/ UNCHANGED vars
    BY <1>2, <2>1, StutterKeepsReportInv DEF Tick, VerifySpacesConfiguration, vars
  <2>2. CASE Authorize
    BY <1>2, <2>2, AcceptKeepsReportInv DEF Authorize
  <2>3. CASE AuthorizeWrongly
    BY <1>2, <2>3, AcceptKeepsReportInv DEF AuthorizeWrongly
  <2>4. CASE LoseJournal
    <3>1. /\ job = "report" /\ job' = job /\ journal' = None
          /\ UNCHANGED authorization
      BY <2>4 DEF LoseJournal
    <3>2. QED
      BY <1>2, <3>1 DEF ReportInv, AuthorizedIsManaged, JournalIsOfAuthorization,
         WhatDeployLeftIsReported
  <2>5. CASE RerunAll
    <3>1. job' = "authorize" /\ authorization' = None /\ journal' = None
      BY <2>5 DEF RerunAll
    <3>2. QED
      BY <3>1 DEF ReportInv, AuthorizedIsManaged, JournalIsOfAuthorization,
         WhatDeployLeftIsReported
  <2>6. CASE RerunFailed
    <3>1. /\ job' \in {"report", "verify", "deploy"} /\ "rerun" \in faults'
          /\ UNCHANGED authorization
      BY <2>6 DEF RerunFailed
    <3>2. QED
      BY <1>2, <3>1 DEF ReportInv, AuthorizedIsManaged, JournalIsOfAuthorization,
         WhatDeployLeftIsReported
  <2>7. QED
    BY <1>2, <2>1, <2>2, <2>3, <2>4, <2>5, <2>6, DeployKeepsReportInv,
       ReportKeepsReportInv DEF Next
<1>3. QED  BY <1>1, <1>2, HandoffInvHolds, PTL DEF Spec

(* Whatever the deploy job refused, the kernel did or the upload lost, in  *)
(* the attempt an intent is bound to the report job makes a submission the *)
(* API's contract accepts (buildReceiptSubmission,                         *)
(* buildJournalAbsentSubmission, validateSubmission).                      *)
THEOREM WhatDeployLeftIsReportedHolds ==
    ASSUME CandidatesAreRequested, PagesIsInstalled, EndingsAreJournals
    PROVE  Spec => []WhatDeployLeftIsReported
<1>1. ReportInv => WhatDeployLeftIsReported
  BY DEF ReportInv
<1>2. QED  BY <1>1, ReportInvHolds, PTL

-----------------------------------------------------------------------------
(* What a candidate of this run names, when the jobs before it passed.     *)

PagesBinding(runner) ==
    [owner |-> runner.repository.owner, repository |-> runner.repository.name]

(* A site's destination on github-pages.                                   *)
PagesDestination(adapter, baseUrl, binding) ==
    [adapterId |-> adapter.adapterId, adapterVersion |-> adapter.adapterVersion,
     baseUrl |-> baseUrl] ++ [providerBinding |-> binding]

GoesToItsPages(request, runner) ==
    request.adapter.adapterId = "github-pages" =>
        \E baseUrl : request.destination
            = PagesDestination(request.adapter, baseUrl, PagesBinding(runner))

(* Its adapter is a row of the catalogs, its artifact is under its package. *)
NamesItsAdapter(tools, request, files) ==
    \E entry \in tools.catalog \cup tools.previous :
        /\ entry.package \in AdapterPackages(tools)
        /\ entry.adapterId = request.adapter.adapterId
        /\ entry.version = request.adapter.adapterVersion
        /\ request.artifactDigest = ArtifactDigestUnder(entry.package, ToSet(files))

LEMMA InputFacts ==
    ASSUME NEW tools, NEW runner, NEW inputs, NEW output, NEW envelope, NEW handoff,
           NEW input, NEW lock, NEW decoded,
           input = DeriveAuthorizationInput(tools, runner, inputs, output, envelope,
                                            handoff),
           lock = ReadLockFacts(tools, inputs.files),
           decoded = DecodeFrozenEnvelope(envelope)
    PROVE  /\ input.manifestDigest = decoded.manifest.manifestDigest
           /\ input.artifactDigest
                 = ArtifactDigestUnder(lock.adapterPackage, ToSet(decoded.files))
           /\ input.adapter = lock.adapter
           /\ lock.adapter.adapterId = "github-pages" =>
                 input.destination
                    = [adapterId |-> lock.adapter.adapterId,
                       adapterVersion |-> lock.adapter.adapterVersion,
                       baseUrl |-> JsonMember(inputs.files, PublicationPath).canonicalBase]
                      ++ [providerBinding |-> PagesBinding(runner)]
BY DEF DeriveAuthorizationInput, DeriveArtifactFacts, PagesBinding, ++

(* The lock's adapter is a row of the catalogs.                            *)
LEMMA LockedAdapterIsCatalogued ==
    ASSUME NEW tools, NEW files, LockFactsAreValid(tools, files), NEW lock,
           lock = ReadLockFacts(tools, files)
    PROVE  /\ lock.adapterPackage \in AdapterPackages(tools)
           /\ \E entry \in tools.catalog \cup tools.previous :
                 /\ entry.package = lock.adapterPackage
                 /\ entry.adapterId = lock.adapter.adapterId
                 /\ entry.version = lock.adapter.adapterVersion
<1> DEFINE document == JsonMember(files, LockPath)
           rows == RowsOf(document, AdapterPackages(tools))
           row == document.publisher[CHOOSE i \in rows : TRUE]
<1>1. Cardinality(rows) = 1 /\ \A i \in rows : AdmitsAdapterRow(tools, document.publisher[i])
  BY DEF LockFactsAreValid
<1>2. rows # {}
  BY <1>1, FS_EmptySet
<1>3. AdmitsAdapterRow(tools, row)
  <2>1. (CHOOSE i \in rows : TRUE) \in rows
    BY <1>2
  <2>2. QED  BY <1>1, <2>1
<1>4. /\ lock.adapter.adapterId = AdmittedArtifact(tools, row).adapterId
      /\ lock.adapter.adapterVersion = row.version
      /\ lock.adapterPackage = row.package
  BY DEF ReadLockFacts
<1> HIDE DEF row
<1>5. PICK entry : entry = AdmittedArtifact(tools, row)
  OBVIOUS
<1>6. /\ entry \in AdmittedAdapterArtifacts(tools, row.package)
      /\ LockRow(entry) = row
  BY <1>3, <1>5 DEF AdmitsAdapterRow, AdmittedArtifact
<1>7. /\ row.package \in AdapterPackages(tools)
      /\ entry \in tools.catalog \cup tools.previous
      /\ entry.package = row.package
  BY <1>6 DEF AdmittedAdapterArtifacts
<1>8. row.version = entry.version
  BY <1>6 DEF LockRow, RowMembers, Restrict
<1>9. QED  BY <1>4, <1>5, <1>7, <1>8

(* Of the adapters with one package each, that package is the adapter's.   *)
LEMMA PackageOfCatalogued ==
    ASSUME AdaptersHaveOnePackage, NEW tools \in Toolchains,
           NEW entry \in tools.catalog \cup tools.previous,
           entry.package \in AdapterPackages(tools)
    PROVE  PackageOf(tools, entry.adapterId) = entry.package
<1>1. \A row1, row2 \in tools.catalog \cup tools.previous :
         row1.package = row2.package <=> row1.adapterId = row2.adapterId
  BY DEF AdaptersHaveOnePackage
<1>2. \A p \in AdapterPackages(tools) :
         /\ FindAdapterArtifact(tools, p) \in tools.catalog
         /\ FindAdapterArtifact(tools, p).package = p
  BY DEF AdapterPackages, FindAdapterArtifact
<1>3. \A p \in AdapterPackages(tools) :
         FindAdapterArtifact(tools, p).adapterId = entry.adapterId <=> p = entry.package
  BY <1>1, <1>2
<1>4. QED  BY <1>3 DEF PackageOf

LEMMA CataloguedIsAdmitted ==
    ASSUME NEW tools, NEW entry \in tools.catalog \cup tools.previous,
           entry.package \in AdapterPackages(tools)
    PROVE  IsAdmittedAdapterVersion(tools, entry.package, entry.version)
BY DEF IsAdmittedAdapterVersion, AdmittedAdapterArtifacts

LEMMA InstalledIsAdmitted ==
    ASSUME NEW tools, NEW package \in AdapterPackages(tools)
    PROVE  IsAdmittedAdapterVersion(tools, package,
              FindAdapterArtifact(tools, package).version)
<1>1. FindAdapterArtifact(tools, package) \in tools.catalog
      /\ FindAdapterArtifact(tools, package).package = package
  BY DEF AdapterPackages, FindAdapterArtifact
<1>2. QED  BY <1>1 DEF IsAdmittedAdapterVersion, AdmittedAdapterArtifacts

LEMMA CandidateFacts ==
    ASSUME NEW tools, NEW runner, NEW checkout, JobsPass(tools, runner, checkout),
           NEW of, of = CandidateOf(tools, runner, checkout), NEW decoded,
           decoded = DecodeFrozenEnvelope(of.envelope)
    PROVE  /\ runner.ref.kind = "publish"
           /\ Decodes(of.envelope)
           /\ of.request.manifestDigest = decoded.manifestDigest
           /\ NamesItsAdapter(tools, of.request, decoded.files)
           /\ of.request.adapter = of.input.adapter
           /\ GoesToItsPages(of.request, runner)
<1> DEFINE inputs == VerifiedInputs(runner, checkout.files)
           output == [files |-> Rendered(runner.sha, checkout)]
<1>1. /\ Freezes(tools, runner, inputs, output)
      /\ AuthorizationInputIsDerived(tools, runner, inputs, output, of.envelope)
  BY DEF JobsPass
<1>2. /\ LockFactsAreValid(tools, inputs.files)
      /\ runner.ref.kind = "publish"
  BY <1>1 DEF AuthorizationInputIsDerived
<1>3. of.envelope = BuildFrozenEnvelope(runner, inputs, output)
  BY DEF CandidateOf
<1>4. Decodes(of.envelope)
  <2>1. Encodes(EnvelopeInput(runner, inputs, output))
    BY <1>1 DEF Freezes
  <2>2. QED  BY <2>1, <1>3 DEF Encodes, BuildFrozenEnvelope, EncodeFrozenEnvelope
<1>5. PICK handoff : of.input = DeriveAuthorizationInput(tools, runner, inputs, output,
                                                         of.envelope, handoff)
  BY DEF CandidateOf
<1>6. of.request = BuildDeploymentIntentRequest(of.input)
  BY DEF CandidateOf
<1> DEFINE lock == ReadLockFacts(tools, inputs.files)
           base == JsonMember(inputs.files, PublicationPath).canonicalBase
<1>7. /\ of.input.manifestDigest = decoded.manifest.manifestDigest
      /\ of.input.artifactDigest
            = ArtifactDigestUnder(lock.adapterPackage, ToSet(decoded.files))
      /\ of.input.adapter = lock.adapter
      /\ lock.adapter.adapterId = "github-pages" =>
            of.input.destination
               = [adapterId |-> lock.adapter.adapterId,
                  adapterVersion |-> lock.adapter.adapterVersion, baseUrl |-> base]
                 ++ [providerBinding |-> PagesBinding(runner)]
  BY <1>5, InputFacts
<1>8. PICK entry \in tools.catalog \cup tools.previous :
         /\ entry.package = lock.adapterPackage
         /\ entry.adapterId = lock.adapter.adapterId
         /\ entry.version = lock.adapter.adapterVersion
  BY <1>2, LockedAdapterIsCatalogued
<1>9. lock.adapterPackage \in AdapterPackages(tools)
  BY <1>2, LockedAdapterIsCatalogued
<1>10. \A m \in {"manifestDigest", "artifactDigest", "adapter", "destination"} :
          of.request[m] = of.input[m]
  <2>1. {"manifestDigest", "artifactDigest", "adapter", "destination"}
            \subseteq DOMAIN of.input \ OfTheRun
    BY <1>5, InputMembers DEF OfTheRun
  <2>2. "spacesStagePrefix" \notin DOMAIN of.input
    BY <1>5, InputMembers
  <2>3. QED  BY <1>6, <2>1, <2>2, RequestMembers
<1>11. decoded.manifestDigest = decoded.manifest.manifestDigest
  BY DEF DecodeFrozenEnvelope
<1> HIDE DEF inputs, output, lock, base
<1>12. GoesToItsPages(of.request, runner)
  BY <1>7, <1>10 DEF GoesToItsPages, PagesDestination
<1>13. NamesItsAdapter(tools, of.request, decoded.files)
  BY <1>7, <1>8, <1>9, <1>10 DEF NamesItsAdapter
<1>14. QED  BY <1>2, <1>4, <1>7, <1>10, <1>11, <1>12, <1>13

LEMMA HonestFacts ==
    ASSUME NEW of, NEW ids, NEW expected, NEW at, Requestable(of), NEW intent,
           intent = IntentFor(of, ids, expected, at)
    PROVE  /\ \A m \in {"manifestDigest", "artifactDigest", "adapter", "provenanceDigest",
                        "sbomDigest"} : intent[m] = of.request[m]
           /\ intent.destination = CompleteDestination(of.request)
           /\ intent.expiresAt = at + Lifetime
           /\ intent.operationDeadline = intent.expiresAt
<1> DEFINE undecided == UndecidedIntentFor(of, ids, expected, at)
           given == GivenTo(of, ids, expected, at)
<1>1. /\ \A m \in GivenMembers : m \in DOMAIN undecided /\ undecided[m] = given[m]
      /\ \A m \in RetainedMembers \cap DOMAIN of.request :
            m \in DOMAIN undecided /\ undecided[m] = of.request[m]
  <2>1. \A m : m \in DOMAIN undecided <=>
           m \in FenceMembers(expected) \cup NamedMembers \cup GivenMembers
                    \cup (RetainedMembers \cap DOMAIN of.request)
    BY UndecidedMembers
  <2>2. \A m \in RetainedMembers \cap DOMAIN of.request : undecided[m] = of.request[m]
    BY UndecidedMembers
  <2>3. \A m \in GivenMembers : undecided[m] = given[m]
    BY UndecidedMembers
  <2> HIDE DEF undecided, given
  <2>4. QED  BY <2>1, <2>2, <2>3
<1>2. \A m \in DOMAIN undecided : intent[m] = undecided[m]
  BY DecidedIntent
<1>3. {"manifestDigest", "artifactDigest", "adapter", "provenanceDigest", "sbomDigest"}
         \subseteq RetainedMembers \cap DOMAIN of.request
  BY DEF Requestable, AlwaysRetained, RetainedMembers
<1>4. {"destination", "operationDeadline", "expiresAt"} \subseteq GivenMembers
  BY DEF GivenMembers
<1>5. /\ given["destination"] = CompleteDestination(of.request)
      /\ given["expiresAt"] = at + Lifetime
      /\ given["operationDeadline"] = given["expiresAt"]
  BY DEF GivenTo
<1> HIDE DEF undecided, given
<1>6. QED  BY <1>1, <1>2, <1>3, <1>4, <1>5

LEMMA PagesDestinationIsValid ==
    ASSUME NEW request, NEW baseUrl, NEW runner, NEW destination,
           request.adapter.adapterId = "github-pages",
           request.destination
              = PagesDestination(request.adapter, baseUrl, PagesBinding(runner)),
           destination = CompleteDestination(request)
    PROVE  /\ CheckDestination(destination)
           /\ destination.adapterId = "github-pages"
           /\ destination.adapterVersion = request.adapter.adapterVersion
           /\ Has(destination, "providerBinding")
           /\ destination.providerBinding = PagesBinding(runner)
           /\ ~Has(destination, "verificationBaseUrl")
<1> DEFINE A == [adapterId |-> request.adapter.adapterId,
                 adapterVersion |-> request.adapter.adapterVersion, baseUrl |-> baseUrl]
           B == [providerBinding |-> PagesBinding(runner)]
           C == [environment |-> AdapterEnvironments["github-pages"],
                 targetDigest |-> [target |-> request.destination.baseUrl]]
<1>1. destination = A ++ B ++ C ++ NoMembers
  BY DEF CompleteDestination, PagesDestination
<1>2. /\ DOMAIN A = {"adapterId", "adapterVersion", "baseUrl"}
      /\ DOMAIN B = {"providerBinding"}
      /\ DOMAIN C = {"environment", "targetDigest"}
      /\ DOMAIN NoMembers = {}
  BY DEF NoMembers
<1>3. /\ A["adapterId"] = "github-pages"
      /\ A["adapterVersion"] = request.adapter.adapterVersion
      /\ B["providerBinding"] = PagesBinding(runner)
      /\ C["environment"] = AdapterEnvironments["github-pages"]
  OBVIOUS
<1> HIDE DEF A, B, C
<1>4. /\ DOMAIN destination = {"adapterId", "adapterVersion", "baseUrl", "providerBinding",
                               "environment", "targetDigest"}
      /\ destination["adapterId"] = "github-pages"
      /\ destination["adapterVersion"] = request.adapter.adapterVersion
      /\ destination["providerBinding"] = PagesBinding(runner)
      /\ destination["environment"] = AdapterEnvironments["github-pages"]
  BY <1>1, <1>2, <1>3 DEF ++
<1>5. DOMAIN PagesBinding(runner) = ProviderBindingFields["github-pages"]
  BY DEF PagesBinding, ProviderBindingFields, AdmittedAdapterIds
<1>6. Closed(destination, DestinationFields \cup DestinationExtensionFields,
             DestinationRequired)
  BY <1>4 DEF Closed, DestinationFields, DestinationExtensionFields, DestinationRequired
<1>7. "github-pages" \in AdmittedAdapterIds
  BY DEF AdmittedAdapterIds
<1>8. CheckDestination(destination)
  BY <1>4, <1>5, <1>6, <1>7 DEF CheckDestination, Has
<1>9. QED  BY <1>4, <1>8 DEF Has

LEMMA StoppedNowhere ==
    ASSUME NEW broken, \A i \in 1 .. 11 : Holds(DeployStages[i], broken)
    PROVE  StoppedAt(broken) = 0
<1> DEFINE I == {i \in 1 .. Len(DeployStages) : ~Holds(DeployStages[i], broken)}
<1>1. Len(DeployStages) = 11
  BY DEF DeployStages
<1>2. StoppedAt(broken) = IF I # {} THEN Min(I) ELSE 0
  BY DEF StoppedAt, SelectInSeq
<1>3. I = {}
  BY <1>1
<1>4. QED  BY <1>2, <1>3

(* What the deploy job asks of an authorization, asked of an honest one.   *)
AnswersIts(intent) ==
    \E ids : \E at \in Instants : intent = IntentFor(candidate, ids, served, at)

HonestAuthorization ==
    LET intent == authorization.deploymentIntent
    IN  /\ candidate = CandidateOfAttempt(attempt)
        /\ AnswersIts(intent)
        /\ authorization.marker = intent.marker

LEMMA HonestIsBound ==
    ASSUME TypeOK, CandidatesAreRequested, HonestAuthorization,
           authorization.deploymentIntent.adapter.adapterId = "github-pages",
           now < authorization.deploymentIntent.expiresAt
    PROVE  LET intent == authorization.deploymentIntent
           IN  /\ BindsAuthorizedIntent(authorization, RunnerOf(attempt), now)
               /\ VerificationBaseUrlIsValid(intent)
               /\ PagesDestinationBinding(intent, RunnerOf(attempt))
               /\ RequireEnvelopeIntentAgreement(intent,
                     DecodeFrozenEnvelope(candidate.envelope))
               /\ DecisionIsOf(intent, RunnerOf(attempt))
               /\ Decodes(candidate.envelope)
               /\ intent.adapter = candidate.request.adapter
               /\ intent.artifactDigest = candidate.request.artifactDigest
<1> DEFINE intent == authorization.deploymentIntent
           runner == RunnerOf(attempt)
           decoded == DecodeFrozenEnvelope(candidate.envelope)
           request == candidate.request
<1>1. PICK ids, at : intent = IntentFor(candidate, ids, served, at)
  BY DEF HonestAuthorization, AnswersIts
<1>2. candidate = CandidateOf(toolchain, runner, source)
  BY DEF HonestAuthorization, CandidateOfAttempt
<1>3. JobsPass(toolchain, runner, source)
  BY DEF CandidatesAreRequested, TypeOK
<1>4. Requestable(candidate)
  BY <1>2, CandidateIsRequestable
<1>5. OfAttempt(intent, attempt)
  BY <1>1, IntentIsOfAttempt DEF HonestAuthorization
<1>6. /\ \A m \in {"manifestDigest", "artifactDigest", "adapter", "provenanceDigest",
                   "sbomDigest"} : intent[m] = request[m]
      /\ intent.destination = CompleteDestination(request)
      /\ intent.operationDeadline = intent.expiresAt
  BY <1>1, <1>4, HonestFacts
<1>7. /\ runner.ref.kind = "publish"
      /\ Decodes(candidate.envelope)
      /\ request.manifestDigest = decoded.manifestDigest
      /\ GoesToItsPages(request, runner)
  BY <1>2, <1>3, CandidateFacts
<1>8. /\ request.provenanceDigest = decoded.provenanceDigest
      /\ request.sbomDigest = decoded.sbomDigest
  BY <1>2, CandidateIsRequestable
<1>9. request.adapter.adapterId = "github-pages" /\ intent.adapter = request.adapter
  BY <1>6
<1>10. PICK baseUrl : request.destination
                         = PagesDestination(request.adapter, baseUrl, PagesBinding(runner))
  BY <1>7, <1>9 DEF GoesToItsPages
<1>11. /\ CheckDestination(intent.destination)
       /\ intent.destination.adapterId = "github-pages"
       /\ intent.destination.adapterVersion = request.adapter.adapterVersion
       /\ Has(intent.destination, "providerBinding")
       /\ intent.destination.providerBinding = PagesBinding(runner)
       /\ ~Has(intent.destination, "verificationBaseUrl")
  BY <1>6, <1>9, <1>10, PagesDestinationIsValid
<1>12. Whole(intent)
  BY <1>5 DEF OfAttempt
<1> HIDE DEF intent, request, decoded, runner
<1>13. IntentIsShaped(intent)
  <2>1. IntentMembers \subseteq FixedMembers
    BY DEF IntentMembers, FixedMembers
  <2>2. QED
    BY <2>1, <1>9, <1>11, <1>12 DEF IntentIsShaped, Whole, AdmittedAdapterIds
<1>14. AdapterAgrees(intent)
  <2>1. ProviderBindingFields["github-pages"] = {"owner", "repository"}
    BY DEF ProviderBindingFields, AdmittedAdapterIds
  <2>2. ProviderBindingIsValid(intent)
    BY <2>1, <1>11 DEF ProviderBindingIsValid, PagesBinding
  <2>3. QED  BY <2>2, <1>9, <1>11 DEF AdapterAgrees
<1>15. MarkerAgrees(authorization)
  BY <1>12 DEF MarkerAgrees, Whole, MarkerOf, HonestAuthorization, intent
<1>16. AuthorityAgrees(intent)
  BY <1>12, AuthorityMembers DEF Whole, AuthorityAgrees
<1>17. AssertIntentBoundToRunner(intent, runner)
  <2>1. SubjectOfAttempt(attempt) # LegacySubject
    <3>1. "runId" \in DOMAIN SubjectOfAttempt(attempt)
      BY DEF SubjectOfAttempt
    <3>2. QED  BY <3>1 DEF LegacySubject
  <2>2. QED
    BY <2>1, <1>5, <1>7, RunnerMembers
       DEF OfAttempt, AssertIntentBoundToRunner, SubjectOfAttempt, runner
<1>18. IsUnexpired(intent, now)
  BY <1>6 DEF IsUnexpired, intent
<1>19. BindsAuthorizedIntent(authorization, runner, now)
  BY <1>13, <1>14, <1>15, <1>16, <1>17, <1>18 DEF BindsAuthorizedIntent, intent
<1>20. DecisionIsOf(intent, runner)
  <2>1. DecisionIsOf(intent, intent.subject)
    BY <1>12 DEF Whole
  <2>2. intent.subject.runId = runner.runId /\ intent.subject.runAttempt = runner.runAttempt
    BY <1>5, RunnerMembers DEF OfAttempt, SubjectOfAttempt, runner
  <2>3. IssuancePhaseDecision(intent, intent.subject) = IssuancePhaseDecision(intent, runner)
    BY <2>2, DecisionOfTheRun
  <2>4. QED  BY <2>1, <2>3 DEF DecisionIsOf
<1>21. VerificationBaseUrlIsValid(intent)
  BY <1>11 DEF VerificationBaseUrlIsValid
<1>22. PagesDestinationBinding(intent, runner)
  BY <1>11 DEF PagesDestinationBinding, PagesBinding
<1>23. RequireEnvelopeIntentAgreement(intent, decoded)
  BY <1>6, <1>7, <1>8 DEF RequireEnvelopeIntentAgreement
<1>24. QED
  BY <1>6, <1>7, <1>9, <1>19, <1>20, <1>21, <1>22, <1>23 DEF intent, runner, decoded, request

LEMMA HonestDeploys ==
    ASSUME TypeOK, CandidatesAreRequested, AdaptersHaveOnePackage, HonestAuthorization,
           authorization.deploymentIntent.adapter.adapterId = "github-pages",
           now < authorization.deploymentIntent.expiresAt, AdmitsItsCatalog(toolchain)
    PROVE  StoppedAt({}) = 0
<1> DEFINE intent == authorization.deploymentIntent
           runner == RunnerOf(attempt)
           decoded == DecodeFrozenEnvelope(candidate.envelope)
<1>1. /\ BindsAuthorizedIntent(authorization, runner, now)
      /\ VerificationBaseUrlIsValid(intent)
      /\ PagesDestinationBinding(intent, runner)
      /\ RequireEnvelopeIntentAgreement(intent, decoded)
      /\ DecisionIsOf(intent, runner)
      /\ Decodes(candidate.envelope)
      /\ intent.adapter = candidate.request.adapter
      /\ intent.artifactDigest = candidate.request.artifactDigest
  BY HonestIsBound
<1>2. PICK entry \in toolchain.catalog \cup toolchain.previous :
         /\ entry.package \in AdapterPackages(toolchain)
         /\ entry.adapterId = intent.adapter.adapterId
         /\ entry.version = intent.adapter.adapterVersion
         /\ intent.artifactDigest = ArtifactDigestUnder(entry.package, ToSet(decoded.files))
  <2>1. JobsPass(toolchain, RunnerOf(attempt), source)
    BY DEF CandidatesAreRequested, TypeOK
  <2>2. candidate = CandidateOf(toolchain, RunnerOf(attempt), source)
    BY DEF HonestAuthorization, CandidateOfAttempt
  <2>3. NamesItsAdapter(toolchain, candidate.request, decoded.files)
    BY <2>1, <2>2, CandidateFacts
  <2>4. QED  BY <2>3, <1>1 DEF NamesItsAdapter
<1>3. PackageOf(toolchain, intent.adapter.adapterId) = entry.package
  BY <1>2, PackageOfCatalogued DEF TypeOK
<1>4. Holds("envelope", {})
  BY <1>1 DEF Holds
<1>5. Holds("authorization", {})
  BY <1>1 DEF Holds
<1>6. Holds("intent", {})
  BY <1>1 DEF Holds
<1>7. Holds("verification-origin", {})
  BY <1>1 DEF Holds
<1>8. Holds("capability-decision", {})
  <2>1. HasAdmissionRow(toolchain, intent.adapter)
    <3>1. HasAdmissionRow(toolchain, [adapterId |-> entry.adapterId,
                                      adapterVersion |-> entry.version])
      BY DEF AdmitsItsCatalog
    <3>2. QED  BY <3>1, <1>2 DEF HasAdmissionRow, AdmissionRows
  <2>2. RequireCapabilityDecisionAgreement(toolchain, intent, runner)
    BY <2>1, <1>1 DEF RequireCapabilityDecisionAgreement, DecisionIsOf
  <2>3. QED  BY <2>2 DEF Holds
<1>9. Holds("adapter-version", {})
  <2>1. IsAdmittedAdapterVersion(toolchain, entry.package, intent.adapter.adapterVersion)
    BY <1>2, CataloguedIsAdmitted
  <2>2. Installed(intent.adapter.adapterId)
           = FindAdapterArtifact(toolchain, entry.package).version
    BY <1>3 DEF Installed
  <2>3. IsAdmittedAdapterVersion(toolchain, entry.package,
                                 Installed(intent.adapter.adapterId))
    BY <2>2, <1>2, InstalledIsAdmitted
  <2>4. RequireAdapterVersionAgreement(intent, Installed(intent.adapter.adapterId))
    BY <2>1, <2>3, <1>3 DEF RequireAdapterVersionAgreement
  <2>5. QED  BY <2>4 DEF Holds
<1>10. Holds("options", {}) /\ Holds("carrier", {}) /\ Holds("oidc", {})
  BY DEF Holds
<1>11. Holds("destination", {})
  BY <1>1 DEF Holds
<1>12. Holds("artifact-digest", {})
  BY <1>2, <1>3 DEF Holds
<1>13. \A i \in 1 .. 11 : Holds(DeployStages[i], {})
  <2>1. DeployStages = <<"envelope", "authorization", "intent", "verification-origin",
                         "capability-decision", "adapter-version", "options", "carrier",
                         "oidc", "destination", "artifact-digest">>
    BY DEF DeployStages
  <2>2. QED
    BY <2>1, <1>4, <1>5, <1>6, <1>7, <1>8, <1>9, <1>10, <1>11, <1>12
<1>14. QED  BY <1>13, StoppedNowhere

LEMMA EndingHasAttempts ==
    ASSUME EndingsAreJournals, NEW ending \in Endings
    PROVE  (JournalHead(0) ++ ending).attempts # <<>>
<1> DEFINE head == JournalHead(0)
<1>1. /\ "attempts" \in DOMAIN ending
      /\ CheckKernelJournal(Restrict(ending, {"attempts", "observations"}))
  BY DEF EndingsAreJournals
<1>2. ending.attempts # <<>>
  <2>1. PICK restricted : restricted = Restrict(ending, {"attempts", "observations"})
    OBVIOUS
  <2>2. restricted.attempts = ending.attempts
    BY <2>1 DEF Restrict
  <2>3. Len(restricted.attempts) \in 1 .. MaximumJournalEntries
    BY <1>1, <2>1 DEF CheckKernelJournal
  <2>4. Len(ending.attempts) >= 1
    BY <2>2, <2>3
  <2>5. QED  BY <2>4
<1>3. "attempts" \notin DOMAIN head
  BY JournalHeadMembers DEF HeadMembers
<1> HIDE DEF head
<1>4. (head ++ ending)["attempts"] = ending["attempts"]
  BY <1>1, <1>3, JoinRight
<1>5. QED  BY <1>2, <1>4 DEF head

-----------------------------------------------------------------------------
(* An honest intent is deployed. The inductive invariant: an authorization *)
(* carries its intent's marker, only Pages are deployed, and unless an     *)
(* answer was wrong or a job was re-run alone the candidate and the        *)
(* authorization are honest ones of the attempt.                           *)

MarkerIsOfIntent ==
    authorization # None => authorization.marker = authorization.deploymentIntent.marker

PagesAreDeployed ==
    job = "deploy" => authorization.deploymentIntent.adapter.adapterId = "github-pages"

NothingWasForeign ==
    faults \cap {"answer", "rerun"} = {} =>
        /\ candidate = CandidateOfAttempt(attempt)
        /\ authorization # None => AnswersIts(authorization.deploymentIntent)

HonestInv ==
    /\ MarkerIsOfIntent
    /\ PagesAreDeployed
    /\ NothingWasForeign
    /\ HonestIntentIsDeployed

LEMMA HonestAnswersStay ==
    ASSUME UNCHANGED <<run, candidate>>
    PROVE  /\ \A intent : AnswersIts(intent)' <=> AnswersIts(intent)
           /\ AdmitsItsCatalog(toolchain)' <=> AdmitsItsCatalog(toolchain)
           /\ \A n : CandidateOfAttempt(n)' = CandidateOfAttempt(n)
BY TheRunStands DEF run, AnswersIts

(* A job that leaves the journal alone, or removes it.                     *)
LEMMA JobKeepsHonestInv ==
    ASSUME TypeOK, HonestInv, UNCHANGED <<run, now, attempt, candidate, authorization>>,
           job' = job \/ job' # "deploy", UNCHANGED journal \/ journal' = None,
           faults \subseteq faults'
    PROVE  HonestInv'
<1>1. MarkerIsOfIntent' /\ PagesAreDeployed'
  BY DEF HonestInv, MarkerIsOfIntent, PagesAreDeployed
<1>2. NothingWasForeign'
  BY HonestAnswersStay DEF HonestInv, NothingWasForeign
<1>3. HonestIntentIsDeployed'
  BY HonestAnswersStay DEF HonestInv, HonestIntentIsDeployed
<1>4. QED  BY <1>1, <1>2, <1>3 DEF HonestInv

LEMMA TickKeepsHonestInv ==
    ASSUME TypeOK, HonestInv, CandidatesAreRequested, Tick
    PROVE  HonestInv'
<1>1. /\ job \in {"deploy", "verify", "report"} /\ now' = now + 1
      /\ UNCHANGED <<run, attempt, job, candidate, authorization, journal, faults>>
  BY DEF Tick
<1>2. MarkerIsOfIntent' /\ PagesAreDeployed'
  BY <1>1 DEF HonestInv, MarkerIsOfIntent, PagesAreDeployed
<1>3. NothingWasForeign'
  BY <1>1, HonestAnswersStay DEF HonestInv, NothingWasForeign
<1>4. HonestIntentIsDeployed'
  <2> DEFINE expiry == authorization.deploymentIntent.expiresAt
  <2>1. CASE faults \cap {"answer", "rerun"} = {}
    <3>1. /\ AnswersIts(authorization.deploymentIntent)
          /\ candidate = CandidateOfAttempt(attempt)
      BY <1>1, <2>1 DEF TypeOK, HonestInv, NothingWasForeign
    <3>2. PICK ids : \E at \in Instants :
             authorization.deploymentIntent = IntentFor(candidate, ids, served, at)
      BY <3>1 DEF AnswersIts
    <3>3. PICK at \in Instants :
             authorization.deploymentIntent = IntentFor(candidate, ids, served, at)
      BY <3>2
    <3>4. Requestable(candidate)
      BY <3>1, CandidateIsRequestable DEF CandidateOfAttempt
    <3>5. expiry = at + Lifetime
      BY <3>3, <3>4, HonestFacts
    <3>6. expiry \in Int /\ now \in Int
      BY <3>3, <3>5, HandoffAssumption DEF Instants, TypeOK
    <3> HIDE DEF expiry
    <3>7. now' < expiry => now < expiry
      BY <1>1, <3>6
    <3>8. QED
      BY <1>1, <3>7, HonestAnswersStay DEF HonestInv, HonestIntentIsDeployed, expiry
  <2>2. CASE faults \cap {"answer", "rerun"} # {}
    BY <1>1, <2>2 DEF HonestIntentIsDeployed
  <2>3. QED  BY <2>1, <2>2
<1>5. QED  BY <1>2, <1>3, <1>4 DEF HonestInv

LEMMA AcceptIsMarked ==
    ASSUME TypeOK, HonestInv, job = "authorize", NEW intent, Accept(intent)
    PROVE  /\ MarkerIsOfIntent' /\ PagesAreDeployed'
           /\ \/ UNCHANGED authorization
              \/ authorization'.deploymentIntent = intent
<1>1. CASE AnswersTheLock(intent)
  <2>1. /\ authorization'.deploymentIntent = intent
        /\ authorization'.marker = intent.marker
        /\ job' = IF intent.adapter.adapterId = "do-spaces" THEN "verify" ELSE "deploy"
    BY <1>1 DEF Accept
  <2>2. intent.adapter.adapterId \in {"do-spaces", "github-pages"}
    BY <1>1 DEF AnswersTheLock, ManagedAdapters
  <2>3. QED  BY <2>1, <2>2 DEF MarkerIsOfIntent, PagesAreDeployed
<1>2. CASE ~AnswersTheLock(intent)
  <2>1. job' = "refused" /\ UNCHANGED authorization
    BY <1>2 DEF Accept
  <2>2. QED  BY <2>1 DEF HonestInv, MarkerIsOfIntent, PagesAreDeployed
<1>3. QED  BY <1>1, <1>2

LEMMA AuthorizeKeepsHonestInv ==
    ASSUME TypeOK, ReportInv, HonestInv, Authorize
    PROVE  HonestInv'
<1>1. /\ job = "authorize"
      /\ UNCHANGED <<now, run, attempt, candidate, journal, faults>>
  BY DEF Authorize
<1>2. PICK intent \in HonestIntents(candidate, now) : Accept(intent)
  BY DEF Authorize
<1>3. AnswersIts(intent)
  <2>1. now \in Instants
    BY DEF TypeOK, Instants
  <2>2. QED  BY <1>2, <2>1 DEF AnswersIts, HonestIntents
<1>4. /\ MarkerIsOfIntent' /\ PagesAreDeployed'
      /\ UNCHANGED authorization \/ authorization'.deploymentIntent = intent
  BY <1>1, <1>2, AcceptIsMarked
<1>5. NothingWasForeign'
  BY <1>1, <1>3, <1>4, HonestAnswersStay DEF HonestInv, NothingWasForeign
<1>6. journal' = None
  BY <1>1 DEF ReportInv
<1>7. QED  BY <1>4, <1>5, <1>6 DEF HonestInv, HonestIntentIsDeployed

LEMMA AuthorizeWronglyKeepsHonestInv ==
    ASSUME TypeOK, ReportInv, HonestInv, AuthorizeWrongly
    PROVE  HonestInv'
<1>1. /\ job = "authorize" /\ "answer" \in faults' /\ UNCHANGED journal
  BY DEF AuthorizeWrongly
<1>2. PICK intent : Accept(intent)
  BY DEF AuthorizeWrongly
<1>3. MarkerIsOfIntent' /\ PagesAreDeployed'
  BY <1>1, <1>2, AcceptIsMarked
<1>4. QED  BY <1>1, <1>3 DEF HonestInv, NothingWasForeign, HonestIntentIsDeployed

LEMMA DeployKeepsHonestInv ==
    ASSUME TypeOK, HonestInv, CandidatesAreRequested, AdaptersHaveOnePackage,
           EndingsAreJournals, NEW broken \in {{}, {"options"}, {"carrier"}, {"oidc"}},
           Deploy(broken)
    PROVE  HonestInv'
<1>1. /\ job = "deploy" /\ job' = "report" /\ faults' = faults \cup broken
      /\ UNCHANGED <<now, run, attempt, candidate, authorization>>
  BY DEF Deploy
<1>2. MarkerIsOfIntent' /\ PagesAreDeployed'
  BY <1>1 DEF HonestInv, MarkerIsOfIntent, PagesAreDeployed
<1>3. NothingWasForeign'
  BY <1>1, HonestAnswersStay DEF HonestInv, NothingWasForeign
<1>4. HonestIntentIsDeployed'
  <2>1. SUFFICES ASSUME faults' \cap {"answer", "options", "carrier", "oidc", "rerun"} = {},
                        now < authorization.deploymentIntent.expiresAt,
                        AdmitsItsCatalog(toolchain)
                 PROVE  journal'.attempts # <<>>
    BY <1>1, HonestAnswersStay DEF HonestIntentIsDeployed
  <2>2. broken = {} /\ faults \cap {"answer", "rerun"} = {}
    BY <1>1, <2>1
  <2>3. authorization # None
    BY <1>1 DEF TypeOK
  <2>4. HonestAuthorization
    BY <2>2, <2>3 DEF HonestInv, NothingWasForeign, MarkerIsOfIntent, HonestAuthorization
  <2>5. authorization.deploymentIntent.adapter.adapterId = "github-pages"
    BY <1>1 DEF HonestInv, PagesAreDeployed
  <2>6. StoppedAt(broken) = 0
    BY <2>1, <2>2, <2>4, <2>5, HonestDeploys
  <2>7. PICK ending \in Endings : journal' = JournalHead(0) ++ ending
    BY <2>6 DEF Deploy
  <2>8. QED  BY <2>7, EndingHasAttempts
<1>5. QED  BY <1>2, <1>3, <1>4 DEF HonestInv

LEMMA RerunAllKeepsHonestInv ==
    ASSUME TypeOK, HonestInv, RerunAll
    PROVE  HonestInv'
<1>1. /\ job' = "authorize" /\ authorization' = None /\ journal' = None
      /\ candidate' = CandidateOf(toolchain, RunnerOf(attempt'), source)
      /\ UNCHANGED run
  BY DEF RerunAll
<1>2. candidate' = CandidateOfAttempt(attempt)'
  BY <1>1 DEF run, CandidateOfAttempt
<1>3. QED
  BY <1>1, <1>2 DEF HonestInv, MarkerIsOfIntent, PagesAreDeployed, NothingWasForeign,
     HonestIntentIsDeployed

LEMMA RerunFailedKeepsHonestInv ==
    ASSUME TypeOK, ReportInv, HonestInv, RerunFailed
    PROVE  HonestInv'
<1>1. /\ authorization # None /\ "rerun" \in faults'
      /\ job' = "deploy" => authorization.deploymentIntent.adapter.adapterId # "do-spaces"
      /\ UNCHANGED authorization
  BY DEF RerunFailed
<1>2. authorization.deploymentIntent.adapter.adapterId \in {"do-spaces", "github-pages"}
  BY <1>1 DEF ReportInv, AuthorizedIsManaged, ManagedAdapters
<1>3. QED
  BY <1>1, <1>2 DEF HonestInv, MarkerIsOfIntent, PagesAreDeployed, NothingWasForeign,
     HonestIntentIsDeployed

LEMMA HonestInvHolds ==
    ASSUME CandidatesAreRequested, AdaptersHaveOnePackage, PagesIsInstalled,
           EndingsAreJournals
    PROVE  Spec => []HonestInv
<1>1. ASSUME Init PROVE HonestInv
  BY <1>1 DEF Init, HonestInv, MarkerIsOfIntent, PagesAreDeployed, NothingWasForeign,
     HonestIntentIsDeployed, CandidateOfAttempt
<1>2. ASSUME TypeOK, ReportInv, HonestInv, [Next]_vars PROVE HonestInv'
  <2>1. CASE VerifySpacesConfiguration \/ LoseJournal \/ Report \/ UNCHANGED vars
    BY <1>2, <2>1, JobKeepsHonestInv
       DEF VerifySpacesConfiguration, LoseJournal, Report, vars
  <2>2. QED
    BY <1>2, <2>1, TickKeepsHonestInv, AuthorizeKeepsHonestInv,
       AuthorizeWronglyKeepsHonestInv, DeployKeepsHonestInv, RerunAllKeepsHonestInv,
       RerunFailedKeepsHonestInv DEF Next
<1>3. QED  BY <1>1, <1>2, HandoffTypes, ReportInvHolds, PTL DEF Spec

(* A deploy job refuses nothing it could deploy: with an honest intent of  *)
(* the attempt that has not expired, and a toolchain that admits the       *)
(* versions its lock may name, every one of its checks passes and the      *)
(* kernel is entered (bindAuthorizedIntent, requireEnvelopeIntentAgreement,*)
(* requireCapabilityDecisionAgreement, requireAdapterVersionAgreement).    *)
THEOREM HonestIntentIsDeployedHolds ==
    ASSUME CandidatesAreRequested, AdaptersHaveOnePackage, PagesIsInstalled,
           EndingsAreJournals
    PROVE  Spec => []HonestIntentIsDeployed
<1>1. HonestInv => HonestIntentIsDeployed
  BY DEF HonestInv
<1>2. QED  BY <1>1, HonestInvHolds, PTL

=============================================================================
