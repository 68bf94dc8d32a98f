---------------------------- MODULE CandidateJobs ----------------------------
(***************************************************************************)
(* The jobs of a publish run up to its deployment-intent request: prep,    *)
(* build, freeze and authorize. The build renders the site outside this    *)
(* program, so its output may be the honest one, or may have a member of   *)
(* another build, a member missing or a file too many; the envelope may be *)
(* damaged once it is frozen.                                              *)
(***************************************************************************)
EXTENDS TemplateRender

CONSTANTS
    Toolchain,       \* the adapter catalog of the run
    Runner,          \* the GITHUB_* facts of its jobs
    Checkouts,       \* the sources prep may find
    OtherBuilds,     \* sources whose builds may have left a member behind
    StrayPaths,      \* paths of files a build may leave beside the site's
    StrayBytes       \* the bytes of such a file

VARIABLES
    job,             \* the next job or its next step, or how the run ended
    source,          \* what prep finds in the checkout
    inputs,          \* the verified-inputs carrier
    output,          \* the unfrozen-output carrier
    envelope,        \* the frozen envelope on the freeze runner's disk
    stored,          \* the frozen envelope as it is read back
    input,           \* the authorization input
    request,         \* the deployment-intent request
    faults           \* what went wrong outside the program

vars == <<job, source, inputs, output, envelope, stored, input, request, faults>>

None == <<>>

-----------------------------------------------------------------------------
(* What a build may leave instead of its own output.                       *)

(* A member of one build beside those of another: one document, or the     *)
(* site's own files.                                                       *)
WithMemberOf(files, others, member) ==
    IF member \in UnfrozenMetadataMembers
    THEN [files EXCEPT ![member] = others[member]]
    ELSE Restrict(files, UnfrozenMetadataMembers)
         ++ Without(others, UnfrozenMetadataMembers)

FaultyOutputs(files) ==
    {Rendered(Runner.sha, other) : other \in OtherBuilds}
    \cup {WithMemberOf(files, Rendered(Runner.sha, other), member) :
             other \in OtherBuilds, member \in UnfrozenMetadataMembers \cup {"site"}}
    \cup {Without(files, {member}) : member \in DOMAIN files}
    \cup {files ++ [path \in {stray} |-> StrayBytes] :
             stray \in StrayPaths \ DOMAIN files}

-----------------------------------------------------------------------------
(* What storage or transport may do to an envelope.                        *)

Damaged(stream) ==
    LET records == stream.records
        positions == DOMAIN records
        with(changed) == [stream EXCEPT !.records = changed]
    IN  {with(RemoveAt(records, i)) : i \in positions}
        \cup {[with(RemoveAt(records, i)) EXCEPT !.count = @ - 1] : i \in positions}
        \cup {[with(InsertAt(records, i, records[i])) EXCEPT !.count = @ + 1] :
                 i \in positions}
        \cup {with([records EXCEPT ![i] = records[i + 1], ![i + 1] = records[i]]) :
                 i \in 1 .. Len(records) - 1}
        \cup {with([records EXCEPT ![i].content = StrayBytes]) : i \in positions}
        \cup {with([records EXCEPT ![i].content = [json |-> records[i].content.jcs]]) :
                 i \in {i \in positions : Has(records[i].content, "jcs")}}
        \cup {with([records EXCEPT ![i].kind = "payload"]) : i \in positions}
        \cup {[stream EXCEPT !.tail = TRUE], [stream EXCEPT !.magic = FALSE],
              [stream EXCEPT !.count = @ + 1]}

-----------------------------------------------------------------------------
Init ==
    /\ job = "prep"
    /\ source \in Checkouts
    /\ inputs = None /\ output = None /\ envelope = None /\ stored = None
    /\ input = None /\ request = None
    /\ faults = {}

Prep ==
    /\ job = "prep"
    /\ job' = "build"
    /\ inputs' = VerifiedInputs(Runner, source.files)
    /\ UNCHANGED <<source, output, envelope, stored, input, request, faults>>

(* The build job: it renders what it decoded of the verified inputs.       *)
Build ==
    /\ job = "build"
    /\ job' = "freeze"
    /\ output' = [files |-> Rendered(Runner.sha, source)]
    /\ UNCHANGED <<source, inputs, envelope, stored, input, request, faults>>

BuildFaulty ==
    /\ job = "build"
    /\ job' = "freeze"
    /\ \E files \in FaultyOutputs(Rendered(Runner.sha, source)) : output' = [files |-> files]
    /\ faults' = faults \cup {"output"}
    /\ UNCHANGED <<source, inputs, envelope, stored, input, request>>

Freeze ==
    /\ job = "freeze"
    /\ IF Freezes(Toolchain, Runner, inputs, output)
       THEN /\ envelope' = BuildFrozenEnvelope(Runner, inputs, output)
            /\ stored' = envelope'
            /\ job' = "frozen"
       ELSE job' = "refused" /\ UNCHANGED <<envelope, stored>>
    /\ UNCHANGED <<source, inputs, output, input, request, faults>>

DamageStored ==
    /\ job = "frozen"
    /\ faults = {}
    /\ stored' \in Damaged(envelope)
    /\ faults' = faults \cup {"envelope"}
    /\ UNCHANGED <<job, source, inputs, output, envelope, input, request>>

(* The rest of the freeze job, once the envelope is uploaded: it is read   *)
(* back and compared with the digest the upload was observed under, before *)
(* anything in it is used.                                                 *)
BuildAuthorizationInput ==
    /\ job = "frozen"
    /\ IF /\ TaggedSha256(stored) = TaggedSha256(envelope)
          /\ Decodes(stored)
          /\ AuthorizationInputIsDerived(Toolchain, Runner, inputs, output, stored)
       THEN /\ input' = DeriveAuthorizationInput(Toolchain, Runner, inputs, output,
                           stored, [artifactId |-> "frozen", name |-> "frozen-envelope",
                                    retentionDays |-> source.retentionDays,
                                    expiresAt |-> "later"])
            /\ job' = "authorize"
       ELSE job' = "refused" /\ UNCHANGED input
    /\ UNCHANGED <<source, inputs, output, envelope, stored, request, faults>>

(* authorize downloads the input alone, by its digest.                     *)
Authorize ==
    /\ job = "authorize"
    /\ LET asked == BuildDeploymentIntentRequest(input)
       IN  IF RequestIsValid(asked)
           THEN request' = asked /\ job' = "requested"
           ELSE job' = "refused" /\ UNCHANGED request
    /\ UNCHANGED <<source, inputs, output, envelope, stored, input, faults>>

Next ==
    \/ Prep \/ Build \/ BuildFaulty \/ Freeze \/ DamageStored
    \/ BuildAuthorizationInput \/ Authorize

Spec == Init /\ [][Next]_vars

-----------------------------------------------------------------------------
(* What the theorems assume of an instance.                                *)

Builds == Checkouts \cup OtherBuilds
LockOf(built) == JsonMember(built.files, LockPath)

(* Bytes that are a document's canonical form are nothing else. *)
BytesAreOfOneForm == Has(StrayBytes, "jcs") => StrayBytes = JcsBytes(StrayBytes.jcs)

(* A site has files a path leads to, and none by the build's own names. *)
SitesHaveOrdinaryPaths ==
    /\ UnfrozenMetadataMembers \cap ToSet(PathOrder) = {}
    /\ \A built \in Builds :
          DOMAIN built.site \subseteq ToSet(PathOrder) \ {BuildDirectoryMarker}

(* A build's name stands for the digest of its input: one name, one build. *)
BuildsAreNamed ==
    \A built \in Builds, other \in OtherBuilds :
        built.name = other.name => Rendered(Runner.sha, built) = Rendered(Runner.sha, other)

(* npm replaces no release: a package's identity has one row of a lock, and *)
(* so has a version of a theme. The publisher's packages are a list.       *)
PackagesAreReleases ==
    \A built, other \in Builds :
        LET lock == LockOf(built)
            another == LockOf(other)
        IN  /\ lock.publisher \in Seq(ToSet(lock.publisher))
            /\ \A member \in {"schemas", "template", "theme"} :
                  Identity(lock[member]) = Identity(another[member])
                     => lock[member] = another[member]
            /\ /\ lock.theme.package = another.theme.package
               /\ lock.theme.version = another.theme.version
               => lock.theme = another.theme

-----------------------------------------------------------------------------
Jobs == {"prep", "build", "freeze", "frozen", "authorize", "requested", "refused"}

TypeOK ==
    /\ job \in Jobs
    /\ source \in Checkouts
    /\ faults \subseteq {"output", "envelope"}
    /\ envelope # None <=> job \in {"frozen", "authorize", "requested"} \/ stored # None
    /\ request # None <=> job = "requested"

(* The encoding is canonical: whatever a decoder accepts is, record by     *)
(* record, the encoding of what it answers, so an envelope has one form    *)
(* and one digest for a candidate however it was damaged on the way.       *)
AcceptedIsCanonical ==
    stored # None /\ Decodes(stored) =>
        LET answer == DecodeFrozenEnvelope(stored)
        IN  Encodes(answer) /\ EncodeFrozenEnvelope(answer) = stored

(* A request is made only for the output of one build, whole, of a source  *)
(* with the lock's packages and the publication's base: a build input, a   *)
(* theme contract, a manifest or a site left behind by another build does  *)
(* not reach Gala under this run's name.                                   *)
RequestIsOfOneBuild ==
    request # None =>
        \E built \in Checkouts \cup OtherBuilds :
            /\ Without(output.files, {BuildDirectoryMarker}) = Rendered(Runner.sha, built)
            /\ request.rebuildRecord.buildInputDigest = [buildInput |-> built.name]
            /\ request.destination.baseUrl
                  = JsonMember(built.files, PublicationPath).canonicalBase
            /\ \A i \in DOMAIN DirectPackageRows(JsonMember(inputs.files, LockPath)) :
                  LET row == DirectPackageRows(JsonMember(inputs.files, LockPath))[i]
                      member == <<"schemas", "template", "theme", "publisher">>[i]
                  IN  i <= 3 => JsonMember(built.files, LockPath)[member] = row

(* No job refuses an honest candidate: a run whose checkout has a           *)
(* well-formed lock of a managed adapter, and to which nothing happened    *)
(* outside the program, gets its request, whatever the size of the site.   *)
HonestCandidateIsRequested ==
    job = "refused" => ~source.honest \/ faults # {}
=============================================================================
