---------------------------- MODULE AdapterRelease ----------------------------
(***************************************************************************)
(* How an adapter package reaches npm, and the closed catalog that admits  *)
(* it in a lock. A maintainer bumps packages and rewrites the catalog in   *)
(* one commit; a push, or a dispatch, starts a release run, which plans    *)
(* what to publish against the registry's listing, passes the repository's *)
(* gate and publishes one package at a time, the protocol first. Runs      *)
(* overlap: only the jobs of one package exclude each other. The registry  *)
(* lists what it holds some time after it took it.                         *)
(*                                                                         *)
(* A version is its last number. The digest of a package's tarball is what *)
(* it was packed from: the version and the protocol it requires, which are *)
(* its package.json, and its files, each with the commit that wrote it.    *)
(* The first tree is commit 1; bytes 0 are what no commit has written.     *)
(*                                                                         *)
(* Source: scripts/release/{adapter-release,update-adapter-catalog,        *)
(* update-theme-catalog}.mjs and .github/workflows/release.yaml.           *)
(***************************************************************************)
EXTENDS AdapterCatalog, SequencesExt, Naturals

CONSTANTS
    ReleaseOrder,       \* RELEASE_ORDER: the packages, dependencies first
    Protocol,           \* the one of them that has no catalog row
    Files,              \* paths a package may pack besides its package.json
    Deletable,          \* bound: the packed files a commit may delete
    BeforeIsKnown,      \* FALSE: a push may have replaced the head it names as before
    MaximumCommits,     \* bound: commits
    MaximumRuns,        \* bound: release runs
    MaximumFaults       \* bound: what goes wrong at the registry, on a runner or by hand

ASSUME ReleaseAssumption ==
    /\ ReleaseOrder \in Seq(ToSet(ReleaseOrder)) /\ ReleaseOrder # <<>>
    /\ Protocol = Head(ReleaseOrder)
    /\ "package.json" \notin Files
    /\ Deletable \subseteq ToSet(ReleaseOrder) \X Files
    /\ BeforeIsKnown \in BOOLEAN
    /\ MaximumCommits \in Nat /\ MaximumRuns \in Nat /\ MaximumFaults \in Nat

VARIABLES
    commits,      \* how many commits were made
    tree,         \* the maintainer's main: manifests, catalog, fixture lock
    parent,       \* the tree before its last commit
    pushed,       \* main as the remote has it
    registry,     \* what npm holds of each package
    listed,       \* the versions `npm view` lists
    runs,         \* the release runs, oldest first
    template,     \* the catalog row of each adapter user-template pins
    faults        \* how many faults happened

source == <<commits, tree, parent, pushed, template>>
vars == <<source, registry, listed, runs, faults>>

Packages == ToSet(ReleaseOrder)
Adapters == Packages \ {Protocol}

-----------------------------------------------------------------------------
(* The catalog's rewriting.                                                *)

(* `npm pack`: deterministic, so its digest stands for what is packed. *)
PackOf(main, package) == main.manifest[package]

PackageJson == "package.json"

PackedFiles(main, package) == {PackageJson} \cup DOMAIN PackOf(main, package).files

(* What is at a path of a pack: nothing, or one text. *)
Bytes(packed, path) ==
    CASE path = PackageJson -> {<<packed.version, packed.requires>>}
      [] path \in DOMAIN packed.files -> {packed.files[path]}
      [] OTHER -> {}

CatalogRow(package, packed) ==
    [adapterId |-> package, package |-> package, version |-> packed.version,
     integrity |-> packed, registry |-> "npm", contractVersion |-> "2",
     compatibleWith |-> "^2"]

(* At most one previous row of a package is kept. *)
MovePreviousRows(main, moved) ==
    {entry \in main.previous : entry.package \notin moved}
    \cup {FindAdapterArtifact(main, package) : package \in moved}

(* A new version moves the installed row; the same one refreshes it. Each  *)
(* package's rows are its own, so the order of the packages is no matter.  *)
RewriteCatalogSource(main, updated) ==
    LET moved == {package \in updated :
            FindAdapterArtifact(main, package).version # PackOf(main, package).version}
    IN  [main EXCEPT
            !.previous = MovePreviousRows(main, moved),
            !.catalog = {entry \in @ : entry.package \notin updated}
                        \cup {CatalogRow(package, PackOf(main, package)) :
                                  package \in updated}]

(* The fixture lock follows, in a second file. *)
RewriteLockText(main, updated) ==
    [main EXCEPT !.lock = [package \in DOMAIN @ |->
        IF package \in updated THEN LockRow(CatalogRow(package, PackOf(main, package)))
        ELSE @[package]]]

-----------------------------------------------------------------------------
(* Planning.                                                               *)

ClassifyDeclaredVersion(version, published) ==
    CASE version \in published -> "published"
      [] \E newer \in published : version < newer -> "stale"
      [] OTHER -> "unpublished"

(* `git diff --name-only --no-renames`: also the paths that were deleted. *)
ChangedFiles(before, main) ==
    [package \in Packages |->
        {path \in {PackageJson} \cup Files :
            Bytes(before[package], path) # Bytes(PackOf(main, package), path)}]

(* A path counts when the new tree packs it: a deleted one does not. *)
SelectChangedPackages(changed, main) ==
    {package \in Packages : changed[package] \cap PackedFiles(main, package) # {}}

CandidatesOf(run) ==
    IF run.event = "push"
    THEN SelectChangedPackages(ChangedFiles(run.before, run.sha), run.sha)
    ELSE {run.package}

AssessPackage(main, package) ==
    ClassifyDeclaredVersion(PackOf(main, package).version, listed[package])

\* Mutant: a push of a version that is already published is only noted.
NoticePublished(event, verdict) ==
    IF verdict = "published" THEN "notice" ELSE "error"

(* The level of the annotation on a package whose version is not new. *)
DescribeNotNew(event, verdict) ==
    IF verdict = "published" /\ event = "workflow_dispatch" THEN "notice" ELSE "error"

Plan(packages, failed) == [packages |-> packages, failed |-> failed]

\* Mutant: what a push can release is released, whatever else it changed.
ReleaseWhatIsNew(run) ==
    Plan({package \in CandidatesOf(run) :
             AssessPackage(run.sha, package) = "unpublished"}, FALSE)

(* Any error, and the run releases nothing. *)
PlanReleases(run) ==
    LET verdict(package) == AssessPackage(run.sha, package)
        notNew == {package \in CandidatesOf(run) : verdict(package) # "unpublished"}
        failed == \E package \in notNew :
                     DescribeNotNew(run.event, verdict(package)) = "error"
    IN  Plan(IF failed THEN {} ELSE CandidatesOf(run) \ notNew, failed)

(* The planned packages are released in RELEASE_ORDER. *)
Follows(i, plan, at) == i > at /\ ReleaseOrder[i] \in plan

NextPlanned(plan, at) ==
    CHOOSE i \in DOMAIN ReleaseOrder :
        /\ Follows(i, plan, at)
        /\ \A k \in DOMAIN ReleaseOrder : Follows(k, plan, at) => i <= k

-----------------------------------------------------------------------------
(* The maintainer.                                                         *)

FirstManifest ==
    [package \in Packages |->
        [version |-> 1, requires |-> 1, files |-> [path \in Files |-> 1]]]
FirstRow(package) == CatalogRow(package, FirstManifest[package])

FirstTree ==
    [manifest |-> FirstManifest,
     catalog |-> {FirstRow(package) : package \in Adapters},
     previous |-> {},
     lock |-> [package \in Adapters |-> LockRow(FirstRow(package))]]

Init ==
    /\ commits = 1
    /\ tree = FirstTree /\ parent = FirstTree /\ pushed = FirstTree
    /\ registry = [package \in Packages |-> {FirstManifest[package]}]
    /\ listed = [package \in Packages |-> {1}]
    /\ runs = <<>>
    /\ template = [package \in Adapters |-> FirstRow(package)]
    /\ faults = 0

Fault == faults < MaximumFaults /\ faults' = faults + 1

(* Packed files are written and deleted, some packages that are written to *)
(* get a new version, and the catalog is rewritten, as is the lock unless  *)
(* the rewriting is interrupted.                                           *)
Commit(written, deleted, bumped, interrupted) ==
    LET In(edits, package) == {path \in Files : <<package, path>> \in edits}
        Left(package) ==
            DOMAIN tree.manifest[package].files \ In(deleted, package)
        version(package) ==
            tree.manifest[package].version + (IF package \in bumped THEN 1 ELSE 0)
        files(package) ==
            [path \in Left(package) \cup In(written, package) |->
                IF path \in In(written, package) THEN commits'
                ELSE tree.manifest[package].files[path]]
        manifest ==
            [package \in Packages |->
                IF In(written, package) = {}
                THEN [tree.manifest[package] EXCEPT !.files = files(package)]
                ELSE [version |-> version(package), requires |-> version(Protocol),
                      files |-> files(package)]]
        touched == {package \in Packages : In(written \cup deleted, package) # {}}
        cataloged == RewriteCatalogSource([tree EXCEPT !.manifest = manifest],
                                          touched \cap Adapters)
    IN  /\ touched # {} /\ written \cap deleted = {}
        /\ \A package \in Packages :
              /\ In(deleted, package) \subseteq DOMAIN tree.manifest[package].files
              /\ package \in bumped => In(written, package) # {}
        /\ commits' = commits + 1
        /\ tree' = IF interrupted THEN cataloged
                   ELSE RewriteLockText(cataloged, touched \cap Adapters)
        /\ parent' = tree
        /\ IF interrupted THEN Fault ELSE UNCHANGED faults
        /\ UNCHANGED <<pushed, registry, listed, runs, template>>

NewRun(event, package, before, sha) ==
    [event |-> event, package |-> package, before |-> before, sha |-> sha,
     step |-> "plan", plan |-> {}, at |-> 0, replaced |-> FALSE]

(* The diff is taken from the head the push replaced or, when the checkout *)
(* does not hold that commit, from the parent of the new one.              *)
Push(known) ==
    /\ tree # pushed /\ Len(runs) < MaximumRuns
    /\ known \/ ~BeforeIsKnown
    /\ pushed' = tree
    /\ LET base == IF known THEN pushed ELSE parent
       IN  runs' = Append(runs, NewRun("push", Protocol, base.manifest, tree))
    /\ UNCHANGED <<commits, tree, parent, registry, listed, template, faults>>

Dispatch(package) ==
    /\ Len(runs) < MaximumRuns
    /\ runs' = Append(runs, 
                    NewRun("workflow_dispatch", package, pushed.manifest, pushed))
    /\ UNCHANGED <<source, registry, listed, faults>>

(* The last two steps of a release, by hand: once a release is live and is *)
(* the one the catalog names, user-template pins it. External.             *)
MoveTemplate(package) ==
    LET row == FindAdapterArtifact(pushed, package)
    IN  /\ row # template[package]
        /\ row.integrity \in registry[package] /\ row.version \in listed[package]
        /\ template' = [template EXCEPT ![package] = row]
        /\ UNCHANGED <<commits, tree, parent, pushed, registry, listed, runs, faults>>

-----------------------------------------------------------------------------
(* A release run.                                                          *)

(* "unsure": the job failed although npm took the version. *)
Ended == {"green", "nothing", "failed", "unsure", "cancelled"}
Holding == {"check", "publish", "wait", "digest"}

PackageAt(r) == ReleaseOrder[runs[r].at]
IsLast(r) == \A i \in DOMAIN ReleaseOrder : ~Follows(i, runs[r].plan, runs[r].at)
ManifestAt(r) == PackOf(runs[r].sha, PackageAt(r))
Goes(r, step) == runs' = [runs EXCEPT ![r].step = step]
OnlyRuns == UNCHANGED <<source, registry, listed>>

MakePlan(r) ==
    LET plan == PlanReleases(runs[r])
    IN  /\ runs[r].step = "plan"
        /\ runs' = [runs EXCEPT ![r] =
              CASE plan.failed -> [@ EXCEPT !.step = "failed"]
                [] ~plan.failed /\ plan.packages = {} -> [@ EXCEPT !.step = "nothing"]
                [] OTHER -> [@ EXCEPT !.step = "verify", !.plan = plan.packages,
                                      !.at = NextPlanned(plan.packages, 0)]]
        /\ OnlyRuns /\ UNCHANGED faults

(* `npm run verify`: the catalog is of the bytes that would be packed, and *)
(* the fixture lock is admitted by it. External.                           *)
Gate(main) ==
    /\ \A package \in Adapters :
          FindAdapterArtifact(main, package) = CatalogRow(package, PackOf(main, package))
    /\ \A package \in Adapters : AdmitsAdapterRow(main, main.lock[package])

Verify(r) ==
    /\ runs[r].step = "verify"
    /\ Goes(r, IF Gate(runs[r].sha) THEN "queue" ELSE "failed")
    /\ OnlyRuns /\ UNCHANGED faults

(* The concurrency group of a package: one job runs, and a job that has to *)
(* wait for it replaces another one that was waiting. External.            *)
InGroup(package, steps) ==
    {r \in DOMAIN runs : runs[r].step \in steps /\ PackageAt(r) = package}

(* The run of a job that was replaced ends cancelled. Whether it goes on   *)
(* with its next package is not said: fail-fast is about jobs that failed. *)
Replaced(r, goesOn) ==
    IF goesOn /\ ~IsLast(r)
    THEN [runs[r] EXCEPT !.replaced = TRUE, !.step = "queue",
                         !.at = NextPlanned(runs[r].plan, runs[r].at)]
    ELSE [runs[r] EXCEPT !.replaced = TRUE, !.step = "cancelled"]

StartJob(r) ==
    /\ \/ runs[r].step = "queue"
       \/ runs[r].step = "pending" /\ InGroup(PackageAt(r), Holding) = {}
    /\ \E goesOn \in BOOLEAN :
          runs' = [other \in DOMAIN runs |->
             CASE other = r ->
                     [runs[r] EXCEPT !.step =
                        IF InGroup(PackageAt(r), Holding) = {} THEN "check" ELSE "pending"]
               [] other # r /\ other \in InGroup(PackageAt(r), {"pending"}) ->
                     Replaced(other, goesOn)
               [] OTHER -> runs[other]]
    /\ OnlyRuns /\ UNCHANGED faults

\* Mutant: the job relies on the plan.
ReliesOnThePlan(r) == "unpublished"

Recheck(r) == AssessPackage(runs[r].sha, PackageAt(r))

Check(r) ==
    /\ runs[r].step = "check"
    /\ Goes(r, IF Recheck(r) = "unpublished" THEN "publish" ELSE "failed")
    /\ OnlyRuns /\ UNCHANGED faults

(* A runner or the registry fails a job before it publishes. *)
FailJob(r) ==
    /\ runs[r].step \in {"plan", "verify", "check", "publish"}
    /\ Fault
    /\ Goes(r, "failed")
    /\ OnlyRuns

(* npm takes a version once. What it stores may be other bytes, and its    *)
(* answer may be lost. External.                                           *)
OtherBytes(packed) == [packed EXCEPT !.files = [path \in Files |-> 0]]

Holds(package, version) == \E entry \in registry[package] : entry.version = version

Accept(r, stored) ==
    registry' = [registry EXCEPT ![PackageAt(r)] = @ \cup {stored}]

Publish(r) ==
    /\ runs[r].step = "publish"
    /\ IF Holds(PackageAt(r), ManifestAt(r).version)
       THEN Goes(r, "failed") /\ UNCHANGED <<registry, faults>>
       ELSE \/ Accept(r, ManifestAt(r)) /\ Goes(r, "wait") /\ UNCHANGED faults
            \/ Accept(r, ManifestAt(r)) /\ Goes(r, "unsure") /\ Fault
            \/ Accept(r, OtherBytes(ManifestAt(r))) /\ Goes(r, "wait") /\ Fault
    /\ UNCHANGED <<source, listed>>

List(package, version) ==
    /\ Holds(package, version) /\ version \notin listed[package]
    /\ listed' = [listed EXCEPT ![package] = @ \cup {version}]
    /\ UNCHANGED <<source, registry, runs, faults>>

(* Twenty looks, and the job gives up. *)
Wait(r) ==
    /\ runs[r].step = "wait"
    /\ IF ManifestAt(r).version \in listed[PackageAt(r)]
       THEN Goes(r, "digest") /\ UNCHANGED faults
       ELSE Goes(r, "unsure") /\ Fault
    /\ OnlyRuns

(* The registry's tarball is compared with the reviewed bytes. A failure   *)
(* stops the packages that have not started.                               *)
DigestAgrees(r) == ManifestAt(r) \in registry[PackageAt(r)]

RecordRegistryDigest(r) ==
    /\ runs[r].step = "digest"
    /\ runs' = [runs EXCEPT ![r] =
          CASE ~DigestAgrees(r) -> [@ EXCEPT !.step = "failed"]
            [] DigestAgrees(r) /\ IsLast(r) ->
                  [@ EXCEPT !.step = IF runs[r].replaced THEN "cancelled" ELSE "green"]
            [] OTHER -> [@ EXCEPT !.step = "queue",
                                  !.at = NextPlanned(runs[r].plan, runs[r].at)]]
    /\ OnlyRuns /\ UNCHANGED faults

RunStep(r) ==
    \/ MakePlan(r) \/ Verify(r) \/ StartJob(r) \/ Check(r) \/ FailJob(r)
    \/ Publish(r) \/ Wait(r) \/ RecordRegistryDigest(r)

Next ==
    \/ /\ commits < MaximumCommits
       /\ \E written \in SUBSET (Packages \X Files), deleted \in SUBSET Deletable :
             \E bumped \in SUBSET Packages : \E interrupted \in BOOLEAN :
                Commit(written, deleted, bumped, interrupted)
    \/ \E known \in BOOLEAN : Push(known)
    \/ \E package \in Packages : Dispatch(package)
    \/ \E package \in Adapters : MoveTemplate(package)
    \/ \E r \in DOMAIN runs : RunStep(r)
    \/ \E package \in Packages : \E entry \in registry[package] :
          List(package, entry.version)

Spec == Init /\ [][Next]_vars

-----------------------------------------------------------------------------
AllGreen == \A r \in DOMAIN runs : runs[r].step \in {"green", "nothing"}

(* A tarball has all that a pack has, of one version; it may have files    *)
(* that were deleted since.                                                *)
Carries(held, packed) ==
    /\ held.version = packed.version /\ held.requires = packed.requires
    /\ \A path \in DOMAIN packed.files :
          path \in DOMAIN held.files /\ held.files[path] = packed.files[path]

IsCarried(package, packed) == \E held \in registry[package] : Carries(held, packed)

(* What was written of a packed path is never skipped silently: when every *)
(* release run ended well, npm holds all that main packs and all that the  *)
(* catalog admits, next to the protocol it needs. Whatever overlapped, was *)
(* cancelled, lost or listed late has left a run that says so              *)
(* (planReleases, `check`, and the jobs of release.yaml).                  *)
GreenMainIsReleased ==
    AllGreen =>
        /\ \A package \in Packages : IsCarried(package, PackOf(pushed, package))
        /\ \A row \in pushed.catalog : IsCarried(row.package, row.integrity)
        /\ \A package \in Adapters :
              \E entry \in registry[Protocol] :
                 entry.version >= PackOf(pushed, package).requires

(* What the header of adapter-release.mjs says: a push that changes a      *)
(* packed path is never skipped silently. One that only deletes packed     *)
(* paths is, and main is not what npm holds.                               *)
NothingIsSkipped ==
    AllGreen =>
        \A package \in Packages : PackOf(pushed, package) \in registry[package]

(* A run that publishes, from a push, publishes what the push wrote: its   *)
(* plan is the packages of which the tree before does not carry the new    *)
(* pack, and the ones before this one are on npm, unless a job of the run  *)
(* was replaced. A half-bumped push releases nothing.                      *)
PushIsReleasedWhole ==
    [][\A r \in DOMAIN runs :
          runs[r].step = "publish" /\ registry' # registry /\ runs'[r] # runs[r]
          /\ runs[r].event = "push"
          => /\ \A package \in Packages :
                   package \in runs[r].plan <=>
                      ~Carries(runs[r].before[package], PackOf(runs[r].sha, package))
             /\ \/ runs[r].replaced
                \/ \A i \in 1 .. runs[r].at - 1 :
                      ReleaseOrder[i] \in runs[r].plan =>
                         PackOf(runs[r].sha, ReleaseOrder[i]) \in registry[ReleaseOrder[i]]]_vars

(* A version is published over no newer one, in whatever order the runs of *)
(* a package get to it, as long as no job of it ended before npm listed    *)
(* what it took (the check after the wait for an earlier run).             *)
VersionsGoUp ==
    [][\A package \in Packages :
          InGroup(package, {"unsure"}) # {}
          \/ \A entry \in registry'[package] \ registry[package] :
                \A old \in registry[package] : old.version < entry.version]_vars

(* What rewriteCatalogSource says of a new version: the installed row is   *)
(* moved, so that a lock that pins the release before keeps publishing.    *)
(* Said here of user-template's lock, up to the second release after it.   *)
TemplateIsAdmitted ==
    AllGreen => \A package \in Adapters :
        FindAdapterArtifact(pushed, package).version <= template[package].version + 1
        => AdmitsAdapterRow(pushed, LockRow(template[package]))
=============================================================================
