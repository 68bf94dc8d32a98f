------------------------- MODULE AdapterReleaseProofs -------------------------
(***************************************************************************)
(* The release of the adapters, for every list of packages and every bound *)
(* on commits, runs and faults: a green main is released, a push is        *)
(* released whole or not at all, and the versions of a package go up.      *)
(*                                                                         *)
(* The runs overlap freely, so the invariant is about all of them. What a  *)
(* run's record says of the registry (RunInv) only becomes truer as the    *)
(* registry grows. Whatever main packs and npm does not carry is owed by a *)
(* run that the diff of its push selected it for (Owed). And at most one   *)
(* job of a package holds its group (Alone), which is why the version that *)
(* npm has taken and does not list yet is known to the job that waits for  *)
(* it (Listed).                                                            *)
(***************************************************************************)
EXTENDS AdapterRelease, SequenceTheorems, WellFoundedInduction, TLAPS

-----------------------------------------------------------------------------
(* Types *)

FilesOf == UNION {[paths -> Nat] : paths \in SUBSET Files}
Manifests == [version : Nat, requires : Nat, files : FilesOf]
Rows == {CatalogRow(package, packed) : package \in Adapters, packed \in Manifests}
LockRows == {LockRow(row) : row \in Rows}
Trees ==
    [manifest : [Packages -> Manifests], catalog : SUBSET Rows,
     previous : SUBSET Rows, lock : [Adapters -> LockRows]]

\* The steps in which a run is at one of its packages.
Placed == {"verify", "queue", "pending", "check", "publish", "wait", "digest",
           "unsure", "green", "cancelled"}
Steps == Placed \cup {"plan", "nothing", "failed"}

RunRecords ==
    [event : {"push", "workflow_dispatch"}, package : Packages,
     before : [Packages -> Manifests], sha : Trees, step : Steps,
     plan : SUBSET Packages, at : Nat, replaced : BOOLEAN]

Types ==
    /\ commits \in Nat
    /\ tree \in Trees /\ parent \in Trees /\ pushed \in Trees
    /\ registry \in [Packages -> SUBSET Manifests]
    /\ listed \in [Packages -> SUBSET Nat]
    /\ runs \in Seq(RunRecords)

-----------------------------------------------------------------------------
(* The invariant *)

\* What the rewriting of the catalog leaves, and what a commit packs: a row of
\* each adapter's own bytes, and no need of a protocol that is not there.
Catalogued(main) ==
    /\ main.catalog = {CatalogRow(package, PackOf(main, package)) :
                          package \in Adapters}
    /\ \A package \in Packages :
          PackOf(main, package).requires <= PackOf(main, Protocol).version

\* The packages that the diff of a push selects.
Selected(run) ==
    SelectChangedPackages(ChangedFiles(run.before, run.sha), run.sha)

\* A run plans the whole of its push or nothing, and has released what comes
\* before the package it is at, unless one of its jobs was replaced.
RunInv(run) ==
    /\ run.step = "plan" => run.plan = {} /\ run.at = 0
    /\ run.step \in Placed =>
          run.at \in DOMAIN ReleaseOrder /\ ReleaseOrder[run.at] \in run.plan
    /\ run.event = "push" /\ run.plan # {} => run.plan = Selected(run)
    /\ run.event = "push" /\ run.step = "nothing" => Selected(run) = {}
    /\ run.step = "green" => ~run.replaced
    /\ ~run.replaced =>
          \A i \in DOMAIN ReleaseOrder :
             ReleaseOrder[i] \in run.plan /\ (i < run.at \/ run.step = "green") =>
                PackOf(run.sha, ReleaseOrder[i]) \in registry[ReleaseOrder[i]]

\* What main packs and npm does not carry, the diff of some push has selected.
Owed ==
    \A package \in Packages :
        \/ IsCarried(package, PackOf(pushed, package))
        \/ \E r \in DOMAIN runs :
              /\ runs[r].event = "push" /\ package \in Selected(runs[r])
              /\ Carries(PackOf(runs[r].sha, package), PackOf(pushed, package))

\* One job of a package at a time.
Alone ==
    \A r, q \in DOMAIN runs :
        /\ runs[r].step \in Holding /\ runs[q].step \in Holding
        /\ PackageAt(r) = PackageAt(q)
        => r = q

\* What npm does not list yet, a job waits for or has ended unsure of.
Listed ==
    \A package \in Packages : \A entry \in registry[package] :
        \/ entry.version \in listed[package]
        \/ \E r \in DOMAIN runs :
              /\ runs[r].step \in {"wait", "unsure"}
              /\ PackageAt(r) = package
              /\ ManifestAt(r).version = entry.version

\* A job about to publish is ahead of all that npm has.
Checked ==
    \A r \in DOMAIN runs :
        runs[r].step = "publish" =>
            \/ InGroup(PackageAt(r), {"unsure"}) # {}
            \/ \A entry \in registry[PackageAt(r)] :
                  entry.version < ManifestAt(r).version

Runs == \A r \in DOMAIN runs : RunInv(runs[r])

IInv ==
    /\ Types
    /\ Catalogued(tree) /\ Catalogued(pushed)
    /\ Runs
    /\ BeforeIsKnown => Owed
    /\ Alone /\ Listed /\ Checked

-----------------------------------------------------------------------------
(* The order of the packages *)

LEMMA Order ==
  /\ DOMAIN ReleaseOrder = 1 .. Len(ReleaseOrder) /\ Len(ReleaseOrder) \in Nat
  /\ \A i \in DOMAIN ReleaseOrder : i \in Nat /\ i > 0 /\ ReleaseOrder[i] \in Packages
  /\ \A package \in Packages : \E i \in DOMAIN ReleaseOrder : ReleaseOrder[i] = package
  /\ Protocol \in Packages
<1>1. DOMAIN ReleaseOrder = 1 .. Len(ReleaseOrder) /\ Len(ReleaseOrder) \in Nat
  BY ReleaseAssumption
<1>2. \A package : package \in Packages
                   <=> \E i \in DOMAIN ReleaseOrder : ReleaseOrder[i] = package
  BY DEF Packages, ToSet
<1>3. Len(ReleaseOrder) > 0 /\ Protocol = ReleaseOrder[1]
  BY <1>1, ReleaseAssumption, EmptySeq
<1> QED
  BY <1>1, <1>2, <1>3

\* A non-empty set of natural numbers has a least member.
LEMMA LeastMember ==
  ASSUME NEW I \in SUBSET Nat, I # {}
  PROVE  \E i \in I : \A k \in I : i <= k
<1> DEFINE less == {pair \in Nat \X Nat : pair[1] < pair[2]}
<1>1. IsWellFoundedOn(less, Nat)
  BY NatLessThanWellFounded DEF OpToRel
<1>2. \A x, y \in Nat : y < x => <<y, x>> \in less
  OBVIOUS
<1> HIDE DEF less
<1>3. PICK x \in I : \A y \in I : ~(<<y, x>> \in less)
  BY <1>1, WFMin
<1>4. ASSUME NEW y \in I PROVE x <= y
  <2>1. x \in Nat /\ y \in Nat
    OBVIOUS
  <2>2. ~(y < x)
    BY <1>2, <1>3, <2>1
  <2> QED
    BY <2>1, <2>2
<1> QED
  BY <1>4

\* The next planned package is planned, and none of the plan is skipped.
LEMMA NextIsPlanned ==
  ASSUME NEW plan, NEW at \in Nat,
         NEW j \in DOMAIN ReleaseOrder, Follows(j, plan, at)
  PROVE  /\ NextPlanned(plan, at) \in DOMAIN ReleaseOrder
         /\ Follows(NextPlanned(plan, at), plan, at)
         /\ \A k \in DOMAIN ReleaseOrder :
               Follows(k, plan, at) => NextPlanned(plan, at) <= k
<1> DEFINE I == {i \in DOMAIN ReleaseOrder : Follows(i, plan, at)}
<1>1. I \in SUBSET Nat /\ I # {}
  BY Order
<1>2. \E i \in I : \A k \in I : i <= k
  BY <1>1, LeastMember
<1>3. \E i \in DOMAIN ReleaseOrder :
         /\ Follows(i, plan, at)
         /\ \A k \in DOMAIN ReleaseOrder : Follows(k, plan, at) => i <= k
  BY <1>2
<1> QED
  BY <1>3 DEF NextPlanned

-----------------------------------------------------------------------------
(* What a diff selects *)

\* A package is not selected when all that the new tree packs of it, the tree
\* before had: whatever else that tree had is in the diff and not in the pack.
LEMMA Selection ==
  ASSUME NEW before \in [Packages -> Manifests], NEW main \in Trees,
         NEW package \in Packages
  PROVE  package \in SelectChangedPackages(ChangedFiles(before, main), main)
            <=> ~Carries(before[package], PackOf(main, package))
<1> DEFINE old == before[package]
           new == PackOf(main, package)
           changed == {path \in {PackageJson} \cup Files :
                          Bytes(old, path) # Bytes(new, path)}
<1>1. old \in Manifests /\ new \in Manifests
  BY DEF Trees, PackOf
<1>2. DOMAIN old.files \subseteq Files /\ DOMAIN new.files \subseteq Files
  BY <1>1 DEF Manifests, FilesOf
<1>3. PackageJson \notin Files
  BY ReleaseAssumption DEF PackageJson
<1>4. package \in SelectChangedPackages(ChangedFiles(before, main), main)
         <=> \E path \in {PackageJson} \cup DOMAIN new.files : path \in changed
  BY DEF SelectChangedPackages, ChangedFiles, PackedFiles
<1> HIDE DEF old, new
<1>5. PackageJson \in changed
         <=> old.version # new.version \/ old.requires # new.requires
  <2>1. /\ Bytes(old, PackageJson) = {<<old.version, old.requires>>}
        /\ Bytes(new, PackageJson) = {<<new.version, new.requires>>}
    BY <1>2, <1>3 DEF Bytes
  <2>2. Bytes(old, PackageJson) = Bytes(new, PackageJson)
           <=> <<old.version, old.requires>> = <<new.version, new.requires>>
    BY <2>1
  <2> QED
    BY <2>2
<1>6. ASSUME NEW path \in DOMAIN new.files
      PROVE  path \in changed
                <=> ~(path \in DOMAIN old.files /\ old.files[path] = new.files[path])
  <2>1. path \in Files /\ path # PackageJson
    BY <1>2, <1>3
  <2>2. Bytes(new, path) = {new.files[path]}
    BY <2>1 DEF Bytes
  <2>3. CASE path \in DOMAIN old.files
    <3>1. Bytes(old, path) = {old.files[path]}
      BY <2>1, <2>3 DEF Bytes
    <3> QED
      BY <2>1, <2>2, <2>3, <3>1
  <2>4. CASE path \notin DOMAIN old.files
    <3>1. Bytes(old, path) = {}
      BY <2>1, <2>4 DEF Bytes
    <3> QED
      BY <2>1, <2>2, <2>4, <3>1
  <2> QED
    BY <2>3, <2>4
<1> HIDE DEF changed
<1>7. (\E path \in {PackageJson} \cup DOMAIN new.files : path \in changed)
         <=> ~Carries(old, new)
  BY <1>5, <1>6 DEF Carries
<1> QED
  BY <1>4, <1>7 DEF old, new

\* A tarball that has all a pack has, has all that a part of that pack has.
LEMMA CarriesOrder ==
  /\ \A packed : Carries(packed, packed)
  /\ \A held, packed, left :
        Carries(held, packed) /\ Carries(packed, left) => Carries(held, left)
BY DEF Carries

-----------------------------------------------------------------------------
(* One run moves *)

\* Run r becomes another record, and the other runs stay as they are.
Becomes(r, new) ==
    /\ runs' \in Seq(RunRecords)
    /\ DOMAIN runs' = DOMAIN runs
    /\ runs'[r] = new
    /\ \A q \in DOMAIN runs : q # r => runs'[q] = runs[q]

LEMMA ReplacedBecomes ==
  ASSUME Types, NEW r \in DOMAIN runs, NEW new \in RunRecords,
         runs' = [runs EXCEPT ![r] = new]
  PROVE  Becomes(r, new)
<1>1. runs \in Seq(RunRecords)
  BY DEF Types
<1>2. runs' \in Seq(RunRecords)
  BY <1>1, ExceptSeq
<1> QED
  BY <1>1, <1>2 DEF Becomes

\* A record with another step has the other fields of the record.
LEMMA OtherStep ==
  ASSUME NEW run \in RunRecords, NEW step \in Steps
  PROVE  LET new == [run EXCEPT !.step = step]
         IN  /\ new \in RunRecords /\ new.step = step
             /\ new.event = run.event /\ Selected(new) = Selected(run)
             /\ new.sha = run.sha /\ new.plan = run.plan /\ new.at = run.at
             /\ new.replaced = run.replaced
<1> DEFINE new == [run EXCEPT !.step = step]
<1>1. /\ new \in RunRecords /\ new.step = step /\ new.before = run.before
      /\ new.event = run.event /\ new.sha = run.sha
      /\ new.plan = run.plan /\ new.at = run.at /\ new.replaced = run.replaced
  BY DEF RunRecords
<1> HIDE DEF new
<1>2. Selected(new) = Selected(run)
  BY <1>1 DEF Selected
<1> QED
  BY <1>1, <1>2 DEF new

LEMMA GoesBecomes ==
  ASSUME Types, NEW r \in DOMAIN runs, NEW step \in Steps, Goes(r, step)
  PROVE  Becomes(r, [runs[r] EXCEPT !.step = step])
<1>1. runs[r] \in RunRecords
  BY DEF Types
<1>2. [runs[r] EXCEPT !.step = step] \in RunRecords
  BY <1>1, OtherStep
<1>3. runs' = [runs EXCEPT ![r] = [runs[r] EXCEPT !.step = step]]
  BY DEF Goes, Types
<1> QED
  BY <1>2, <1>3, ReplacedBecomes

\* What npm holds, it keeps.
RegistryGrows ==
    \A package \in Packages : registry[package] \subseteq registry'[package]

\* A run that goes to another step of its package, or fails, says no more.
LEMMA StepKeepsRunInv ==
  ASSUME NEW run \in RunRecords, RunInv(run), NEW step \in Steps,
         \/ step = "failed"
         \/ run.step \in Placed /\ step \in Placed \ {"green"}
  PROVE  RunInv([run EXCEPT !.step = step])
<1> DEFINE new == [run EXCEPT !.step = step]
<1>1. /\ new.step = step /\ new.event = run.event /\ Selected(new) = Selected(run)
      /\ new.sha = run.sha /\ new.plan = run.plan /\ new.at = run.at
      /\ new.replaced = run.replaced
  BY OtherStep
<1>2. step # "plan" /\ step # "green" /\ step # "nothing"
  BY DEF Placed
<1> HIDE DEF new
<1>3. step \in Placed => run.step \in Placed
  BY DEF Placed
<1>4. RunInv(new)
  BY <1>1, <1>2, <1>3 DEF RunInv
<1> QED
  BY <1>4 DEF new

LEMMA BecomesKeepsRuns ==
  ASSUME Types, Runs, RegistryGrows, NEW r \in DOMAIN runs, NEW new,
         Becomes(r, new), RunInv(new)
  PROVE  Runs'
<1>1. \A q \in DOMAIN runs' : RunInv(runs'[q])
  BY DEF Runs, Becomes
<1>2. ASSUME NEW q \in DOMAIN runs' PROVE RunInv(runs[q])'
  <2>1. RunInv(runs'[q])
    BY <1>1
  <2> QED
    BY <2>1, Order DEF RunInv, RegistryGrows
<1> QED
  BY <1>2 DEF Runs

-----------------------------------------------------------------------------
(* The jobs of one package *)

\* As long as nobody newly holds a group, a group is held by one.
LEMMA AloneKept ==
  ASSUME Alone, DOMAIN runs' = DOMAIN runs,
         \A q \in DOMAIN runs :
            runs'[q].step \in Holding =>
               runs[q].step \in Holding /\ runs'[q].at = runs[q].at
  PROVE  Alone'
  BY DEF Alone, PackageAt

\* A run's step is of no matter to the listing and the checks, unless it ends
\* a wait or begins to publish.
LEMMA GroupsKept ==
  ASSUME Listed, Checked, DOMAIN runs' = DOMAIN runs,
         UNCHANGED <<registry, listed>>,
         \A q \in DOMAIN runs :
            \/ runs'[q] = runs[q]
            \/ /\ runs[q].step \notin {"wait", "unsure"}
               /\ runs'[q].step # "publish"
  PROVE  Listed' /\ Checked'
<1>1. Listed'
  <2>1. SUFFICES ASSUME NEW package \in Packages, NEW entry \in registry[package],
                        entry.version \notin listed[package]
                 PROVE  \E r \in DOMAIN runs' :
                           /\ runs'[r].step \in {"wait", "unsure"}
                           /\ PackageAt(r)' = package
                           /\ ManifestAt(r)'.version = entry.version
    BY DEF Listed
  <2>2. PICK r \in DOMAIN runs :
           /\ runs[r].step \in {"wait", "unsure"}
           /\ PackageAt(r) = package
           /\ ManifestAt(r).version = entry.version
    BY <2>1 DEF Listed
  <2>3. runs'[r] = runs[r]
    BY <2>2
  <2> QED
    BY <2>2, <2>3 DEF PackageAt, ManifestAt, PackOf
<1>2. Checked'
  <2>1. SUFFICES ASSUME NEW r \in DOMAIN runs', runs'[r].step = "publish"
                 PROVE  \/ InGroup(PackageAt(r), {"unsure"})' # {}
                        \/ \A entry \in registry'[PackageAt(r)'] :
                              entry.version < ManifestAt(r)'.version
    BY DEF Checked
  <2>2. runs'[r] = runs[r] /\ r \in DOMAIN runs
    BY <2>1
  <2>3. PackageAt(r)' = PackageAt(r) /\ ManifestAt(r)' = ManifestAt(r)
    BY <2>2 DEF PackageAt, ManifestAt, PackOf
  <2>4. CASE \A entry \in registry[PackageAt(r)] :
                entry.version < ManifestAt(r).version
    BY <2>3, <2>4
  <2>5. CASE InGroup(PackageAt(r), {"unsure"}) # {}
    <3>1. PICK q \in DOMAIN runs :
             runs[q].step = "unsure" /\ PackageAt(q) = PackageAt(r)
      BY <2>5 DEF InGroup
    <3>2. runs'[q] = runs[q]
      BY <3>1
    <3> QED
      BY <2>3, <3>1, <3>2 DEF InGroup, PackageAt
  <2> QED
    BY <2>1, <2>2, <2>4, <2>5 DEF Checked
<1> QED
  BY <1>1, <1>2

\* A run that does not hold its group, or goes on holding it, that neither ends
\* a wait nor begins to publish, keeps the invariant.
LEMMA QuietStepKeepsIInv ==
  ASSUME IInv, UNCHANGED <<source, registry, listed>>,
         NEW r \in DOMAIN runs, NEW new, Becomes(r, new), RunInv(new),
         new.event = runs[r].event, Selected(new) = Selected(runs[r]),
         new.sha = runs[r].sha,
         runs[r].step \notin {"wait", "unsure"}, new.step # "publish",
         new.step \in Holding =>
            runs[r].step \in Holding /\ new.at = runs[r].at
  PROVE  IInv'
<1>1. DOMAIN runs' = DOMAIN runs /\ RegistryGrows
  BY DEF Becomes, RegistryGrows
<1>2. Runs'
  BY <1>1, BecomesKeepsRuns DEF IInv
<1>3. Alone'
  BY <1>1, AloneKept DEF IInv, Becomes
<1>4. Listed' /\ Checked'
  BY <1>1, GroupsKept DEF IInv, Becomes
<1>5. Types' /\ Catalogued(tree)' /\ Catalogued(pushed)'
  BY DEF IInv, Types, Catalogued, source, Becomes, PackOf
<1>6. BeforeIsKnown => Owed'
  BY DEF IInv, Owed, IsCarried, source, Becomes, PackOf
<1> QED
  BY <1>2, <1>3, <1>4, <1>5, <1>6 DEF IInv

-----------------------------------------------------------------------------
(* The steps of a run *)

\* A push of which anything is not new fails: it plans all it changed, or
\* nothing.
LEMMA PushPlansAll ==
  ASSUME NEW run \in RunRecords, run.event = "push", ~PlanReleases(run).failed
  PROVE  PlanReleases(run).packages = Selected(run)
<1> DEFINE notNew == {package \in CandidatesOf(run) :
                         AssessPackage(run.sha, package) # "unpublished"}
<1>1. CandidatesOf(run) = Selected(run)
  BY DEF CandidatesOf, Selected
<1>2. PlanReleases(run).failed =
        \E package \in notNew :
           DescribeNotNew(run.event, AssessPackage(run.sha, package)) = "error"
  BY DEF PlanReleases, Plan
<1>3. notNew = {}
  BY <1>2 DEF DescribeNotNew
<1>4. PlanReleases(run).packages = CandidatesOf(run) \ notNew
  BY <1>2, <1>3 DEF PlanReleases, Plan
<1> QED
  BY <1>1, <1>3, <1>4

LEMMA PlanIsOfPackages ==
  ASSUME NEW run \in RunRecords
  PROVE  PlanReleases(run).packages \subseteq Packages
<1>1. CandidatesOf(run) \subseteq Packages
  BY DEF CandidatesOf, SelectChangedPackages, RunRecords
<1> QED
  BY <1>1 DEF PlanReleases, Plan

LEMMA MakePlanKeepsIInv ==
  ASSUME IInv, NEW r \in DOMAIN runs, MakePlan(r)
  PROVE  IInv'
<1> DEFINE run == runs[r]
           plan == PlanReleases(run)
           placed == [run EXCEPT !.step = "verify", !.plan = plan.packages,
                                 !.at = NextPlanned(plan.packages, 0)]
<1>1. run \in RunRecords /\ RunInv(run) /\ Types
  BY DEF IInv, Runs, Types
<1>2. /\ run.step = "plan" /\ run.plan = {} /\ run.at = 0
      /\ UNCHANGED <<source, registry, listed>>
  BY <1>1 DEF MakePlan, RunInv, OnlyRuns
<1>3. runs' = [runs EXCEPT ![r] =
         CASE plan.failed -> [run EXCEPT !.step = "failed"]
           [] ~plan.failed /\ plan.packages = {} -> [run EXCEPT !.step = "nothing"]
           [] OTHER -> placed]
  BY DEF MakePlan
<1>4. CASE plan.failed
  <2> DEFINE new == [run EXCEPT !.step = "failed"]
  <2>1. /\ new \in RunRecords /\ new.step = "failed" /\ new.event = run.event
        /\ Selected(new) = Selected(run) /\ new.sha = run.sha
    BY <1>1, OtherStep DEF Steps
  <2>2. RunInv(new)
    BY <1>1, StepKeepsRunInv DEF Steps
  <2>3. runs' = [runs EXCEPT ![r] = new]
    BY <1>3, <1>4
  <2>4. Becomes(r, new)
    BY <1>1, <2>1, <2>3, ReplacedBecomes
  <2> HIDE DEF new
  <2> QED
    BY <1>2, <2>1, <2>2, <2>4, QuietStepKeepsIInv DEF Holding
<1>5. CASE ~plan.failed /\ plan.packages = {}
  <2> DEFINE new == [run EXCEPT !.step = "nothing"]
  <2>1. /\ new \in RunRecords /\ new.step = "nothing" /\ new.event = run.event
        /\ Selected(new) = Selected(run) /\ new.sha = run.sha
        /\ new.plan = run.plan /\ new.at = run.at
    BY <1>1, OtherStep DEF Steps
  <2>2. run.event = "push" => Selected(run) = {}
    BY <1>1, <1>5, PushPlansAll
  <2>3. runs' = [runs EXCEPT ![r] = new]
    BY <1>3, <1>5
  <2>4. Becomes(r, new)
    BY <1>1, <2>1, <2>3, ReplacedBecomes
  <2> HIDE DEF new
  <2>5. RunInv(new)
    BY <1>2, <2>1, <2>2 DEF RunInv, Placed
  <2> QED
    BY <1>2, <2>1, <2>4, <2>5, QuietStepKeepsIInv DEF Holding
<1>6. CASE ~plan.failed /\ plan.packages # {}
  <2>1. plan.packages \subseteq Packages
    BY <1>1, PlanIsOfPackages
  <2>2. PICK j \in DOMAIN ReleaseOrder : ReleaseOrder[j] \in plan.packages
    BY <1>6, <2>1, Order
  <2>3. Follows(j, plan.packages, 0)
    BY <2>2, Order DEF Follows
  <2> DEFINE at == NextPlanned(plan.packages, 0)
  <2>4. /\ at \in DOMAIN ReleaseOrder /\ Follows(at, plan.packages, 0)
        /\ \A k \in DOMAIN ReleaseOrder : Follows(k, plan.packages, 0) => at <= k
    BY <2>3, NextIsPlanned
  <2>5. at \in Nat /\ ReleaseOrder[at] \in plan.packages
    BY <2>4, Order DEF Follows
  <2> HIDE DEF at
  <2>6. /\ placed \in RunRecords /\ placed.step = "verify"
        /\ placed.event = run.event /\ placed.before = run.before
        /\ placed.sha = run.sha /\ placed.plan = plan.packages /\ placed.at = at
    BY <1>1, <2>1, <2>5 DEF RunRecords, Steps, Placed, at
  <2>7. run.event = "push" => plan.packages = Selected(run)
    BY <1>1, <1>6, PushPlansAll
  <2>8. runs' = [runs EXCEPT ![r] = placed]
    BY <1>3, <1>6
  <2>9. Becomes(r, placed)
    BY <1>1, <2>6, <2>8, ReplacedBecomes
  <2> HIDE DEF placed
  <2>10. Selected(placed) = Selected(run)
    BY <2>6 DEF Selected
  <2>11. \A i \in DOMAIN ReleaseOrder :
            ReleaseOrder[i] \in plan.packages => ~(i < at)
    BY <2>4, <2>5, Order DEF Follows
  <2>12. RunInv(placed)
    BY <2>4, <2>5, <2>6, <2>7, <2>11, <2>10 DEF RunInv, Placed
  <2> QED
    BY <1>2, <2>6, <2>9, <2>12, <2>10, QuietStepKeepsIInv DEF Holding
<1> QED
  BY <1>4, <1>5, <1>6

\* The steps that change nothing but a run's own.
LEMMA GoesKeepsIInv ==
  ASSUME IInv, UNCHANGED <<source, registry, listed>>,
         NEW r \in DOMAIN runs, NEW step \in Steps, Goes(r, step),
         \/ step = "failed"
         \/ runs[r].step \in Placed /\ step \in Placed \ {"green", "publish"},
         runs[r].step \notin {"wait", "unsure"},
         step \in Holding => runs[r].step \in Holding
  PROVE  IInv'
<1> DEFINE new == [runs[r] EXCEPT !.step = step]
<1>1. runs[r] \in RunRecords /\ RunInv(runs[r]) /\ Types
  BY DEF IInv, Runs, Types
<1>2. /\ new.step = step /\ new.event = runs[r].event /\ new.at = runs[r].at
      /\ Selected(new) = Selected(runs[r]) /\ new.sha = runs[r].sha
  BY <1>1, OtherStep
<1>3. Becomes(r, new) /\ RunInv(new)
  BY <1>1, GoesBecomes, StepKeepsRunInv
<1> HIDE DEF new
<1> QED
  BY <1>2, <1>3, QuietStepKeepsIInv

LEMMA VerifyOrFailKeepsIInv ==
  ASSUME IInv, NEW r \in DOMAIN runs, Verify(r) \/ FailJob(r)
  PROVE  IInv'
<1>1. UNCHANGED <<source, registry, listed>>
  BY DEF Verify, FailJob, OnlyRuns
<1>2. CASE Verify(r)
  <2>1. PICK step \in {"queue", "failed"} : Goes(r, step)
    BY <1>2 DEF Verify
  <2> QED
    BY <1>1, <1>2, <2>1, GoesKeepsIInv DEF Verify, Steps, Placed, Holding
<1>3. CASE FailJob(r)
  <2>1. Goes(r, "failed") /\ runs[r].step \notin {"wait", "unsure"}
    BY <1>3 DEF FailJob
  <2> QED
    BY <1>1, <2>1, GoesKeepsIInv DEF Steps, Holding
<1> QED
  BY <1>2, <1>3

\* A run whose pending job is replaced has ended, or is before its next package;
\* either way it does not say any more that it has released what comes before.
LEMMA ReplacedKeepsRunInv ==
  ASSUME IInv, NEW q \in DOMAIN runs, runs[q].step = "pending", NEW goesOn \in BOOLEAN
  PROVE  LET new == Replaced(q, goesOn)
         IN  /\ new \in RunRecords /\ RunInv(new)
             /\ new.step \in {"queue", "cancelled"}
             /\ new.event = runs[q].event /\ new.sha = runs[q].sha
             /\ Selected(new) = Selected(runs[q])
<1> DEFINE run == runs[q]
           new == Replaced(q, goesOn)
           next == NextPlanned(run.plan, run.at)
<1>1. run \in RunRecords /\ RunInv(run)
  BY DEF IInv, Runs, Types
<1>2. run.at \in DOMAIN ReleaseOrder /\ ReleaseOrder[run.at] \in run.plan /\ run.at \in Nat
  BY <1>1, Order DEF RunInv, Placed
<1>3. CASE goesOn /\ ~IsLast(q)
  <2>1. PICK j \in DOMAIN ReleaseOrder : Follows(j, run.plan, run.at)
    BY <1>3 DEF IsLast
  <2>2. next \in DOMAIN ReleaseOrder /\ Follows(next, run.plan, run.at)
    BY <1>2, <2>1, NextIsPlanned
  <2>3. next \in Nat /\ ReleaseOrder[next] \in run.plan
    BY <2>2, Order DEF Follows
  <2>4. new = [run EXCEPT !.replaced = TRUE, !.step = "queue", !.at = next]
    BY <1>3 DEF Replaced
  <2> HIDE DEF next
  <2>5. /\ new \in RunRecords /\ new.step = "queue" /\ new.event = run.event
        /\ new.sha = run.sha /\ new.before = run.before /\ new.plan = run.plan
        /\ new.at = next /\ new.replaced = TRUE
    BY <1>1, <2>3, <2>4 DEF RunRecords, Steps, Placed
  <2> HIDE DEF new
  <2>6. Selected(new) = Selected(run)
    BY <2>5 DEF Selected
  <2>7. RunInv(new)
    BY <1>1, <2>2, <2>3, <2>5, <2>6 DEF RunInv
  <2> QED
    BY <2>5, <2>6, <2>7 DEF new
<1>4. CASE ~(goesOn /\ ~IsLast(q))
  <2>1. new = [run EXCEPT !.replaced = TRUE, !.step = "cancelled"]
    BY <1>4 DEF Replaced
  <2>2. /\ new \in RunRecords /\ new.step = "cancelled" /\ new.event = run.event
        /\ new.sha = run.sha /\ new.before = run.before /\ new.plan = run.plan
        /\ new.at = run.at /\ new.replaced = TRUE
    BY <1>1, <2>1 DEF RunRecords, Steps, Placed
  <2> HIDE DEF new
  <2>3. Selected(new) = Selected(run)
    BY <2>2 DEF Selected
  <2>4. RunInv(new)
    BY <1>1, <1>2, <2>2, <2>3 DEF RunInv
  <2> QED
    BY <2>2, <2>3, <2>4 DEF new
<1> QED
  BY <1>3, <1>4

\* A job starts when no other of its package runs, or waits in place of the one
\* that was waiting.
LEMMA StartJobKeepsIInv ==
  ASSUME IInv, NEW r \in DOMAIN runs, StartJob(r)
  PROVE  IInv'
<1> DEFINE step == IF InGroup(PackageAt(r), Holding) = {} THEN "check" ELSE "pending"
<1>1. Types /\ runs \in Seq(RunRecords)
      /\ \A q \in DOMAIN runs : runs[q] \in RunRecords /\ RunInv(runs[q])
  BY DEF IInv, Runs, Types
<1>2. /\ runs[r].step \in {"queue", "pending"}
      /\ UNCHANGED <<source, registry, listed>>
  BY DEF StartJob, OnlyRuns
<1>3. PICK goesOn \in BOOLEAN :
         runs' = [other \in DOMAIN runs |->
             CASE other = r -> [runs[r] EXCEPT !.step = step]
               [] other # r /\ other \in InGroup(PackageAt(r), {"pending"}) ->
                     Replaced(other, goesOn)
               [] OTHER -> runs[other]]
  BY DEF StartJob
<1>4. DOMAIN runs' = DOMAIN runs /\ runs'[r] = [runs[r] EXCEPT !.step = step]
  BY <1>3
<1>5. \A q \in DOMAIN runs :
         q # r => \/ runs'[q] = runs[q]
                  \/ runs[q].step = "pending" /\ runs'[q] = Replaced(q, goesOn)
  BY <1>3 DEF InGroup
<1>6. step \in {"check", "pending"} /\ step \in Steps /\ step \in Placed \ {"green"}
  BY DEF Steps, Placed
<1>7. /\ runs'[r].step = step /\ runs'[r].event = runs[r].event
      /\ Selected(runs'[r]) = Selected(runs[r]) /\ runs'[r].sha = runs[r].sha
      /\ runs'[r].at = runs[r].at /\ runs'[r] \in RunRecords
  BY <1>1, <1>4, <1>6, OtherStep
<1>8. RunInv(runs'[r])
  BY <1>1, <1>2, <1>4, <1>6, StepKeepsRunInv DEF Placed
<1>9. ASSUME NEW q \in DOMAIN runs, q # r
      PROVE  /\ runs'[q] \in RunRecords /\ RunInv(runs'[q])
             /\ runs'[q].event = runs[q].event /\ runs'[q].sha = runs[q].sha
             /\ Selected(runs'[q]) = Selected(runs[q])
             /\ \/ runs'[q] = runs[q]
                \/ /\ runs[q].step = "pending"
                   /\ runs'[q].step \in {"queue", "cancelled"}
  <2>1. CASE runs'[q] = runs[q]
    BY <1>1, <2>1
  <2>2. CASE runs[q].step = "pending" /\ runs'[q] = Replaced(q, goesOn)
    BY <2>2, ReplacedKeepsRunInv
  <2> QED
    BY <1>5, <1>9, <2>1, <2>2
<1> HIDE DEF step
<1>10. runs' \in Seq(RunRecords)
  <2>1. runs' = [q \in 1 .. Len(runs) |-> runs'[q]]
    BY <1>1, <1>3
  <2>2. \A q \in 1 .. Len(runs) : runs'[q] \in RunRecords
    BY <1>1, <1>7, <1>9
  <2>3. Len(runs) \in Nat
    BY <1>1
  <2> QED
    BY <2>1, <2>2, <2>3, IsASeq
<1>11. Types' /\ Catalogued(tree)' /\ Catalogued(pushed)'
  BY <1>2, <1>10 DEF IInv, Types, Catalogued, source, PackOf
<1>12. Runs'
  <2>1. ASSUME NEW q \in DOMAIN runs' PROVE RunInv(runs[q])'
    <3>1. RunInv(runs'[q])
      BY <1>4, <1>8, <1>9
    <3> QED
      BY <1>2, <3>1 DEF RunInv
  <2> QED
    BY <2>1 DEF Runs
<1>13. Listed' /\ Checked'
  <2>1. \A q \in DOMAIN runs :
           \/ runs'[q] = runs[q]
           \/ /\ runs[q].step \notin {"wait", "unsure"}
              /\ runs'[q].step # "publish"
    BY <1>2, <1>6, <1>7, <1>9
  <2> QED
    BY <1>2, <1>4, <2>1, GroupsKept DEF IInv
<1>14. Alone'
  <2>1. \A q \in DOMAIN runs :
           q # r /\ runs'[q].step \in Holding => runs'[q] = runs[q]
    BY <1>9 DEF Holding
  <2>2. CASE step = "pending"
    <3>1. \A q \in DOMAIN runs :
             runs'[q].step \in Holding =>
                runs[q].step \in Holding /\ runs'[q].at = runs[q].at
      BY <1>7, <2>1, <2>2 DEF Holding
    <3> QED
      BY <1>4, <3>1, AloneKept DEF IInv
  <2>3. CASE step = "check"
    <3>1. InGroup(PackageAt(r), Holding) = {}
      BY <2>3 DEF step
    <3>2. \A q \in DOMAIN runs :
             runs[q].step \in Holding => PackageAt(q) # PackageAt(r)
      BY <3>1 DEF InGroup
    <3>3. PackageAt(r)' = PackageAt(r)
      BY <1>7 DEF PackageAt
    <3>4. \A q \in DOMAIN runs :
             q # r /\ runs'[q].step \in Holding =>
                runs[q].step \in Holding /\ PackageAt(q)' = PackageAt(q)
      BY <2>1 DEF PackageAt
    <3> QED
      BY <1>4, <3>2, <3>3, <3>4 DEF Alone, IInv
  <2> QED
    BY <1>6, <2>2, <2>3
<1>15. BeforeIsKnown => Owed'
  <2>1. \A q \in DOMAIN runs :
           /\ runs'[q].event = runs[q].event /\ runs'[q].sha = runs[q].sha
           /\ Selected(runs'[q]) = Selected(runs[q])
    BY <1>7, <1>9
  <2> QED
    BY <1>2, <1>4, <2>1 DEF IInv, Owed, IsCarried, source, PackOf
<1> QED
  BY <1>11, <1>12, <1>13, <1>14, <1>15 DEF IInv

\* The check goes by the listing, which lacks only what a job of the package
\* waits for, and none waits while this one holds the group.
LEMMA CheckKeepsIInv ==
  ASSUME IInv, NEW r \in DOMAIN runs, Check(r)
  PROVE  IInv'
<1>1. UNCHANGED <<source, registry, listed>> /\ runs[r].step = "check"
  BY DEF Check, OnlyRuns
<1>2. CASE Goes(r, "failed")
  BY <1>1, <1>2, GoesKeepsIInv DEF Steps, Holding
<1>3. CASE Recheck(r) = "unpublished" /\ Goes(r, "publish")
  <2> DEFINE new == [runs[r] EXCEPT !.step = "publish"]
             p == PackageAt(r)
  <2>1. runs[r] \in RunRecords /\ RunInv(runs[r]) /\ Types /\ Runs /\ Alone
        /\ Listed /\ Checked
    BY DEF IInv, Runs, Types
  <2>2. /\ new.step = "publish" /\ new.event = runs[r].event
        /\ new.at = runs[r].at /\ Selected(new) = Selected(runs[r])
        /\ new.sha = runs[r].sha
    BY <2>1, OtherStep DEF Steps, Placed
  <2>3. Becomes(r, new)
    BY <1>3, <2>1, GoesBecomes DEF Steps, Placed
  <2>4. RunInv(new)
    BY <1>1, <2>1, StepKeepsRunInv DEF Steps, Placed
  <2> HIDE DEF new
  <2>5. DOMAIN runs' = DOMAIN runs /\ RegistryGrows
    BY <1>1, <2>3 DEF Becomes, RegistryGrows
  <2>6. Runs'
    BY <2>1, <2>3, <2>4, <2>5, BecomesKeepsRuns
  <2>7. Alone'
    BY <1>1, <2>1, <2>2, <2>3, <2>5, AloneKept DEF Becomes, Holding
  <2>8. Types' /\ Catalogued(tree)' /\ Catalogued(pushed)'
    BY <1>1, <2>3 DEF IInv, Types, Catalogued, source, Becomes, PackOf
  <2>9. BeforeIsKnown => Owed'
    BY <1>1, <2>2, <2>3 DEF IInv, Owed, IsCarried, source, Becomes, PackOf
  <2>10. \A q \in DOMAIN runs : PackageAt(q)' = PackageAt(q)
                                /\ ManifestAt(q)' = ManifestAt(q)
    BY <2>2, <2>3 DEF Becomes, PackageAt, ManifestAt, PackOf
  <2>11. p \in Packages /\ ManifestAt(r) \in Manifests
    BY <1>1, <2>1, Order
    DEF RunInv, Placed, PackageAt, ManifestAt, PackOf, RunRecords, Trees
  <2>12. Listed'
    <3>1. \A q \in DOMAIN runs :
             runs[q].step \in {"wait", "unsure"} => runs'[q] = runs[q]
      BY <1>1, <2>3 DEF Becomes
    <3> QED
      BY <1>1, <2>1, <2>5, <2>10, <3>1 DEF Listed
  <2>13. InGroup(p, {"unsure"}) = {} =>
            \A entry \in registry[p] : entry.version < ManifestAt(r).version
    <3>1. SUFFICES ASSUME InGroup(p, {"unsure"}) = {}, NEW entry \in registry[p]
                   PROVE  entry.version < ManifestAt(r).version
      OBVIOUS
    <3>2. entry \in Manifests /\ listed[p] \subseteq Nat
      BY <2>1, <2>11 DEF Types
    <3>3. entry.version \in listed[p]
      <4>1. SUFFICES ASSUME entry.version \notin listed[p] PROVE FALSE
        OBVIOUS
      <4>2. PICK q \in DOMAIN runs :
               runs[q].step \in {"wait", "unsure"} /\ PackageAt(q) = p
        BY <2>1, <2>11, <4>1 DEF Listed
      <4>3. runs[q].step = "wait"
        BY <3>1, <4>2 DEF InGroup
      <4>4. q = r
        BY <1>1, <2>1, <4>2, <4>3 DEF Alone, Holding
      <4> QED
        BY <1>1, <4>3, <4>4
    <3>4. /\ ManifestAt(r).version \notin listed[p]
          /\ \A newer \in listed[p] : ~(ManifestAt(r).version < newer)
      BY <1>3
      DEF Recheck, AssessPackage, ClassifyDeclaredVersion, ManifestAt
    <3> QED
      BY <2>11, <3>2, <3>3, <3>4 DEF Manifests
  <2>14. Checked'
    <3>1. SUFFICES ASSUME NEW q \in DOMAIN runs, runs'[q].step = "publish"
                   PROVE  \/ InGroup(PackageAt(q), {"unsure"}) # {}
                          \/ \A entry \in registry[PackageAt(q)] :
                                entry.version < ManifestAt(q).version
      <4>1. \A package :
               InGroup(package, {"unsure"}) \subseteq InGroup(package, {"unsure"})'
        BY <1>1, <2>3, <2>10 DEF InGroup, Becomes
      <4> QED
        BY <1>1, <2>5, <2>10, <4>1 DEF Checked
    <3>2. CASE q = r
      BY <2>13, <3>2
    <3>3. CASE q # r
      BY <2>1, <2>3, <3>1, <3>3 DEF Checked, Becomes
    <3> QED
      BY <3>2, <3>3
  <2> QED
    BY <2>6, <2>7, <2>8, <2>9, <2>12, <2>14 DEF IInv
<1> QED
  BY <1>2, <1>3 DEF Check

\* npm takes a version of the one job that holds the package's group, and that
\* job waits for it or is unsure.
LEMMA AcceptKeepsIInv ==
  ASSUME IInv, UNCHANGED <<source, listed>>, NEW r \in DOMAIN runs,
         runs[r].step = "publish", NEW stored \in Manifests,
         stored.version = ManifestAt(r).version, Accept(r, stored),
         NEW step \in {"wait", "unsure"}, Goes(r, step)
  PROVE  IInv'
<1> DEFINE new == [runs[r] EXCEPT !.step = step]
           p == PackageAt(r)
<1>1. runs[r] \in RunRecords /\ RunInv(runs[r]) /\ Types /\ Runs /\ Alone
      /\ Listed /\ Checked
  BY DEF IInv, Runs, Types
<1>2. /\ new.step = step /\ new.event = runs[r].event /\ new.at = runs[r].at
      /\ Selected(new) = Selected(runs[r]) /\ new.sha = runs[r].sha
  BY <1>1, OtherStep DEF Steps, Placed
<1>3. Becomes(r, new) /\ RunInv(new)
  BY <1>1, GoesBecomes, StepKeepsRunInv DEF Steps, Placed
<1> HIDE DEF new
<1>4. p \in Packages
  BY <1>1, Order DEF RunInv, Placed, PackageAt
<1>5. /\ registry'[p] = registry[p] \cup {stored}
      /\ \A package \in Packages \ {p} : registry'[package] = registry[package]
      /\ registry' \in [Packages -> SUBSET Manifests]
  BY <1>1, <1>4 DEF Accept, Types
<1>6. RegistryGrows /\ DOMAIN runs' = DOMAIN runs
  BY <1>3, <1>5 DEF RegistryGrows, Becomes
<1>7. Runs'
  BY <1>1, <1>3, <1>6, BecomesKeepsRuns
<1>8. Alone'
  BY <1>1, <1>2, <1>3, <1>6, AloneKept DEF Becomes, Holding
<1>9. Types' /\ Catalogued(tree)' /\ Catalogued(pushed)'
  BY <1>1, <1>3, <1>5 DEF IInv, Types, Catalogued, source, Becomes, PackOf
<1>10. BeforeIsKnown => Owed'
  BY <1>2, <1>3, <1>6
  DEF IInv, Owed, IsCarried, source, Becomes, PackOf, RegistryGrows
<1>11. \A q \in DOMAIN runs : /\ PackageAt(q)' = PackageAt(q)
                              /\ ManifestAt(q)' = ManifestAt(q)
  BY <1>2, <1>3 DEF Becomes, PackageAt, ManifestAt, PackOf
<1>12. \A q \in DOMAIN runs :
          runs[q].step \in {"wait", "unsure"} => runs'[q] = runs[q]
  BY <1>3 DEF Becomes
<1>13. Listed'
  <2>1. SUFFICES ASSUME NEW package \in Packages, NEW entry \in registry'[package],
                        entry.version \notin listed[package]
                 PROVE  \E q \in DOMAIN runs :
                           /\ runs'[q].step \in {"wait", "unsure"}
                           /\ PackageAt(q) = package
                           /\ ManifestAt(q).version = entry.version
    BY <1>6, <1>11 DEF Listed
  <2>2. CASE entry \in registry[package]
    BY <1>1, <1>12, <2>1, <2>2 DEF Listed
  <2>3. CASE package = p /\ entry = stored
    BY <1>2, <1>3, <2>3 DEF Becomes
  <2> QED
    BY <1>5, <2>1, <2>2, <2>3
<1>14. Checked'
  <2>1. SUFFICES ASSUME NEW q \in DOMAIN runs, runs'[q].step = "publish"
                 PROVE  \/ \E u \in DOMAIN runs :
                              runs'[u].step = "unsure" /\ PackageAt(u) = PackageAt(q)
                        \/ \A entry \in registry'[PackageAt(q)] :
                              entry.version < ManifestAt(q).version
    BY <1>6, <1>11 DEF Checked, InGroup
  <2>2. q # r /\ runs'[q] = runs[q]
    BY <1>2, <1>3, <2>1 DEF Becomes
  <2>3. PackageAt(q) # p
    BY <1>1, <2>1, <2>2 DEF Alone, Holding
  <2>4. PackageAt(q) \in Packages
    <3>1. RunInv(runs[q]) /\ runs[q].step = "publish"
      BY <1>1, <2>1, <2>2 DEF Runs
    <3> QED
      BY <3>1, Order DEF RunInv, Placed, PackageAt
  <2>5. registry'[PackageAt(q)] = registry[PackageAt(q)]
    BY <1>5, <2>3, <2>4
  <2> QED
    BY <1>1, <1>12, <2>1, <2>2, <2>5 DEF Checked, InGroup
<1> QED
  BY <1>7, <1>8, <1>9, <1>10, <1>13, <1>14 DEF IInv

LEMMA OtherBytesAreAPack ==
  ASSUME NEW packed \in Manifests
  PROVE  OtherBytes(packed) \in Manifests /\ OtherBytes(packed).version = packed.version
<1>1. [path \in Files |-> 0] \in FilesOf
  BY DEF FilesOf
<1> QED
  BY <1>1 DEF OtherBytes, Manifests

LEMMA PublishKeepsIInv ==
  ASSUME IInv, NEW r \in DOMAIN runs, Publish(r)
  PROVE  IInv'
<1>1. UNCHANGED <<source, listed>> /\ runs[r].step = "publish"
  BY DEF Publish
<1>2. CASE Goes(r, "failed") /\ UNCHANGED registry
  BY <1>1, <1>2, GoesKeepsIInv DEF Steps, Holding
<1>3. ManifestAt(r) \in Manifests
  <2>1. runs[r] \in RunRecords /\ RunInv(runs[r])
    BY DEF IInv, Runs, Types
  <2> QED
    BY <1>1, <2>1, Order
    DEF RunInv, Placed, PackageAt, ManifestAt, PackOf, RunRecords, Trees
<1>4. /\ OtherBytes(ManifestAt(r)) \in Manifests
      /\ OtherBytes(ManifestAt(r)).version = ManifestAt(r).version
  BY <1>3, OtherBytesAreAPack
<1>5. CASE Accept(r, ManifestAt(r)) /\ Goes(r, "wait")
  BY <1>1, <1>3, <1>5, AcceptKeepsIInv
<1>6. CASE Accept(r, ManifestAt(r)) /\ Goes(r, "unsure")
  BY <1>1, <1>3, <1>6, AcceptKeepsIInv
<1>7. CASE Accept(r, OtherBytes(ManifestAt(r))) /\ Goes(r, "wait")
  BY <1>1, <1>4, <1>7, AcceptKeepsIInv
<1> QED
  BY <1>2, <1>5, <1>6, <1>7 DEF Publish

\* A wait ends with the listing of what was waited for, or unsure.
LEMMA WaitKeepsIInv ==
  ASSUME IInv, NEW r \in DOMAIN runs, Wait(r)
  PROVE  IInv'
<1>1. runs[r].step = "wait" /\ UNCHANGED <<source, registry, listed>>
  BY DEF Wait, OnlyRuns
<1>2. PICK step \in {"digest", "unsure"} :
         /\ Goes(r, step)
         /\ step = "digest" => ManifestAt(r).version \in listed[PackageAt(r)]
  BY DEF Wait
<1> DEFINE new == [runs[r] EXCEPT !.step = step]
<1>3. runs[r] \in RunRecords /\ RunInv(runs[r]) /\ Types /\ Runs /\ Alone
      /\ Listed /\ Checked
  BY DEF IInv, Runs, Types
<1>4. /\ new.step = step /\ new.event = runs[r].event /\ new.at = runs[r].at
      /\ Selected(new) = Selected(runs[r]) /\ new.sha = runs[r].sha
  BY <1>3, OtherStep DEF Steps, Placed
<1>5. Becomes(r, new)
  BY <1>2, <1>3, GoesBecomes DEF Steps, Placed
<1>6. RunInv(new)
  BY <1>1, <1>3, StepKeepsRunInv DEF Steps, Placed
<1> HIDE DEF new
<1>7. RegistryGrows /\ DOMAIN runs' = DOMAIN runs
  BY <1>1, <1>5 DEF RegistryGrows, Becomes
<1>8. Runs'
  BY <1>3, <1>5, <1>6, <1>7, BecomesKeepsRuns
<1>9. Alone'
  BY <1>1, <1>3, <1>4, <1>5, <1>7, AloneKept DEF Becomes, Holding
<1>10. Types' /\ Catalogued(tree)' /\ Catalogued(pushed)'
  BY <1>1, <1>5 DEF IInv, Types, Catalogued, source, Becomes, PackOf
<1>11. BeforeIsKnown => Owed'
  BY <1>1, <1>4, <1>5 DEF IInv, Owed, IsCarried, source, Becomes, PackOf
<1>12. \A q \in DOMAIN runs : /\ PackageAt(q)' = PackageAt(q)
                              /\ ManifestAt(q)' = ManifestAt(q)
  BY <1>4, <1>5 DEF Becomes, PackageAt, ManifestAt, PackOf
<1>13. Listed'
  <2>1. SUFFICES ASSUME NEW package \in Packages, NEW entry \in registry[package],
                        entry.version \notin listed[package]
                 PROVE  \E q \in DOMAIN runs :
                           /\ runs'[q].step \in {"wait", "unsure"}
                           /\ PackageAt(q) = package
                           /\ ManifestAt(q).version = entry.version
    BY <1>1, <1>7, <1>12 DEF Listed
  <2>2. PICK q \in DOMAIN runs :
           /\ runs[q].step \in {"wait", "unsure"}
           /\ PackageAt(q) = package
           /\ ManifestAt(q).version = entry.version
    BY <1>3, <2>1 DEF Listed
  <2>3. CASE q # r
    BY <1>5, <2>2, <2>3 DEF Becomes
  <2>4. CASE q = r
    BY <1>2, <1>4, <1>5, <2>1, <2>2, <2>4 DEF Becomes
  <2> QED
    BY <2>3, <2>4
<1>14. Checked'
  <2>1. SUFFICES ASSUME NEW q \in DOMAIN runs, runs'[q].step = "publish"
                 PROVE  \/ InGroup(PackageAt(q), {"unsure"}) # {}
                        \/ \A entry \in registry[PackageAt(q)] :
                              entry.version < ManifestAt(q).version
    <3>1. \A package :
             InGroup(package, {"unsure"}) \subseteq InGroup(package, {"unsure"})'
      BY <1>1, <1>5, <1>12 DEF InGroup, Becomes
    <3> QED
      BY <1>1, <1>7, <1>12, <3>1 DEF Checked
  <2>2. runs'[q] = runs[q]
    BY <1>4, <1>5, <2>1 DEF Becomes
  <2> QED
    BY <1>3, <2>1, <2>2 DEF Checked
<1> QED
  BY <1>8, <1>9, <1>10, <1>11, <1>13, <1>14 DEF IInv

\* A run is green, cancelled or goes on, when npm holds the bytes of the package it is at.
LEMMA RecordRegistryDigestKeepsIInv ==
  ASSUME IInv, NEW r \in DOMAIN runs, RecordRegistryDigest(r)
  PROVE  IInv'
<1> DEFINE run == runs[r]
           next == NextPlanned(run.plan, run.at)
           last == IF run.replaced THEN "cancelled" ELSE "green"
           placed == [run EXCEPT !.step = "queue", !.at = next]
<1>1. run \in RunRecords /\ RunInv(run) /\ Types
  BY DEF IInv, Runs, Types
<1>2. run.step = "digest" /\ UNCHANGED <<source, registry, listed>>
  BY DEF RecordRegistryDigest, OnlyRuns
<1>3. runs' = [runs EXCEPT ![r] =
         CASE ~DigestAgrees(r) -> [run EXCEPT !.step = "failed"]
           [] DigestAgrees(r) /\ IsLast(r) -> [run EXCEPT !.step = last]
           [] OTHER -> placed]
  BY DEF RecordRegistryDigest
<1>4. run.at \in DOMAIN ReleaseOrder /\ run.at \in Nat
  BY <1>1, <1>2, Order DEF RunInv, Placed
<1>5. ASSUME DigestAgrees(r), ~run.replaced, NEW i \in DOMAIN ReleaseOrder,
             ReleaseOrder[i] \in run.plan, ~Follows(i, run.plan, run.at)
      PROVE  PackOf(run.sha, ReleaseOrder[i]) \in registry[ReleaseOrder[i]]
  <2>1. i < run.at \/ i = run.at
    BY <1>4, <1>5, Order DEF Follows
  <2>2. CASE i < run.at
    BY <1>1, <1>5, <2>2 DEF RunInv
  <2>3. CASE i = run.at
    BY <1>5, <2>3 DEF DigestAgrees, ManifestAt, PackageAt
  <2> QED
    BY <2>1, <2>2, <2>3
<1>6. CASE ~DigestAgrees(r)
  <2>1. Goes(r, "failed")
    <3>1. runs' = [runs EXCEPT ![r] = [run EXCEPT !.step = "failed"]]
      BY <1>3, <1>6
    <3> QED
      BY <3>1 DEF Goes
  <2> QED
    BY <1>2, <2>1, GoesKeepsIInv DEF Steps, Holding
<1>7. CASE DigestAgrees(r) /\ IsLast(r)
  <2> DEFINE new == [run EXCEPT !.step = last]
  <2>1. last \in Steps /\ (last = IF run.replaced THEN "cancelled" ELSE "green")
    BY DEF Steps, Placed
  <2> HIDE DEF last
  <2>2. /\ new \in RunRecords /\ new.step = last /\ new.event = run.event
        /\ Selected(new) = Selected(run) /\ new.sha = run.sha
        /\ new.plan = run.plan /\ new.at = run.at /\ new.replaced = run.replaced
    BY <1>1, <2>1, OtherStep
  <2>3. runs' = [runs EXCEPT ![r] = new]
    BY <1>3, <1>7 DEF last
  <2>4. Becomes(r, new)
    BY <1>1, <2>2, <2>3, ReplacedBecomes
  <2> HIDE DEF new
  <2>5. ~run.replaced =>
           \A i \in DOMAIN ReleaseOrder :
              ReleaseOrder[i] \in run.plan =>
                 PackOf(run.sha, ReleaseOrder[i]) \in registry[ReleaseOrder[i]]
    BY <1>5, <1>7 DEF IsLast
  <2>6. RunInv(new)
    BY <1>1, <1>2, <2>1, <2>2, <2>5 DEF RunInv, Placed
  <2> QED
    BY <1>2, <2>1, <2>2, <2>4, <2>6, QuietStepKeepsIInv DEF Holding
<1>8. CASE DigestAgrees(r) /\ ~IsLast(r)
  <2>1. PICK j \in DOMAIN ReleaseOrder : Follows(j, run.plan, run.at)
    BY <1>8 DEF IsLast
  <2>2. /\ next \in DOMAIN ReleaseOrder /\ Follows(next, run.plan, run.at)
        /\ \A k \in DOMAIN ReleaseOrder :
              Follows(k, run.plan, run.at) => next <= k
    BY <1>4, <2>1, NextIsPlanned
  <2>3. next \in Nat /\ ReleaseOrder[next] \in run.plan
    BY <2>2, Order DEF Follows
  <2> HIDE DEF next
  <2>4. /\ placed \in RunRecords /\ placed.step = "queue"
        /\ placed.event = run.event /\ placed.before = run.before
        /\ placed.sha = run.sha /\ placed.plan = run.plan /\ placed.at = next
        /\ placed.replaced = run.replaced
    BY <1>1, <2>3 DEF RunRecords, Steps, Placed
  <2>5. runs' = [runs EXCEPT ![r] = placed]
    BY <1>3, <1>8 DEF next
  <2>6. Becomes(r, placed)
    BY <1>1, <2>4, <2>5, ReplacedBecomes
  <2> HIDE DEF placed
  <2>7. Selected(placed) = Selected(run)
    BY <2>4 DEF Selected
  <2>8. ~run.replaced =>
           \A i \in DOMAIN ReleaseOrder :
              ReleaseOrder[i] \in run.plan /\ i < next =>
                 PackOf(run.sha, ReleaseOrder[i]) \in registry[ReleaseOrder[i]]
    <3>1. \A i \in DOMAIN ReleaseOrder : i < next => ~Follows(i, run.plan, run.at)
      BY <2>2, <2>3, Order
    <3> QED
      BY <1>5, <1>8, <3>1
  <2>9. RunInv(placed)
    BY <1>1, <1>2, <2>2, <2>3, <2>4, <2>8, <2>7 DEF RunInv, Placed
  <2> QED
    BY <1>2, <2>4, <2>6, <2>9, <2>7, QuietStepKeepsIInv DEF Holding
<1> QED
  BY <1>6, <1>7, <1>8

LEMMA RunStepKeepsIInv ==
  ASSUME IInv, NEW r \in DOMAIN runs, RunStep(r)
  PROVE  IInv'
  BY MakePlanKeepsIInv, VerifyOrFailKeepsIInv, StartJobKeepsIInv,
     CheckKeepsIInv, PublishKeepsIInv, WaitKeepsIInv,
     RecordRegistryDigestKeepsIInv DEF RunStep

-----------------------------------------------------------------------------
(* The maintainer and the registry *)

LEMMA ListKeepsIInv ==
  ASSUME IInv, NEW package \in Packages, NEW entry \in registry[package],
         List(package, entry.version)
  PROVE  IInv'
<1>1. /\ UNCHANGED <<source, registry, runs, faults>>
      /\ listed' = [listed EXCEPT ![package] = @ \cup {entry.version}]
  BY DEF List
<1>2. entry.version \in Nat
  BY DEF IInv, Types, Manifests
<1>3. /\ listed' \in [Packages -> SUBSET Nat]
      /\ \A p \in Packages : listed[p] \subseteq listed'[p]
  BY <1>1, <1>2 DEF IInv, Types
<1>4. Types' /\ Catalogued(tree)' /\ Catalogued(pushed)'
  BY <1>1, <1>3 DEF IInv, Types, Catalogued, source, PackOf
<1>5. Runs' /\ Alone' /\ Checked'
  BY <1>1 DEF IInv, Runs, RunInv, Alone, Checked, InGroup, PackageAt, ManifestAt,
              PackOf
<1>6. Listed'
  BY <1>1, <1>3 DEF IInv, Listed, PackageAt, ManifestAt, PackOf
<1>7. BeforeIsKnown => Owed'
  BY <1>1 DEF IInv, Owed, IsCarried, source, PackOf
<1> QED
  BY <1>4, <1>5, <1>6, <1>7 DEF IInv

\* A rewriting leaves a row for each adapter, of the bytes that are packed.
LEMMA RewritingCatalogues ==
  ASSUME NEW main \in Trees, NEW updated \in SUBSET Adapters,
         NEW old \in [Packages -> Manifests],
         main.catalog = {CatalogRow(package, old[package]) : package \in Adapters},
         \A package \in Adapters \ updated : old[package] = PackOf(main, package)
  PROVE  LET new == RewriteCatalogSource(main, updated)
         IN  /\ new \in Trees
             /\ new.manifest = main.manifest /\ new.lock = main.lock
             /\ new.catalog = {CatalogRow(package, PackOf(main, package)) :
                                  package \in Adapters}
<1> DEFINE rows == {entry \in main.catalog : entry.package \notin updated}
                   \cup {CatalogRow(package, PackOf(main, package)) :
                            package \in updated}
           moved == {package \in updated :
              FindAdapterArtifact(main, package).version # PackOf(main, package).version}
           new == RewriteCatalogSource(main, updated)
<1>1. \A package : \A packed : CatalogRow(package, packed).package = package
  BY DEF CatalogRow
<1>2. rows = {CatalogRow(package, PackOf(main, package)) : package \in Adapters}
  BY <1>1
<1>3. \A package \in Packages : PackOf(main, package) \in Manifests
  BY DEF Trees, PackOf
<1>4. rows \subseteq Rows
  BY <1>2, <1>3 DEF Rows, Adapters
<1>5. \A package \in Adapters : FindAdapterArtifact(main, package) \in Rows
  <2>1. SUFFICES ASSUME NEW package \in Adapters
                 PROVE  FindAdapterArtifact(main, package) \in Rows
    OBVIOUS
  <2>2. \E entry \in main.catalog : entry.package = package
    BY <1>1
  <2>3. FindAdapterArtifact(main, package) \in main.catalog
    BY <2>2 DEF FindAdapterArtifact
  <2> QED
    BY <2>3 DEF Trees
<1>6. MovePreviousRows(main, moved) \subseteq Rows
  BY <1>5 DEF MovePreviousRows, Trees
<1>7. new = [main EXCEPT !.previous = MovePreviousRows(main, moved),
                         !.catalog = rows]
  BY DEF RewriteCatalogSource
<1> HIDE DEF rows, moved, new
<1>8. /\ new \in Trees /\ new.manifest = main.manifest /\ new.lock = main.lock
      /\ new.catalog = rows
  BY <1>4, <1>6, <1>7 DEF Trees
<1> QED
  BY <1>2, <1>8 DEF new

LEMMA LockFollows ==
  ASSUME NEW main \in Trees, NEW updated \in SUBSET Adapters
  PROVE  LET new == RewriteLockText(main, updated)
         IN  /\ new \in Trees
             /\ new.manifest = main.manifest /\ new.catalog = main.catalog
<1> DEFINE lock == [package \in DOMAIN main.lock |->
                       IF package \in updated
                       THEN LockRow(CatalogRow(package, PackOf(main, package)))
                       ELSE main.lock[package]]
<1>1. \A package \in updated :
         CatalogRow(package, PackOf(main, package)) \in Rows
  BY DEF Rows, Trees, PackOf, Adapters
<1>2. lock \in [Adapters -> LockRows]
  BY <1>1 DEF LockRows, Trees
<1> HIDE DEF lock
<1>3. [main EXCEPT !.lock = lock] \in Trees
      /\ [main EXCEPT !.lock = lock].manifest = main.manifest
      /\ [main EXCEPT !.lock = lock].catalog = main.catalog
  BY <1>2 DEF Trees
<1> QED
  BY <1>3 DEF RewriteLockText, lock

\* A commit leaves the packs it does not touch, and gives the others no need of
\* a protocol that is not there.
LEMMA CommitKeepsIInv ==
  ASSUME IInv, NEW written \in SUBSET (Packages \X Files),
         NEW deleted \in SUBSET Deletable, NEW bumped \in SUBSET Packages,
         NEW interrupted \in BOOLEAN, Commit(written, deleted, bumped, interrupted)
  PROVE  IInv'
<1> DEFINE In(edits, package) == {path \in Files : <<package, path>> \in edits}
           Left(package) ==
              DOMAIN tree.manifest[package].files \ In(deleted, package)
           version(package) ==
              tree.manifest[package].version + (IF package \in bumped THEN 1 ELSE 0)
           files(package) ==
              [path \in Left(package) \cup In(written, package) |->
                  IF path \in In(written, package) THEN commits'
                  ELSE tree.manifest[package].files[path]]
           manifest ==
              [package \in Packages |->
                  IF In(written, package) = {}
                  THEN [tree.manifest[package] EXCEPT !.files = files(package)]
                  ELSE [version |-> version(package), requires |-> version(Protocol),
                        files |-> files(package)]]
           touched == {package \in Packages : In(written \cup deleted, package) # {}}
           edited == [tree EXCEPT !.manifest = manifest]
           updated == touched \cap Adapters
           cataloged == RewriteCatalogSource(edited, updated)
<1>1. /\ commits' = commits + 1 /\ commits \in Nat /\ tree \in Trees
      /\ Catalogued(tree) /\ parent' = tree
      /\ UNCHANGED <<pushed, registry, listed, runs, template>>
  BY DEF Commit, IInv, Types
<1>2. tree' = IF interrupted THEN cataloged ELSE RewriteLockText(cataloged, updated)
  BY DEF Commit
<1>3. \A package \in bumped : In(written, package) # {}
  BY DEF Commit
<1>4. tree.manifest \in [Packages -> Manifests] /\ Protocol \in Packages
  BY <1>1, Order DEF Trees
<1>5. \A package \in Packages : version(package) \in Nat
  BY <1>4 DEF Manifests
<1>6. ASSUME NEW package \in Packages
      PROVE  files(package) \in FilesOf
  <2>1. tree.manifest[package].files \in FilesOf
    BY <1>4 DEF Manifests
  <2>2. PICK paths \in SUBSET Files : tree.manifest[package].files \in [paths -> Nat]
    BY <2>1 DEF FilesOf
  <2>3. /\ Left(package) \cup In(written, package) \in SUBSET Files
        /\ Left(package) \subseteq paths
    BY <2>2
  <2>4. commits' \in Nat
    BY <1>1
  <2>5. files(package) \in [Left(package) \cup In(written, package) -> Nat]
    BY <2>2, <2>3, <2>4
  <2> QED
    BY <2>3, <2>5 DEF FilesOf
<1>7. ASSUME NEW package \in Packages, package \notin touched
      PROVE  In(written, package) = {} /\ files(package) = tree.manifest[package].files
  <2>1. In(written, package) = {} /\ In(deleted, package) = {}
    BY <1>7
  <2>2. PICK paths \in SUBSET Files : tree.manifest[package].files \in [paths -> Nat]
    <3>1. tree.manifest[package].files \in FilesOf
      BY <1>4 DEF Manifests
    <3> QED
      BY <3>1 DEF FilesOf
  <2>3. Left(package) \cup In(written, package) = paths
    BY <2>1, <2>2
  <2>4. files(package) = [path \in paths |-> tree.manifest[package].files[path]]
    BY <2>1, <2>3
  <2> QED
    BY <2>1, <2>2, <2>4
<1> HIDE DEF version, files, touched, In
<1>8. \A package \in Packages :
         IF In(written, package) = {}
         THEN /\ manifest[package] \in Manifests
              /\ manifest[package].version = tree.manifest[package].version
              /\ manifest[package].requires = tree.manifest[package].requires
              /\ manifest[package].files = files(package)
         ELSE /\ manifest[package] \in Manifests
              /\ manifest[package].version = version(package)
              /\ manifest[package].requires = version(Protocol)
  BY <1>4, <1>5, <1>6 DEF Manifests
<1>9. manifest \in [Packages -> Manifests]
  BY <1>8
<1>10. manifest[Protocol].version = version(Protocol)
  <2>1. CASE In(written, Protocol) = {}
    <3>1. Protocol \notin bumped /\ tree.manifest[Protocol].version \in Nat
      BY <1>3, <1>4, <2>1 DEF Manifests
    <3> QED
      BY <1>4, <1>8, <2>1, <3>1 DEF version
  <2>2. CASE In(written, Protocol) # {}
    BY <1>4, <1>8, <2>2
  <2> QED
    BY <2>1, <2>2
<1>11. \A package \in Packages :
          manifest[package].requires <= manifest[Protocol].version
  <2>1. /\ tree.manifest[Protocol].version \in Nat
        /\ version(Protocol) >= tree.manifest[Protocol].version
    BY <1>4 DEF Manifests, version
  <2>2. ASSUME NEW package \in Packages
        PROVE  manifest[package].requires <= version(Protocol)
    <3>1. CASE In(written, package) # {}
      <4>1. manifest[package].requires = version(Protocol)
        BY <1>8, <3>1
      <4> QED
        BY <1>4, <1>5, <4>1
    <3>2. CASE In(written, package) = {}
      <4>1. /\ manifest[package].requires = tree.manifest[package].requires
            /\ tree.manifest[package].requires \in Nat
        BY <1>4, <1>8, <3>2 DEF Manifests
      <4>2. tree.manifest[package].requires <= tree.manifest[Protocol].version
        BY <1>1 DEF Catalogued, PackOf
      <4> QED
        BY <1>4, <1>5, <2>1, <4>1, <4>2
    <3> QED
      BY <3>1, <3>2
  <2> QED
    BY <1>10, <2>2
<1>12. \A package \in Packages \ touched : manifest[package] = tree.manifest[package]
  <2>1. SUFFICES ASSUME NEW package \in Packages \ touched
                 PROVE  manifest[package] = tree.manifest[package]
    OBVIOUS
  <2>2. /\ In(written, package) = {}
        /\ files(package) = tree.manifest[package].files
    BY <1>7
  <2>3. tree.manifest[package] \in Manifests /\ manifest[package] \in Manifests
    BY <1>4, <1>9
  <2>4. /\ manifest[package].version = tree.manifest[package].version
        /\ manifest[package].requires = tree.manifest[package].requires
        /\ manifest[package].files = tree.manifest[package].files
    BY <1>8, <2>2
  <2> HIDE DEF manifest
  <2> QED
    BY <2>3, <2>4 DEF Manifests
<1> HIDE DEF manifest
<1>13. /\ edited \in Trees /\ edited.manifest = manifest
       /\ edited.catalog = tree.catalog
  BY <1>1, <1>9 DEF Trees
<1> HIDE DEF edited
<1>14. /\ edited.catalog = {CatalogRow(package, tree.manifest[package]) :
                               package \in Adapters}
       /\ \A package \in Adapters \ updated :
             tree.manifest[package] = PackOf(edited, package)
  BY <1>1, <1>12, <1>13 DEF Catalogued, PackOf, Adapters
<1>15. /\ cataloged \in Trees /\ cataloged.manifest = manifest
       /\ cataloged.catalog = {CatalogRow(package, manifest[package]) :
                                  package \in Adapters}
  <2>1. cataloged.catalog = {CatalogRow(package, PackOf(edited, package)) :
                                package \in Adapters}
        /\ cataloged \in Trees /\ cataloged.manifest = edited.manifest
    BY <1>4, <1>13, <1>14, RewritingCatalogues
  <2> QED
    BY <1>13, <2>1 DEF PackOf
<1> HIDE DEF cataloged
<1>16. /\ tree' \in Trees /\ tree'.manifest = manifest
       /\ tree'.catalog = cataloged.catalog
  BY <1>2, <1>15, LockFollows
<1>17. Catalogued(tree)'
  BY <1>11, <1>15, <1>16 DEF Catalogued, PackOf
<1>18. Types' /\ Catalogued(pushed)'
  BY <1>1, <1>16 DEF IInv, Types, Catalogued, PackOf
<1>19. Runs' /\ Alone' /\ Listed' /\ Checked'
  BY <1>1 DEF IInv, Runs, RunInv, Alone, Listed, Checked, InGroup, PackageAt,
              ManifestAt, PackOf
<1>20. BeforeIsKnown => Owed'
  BY <1>1 DEF IInv, Owed, IsCarried, PackOf
<1> QED
  BY <1>17, <1>18, <1>19, <1>20 DEF IInv

LEMMA MoveTemplateKeepsIInv ==
  ASSUME IInv, NEW package \in Adapters, MoveTemplate(package)
  PROVE  IInv'
<1>1. UNCHANGED <<commits, tree, parent, pushed, registry, listed, runs, faults>>
  BY DEF MoveTemplate
<1> QED
  BY <1>1
  DEF IInv, Types, Catalogued, Runs, RunInv, Owed, IsCarried, Alone, Listed,
      Checked, InGroup, PackageAt, ManifestAt, PackOf

\* A new run says nothing yet and holds no group.
LEMMA NewRunKeepsIInv ==
  ASSUME Types, Runs, Alone, Listed, Checked, UNCHANGED <<registry, listed>>,
         NEW new \in RunRecords, new.step = "plan", new.plan = {}, new.at = 0,
         ~new.replaced, runs' = Append(runs, new)
  PROVE  /\ runs' \in Seq(RunRecords)
         /\ DOMAIN runs' = DOMAIN runs \cup {Len(runs) + 1}
         /\ \A q \in DOMAIN runs : runs'[q] = runs[q]
         /\ runs'[Len(runs) + 1] = new
         /\ Runs' /\ Alone' /\ Listed' /\ Checked'
<1> DEFINE n == Len(runs) + 1
<1>1. /\ runs' \in Seq(RunRecords) /\ Len(runs) \in Nat
      /\ DOMAIN runs = 1 .. Len(runs) /\ DOMAIN runs' = 1 .. n
      /\ \A q \in 1 .. Len(runs) : runs'[q] = runs[q]
      /\ runs'[n] = new
  BY AppendProperties DEF Types
<1>2. DOMAIN runs' = DOMAIN runs \cup {n}
  BY <1>1
<1>3. \A q \in DOMAIN runs : runs'[q] = runs[q]
  BY <1>1
<1>4. RunInv(new)
  BY Order DEF RunInv, Placed
<1> HIDE DEF n
<1>5. Runs'
  <2>1. ASSUME NEW q \in DOMAIN runs' PROVE RunInv(runs[q])'
    <3>1. RunInv(runs'[q])
      BY <1>1, <1>2, <1>3, <1>4 DEF Runs
    <3> QED
      BY <3>1 DEF RunInv
  <2> QED
    BY <2>1 DEF Runs
<1>6. runs'[n].step \notin Holding \cup {"wait", "unsure"}
  BY <1>1 DEF Holding
<1>7. Alone'
  BY <1>2, <1>3, <1>6 DEF Alone, PackageAt
<1>8. Listed'
  BY <1>2, <1>3 DEF Listed, PackageAt, ManifestAt, PackOf
<1>9. Checked'
  BY <1>1, <1>2, <1>3 DEF Checked, InGroup, PackageAt, ManifestAt, PackOf
<1> QED
  BY <1>1, <1>2, <1>3, <1>5, <1>7, <1>8, <1>9 DEF n

\* A push owes what it changes, and leaves owed by others what it does not.
LEMMA PushKeepsIInv ==
  ASSUME IInv, NEW known \in BOOLEAN, Push(known)
  PROVE  IInv'
<1> DEFINE base == IF known THEN pushed ELSE parent
           new == NewRun("push", Protocol, base.manifest, tree)
<1>1. /\ pushed' = tree /\ runs' = Append(runs, new)
      /\ UNCHANGED <<commits, tree, parent, registry, listed, template, faults>>
      /\ BeforeIsKnown => known
  BY DEF Push
<1>2. base.manifest \in [Packages -> Manifests] /\ tree \in Trees
  BY DEF IInv, Types, Trees
<1>3. /\ new \in RunRecords /\ new.step = "plan" /\ new.plan = {} /\ new.at = 0
      /\ ~new.replaced /\ new.event = "push" /\ new.sha = tree
      /\ new.before = base.manifest
  BY <1>2, Order DEF NewRun, RunRecords, Steps
<1> HIDE DEF new
<1>4. /\ runs' \in Seq(RunRecords)
      /\ DOMAIN runs' = DOMAIN runs \cup {Len(runs) + 1}
      /\ \A q \in DOMAIN runs : runs'[q] = runs[q]
      /\ runs'[Len(runs) + 1] = new
      /\ Runs' /\ Alone' /\ Listed' /\ Checked'
  BY <1>1, <1>3, NewRunKeepsIInv DEF IInv
<1>5. Types' /\ Catalogued(tree)' /\ Catalogued(pushed)'
  BY <1>1, <1>4 DEF IInv, Types, Catalogued, PackOf
<1>6. ASSUME BeforeIsKnown PROVE Owed'
  <2>1. base = pushed
    BY <1>1, <1>6
  <2>2. ASSUME NEW package \in Packages
        PROVE  \/ \E held \in registry[package] : Carries(held, PackOf(tree, package))
               \/ \E q \in DOMAIN runs' :
                     /\ runs'[q].event = "push" /\ package \in Selected(runs'[q])
                     /\ Carries(PackOf(runs'[q].sha, package), PackOf(tree, package))
    <3>1. package \in Selected(new)
             <=> ~Carries(PackOf(pushed, package), PackOf(tree, package))
      BY <1>2, <1>3, <2>1, Selection DEF Selected, PackOf
    <3>2. CASE package \in Selected(new)
      BY <1>3, <1>4, <3>2, CarriesOrder
    <3>3. CASE Carries(PackOf(pushed, package), PackOf(tree, package))
      <4>1. CASE \E held \in registry[package] : Carries(held, PackOf(pushed, package))
        BY <3>3, <4>1, CarriesOrder
      <4>2. CASE \E q \in DOMAIN runs :
                    /\ runs[q].event = "push" /\ package \in Selected(runs[q])
                    /\ Carries(PackOf(runs[q].sha, package), PackOf(pushed, package))
        BY <1>4, <3>3, <4>2, CarriesOrder
      <4> QED
        BY <1>6, <4>1, <4>2 DEF IInv, Owed, IsCarried
    <3> QED
      BY <3>1, <3>2, <3>3
  <2> QED
    BY <1>1, <2>2 DEF Owed, IsCarried, PackOf
<1> QED
  BY <1>4, <1>5, <1>6 DEF IInv

LEMMA DispatchKeepsIInv ==
  ASSUME IInv, NEW package \in Packages, Dispatch(package)
  PROVE  IInv'
<1> DEFINE new == NewRun("workflow_dispatch", package, pushed.manifest, pushed)
<1>1. runs' = Append(runs, new) /\ UNCHANGED <<source, registry, listed>>
  BY DEF Dispatch
<1>2. /\ new \in RunRecords /\ new.step = "plan" /\ new.plan = {} /\ new.at = 0
      /\ ~new.replaced
  <2>1. pushed \in Trees /\ pushed.manifest \in [Packages -> Manifests]
    BY DEF IInv, Types, Trees
  <2> QED
    BY <2>1 DEF NewRun, RunRecords, Steps
<1> HIDE DEF new
<1>3. /\ runs' \in Seq(RunRecords)
      /\ DOMAIN runs' = DOMAIN runs \cup {Len(runs) + 1}
      /\ \A q \in DOMAIN runs : runs'[q] = runs[q]
      /\ Runs' /\ Alone' /\ Listed' /\ Checked'
  BY <1>1, <1>2, NewRunKeepsIInv DEF IInv
<1>4. Types' /\ Catalogued(tree)' /\ Catalogued(pushed)'
  BY <1>1, <1>3 DEF IInv, Types, Catalogued, source, PackOf
<1>5. BeforeIsKnown => Owed'
  BY <1>1, <1>3 DEF IInv, Owed, IsCarried, source, PackOf
<1> QED
  BY <1>3, <1>4, <1>5 DEF IInv

LEMMA InitKeepsIInv ==
  Init => IInv
<1> SUFFICES ASSUME Init PROVE IInv
  OBVIOUS
<1>1. FirstManifest \in [Packages -> Manifests]
      /\ \A package \in Packages :
            FirstManifest[package].version = 1 /\ FirstManifest[package].requires = 1
  <2>1. [path \in Files |-> 1] \in FilesOf
    BY DEF FilesOf
  <2> QED
    BY <2>1 DEF FirstManifest, Manifests
<1>2. FirstTree \in Trees
  <2>1. \A package \in Adapters : FirstRow(package) \in Rows
    BY <1>1 DEF FirstRow, Rows, Adapters
  <2>2. [package \in Adapters |-> LockRow(FirstRow(package))] \in [Adapters -> LockRows]
    BY <2>1 DEF LockRows
  <2> QED
    BY <1>1, <2>1, <2>2 DEF FirstTree, Trees
<1>3. FirstTree.manifest = FirstManifest
      /\ FirstTree.catalog = {FirstRow(package) : package \in Adapters}
  BY DEF FirstTree
<1>4. Catalogued(FirstTree)
  <2>1. FirstTree.catalog = {CatalogRow(package, PackOf(FirstTree, package)) :
                                package \in Adapters}
    BY <1>3 DEF FirstRow, PackOf
  <2>2. \A package \in Packages : PackOf(FirstTree, package).requires = 1
                                  /\ PackOf(FirstTree, package).version = 1
    BY <1>1, <1>3 DEF PackOf
  <2> QED
    BY <2>1, <2>2, Order DEF Catalogued
<1>5. /\ commits = 1 /\ runs = <<>>
      /\ tree = FirstTree /\ parent = FirstTree /\ pushed = FirstTree
      /\ registry = [package \in Packages |-> {FirstManifest[package]}]
      /\ listed = [package \in Packages |-> {1}]
  BY DEF Init
<1>6. Types
  <2>1. registry \in [Packages -> SUBSET Manifests]
    BY <1>1, <1>5
  <2>2. listed \in [Packages -> SUBSET Nat]
    BY <1>5
  <2> QED
    BY <1>2, <1>5, <2>1, <2>2 DEF Types
<1>7. DOMAIN runs = {}
  BY <1>5
<1>8. Runs /\ Alone /\ Checked
  BY <1>7 DEF Runs, Alone, Checked
<1>9. Listed
  BY <1>1, <1>5 DEF Listed
<1>10. Owed
  BY <1>3, <1>5, CarriesOrder DEF Owed, IsCarried, PackOf
<1> QED
  BY <1>4, <1>5, <1>6, <1>8, <1>9, <1>10 DEF IInv

LEMMA StutterKeepsIInv ==
  IInv /\ UNCHANGED vars => IInv'
BY DEF IInv, vars, source, Types, Catalogued, Runs, RunInv, Owed, IsCarried, Alone,
       Listed, Checked, InGroup, PackageAt, ManifestAt, PackOf

LEMMA NextKeepsIInv ==
  IInv /\ [Next]_vars => IInv'
<1> SUFFICES ASSUME IInv, [Next]_vars PROVE IInv'
  OBVIOUS
<1>1. CASE \E written \in SUBSET (Packages \X Files), deleted \in SUBSET Deletable :
              \E bumped \in SUBSET Packages : \E interrupted \in BOOLEAN :
                 Commit(written, deleted, bumped, interrupted)
  BY <1>1, CommitKeepsIInv
<1>2. CASE \E known \in BOOLEAN : Push(known)
  BY <1>2, PushKeepsIInv
<1>3. CASE \E package \in Packages : Dispatch(package)
  BY <1>3, DispatchKeepsIInv
<1>4. CASE \E package \in Adapters : MoveTemplate(package)
  BY <1>4, MoveTemplateKeepsIInv
<1>5. CASE \E r \in DOMAIN runs : RunStep(r)
  BY <1>5, RunStepKeepsIInv
<1>6. CASE \E package \in Packages : \E entry \in registry[package] :
              List(package, entry.version)
  BY <1>6, ListKeepsIInv
<1>7. CASE UNCHANGED vars
  BY <1>7, StutterKeepsIInv
<1> QED
  BY <1>1, <1>2, <1>3, <1>4, <1>5, <1>6, <1>7 DEF Next

\* The invariant holds of every reachable state.
LEMMA Invariant == Spec => []IInv
<1>1. Init => IInv
  BY InitKeepsIInv
<1>2. IInv /\ [Next]_vars => IInv'
  BY NextKeepsIInv
<1> QED
  BY <1>1, <1>2, PTL DEF Spec

-----------------------------------------------------------------------------
(* The theorems *)

\* When every run ended well, what a push owed, its run has released: a plan is
\* the whole of the push, and a run that found nothing to do had selected nothing.
LEMMA GreenPaysWhatIsOwed ==
  ASSUME IInv, Owed, AllGreen, NEW package \in Packages
  PROVE  IsCarried(package, PackOf(pushed, package))
<1> SUFFICES ASSUME ~IsCarried(package, PackOf(pushed, package)) PROVE FALSE
  OBVIOUS
<1>1. PICK r \in DOMAIN runs :
         /\ runs[r].event = "push" /\ package \in Selected(runs[r])
         /\ Carries(PackOf(runs[r].sha, package), PackOf(pushed, package))
  BY DEF Owed
<1>2. RunInv(runs[r])
  BY DEF IInv, Runs
<1>3. runs[r].step = "green" /\ ~runs[r].replaced
  <2>1. runs[r].step # "nothing"
    BY <1>1, <1>2 DEF RunInv
  <2> QED
    BY <1>2, <2>1 DEF AllGreen, RunInv
<1>4. runs[r].plan = Selected(runs[r])
  BY <1>1, <1>2, <1>3 DEF RunInv, Placed
<1>5. PICK i \in DOMAIN ReleaseOrder : ReleaseOrder[i] = package
  BY Order
<1>6. PackOf(runs[r].sha, package) \in registry[package]
  BY <1>1, <1>2, <1>3, <1>4, <1>5 DEF RunInv
<1> QED
  BY <1>1, <1>6 DEF IsCarried

\* When every release run ended well, npm holds all that main packs, with all
\* that its catalog admits, next to the protocol it needs; provided that a push
\* names the head that it replaced. What npm holds beside it are packed files
\* that were deleted since (planReleases and the jobs of release.yaml).
THEOREM GreenMainIsReleasedHolds ==
  ASSUME BeforeIsKnown
  PROVE  Spec => []GreenMainIsReleased
<1>1. IInv => GreenMainIsReleased
  <2> SUFFICES ASSUME IInv, AllGreen
               PROVE  /\ \A package \in Packages :
                            IsCarried(package, PackOf(pushed, package))
                      /\ \A row \in pushed.catalog :
                            IsCarried(row.package, row.integrity)
                      /\ \A package \in Adapters :
                            \E entry \in registry[Protocol] :
                               entry.version >= PackOf(pushed, package).requires
    BY DEF GreenMainIsReleased
  <2>1. \A package \in Packages : IsCarried(package, PackOf(pushed, package))
    BY GreenPaysWhatIsOwed DEF IInv
  <2>2. Catalogued(pushed) /\ pushed.manifest \in [Packages -> Manifests]
    BY DEF IInv, Types, Trees
  <2>3. ASSUME NEW row \in pushed.catalog
        PROVE  IsCarried(row.package, row.integrity)
    <3>1. PICK package \in Adapters : row = CatalogRow(package, PackOf(pushed, package))
      BY <2>2 DEF Catalogued
    <3>2. row.integrity = PackOf(pushed, package) /\ row.package = package
      BY <3>1 DEF CatalogRow
    <3> QED
      BY <2>1, <3>2 DEF Adapters
  <2>4. ASSUME NEW package \in Adapters
        PROVE  \E entry \in registry[Protocol] :
                  entry.version >= PackOf(pushed, package).requires
    <3>1. PICK held \in registry[Protocol] : Carries(held, PackOf(pushed, Protocol))
      BY <2>1, Order DEF IsCarried
    <3>2. /\ PackOf(pushed, package).requires <= PackOf(pushed, Protocol).version
          /\ held.version = PackOf(pushed, Protocol).version
      BY <2>2, <3>1 DEF Catalogued, Adapters, Carries
    <3>3. /\ PackOf(pushed, package).requires \in Nat
          /\ PackOf(pushed, Protocol).version \in Nat
      BY <2>2, Order DEF PackOf, Adapters, Manifests
    <3>4. held.version >= PackOf(pushed, package).requires
      BY <3>2, <3>3
    <3> QED
      BY <3>4
  <2> QED
    BY <2>1, <2>3, <2>4
<1> QED
  BY <1>1, Invariant, PTL

\* A run that publishes from a push publishes what the push wrote: its plan is
\* the packages of which the tree before does not carry the new pack, and what
\* comes before the package it is at is on npm, unless a job of the run was
\* replaced (planReleases fails the whole plan on one half-bumped package; the
\* jobs of release.yaml need the ones before them).
THEOREM PushIsReleasedWholeHolds == Spec => PushIsReleasedWhole
<1> DEFINE Whole ==
      \A r \in DOMAIN runs :
          runs[r].step = "publish" /\ registry' # registry /\ runs'[r] # runs[r]
          /\ runs[r].event = "push"
          => /\ \A package \in Packages :
                   package \in runs[r].plan <=>
                      ~Carries(runs[r].before[package], PackOf(runs[r].sha, package))
             /\ \/ runs[r].replaced
                \/ \A i \in 1 .. runs[r].at - 1 :
                      ReleaseOrder[i] \in runs[r].plan =>
                         PackOf(runs[r].sha, ReleaseOrder[i]) \in registry[ReleaseOrder[i]]
<1>1. IInv => Whole
  <2> SUFFICES ASSUME IInv, NEW r \in DOMAIN runs,
                      runs[r].step = "publish", runs[r].event = "push"
               PROVE  /\ \A package \in Packages :
                            package \in runs[r].plan <=>
                               ~Carries(runs[r].before[package],
                                        PackOf(runs[r].sha, package))
                      /\ \/ runs[r].replaced
                         \/ \A i \in 1 .. runs[r].at - 1 :
                               ReleaseOrder[i] \in runs[r].plan =>
                                  PackOf(runs[r].sha, ReleaseOrder[i])
                                     \in registry[ReleaseOrder[i]]
    OBVIOUS
  <2>1. RunInv(runs[r]) /\ runs[r] \in RunRecords /\ runs[r].step \in Placed
    BY DEF IInv, Runs, Types, Placed
  <2>2. runs[r].at \in DOMAIN ReleaseOrder /\ runs[r].plan = Selected(runs[r])
    BY <2>1 DEF RunInv
  <2>3. runs[r].before \in [Packages -> Manifests] /\ runs[r].sha \in Trees
    BY <2>1 DEF RunRecords
  <2>4. \A package \in Packages :
           package \in runs[r].plan <=>
              ~Carries(runs[r].before[package], PackOf(runs[r].sha, package))
    BY <2>2, <2>3, Selection DEF Selected
  <2>5. ASSUME NEW i \in 1 .. runs[r].at - 1
        PROVE  i \in DOMAIN ReleaseOrder /\ i < runs[r].at
    BY <2>2, Order
  <2> QED
    BY <2>1, <2>4, <2>5 DEF RunInv
<1> QED
  BY <1>1, Invariant, PTL DEF PushIsReleasedWhole

\* What a step adds to the registry, a job that is about to publish adds, to its
\* own package and under its own version.
LEMMA OnlyPublishAdds ==
  ASSUME IInv, [Next]_vars, NEW package \in Packages,
         NEW entry \in registry'[package] \ registry[package]
  PROVE  \E r \in DOMAIN runs :
            /\ runs[r].step = "publish" /\ PackageAt(r) = package
            /\ entry.version = ManifestAt(r).version
<1>1. PICK r \in DOMAIN runs : Publish(r)
  <2>1. registry' # registry
    OBVIOUS
  <2> QED
    BY <2>1 DEF Next, RunStep, Commit, Push, Dispatch, MoveTemplate, List, MakePlan,
                Verify, StartJob, Check, FailJob, Wait, RecordRegistryDigest,
                OnlyRuns, vars
<1>2. runs[r].step = "publish" /\ registry' # registry
  BY <1>1 DEF Publish
<1>3. PICK stored : Accept(r, stored)
         /\ (stored = ManifestAt(r) \/ stored = OtherBytes(ManifestAt(r)))
  BY <1>1, <1>2 DEF Publish
<1>4. ManifestAt(r) \in Manifests /\ PackageAt(r) \in Packages
  <2>1. RunInv(runs[r]) /\ runs[r] \in RunRecords
    BY DEF IInv, Runs, Types
  <2>2. PackageAt(r) \in Packages
    BY <1>2, <2>1, Order DEF RunInv, Placed, PackageAt
  <2>3. runs[r].sha.manifest \in [Packages -> Manifests]
    BY <2>1 DEF RunRecords, Trees
  <2> QED
    BY <2>2, <2>3 DEF ManifestAt, PackOf
<1>5. stored.version = ManifestAt(r).version
  BY <1>3, <1>4, OtherBytesAreAPack
<1>6. package = PackageAt(r) /\ entry = stored
  BY <1>3, <1>4 DEF Accept, IInv, Types
<1> QED
  BY <1>2, <1>5, <1>6

\* A version is published over no newer one, whatever order the runs of a package
\* get to it in, unless a job of the package ended before npm listed what it took
\* (the check after the wait for an earlier run of the package).
THEOREM VersionsGoUpHolds == Spec => VersionsGoUp
<1> DEFINE Up ==
      \A package \in Packages :
          InGroup(package, {"unsure"}) # {}
          \/ \A entry \in registry'[package] \ registry[package] :
                \A old \in registry[package] : old.version < entry.version
<1>1. IInv /\ [Next]_vars => Up
  <2> SUFFICES ASSUME IInv, [Next]_vars, NEW package \in Packages,
                      InGroup(package, {"unsure"}) = {},
                      NEW entry \in registry'[package] \ registry[package],
                      NEW old \in registry[package]
               PROVE  old.version < entry.version
    OBVIOUS
  <2>1. PICK r \in DOMAIN runs :
           /\ runs[r].step = "publish" /\ PackageAt(r) = package
           /\ entry.version = ManifestAt(r).version
    BY OnlyPublishAdds
  <2>2. Checked
    BY DEF IInv
  <2> QED
    BY <2>1, <2>2 DEF Checked
<1> QED
  BY <1>1, Invariant, PTL DEF VersionsGoUp, Spec

=============================================================================
