# A verification model of the publication pipeline

This directory holds TLA+ models of the programs that build a site from an author's repository, freeze it,
obtain the authorization to publish it and publish it to a destination (a local directory, a DigitalOcean
Spaces bucket, GitHub Pages), and of the release of the adapters that do so; the TLC configurations that
check them on small instances; and TLAPS proofs about eight of the modules. The models are translated from the source
under `src/`; `PROJECT.json` ties every definition to the lines it stands for, every property to the
hazard it is about, and every property to a plausible bug in the code that would break it.

How to run: `tlc -config KernelRun_rivals.cfg MCKernelRun.tla` and `tlapm KernelRunProofs.tla`, in this
directory. Most checked instances take less than half a minute with two workers; `build` and `release` take
about two minutes each.

Contents

1. The system
2. The modules, and how they correspond to the code
3. The runs
4. Fairness
5. What is proved
6. Disagreements with the code's own documents
7. What is not modelled, and known limits of the models
8. Plan

---

## 1. The system

An author runs `validate` and `build` of the **publish action** on a repository; the managed workflow does the same
in a job of its own. There, **prep** packs the checkout, **build** renders it, **freeze** makes the frozen envelope
of the two, and three jobs publish it: **authorize** exchanges the frozen artifact's metadata
for an *intent* at the Gala API; **deploy** checks the intent against the frozen artifact, drives one
*adapter* through a lifecycle and writes a *journal*; **report** obtains a single-use capability and
submits the journal. Nothing else is persisted by the workflow: the destination, the journal and the
API's record are the three things that can disagree, and most hazards are about that.

Interactions: `deploy.mjs` calls `runKernelLifecycle` (`kernel-run.mjs`), which calls the kernel's five stage
evaluations (`publish-kernel`), the fence comparison (`adapter-protocol`) and the adapter's functions, in
the order inspect, preflight, stage, inspect, activate, observe, cleanupStaged. The adapters talk to the
file system or to a provider, one awaited call at a time. `report.mjs` and the exchanges go through one retry
loop in `gala-api.mjs`. Two workflow runs of different refs are *not* serialised: the concurrency group
of `docs/callers/gala-publish-v2.yml:29-31` is per ref, with `cancel-in-progress: false`.

| component | state it keeps | operations | what is hard about it | what makes it correct |
|---|---|---|---|---|
| kernel-driven run (`scripts/workflow/kernel-run.mjs`) | journal (attempts, observations, failure), phase, crash outcome, outcome | one run through all stages; every adapter call may throw, classify a failure or answer no object | a throw after the effect; rival runs on one destination; loss of the runner; which entry is written in which order | the journal never denies a change, never claims one that did not land; the outcome and the journal agree |
| generation fence (`adapter-protocol/generation-fence.js`) | none | compare a fence with what is served | compared before, and not together with, the change | a rival that comes after a change is stopped; one that had compared before it is not (finding 23) |
| kernel duties (`publish-kernel`) | none | ambiguous outcome, blind retry, stage evaluations | the outcome handed to them | an ambiguous outcome is never rounded off, never retried blindly |
| local-directory adapter | `current` symlink, releases, stages, history and journal files | inspect, stage, activate, observe, cleanup, rollback; recovery of an interrupted promotion | no lock; a crash between any two file system calls; files rewritten in place; retries | a reader gets whole generations only; retained generations are on disk |
| Spaces adapter | objects and marker of the served bucket, staged objects | inspect, preflight, stage, activate object by object, observe, cleanup | no atomic replacement; the conditional guard may be ignored; the public marker read may fail; rivals interleave | the pointer goes last; no report is better than what is served; an upload given up is not left open |
| Pages observation | matched routes, cursor, streak of errors, lifetime | passes of reads over a CDN | stale answers in any order; transient errors; a sample and a confirmation instead of a full read | verified only on the last answers; fails only for a reason; always answers |
| Pages activation and recovery | provider's deployment per build version, served generation | preflight, stage, checks of inputs, record and token, create, poll, ask/cancel/await the prior attempt | the create is received after it was sent; lost answers; lost runners; status belongs to a version, not to an attempt | one operation is not published twice; no answer is better than what happened |
| Gala client, deploy and report jobs | job results, journal artifact, capability, the API's record | three exchanges, retries, re-runs of all or of the failed jobs | lost and late messages, retry of what was done, cancelled jobs | one intent deploys once; the record is true; a green workflow has reported |
| frozen candidate (prep, build, freeze, first half of authorize) | the carriers and the envelope that one job leaves the next | pack, render, freeze, decode, derive the request | an output with members of another build; an envelope damaged in storage; limits of a fit request | one encoding per candidate; a request is of one build; an honest candidate is never refused |
| intent binding and handoff (`authorized-intent.mjs`, `capability-decision.mjs`, `deploy.mjs`, `report.mjs`) | the intent's carrier, the journal, the toolchain's lists of versions | bind the intent to the run, decide the capability, enter the kernel, report | a re-run with an old intent; one wrong member among right ones; versions that move at different times | the kernel is entered only with this attempt's own intent; an honest one is deployed; what deploy left is reported |
| repository intake and build (`publish-action`) | the author's files, the output and the work directory | validate, build: list, read, resolve media, render, record | edits and deaths between two steps; removal of directories; the order and the cap of findings | the inventory is exact; only what is published is built; a refusal touches nothing; the records describe the output |
| adapter release (`release.yaml`, `scripts/release`) | main, the catalogue and fixture lock, npm | commit, push, dispatch, plan, check, publish, wait, compare digests | overlapping runs, replaced jobs, a listing that lags, a lost answer, a push that only deletes | what a green main packs is on npm, released whole or not at all, and versions go up |
| artifact duties, adapter protocol shapes, wire layers, conformance kit, checks of pins and drift | none, or files of one sequential command | pure checks and conversions | boundaries of limits | accepted or refused exactly as documented |

`PROJECT.json` lists these components file by file with their status, and the hazards at the line
where each bites.

## 2. The modules, and how they correspond to the code

```
Publication  <--refines--  KernelPublication --> KernelRun --> GenerationFence, KernelDuties
                                                    (inspect/preflight/stage/activate/observe/cleanup)
adapters below the kernel:  LocalDirectory   SpacesActivation   PagesObservation
                            PagesDeployment --> PagesRecoveryRecord
around the kernel:          Reporting  (authorize -> deploy -> report, Gala API, re-runs)
before the kernel:          Handoff --> AuthorizedIntent, FrozenCandidate   (intent, toolchain, re-runs)
                            CandidateJobs --> FrozenCandidate --> FrozenEnvelope, WorkloadContract, AdapterCatalog
                                          --> TemplateRender   (external)
the author's side:          RepositoryBuild --> RepositoryIntake --> ContentMedia, AdapterCatalog
the adapters' release:      AdapterRelease --> AdapterCatalog
proofs:                     <module>Proofs, for KernelRun (and KernelPublication), LocalDirectory, SpacesActivation,
                            Pages (PagesObservation and PagesDeployment), Reporting, Handoff (and AuthorizedIntent),
                            Build (RepositoryBuild and CandidateJobs, with the envelope), AdapterRelease
instances:                  MC<module> + <module>_<name>.cfg
```

The kernel run treats its adapter as an adversary: it may do whatever the eight-function protocol
allows. The adapter modules then open that box one adapter at a time, with the provider (file system,
bucket, Pages) as the adversary; Reporting closes the kernel run into one step whose possible results
are those KernelRun can leave. Handoff opens the deploy job up to the kernel: the documents themselves are the state, and the API may answer with
the wrong one. CandidateJobs does the same for the jobs before the request, with the renderer and the storage as
the adversaries. This is why no module composes everything: each boundary is
over-approximated on the one side and modelled in detail on the other.

**GenerationFence** — the values of a fence (`ExpectNothing`, the sentinel, or a generation), what a state
observed at a destination says as a fence, and their disagreement. Shared by four modules.

**KernelDuties** — the kernel's classification of a provider call's outcome (attempted, responded,
ambiguous) into the disposition that the run journals, and the blind-retry rule.

**KernelRun** — `served` is the destination; per run, `pc` is the position in `runKernelLifecycle`, `attempts`,
`observations` and `failure` are `journal.*`, `crashOutcome` is the variable of the same name that the outermost
handler reports, `outcome` is the returned object, and `touched`/`landed` are history variables. One action per
stage and way to end it: `EvaluatePreflight`, `Inspect` (twice), `PreflightThrows/Answers`,
`StageThrows/Answers`, `Activate` (call, compare, switch, answer as separate steps, so rivals come in between, whatever the
adapter's class: the local directory, the one adapter that declares expected-generation, compares at `index.js:387` and swaps, without another
look, at 434. The class says that nothing changes before the switch), `ObserveThrows/Answers`, `CleanupStaged`, and `Kill`. A call that throws may have
taken effect or not. `Malformed` names the calls whose answer may be no object at all: reading it throws
outside the guard of that stage, in the outermost handler. Runs share nothing but `served`.

**Publication** is what every publication promises: the destination changes only under a run that has
not reported yet, "unchanged" is said only by a run that left the destination alone, "published" only of
a generation that was served while it ran. **KernelPublication** reads the report off a run's outcome and journal
(`ReportOf`) and states that KernelRun implements Publication.

**LocalDirectory** — `current`, `releases`, `stages`, `history` and `journal` are the directory entries and files of the
root; per run, `copy` is the in-memory history or journal that will be written back, `doomed` the sweep's
worklist. Every awaited file system call is an action: `WriteStage` (files one by one, abstracted to
partial and whole), `Truncate` and `WriteFile` (the two halves of `writeFileDurably`), `Promote` (rename), `Swap`
(symlink rename), `ListReleases`, `RemoveTree`, `CleanStage`. `Crash` ends a run between any two;
`CleanUpAfterCrash` is the interrupted-promotion recovery of a later process. `StartRollback` and `CopyTarget` are
`rollback`, which stages a copy of a retained release. Runs with one `KeyOf`/`TokenOf` are retries.

**SpacesActivation** — `root` maps object keys to bytes and `pointer` is the marker's generation; `staged` is the run's
prefix in the staging bucket. `Activate` covers the fence read, the HEAD for the ETag, the object writes,
the superseded deletes and the guarded marker write, each call a step; `Fail` is a call that throws or the
loss of the runner; `Observe` enumerates and reads object by object. `CreateUpload`, `UploadPart`, `CompleteUpload` and
`AbortUpload` are `uploadMultipart`, with `upload` the run's own variables and `open` what the provider keeps; the answers of
creation and completion may be lost. A website origin that fails says
"nothing served" with a finding, as `readServedMarker` does.

**PagesObservation** — `matched` and `fresh` are the sets of the pass bookkeeping, `cursor` the rotating sample's
position, `errorStreak`/`errorCode` the streak, `expired` and `late` the clock. Until the lifetime is over a read may be answered
with anything up to the generation, in any order; afterwards with the generation.

**PagesDeployment** — `status` and `holder` are the provider's deployment per build version, `request` the create of
each attempt in flight, `bound` the version that `bindIdentity` puts into the calls of a recovery; `ReceiveCreate` and `Advance` are
the provider. `Preflight` and `Stage` are the calls before `activate`; `Inspect` and `InputRefused` are its checks of what it was called with,
`AskPrior`, `CancelPrior`, `AwaitPrior` are `resolvePriorAttempt`, `TokenRefused` and `Create` the binding of the OIDC token and the create
behind it, `CreateAnswered`, `Unanswered` and `Poll` the rest. `InputsOf` is what `activate` may be called with. The twelve statuses are
abstracted to the partition the code makes of them.

**PagesRecoveryRecord** — the record that authorizes a recovery and the proof in it about the attempts in between, as operators: how the
rows, the proof and the record are built and sealed, and what `validateReconciliationRecovery` and `validateRunAttemptGapProof` accept. A digest is what
it is taken over, so two documents have one digest exactly when they are equal.

**Reporting** — `attempt`, `job` and `result` are the workflow as GitHub keeps it, `carrier` the intent artifact, `journal` the journal
artifact, `sends`/`reply` the retry loop of `gala-api.mjs`, `network` the requests in flight, and `bound`,
`generation`, `status`, `recorded` the API. The API is not part of the repository; it is modelled from the fake
the repository's own tests run against (`test/fixtures/fake-gala-api.mjs`) and kept small.

In the modules below a digest is a record that names what it is taken over, so that two digests are equal exactly when the
digested values are; a canonical encoding is `[jcs |-> document]`; and a closed JSON document is a record whose
domain is its members. A member that is off its pattern is not a member.

**WorkloadContract** (no variables) — `ValidateDeploymentIntentRequest`, the destination of an intent, the receipt request and
the three forms of a submission as predicates on records: which members are declared and required, which
vocabularies and bounds hold, and which combinations of members exclude each other.

**FrozenEnvelope** (no variables) — `EncodeFrozenEnvelope` and `DecodeFrozenEnvelope` record by record: magic, count, kinds, order,
limits, the end of the file. The bytes of a header are fields of a record.

**FrozenCandidate** (no variables) — what each job derives from the carriers: `VerifiedInputs`, the lock's rows, the facts of the
build (`BuildFactsAreValid`), `Freezes` and `BuildFrozenEnvelope`, the SBOM's package rows, `DeriveAuthorizationInput`, the
verification profile cut to a fit request, `BuildDeploymentIntentRequest`. **TemplateRender** is what the renderer writes, an external
package of which these jobs read the members.

**CandidateJobs** — `inputs`, `output`, `envelope`, `stored`, `input` and `request` are the artifacts of the jobs prep, build, freeze and authorize.
The freeze job is two steps: `Freeze` writes the envelope, and `BuildAuthorizationInput`, once that is uploaded, compares it with the digest of the
upload, decodes it and derives the authorization input. `Authorize` downloads that input alone and makes the request of it.
`BuildFaulty` leaves an output with a member of another build, a member missing or a file too many; `DamageStored` loses,
doubles, swaps or changes one record of the envelope between the two steps of the freeze job.

**AuthorizedIntent** (no variables) — `BindAuthorizedIntent` in the order of its checks, the fence an intent selects, the capability
decision recomputed from the intent's own members, and `JournalAgreesWithIntent`.

**Handoff** — `candidate`, `authorization`, `journal` and `submission` are the documents the jobs authorize, deploy and report hand
on, `toolchain` is what the workflow is pinned to, `now` the clock an intent expires on. `Authorize` answers an honest intent (with the
identities the run derived, or with the API's own), `AuthorizeWrongly` one of another run, of an earlier attempt, or
honest but for one member. `Deploy` is every check before the kernel, in the code's order; the
kernel is one of `Endings`. `Report` builds one of the two submissions and validates it.

**AdapterCatalog** (no variables) — the installed and the previous rows, and what a lock is admitted by.

**ContentMedia** (no variables) — the three resolutions of references (images, audio, files): where a reference points,
whether that file may be published, the limits, the findings and their order, the entries of the inventory.

**RepositoryIntake** (no variables) — what is wrong with the configuration, the lock, the documents, the modules and the pages of a
repository, in the order of the checks; which documents are in the build; which editions are current.

**RepositoryBuild** — `repository` is the author's files, `directories` the output and the work directory, `intake` what the running
command has read, `step` where it is in `Steps`, `result` its envelope. Each read of the repository is a step of its own (media are inspected in one
step and read in another, as in the code), the removal of a directory is one step per file, the render is one step per file and may fail between two,
and each marker and record is a step. `Crash` ends a command between any two steps; `Edit` is the author.

**AdapterRelease** — `tree`, `parent` and `pushed` are the maintainer's main and the remote's; `runs` the release runs with their plan and the package they are
at; `registry` is what npm holds and `listed` what `npm view` answers, which lags behind; `template` the row user-template pins. A package packs its package.json and files, each with the commit that wrote it; `Commit` writes and
deletes some. `ChangedFiles` is the diff with its deleted paths, and `SelectChangedPackages` looks for each in the listing of the new
tree, `PackedFiles`, as the code does. `StartJob` is the concurrency group of a package, in which a
waiting job may be replaced; its run then ends cancelled, at once or after its next packages.

## 3. The runs

All properties that hold were also tried against a mutated definition each (`mutants` in `PROJECT.json`): a
dropped guard, a swapped order, a wrong entry. Each is found, so none holds by the shape of the model.

| run | instance | distinct states | what it shows |
|---|---|---|---|
| `kernel_rivals` | two runs expect g0 and propose g1, g2; best-effort class; inspect, preflight, stage, observe may answer no object | 5,505 | `ChangeIsJournalled` no run that changed the destination and ended denies it; `RefusalLeavesDestination` skipped and failed stages left the provider alone; `SuccessHasLanded`; `OutcomeMatchesJournal`; `JournalIsAdmitted` every entry is one of the receipt contract's combinations; `Publishes` refinement of Publication |
| `kernel_fenced` | the same runs, expected-generation class, fair | 3,011 | `LateRunsAreFenced` a rival that had not compared before the destination changed does not come to its switch; `ChangeIsEventuallyJournalled` |
| `local_alone` | a deployment, its retry (same or other bytes), a second one, a rollback; one at a time, each may crash; one prior kept | 767,815 | `ServedIsWhole`, `RetainedIsOnDisk`, `SweepLeavesRetained`; `ActivationIsAtomic` is a property of every step |
| `spaces_rivals` | two runs, two objects of which one of the first run goes up in two parts, guard honoured or ignored, origin may fail | 947,772 | `RefusalIsHonest`, `VerifiedWasServed` (objects are read one by one while others write), `DamageIsReported` (a mix is never vouched for by every run that made it) |
| `spaces_alone` | three runs one after another over each other's debris | 1,678,608 | `PointerIsLast`, `GenerationFenceHolds` |
| `pages_observation` | three routes, sample of one, streak of three, two transient codes | 348,077 | `VerifiedOnLastAnswers`, `FailsForAReason` |
| `pages_deployment` | a prior attempt, its recovery, a rival of another commit; two polls; thirty-odd records (as minted, misshapen, or changed after they were sealed) and as many tokens, each wrong in one place | 85,867 | `PriorStaysDead`, `ActivateAnswerIsTrue`, `ReconcileChangesNothing` |
| `reporting` | two attempts of the workflow, two sends per call, three capabilities | 162,860 | `OneDeployment`, `ReportTellsWhatHappened`, `GreenIsReported`, `WorkflowEnds` |
| `candidate` | nineteen checkouts (six of them honest, of one to three files), three other builds, four stray files | 1,658 | `AcceptedIsCanonical` what a decoder accepts is the encoding of what it answers; `RequestIsOfOneBuild`; `HonestCandidateIsRequested`, also beyond the limits of a fit request |
| `handoff` | two attempts of one run, two toolchains, three checkouts, two other runs, three endings of the kernel | 32,556 | `KernelGetsItsOwnIntent`, `HonestIntentIsDeployed`, `WhatDeployLeftIsReported` |
| `release` | the protocol and one adapter, a file in each besides its package.json; two commits on top of the first tree, three runs, one fault | 2,836,935 | `GreenMainIsReleased` npm holds all that a green main packs; `PushIsReleasedWhole` and `VersionsGoUp` are properties of every step |
| `build` | a hundred repositories, each different in one thing; two commands, one edit, one death | 2,919,987 | `InventoryIsExact`, `BrokenReferencesAreAllNamed`, `OnlyWhatIsPublishedIsBuilt`, `RefusalTouchesNothing`, `WorkDescribesTheOutput` |

The modules also state properties no run lists, so that the runs stay about what can go wrong: each module's
type invariant (those of KernelRun and SpacesActivation are proved), `OneAttemptPerStage` of KernelRun (proved), `KeysAreBound` and `SwapRespectsFence` of
LocalDirectory (the latter holds as long as one process at a time is on a root, finding 23), and the liveness properties `ObservationAnswers` of PagesObservation and `AttemptEnds` of PagesDeployment.
They hold on the instances of the runs; to see it, add them to the configuration.

**Why the bounds are enough.** *Kernel*: runs interact only through `served`, and the proofs (section 5) show
the invariant of one run never mentions it, so a third run adds nothing; two are needed for a rival.
*Local*: with one prior kept, three generations (first, second, the rollback's new one) are what it takes for a sweep
to have something to remove and a rollback something to lose. *Spaces*: a large object of two parts has a part that is not the last, and beside it a small one; two objects distinguish
"some" from "all" and give a mix; three runs in a chain give debris of debris, which has no state of its own
(the bucket is all that remains). *Observation*: three routes with a sample of one make the cursor wrap and leave
routes outside the sample; `CursorPeriod` is a multiple of every count the cursor is taken modulo of, so reducing
it loses nothing; `MarginPasses = 2` has a first and a last late pass. *Deployment*: each loop is
entered, goes round and runs out with two polls. *Reporting*: two sends have one resend, two attempts one re-run of
either kind, and three capabilities let one be held, one supersede it and the limit be met. *Candidate*: an envelope of up to six records and
twelve bytes has candidates on both sides of each limit; a profile of two entries is cut for the site of three files and not for that of one. *Handoff*: two attempts have one
re-run of either kind; with a lifetime of one tick an intent is valid, or expires before any job. *Release*: two
commits make a half-bumped push, a file deleted next to one that is written, and a second version; of three runs one publishes, one waits and one replaces it.
*Build*: every limit is small enough for some repository to exceed it and another to meet it; two commands are enough for one to find what the
other left, and one edit for every read to be of another state than the last.

**Deadlock.** Pages deployment and reporting have an explicit `Done`/`Ended` step and are checked for deadlock. In the
other modules a run that is over has no step: the system really stops, and the configurations say so.

**Configurations that are not runs.** Properties that documents state and the code does not keep are in
the modules. Some are refuted on the very instance of a run, when TLC is given them as an invariant in place of the
run's own (the run's configuration names them); the others need constants of their own, and have a configuration:

| configuration | property TLC refutes with it |
|---|---|
| `KernelRun_rivals.cfg` (a run) | `CleanupOnlyWhenResolved` |
| `KernelRun_fenced.cfg` (a run) | `NoLostUpdate`, of two runs that compare before either switches |
| `KernelRun_malformed.cfg` | `ChangeIsJournalled`, when activate answers no object |
| `LocalDirectory_rivals.cfg` | `ServedIsWhole`, of two overlapping deployments; `SwapRespectsFence`, as a property |
| `LocalDirectory_alone.cfg` (a run) | `PriorIsRetained`, `ReplayHasStage`, `BookkeepingIsReadable` |
| `SpacesActivation_sentinel.cfg` | `SentinelRefuses`, `NothingLeftBehind` |
| `PagesObservation_pass.cfg` (a run) | `TransientErrorsAreWaitedOut` |
| `PagesDeployment_commit.cfg` | `SucceedIsThePriors` |
| `Reporting_workflow.cfg` (a run) | `ReplayIsToldApart` |
| `AdapterRelease_runs.cfg` (a run) | `TemplateIsAdmitted`; `NothingIsSkipped`, when a push deletes a packed file and writes none |
| `AdapterRelease_runs.cfg` (a run), with `BeforeIsKnown = FALSE` | `GreenMainIsReleased`, when a push replaced a head the checkout does not hold |
| `RepositoryBuild_findings.cfg` | `RootDigestIsOfTheSource`, `BuildIsSafeToRepeat` |

They are the regression instances of section 6: when the code is changed, the model should be too, and TLC should then
pass.

## 4. Fairness

Safety is checked without fairness: any run may stop anywhere, which is the loss of a runner.

* `KernelRun!FairSpec`: weak fairness of each run's `Step`. The lifecycle is one awaited sequence with no loop, and
  each call has a timeout of its own in the adapter; `Kill` is not fair, and is an alternative in the property.
* `PagesObservation!FairObservationSpec`: weak fairness of `Pass` (every read has a timeout and every wait is a timer) and of
  `Expire` (time goes on). No fairness of any particular answer.
* `PagesDeployment!FairSpec`: weak fairness of each attempt's `Step` only. The provider receives, finishes or refuses
  nothing if it does not want to; `AttemptEnds` rests on the two budgets alone.
* `Reporting!FairSpec`: weak fairness of `Work`, the jobs' own steps. The network, the API and the operator owe nothing;
  `WorkflowEnds` rests on the bounded retries, the send timeout (`GiveUp`) and the bound on attempts.

The four modules around the candidate, the handoff, the build and the release state no fairness: their commands and jobs are straight lines without
a wait of their own (the wait for npm's listing gives up after twenty tries, which is the `"unsure"` end of a job), so that nothing is to be shown beyond safety.

## 5. What is proved

A theorem holds for every value of the constants that the `ASSUME` of its module admits (they have their types, and the model
values that stand for nothing are not among the values): every number of runs, attempts, objects, routes, packages and
faults, and every bound on how often something happens. Where a theorem needs more, the hypothesis is in its statement and in
the table; a theorem listed by its property is called that and `Holds` (`GenerationFenceKept` is the one of `GenerationFenceHolds`).
TLC evaluates the `ASSUME`s on every run, and the hypotheses that are definitions are `ASSUME`d by the MC module
or hold on the instance of the run, so none of them is empty.

| module of proofs | theorems (property) | hypotheses, and why the code has them |
|---|---|---|
| `KernelRunProofs` | `JournalAdmitsChange` (`ChangeIsJournalled`), `RefusalsAreClean`, `SuccessesLanded`, `OutcomeTellsJournal`, `JournalsAdmitted`, `TypeCorrect`, `StageAttemptsDistinct`; `LateRunsAreFencedHolds`; `KernelRunPublishes` (the refinement of Publication) | the first and the last: `"activate" \notin Malformed`, without which they are false (finding 6). `LateRunsAreFencedHolds`: the class is not best-effort, whose adapter changes what is served before its switch, and proposals are fresh, without which a run could restore what a rival expects. That an adapter compares again when it switches is not assumed |
| `LocalDirectoryProofs` | `ServedIsWhole`, `RetainedIsOnDisk`, `SweepLeavesRetained`, `ActivationIsAtomic` | `Exclusive`: callers change a root one at a time (false otherwise, finding 1). `IdentitiesGoTogether`: `deploy-local-directory.js` mints a generation, an attempt and a key together. `RollbacksAreNotRetried` (finding 22) |
| `SpacesActivationProofs` | `RefusalIsHonest`, `VerifiedWasServed`, `DamageIsReported`, with any number of rivals; `PointerIsLast`, `GenerationFenceHolds`; the type invariant | the last two properties: `Exclusive`, as the module states them |
| `PagesProofs` | of observation: `VerifiedOnLastAnswers`, `FailsForAReason`; of deployment: `ReconcileChangesNothing`; `ActivateAnswerIsTrue`; `PriorStaysDead` | none for the first three. `RecoveriesAreCalledSo`: the mode of the input and the digest of the record are of what the server minted. `VersionsAreGenerations`: one commit is built into one generation (false otherwise, finding 10). `RecoveriesShareNoVersion`: section 7 |
| `ReportingProofs` | `OneDeployment`, `ReportTellsWhatHappened`, `GreenIsReported` | none |
| `BuildProofs` | of the build: `RefusalTouchesNothing`, `WorkDescribesTheOutput`; of the candidate: `AcceptedIsCanonical`, `RequestIsOfOneBuild`, the type invariant | none for the first. `BeginningsAreOfBuilds`: what lies in the directories before the first command is what builds left there, or is no manifest. The candidate: `BytesAreOfOneForm` (bytes that are the canonical form of a document are nothing else) and `SitesHaveOrdinaryPaths` (a site has none of the build's own file names). `RequestIsOfOneBuild` also: `BuildsAreNamed` (a name stands for the digest of the build input) and `PackagesAreReleases` (npm replaces no release, so a package's identity determines its row of a lock) |
| `HandoffProofs` | `KernelGetsItsOwnIntent`, the types of the documents; `WhatDeployLeftIsReported`; `HonestIntentIsDeployed` | none for the first two. The third: the jobs before pass their own candidates (`CandidatesAreRequested`), the publish action ships an adapter for Pages (`PagesIsInstalled`), a kernel run leaves an admitted journal (`EndingsAreJournals`, which is `JournalsAdmitted` of KernelRun). The last also: `AdaptersHaveOnePackage`, one adapter to a package and one package to an adapter in a catalogue |
| `AdapterReleaseProofs` | `PushIsReleasedWhole`, `VersionsGoUp`; `GreenMainIsReleased` | none for the first two. `BeforeIsKnown` (false otherwise, finding 13) |

None of the properties is inductive. Each module of proofs states an `IInv` (or two named invariants) that is, and has a lemma
per action of the model, or per group of actions that change the same things.

*KernelRun.* The properties speak of the journal of a run that ended and do not know what is in it on the way. `IInv` is
`TypeOK` and, for every run, `RunInv`: `JournalShape` (which entries there are in each phase), `ProviderShape` (what `staged`, `touched`,
`landed` and `crashOutcome` can be in each phase, which makes an early "unchanged" true) and `Honest` (what any
entry may claim in any phase). `RunInv(r)` mentions no variable of another run and not `served`, so a step is either of another run and
leaves it alone (`OtherRunsInv`) or of the run itself (`OwnRunInv`, one step per action). `LateRunsAreFencedHolds` adds `Superseded`: a fence that let
a run change the destination disagrees with it from then on, so that whoever compares after it declines; who compared before it swaps all the same
(`NoLostUpdate` is false). `KernelRunPublishes` maps initial states to initial states and, with `IInv`, every
step to a step of Publication or a stutter.

*LocalDirectory.* One run is busy at a time (`OneBusy`), so what it has read is still so (`Phases`). `Books` and `Apart` are about retries: a
stage is written before its key is journalled and never after, and a release that a sweep or a cleanup has begun to remove has no stage
left, so no deployment activates it again. `Whole` says that what is served or retained is whole. The property of every step follows from
`IInv` before and after it.

*SpacesActivation.* A step changes the bucket not at all, by one object or by the pointer (`BucketStep`), and every invariant
is shown to survive those three, whoever makes them. What a reader of the bucket has read up to now is told by `Reading` and `Tells`; damage is
admitted because somebody can be named for it at any time (`Witness`): a run that has written and has not vouched yet. For runs
one after another, `Building` and `Fenced` say how much of the bucket is the run's own artifact by then.

*PagesObservation.* `LastAnswers`: what is taken for matched was last answered so. `LatePass`: a pass that starts after the lifetime and meets
no fault leaves nothing unmatched behind it. `FaultsAreSeen`: an error, a redirect or a throw comes of a fault.

*PagesDeployment.* A create is sent once, accepted at most once, and what the provider publishes of a version is the carrier of an attempt
whose create it accepted (`Sent`, `Holding`, `Landed`). The provider's own steps and the adapter's are separate lemmas. `Cleared`: when a
recovery may send, the create of the attempt it recovers was accepted and came to nothing.

*Reporting.* The API binds one attempt and never another (`Binding`); once that attempt's deploy job is behind it nothing can deploy any more
(`Closed`); a document is submitted by the bound attempt only, when `Closed`, and so stays true (`Story`), also when it arrives late or
twice; a recorded submission leaves no capability with which to make another (`Capability`).

*RepositoryBuild.* The steps are of two kinds, and none of the first follows one of the second (`StepsInOrder`, `AfterChecking`,
`AfterChanging`): before the removal nothing has changed, and only there can a command be refused (`Refusals`). From there on the
directories are emptied, output before work, and filled from an input that no step changes any more (`Contents`).

*CandidateJobs.* `AcceptedIsCanonical`: a file sequence is sorted by the rank of its paths (`AscendingIsSorted`, `RowsInByteOrder`), so a record
stream that has the shape of one and whose paths ascend is its own encoding (`EncodingIsCanonical`); damage leaves the shape and can only
break the order or a digest (`DamageKeepsShape`). `RequestIsOfOneBuild`: `CandidateInv` says that the inputs are the checkout's, that each
document of the output is some build's (`IsMixture`) and that the envelope is the freezing of the two. The envelope's records are compared with the manifest one
by one (`PayloadIsTheSite`), the build input's name with the manifest's and the theme contract with the lock's; each comparison takes one more member of the
mixture to the same build, until none is left (`RequestedOutputIsOneBuilds`). `InputIsDerived` carries what the freeze job compared over to authorize, which
sees the input alone.

*Handoff.* A swapped member of an intent is either this attempt's own value or one that no check of deploy compares; so an intent that passes
differs from the attempt's own in `Unbound` members only. `HandoffInv` says of which attempt the candidate is and of which attempts an issued
intent can be. `ReportInv`: the journal belongs to the authorization at hand, until a re-run of the failed jobs alone replaces one of them. `HonestInv`: an authorization
carries its intent's marker, only Pages is deployed, and if no answer was wrong and no job re-run alone, then candidate and authorization are
honest ones of this attempt, of which every check of deploy is shown to hold in turn.

*AdapterRelease.* What the record of a run says of npm becomes only truer as npm takes versions (`RunInv`). What main packs and npm does
not carry, the diff of some push has among the paths its new tree packs (`Owed`), so that a green main has been released by the runs that owed it.
A tarball `Carries` a pack when only deleted files distinguish them; `Carries` is transitive, and a package that a push does not select is carried by what
the tree before it packed. At most one job of a package holds
its group (`Alone`), hence the job that waits for a version knows all that npm has taken and does not list (`Listed`), and a
job that has checked is ahead of it (`Checked`).

*Changes that the proofs made to the models.* `VerifiedWasServed` has the exception for what a third run puts back, and the retried rollback became
finding 22, each after an attempt to prove more failed and TLC printed the behaviour. The plan
of a release run and the unmatched routes of an observation are sets, taken in the order of a constant, where they were sequences, and the files of
an envelope are put in byte order by their rank and not by a sorting fold: the prover knows nothing of `SelectSeq` and of folds. The
wrong intents of Handoff are one operator each, a proof having a case for each. What RepositoryBuild and CandidateJobs both
called `Init`, `Spec` or `ByPath` has names of its own in each, so that one module of proofs can extend both.

*Only model-checked*, and why:

* the liveness properties (`ChangeIsEventuallyJournalled`, `WorkflowEnds`, and those of section 3 that no run lists): fairness and ENABLED
  are outside the prover;
* `HonestCandidateIsRequested` of CandidateJobs: whether a candidate fits the limits is a matter of totals over its files, which are
  folds and need induction over data;
* `InventoryIsExact`, `BrokenReferencesAreAllNamed` and `OnlyWhatIsPublishedIsBuilt` of RepositoryBuild: the sequences they compare
  are made with `SelectSeq`, `FlattenSeq` and folds, of which the prover knows nothing for the same reason.

## 6. Disagreements with the code's own documents

Each is a finding in `PROJECT.json`, quoted with its lines. Those a run or configuration shows:

1. **A sweep removes what a rival serves** (`LocalDirectory_rivals.cfg`). The retained history a sweep goes by is the sweeping
   run's own copy; a second run that swaps the pointer meanwhile serves a directory being removed.
2. **The sentinel overwrites a live generation** (`SpacesActivation_sentinel.cfg`). A marker that cannot be read is taken for an empty
   destination; the ETag of the existing marker is at hand and not looked at.
3. **One reset connection fails a good site** (`TransientErrorsAreWaitedOut`), when it hits the one confirming re-read.
4. **A replayed submission looks like a refused capability** (`ReplayIsToldApart`).
5. **Cleanup is attempted while the destination is unresolved** (`CleanupOnlyWhenResolved`).
6. **An activation answered with no object leaves no activation entry** (`KernelRun_malformed.cfg`).
7. **The generation just replaced is swept** after a crash between the swap and the history write
   (`LocalDirectory_alone.cfg` with `PriorIsRetained`).
8. **A replayed stage answers with the token of a stage that is gone** (same, `ReplayHasStage`).
9. **A crash while a bookkeeping file is rewritten leaves the root unusable** (same, `BookkeepingIsReadable`).
10. **A succeeded deployment of the same commit answers for a prior attempt that never created one**
    (`PagesDeployment_commit.cfg`). No caller in the repository uses the recovery yet.
11. **The wait of the recovery is on an unreferenced timer** (by reading; part of `Kill` in the model).
12. **A row corrected with a patch release does not keep the previous locks** (`TemplateIsAdmitted`, also with `Deletable = {}`). What
    moves to the previous rows is the row as it stands, wrong digest included.
13. **A forced push may skip a package silently** (`AdapterRelease_runs.cfg` with `BeforeIsKnown = FALSE`).
14. **The theme catalogue cannot be given a new version** by the script that is for that (by reading): its rewriting wants markers
    the file does not have.
15. **A second changelog rewrite throws**, where each subcommand is called idempotent (by reading).
16. **An earlier build is part of the next one's root digest** (`RepositoryBuild_findings.cfg`, `RootDigestIsOfTheSource`), because the
    default directories lie inside the repository.
17. **A failed build cannot be repeated** (same, `BuildIsSafeToRepeat`): the markers that would permit it come after the render.
18. **The publication's source path is a constant**, where repository.json names the file (by reading).
19. **Too many images hide the broken ones** (by reading; `BrokenReferencesAreAllNamed` is stated for a publication within the limit).
20. **The advice of a refused build directory contradicts the defaults** (by reading).
21. **An upload whose creation is not answered stays open** (`SpacesActivation_sentinel.cfg`, `NothingLeftBehind`). The create call comes
    before the `try` whose handler aborts, and nothing looks for open uploads.
22. **A retried rollback may serve a partial release**, which the hypothesis `RollbacksAreNotRetried` keeps out of the theorems. A
    rollback dies after it renamed its stage, its cleanup dies while it removes that release, and the rollback is
    made again with its own identities: `stage` answers from the journal, `rollback` gives `activate` no digest, and `activate`
    finds that the release directory exists and swaps the pointer to it.
23. **Two deployments that compare before either swaps both succeed** (`KernelRun_fenced.cfg` with `NoLostUpdate`;
    `LocalDirectory_rivals.cfg` with `SwapRespectsFence`). The local directory's activate reads `current` once and compares; it then awaits the
    digest of the stage, a stat, a rename and an fsync, and swaps the symlink whatever it points to by then. "Never overwrites
    blindly" (`index.js:335-337`) is true of the one that comes later, which is what `LateRunsAreFenced` says, and not of the other.
24. **A push that only deletes a packed file is skipped silently** (`AdapterRelease_runs.cfg` with `NothingIsSkipped`). The diff names the
    deleted path and the `npm pack` listing of the new tree does not, so the package is not selected: the run ends green with "nothing to release",
    while npm holds another tarball than main packs and than the catalogue's row, refreshed with the deletion, admits. Where the same push bumps
    another package, only that one is released. `GreenMainIsReleased` and `PushIsReleasedWhole` therefore speak of what is packed and written
    (`Carries`), not of equal tarballs.

## 7. What is not modelled, and known limits of the models

*Not modelled*, with the reason: the kernel's artifact duties, the adapter protocol's shapes, the conformance kit, the checks
of pins, drift and manifests, and the wire layers of the provider adapters are checks and
conversions of one input inside one process that keep no state. In the models they are one refusal or one success.
The rollbacks of the Spaces and Pages adapters have no caller in the repository besides the protocol, and neither has the replay of a
stage inside one process. Parsing (JSON, YAML, Markdown, image headers), the theme bridge and the command line of the
publish action are what they answer.

*Limits and observations that no property states*:

* LocalDirectory: a crash in the middle of the cleanup of an abandoned release leaves a partial directory that a later run
  with the same generationId and another key would promote over without digesting it again. The direct deployment
  makes fresh identities every time, so no caller does this; the instance gives each generation one key and one
  stage token, and the theorems assume it (`IdentitiesGoTogether`). A rollback does it with one key (finding 22).
* PagesDeployment: a recovery of a recovery, on one commit, may see the deployment of the first attempt land after it sent
  its own create: the status it asked about was of the version, which both prior attempts share. `PriorStaysDead` is about
  an attempt and its one recovery, which is all that the server's records describe today.
* SpacesActivation: with three runs, what observe verifies need never have been served at one moment: a run may read an object, a
  second replace another, and a third put the first run's bytes back. `VerifiedWasServed` says so (`restored`); with two
  runs there is nobody to put anything back. The listing that observe begins with is one step of the model, where the adapter awaits it page
  by page (`s3.js:513-561`); the reads of the objects after it are a step each.
* LocalDirectory: an activation that declines is observed as if made (`deploy-local-directory.js:198`); the outcome reported is
  that of the observation.
* KernelRun: a throw after activate ends the run without observe or cleanup, so the staged coordinate stays; `staged`
  shows it and no document promises otherwise.
* PagesDeployment: attempts of one workflow run are sequential, the records the server mints are those of the attempt
  they recover, and the passing run has one operation per commit (finding 10 is what happens otherwise). The
  "reconciliation required" answer also says that the destination is unchanged; it is true of the answering attempt, and
  the prior one may still land.
* PagesRecoveryRecord: the adapter compares the record's run, attempt, generation and command expiry with nothing, and when the two attempts are
  adjacent the proof has no row, so that the repository it was minted for is not looked at either. What the record is about is the server's word.
* PagesDeployment: the OIDC token is checked for its lifetime after the recovery's wait of up to five minutes, for which it was minted
  too early: the attempt then throws, and the model has that as `TokenRefused`.
* SpacesActivation: a completion that is answered 200 with an error in its body would be taken for an accepted one
  (`requireStatus` looks at the status). The provider of the model does not answer so, and no write arrives after its caller gave up on it.
* PagesObservation: a route whose confirming read erred while another was answered otherwise is not read
  again. A pass is assumed shorter than the margin. The lifetime header's decoding is not modelled.
* Reporting: every send carries a fresh assertion, so the API's replay refusal never matters; consuming a
  capability and recording the submission are one step of the API; a late challenge exchange can supersede the
  capability that is held, and the report then fails, which the properties allow.
* CandidateJobs and Handoff: a document is damaged in one member at a time, and the strings of a member are whole values. What
  deploy has nothing to compare with (`Unbound` in Handoff) is bound by the API alone. The authorization input that authorize downloads is found by its
  digest (`findCarrier`), and so is not damaged in the model.
* Handoff: the check of the Spaces configuration always ends in its blocker, since the live evidence it needs does not exist yet
  (`verify-spaces-configuration.mjs:80-100`), so the job that deploys to Spaces is not reached and the model has no step to it.
* RepositoryBuild: the documents of a repository are read in one step and the configuration is not edited while a command
  runs. Two commands on one directory at a time are not modelled; the second would remove what the first writes.
* RepositoryBuild: media are inspected and then read, and the model has the edit in between: the inventory may then describe a file by the type of
  another. `InventoryIsExact` is stated for commands during which nobody edited.
* AdapterRelease: a version is one number, the gate of the repository is its answer, and the person who moves the template does so after a
  release is live, as the README has it. In the instance only the adapter's file may be deleted (`MCDeletable`); the theorems have any set. Whether a
  run whose waiting job was replaced starts its next package is not said by `release.yaml` (`fail-fast` is about jobs that fail): the model allows both.
* The kernel run as seen by Reporting is one step. That a cancelled or lost deploy job leaves no journal is part of it.

## 8. Plan

Done: the kernel run with its abstract specification and proofs; local directory; Spaces activation; Pages
observation and deployment; reporting; the candidate from the checkout to the request; the handoff of the intent;
the intake and the build of a repository; the release of adapters.

Next, in this order:

1. *Proofs*: `OnlyWhatIsPublishedIsBuilt` of RepositoryBuild, once the intake's selections and its joined findings are written without
   `SelectSeq` and `FlattenSeq`, as the envelope's files are.
2. *Pure decisions*, as operators checked against reference definitions over bounded inputs and then proved: idempotency
   (`operation-fencing.js:78-139`), concurrency fence (`183-234`), staged activation (`staged-activation.js`), retention
   (`retention.js`), bounded resources, path containment.
3. *Adapter protocol*: negotiation and frames.
4. *Rollback* of the Spaces and Pages adapters, once something calls it.
