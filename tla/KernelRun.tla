----------------------------- MODULE KernelRun ------------------------------
(***************************************************************************)
(* The kernel-driven deployment run: one authorized attempt takes a frozen *)
(* artifact through inspect, preflight, stage, inspect again, activate,    *)
(* observe and clean up, journals what happened and reports one outcome.   *)
(* Several runs (attempts of one operation, or other operations) share one *)
(* destination, and each may be killed by its runner at any moment.        *)
(*                                                                         *)
(* The adapter is seen from the kernel's side of its eight-function        *)
(* protocol: any call may throw, before or after it took effect, may       *)
(* classify a failure in its answer, or may answer with no object at all.  *)
(* The three adapters themselves are modelled in modules of their own.     *)
(*                                                                         *)
(* Source: scripts/workflow/kernel-run.mjs.                                *)
(***************************************************************************)
EXTENDS GenerationFence, KernelDuties, SequencesExt

CONSTANTS
    Runs,         \* deployment attempts, each one job on its own runner
    Proposed,     \* the generation each run's intent proposes
    Expected,     \* the fence each run's intent states
    Concurrency,  \* the concurrency class of the adapter's capability
    Malformed     \* the calls this adapter may answer with no object

ASSUME KernelRunAssumption ==
    /\ Proposed \in [Runs -> Generations]
    /\ Expected \in [Runs -> Fences]
    /\ Concurrency \in {"none", "best-effort", "expected-generation"}
    /\ Malformed \subseteq {"inspect", "preflight", "stage", "activate", "observe"}

VARIABLES
    served,        \* what the destination serves
    pc,            \* the phase of each run
    staged,        \* the run's private staged coordinate exists
    touched,       \* history: the run's activation changed the served content
    landed,        \* history: the run's activation found or made its generation served
    observed,      \* the run's last answered inspection
    attempts,      \* journal.attempts
    observations,  \* journal.observations
    failure,       \* journal.failure
    warned,        \* journal.warnings is not empty
    crashOutcome,  \* what the run reports when a later stage throws
    verified,      \* the answer of observe
    outcome        \* what the run reports

provider == <<served, staged, touched, landed>>
journal  == <<attempts, observations, failure, warned>>
vars == <<provider, pc, observed, journal, crashOutcome, verified, outcome>>

-----------------------------------------------------------------------------
(* Values *)

NoFailure == "none"

FailureCodes ==
    {NoFailure, "ADAPTER_CLASSIFIED", "KERNEL_INSPECT_FAILED",
     "KERNEL_PREFLIGHT_FAILED", "KERNEL_STAGE_FAILED",
     "KERNEL_ACTIVATE_FAILED", "KERNEL_OBSERVE_FAILED",
     "KERNEL_INTERNAL_FAILED"}

Calls == {"inspecting", "preflighting", "staging", "reinspecting",
          "activating", "switching", "switched", "declined", "observing"}
Running == Calls \cup {"created", "cleaning"}
Phases == Running \cup {"done", "killed"}

Stages == {"staging", "activation", "cleanup"}
AttemptRecord ==
    [stage : Stages,
     outcome : {"succeeded", "failed", "skipped", "unknown"},
     changed : {"yes", "no", "unknown"},
     code : {"none", "REJECTED", "TARGET_CAPABILITY_UNAVAILABLE",
             "PROVIDER_CONTRACT_VIOLATION", "OUTCOME_UNKNOWN_RECONCILING",
             "NOT_ATTEMPTED_RETRYABLE"}]
ObservationRecord ==
    [stage : Stages,
     class : {"request-not-started", "provider-state", "provider-error"},
     outcome : {"rejected", "succeeded", "provider-contract-violation",
                "outcome-unknown-reconciling"},
     changed : {"yes", "no", "unknown"}]
Decided == [decision : {"activate", "reconcile"}, generation : Served]
OutcomeRecord ==
    [decision : {"activate", "reconcile"}, generation : Served,
     verified : BOOLEAN]
NoOutcome == [decision |-> "reconcile", generation |-> Nothing,
              verified |-> FALSE]

\* What a run reports until its activation has answered.
NothingActivated == [decision |-> "reconcile", generation |-> Nothing]

-----------------------------------------------------------------------------
(* The journal *)

AppendAttempt(r, stage, result, changed, code) ==
    attempts' = [attempts EXCEPT ![r] =
        Append(@, [stage |-> stage, outcome |-> result,
                   changed |-> changed, code |-> code])]

AppendObservation(r, stage, class, result, changed) ==
    observations' = [observations EXCEPT ![r] =
        Append(@, [stage |-> stage, class |-> class,
                   outcome |-> result, changed |-> changed])]

\* The first classified failure wins; later ones are its consequences.
RecordFailure(r, code) ==
    failure' = [failure EXCEPT ![r] = IF @ = NoFailure THEN code ELSE @]

Goto(r, phase) == pc' = [pc EXCEPT ![r] = phase]

Complete(r, decision, generation, isVerified) ==
    /\ Goto(r, "done")
    /\ outcome' = [outcome EXCEPT ![r] =
           [decision |-> decision, generation |-> generation,
            verified |-> isVerified]]

\* Mutant: a crash after the activation reports it as verified.
UnwindVerified(r) ==
    Complete(r, crashOutcome[r].decision, crashOutcome[r].generation, TRUE)

\* The catch: whatever threw, the run reports its crash outcome.
Unwind(r) ==
    Complete(r, crashOutcome[r].decision, crashOutcome[r].generation, FALSE)

\* A definite failure of a call that could not have changed anything.
RecordUnchanged(r, stage) ==
    /\ AppendAttempt(r, stage, "failed", "no", "PROVIDER_CONTRACT_VIOLATION")
    /\ AppendObservation(r, stage, "provider-error",
                         "provider-contract-violation", "no")

\* A failure of a call that may have changed something first.
RecordUnknown(r, stage) ==
    /\ AppendAttempt(r, stage, "unknown", "unknown",
                     "OUTCOME_UNKNOWN_RECONCILING")
    /\ AppendObservation(r, stage, "provider-error",
                         "outcome-unknown-reconciling", "unknown")

\* A stage the kernel or the adapter's preflight refused before any call.
Refuse(r, code) ==
    /\ AppendAttempt(r, "staging", "skipped", "no", code)
    /\ AppendObservation(r, "staging", "request-not-started", "rejected", "no")
    /\ UNCHANGED failure
    /\ Complete(r, "reconcile", Nothing, FALSE)

\* An answer that is no object: reading a field of it throws inside the
\* kernel, which journals no attempt for the call.
InternalFailure(r, call) ==
    /\ call \in Malformed
    /\ RecordFailure(r, "KERNEL_INTERNAL_FAILED")
    /\ Unwind(r)
    /\ UNCHANGED <<attempts, observations>>

-----------------------------------------------------------------------------
(* Before the first mutation *)

Init ==
    /\ served \in Served
    /\ pc = [r \in Runs |-> "created"]
    /\ staged = [r \in Runs |-> FALSE]
    /\ touched = [r \in Runs |-> FALSE]
    /\ landed = [r \in Runs |-> FALSE]
    /\ observed = [r \in Runs |-> Nothing]
    /\ attempts = [r \in Runs |-> <<>>]
    /\ observations = [r \in Runs |-> <<>>]
    /\ failure = [r \in Runs |-> NoFailure]
    /\ warned = [r \in Runs |-> FALSE]
    /\ crashOutcome = [r \in Runs |-> NothingActivated]
    /\ verified = [r \in Runs |-> FALSE]
    /\ outcome = [r \in Runs |-> NoOutcome]

\* evaluatePreflight: paths, limits, ownership and secrets of the artifact.
EvaluatePreflight(r) ==
    /\ pc[r] = "created"
    /\ \/ /\ Refuse(r, "REJECTED")
       \/ /\ Goto(r, "inspecting")
          /\ UNCHANGED <<attempts, observations, failure, outcome>>
    /\ UNCHANGED <<provider, observed, warned, crashOutcome, verified>>

\* The stage an inspection belongs to in the journal, and the phase after it.
InspectedStage(r) == IF pc[r] = "inspecting" THEN "staging" ELSE "activation"
AfterInspection(r) ==
    IF pc[r] = "inspecting" THEN "preflighting" ELSE "activating"

InspectThrows(r) ==
    /\ pc[r] \in {"inspecting", "reinspecting"}
    /\ RecordFailure(r, "KERNEL_INSPECT_FAILED")
    /\ RecordUnchanged(r, InspectedStage(r))
    /\ Unwind(r)
    /\ UNCHANGED <<provider, observed, warned, crashOutcome, verified>>

\* The adapter classified why it cannot tell what is served.
InspectClassifiesFailure(r) ==
    /\ pc[r] \in {"inspecting", "reinspecting"}
    /\ RecordFailure(r, "ADAPTER_CLASSIFIED")
    /\ AppendAttempt(r, InspectedStage(r), "failed", "no",
                     "TARGET_CAPABILITY_UNAVAILABLE")
    /\ AppendObservation(r, InspectedStage(r), "provider-error", "rejected",
                         "no")
    /\ Unwind(r)
    /\ UNCHANGED <<provider, observed, warned, crashOutcome, verified>>

InspectAnswersNoObject(r) ==
    /\ pc[r] \in {"inspecting", "reinspecting"}
    /\ InternalFailure(r, "inspect")
    /\ UNCHANGED <<provider, observed, warned, crashOutcome, verified>>

\* The answer says what is served (an answer that does not is a throw to the
\* journal). The fence verdict is evaluated at once: a stale expectation, or
\* an intent whose marker is not valid, refuses the stage.
InspectAnswers(r) ==
    LET stale == FenceDisagrees(Expected[r], served)
    IN  /\ pc[r] \in {"inspecting", "reinspecting"}
        /\ observed' = [observed EXCEPT ![r] = served]
        /\ \/ /\ ~stale
              /\ Goto(r, AfterInspection(r))
              /\ UNCHANGED <<attempts, observations, failure, outcome>>
           \/ /\ pc[r] = "inspecting"
              /\ Refuse(r, "REJECTED")
           \/ /\ pc[r] = "reinspecting"
              /\ stale
              /\ AppendAttempt(r, "activation", "skipped", "no", "REJECTED")
              /\ Complete(r, "reconcile", Nothing, FALSE)
              /\ UNCHANGED <<observations, failure>>
        /\ UNCHANGED <<provider, warned, crashOutcome, verified>>

PreflightThrows(r) ==
    /\ pc[r] = "preflighting"
    /\ RecordFailure(r, "KERNEL_PREFLIGHT_FAILED")
    /\ RecordUnchanged(r, "staging")
    /\ Unwind(r)
    /\ UNCHANGED <<provider, observed, warned, crashOutcome, verified>>

\* A verdict other than proceed refuses; after proceed the stage duties
\* (artifact identity, destination authority, idempotency) may still refuse.
PreflightAnswers(r) ==
    /\ pc[r] = "preflighting"
    /\ \/ \E code \in {"TARGET_CAPABILITY_UNAVAILABLE", "REJECTED"} :
             Refuse(r, code)
       \/ /\ Goto(r, "staging")
          /\ UNCHANGED <<attempts, observations, failure, outcome>>
       \/ InternalFailure(r, "preflight")
    /\ UNCHANGED <<provider, observed, warned, crashOutcome, verified>>

-----------------------------------------------------------------------------
(* Stage *)

\* The adapter wrote, or had begun to write, its private staged coordinate.
StageThrows(r) ==
    /\ pc[r] = "staging"
    /\ \E wrote \in BOOLEAN : staged' = [staged EXCEPT ![r] = wrote]
    /\ RecordFailure(r, "KERNEL_STAGE_FAILED")
    /\ RecordUnknown(r, "staging")
    /\ Unwind(r)
    /\ UNCHANGED <<served, touched, landed, observed, warned, crashOutcome,
                   verified>>

StageAnswers(r) ==
    /\ pc[r] = "staging"
    /\ staged' = [staged EXCEPT ![r] = TRUE]
    /\ \/ /\ AppendAttempt(r, "staging", "succeeded", "no", "none")
          /\ AppendObservation(r, "staging", "provider-state", "succeeded",
                               "no")
          /\ Goto(r, "reinspecting")
          /\ UNCHANGED <<failure, outcome>>
       \/ InternalFailure(r, "stage")
    /\ UNCHANGED <<served, touched, landed, observed, warned, crashOutcome,
                   verified>>

-----------------------------------------------------------------------------
(* Activate: the adapter's own fence, its switch, and its answer *)

\* Mutant: the adapter leaves the fence to the kernel's last inspection.
AdapterTrustsInspection(r) ==
    /\ pc[r] = "activating"
    /\ landed' = [landed EXCEPT ![r] = @ \/ served = Proposed[r]]
    /\ Goto(r, IF served = Proposed[r] THEN "switched" ELSE "switching")
    /\ UNCHANGED <<served, staged, touched, observed, journal, crashOutcome,
                   verified, outcome>>

\* The adapter reads what is served: its own generation is an idempotent
\* activation, a stale fence is declined, agreement goes on to the switch.
AdapterReadsFence(r) ==
    /\ pc[r] = "activating"
    /\ landed' = [landed EXCEPT ![r] = @ \/ served = Proposed[r]]
    /\ Goto(r, IF served = Proposed[r] THEN "switched"
               ELSE IF FenceDisagrees(Expected[r], served) THEN "declined"
               ELSE "switching")
    /\ UNCHANGED <<served, staged, touched, observed, journal, crashOutcome,
                   verified, outcome>>

\* The switch compares nothing, in any concurrency class: the adapter of the
\* expected-generation class reads the pointer once, awaits the digest of the
\* stage and its rename, and then swaps, whatever is served by then.
AdapterSwitches(r) ==
    /\ pc[r] = "switching"
    /\ served' = Proposed[r]
    /\ touched' = [touched EXCEPT ![r] = TRUE]
    /\ landed' = [landed EXCEPT ![r] = TRUE]
    /\ Goto(r, "switched")
    /\ UNCHANGED <<staged, observed, journal, crashOutcome, verified, outcome>>

\* Mutant: the lost pointer write is taken for an activation.
AdapterMissesLostPointer(r) ==
    /\ pc[r] = "switching"
    /\ Concurrency = "best-effort"
    /\ touched' = [touched EXCEPT ![r] = TRUE]
    /\ Goto(r, "switched")
    /\ UNCHANGED <<served, staged, landed, observed, journal, crashOutcome,
                   verified, outcome>>

\* A best-effort adapter replaces objects in place before its pointer: it can
\* lose the conditional pointer write after it changed what is served.
AdapterLosesPointer(r) ==
    /\ pc[r] = "switching"
    /\ Concurrency = "best-effort"
    /\ touched' = [touched EXCEPT ![r] = TRUE]
    /\ Goto(r, "declined")
    /\ UNCHANGED <<served, staged, landed, observed, journal, crashOutcome,
                   verified, outcome>>

\* The adapter throws before, between or after its steps.
ActivateThrows(r) ==
    /\ pc[r] \in {"activating", "switching", "switched", "declined"}
    /\ RecordFailure(r, "KERNEL_ACTIVATE_FAILED")
    /\ RecordUnknown(r, "activation")
    /\ Unwind(r)
    /\ UNCHANGED <<provider, observed, warned, crashOutcome, verified>>

\* The adapter's decision is journalled; from here a crash reports it.
ActivateAnswers(r) ==
    LET activated == pc[r] = "switched"
    IN  /\ pc[r] \in {"switched", "declined"}
        /\ \/ /\ IF activated
                 THEN AppendAttempt(r, "activation", "succeeded", "yes", "none")
                 ELSE AppendAttempt(r, "activation", "unknown", "unknown",
                                    "OUTCOME_UNKNOWN_RECONCILING")
              /\ crashOutcome' = [crashOutcome EXCEPT ![r] =
                     [decision |-> IF activated THEN "activate" ELSE "reconcile",
                      generation |-> Proposed[r]]]
              /\ Goto(r, "observing")
              /\ UNCHANGED <<observations, failure, outcome>>
           \/ /\ InternalFailure(r, "activate")
              /\ UNCHANGED crashOutcome
        /\ UNCHANGED <<provider, observed, warned, verified>>

-----------------------------------------------------------------------------
(* Observe and clean up *)

Activated(r) == crashOutcome[r].decision = "activate"

\* Mutant: an activation that was not confirmed is taken for no change.
DeclinedIsUnchanged(r) == IF Activated(r) THEN "yes" ELSE "no"

ActivationChanged(r) == IF Activated(r) THEN "yes" ELSE "unknown"

ObserveThrows(r) ==
    /\ pc[r] = "observing"
    /\ RecordFailure(r, "KERNEL_OBSERVE_FAILED")
    /\ AppendObservation(r, "activation", "provider-error",
                         "outcome-unknown-reconciling", ActivationChanged(r))
    /\ Unwind(r)
    /\ UNCHANGED <<provider, observed, attempts, warned, crashOutcome,
                   verified>>

\* Only a destination that serves the generation verifies; an observation may
\* fail to verify for any other reason, which the adapter may classify.
ObserveAnswers(r) ==
    /\ pc[r] = "observing"
    /\ \/ \E isVerified, classified \in BOOLEAN :
             /\ isVerified => served = Proposed[r] /\ ~classified
             /\ verified' = [verified EXCEPT ![r] = isVerified]
             /\ IF classified THEN RecordFailure(r, "ADAPTER_CLASSIFIED")
                              ELSE UNCHANGED failure
             /\ AppendObservation(r, "activation", "provider-state",
                    IF Activated(r) /\ isVerified THEN "succeeded"
                    ELSE "outcome-unknown-reconciling",
                    ActivationChanged(r))
             /\ Goto(r, "cleaning")
             /\ UNCHANGED <<attempts, outcome>>
       \/ /\ InternalFailure(r, "observe")
          /\ UNCHANGED verified
    /\ UNCHANGED <<provider, observed, warned, crashOutcome>>

\* The disposition the cleanup verdict is asked about: the observation is
\* always evaluated as attempted and answered.
PriorDisposition == ClassifyMutationOutcome(TRUE, TRUE)

\* Mutant: the run waits for a verified destination before it cleans up.
CleanupWaitsForVerified(r) ==
    /\ pc[r] = "cleaning"
    /\ verified[r]
    /\ staged' = [staged EXCEPT ![r] = FALSE]
    /\ AppendAttempt(r, "cleanup", "succeeded", "no", "none")
    /\ Complete(r, crashOutcome[r].decision, crashOutcome[r].generation, TRUE)
    /\ UNCHANGED <<served, touched, landed, observed, observations, failure,
                   warned, crashOutcome, verified>>

\* Cleanup never changes the outcome: a throw is a warning.
CleanupStaged(r) ==
    /\ pc[r] = "cleaning"
    /\ IF BlindRetry(PriorDisposition)
       THEN /\ AppendAttempt(r, "cleanup", "skipped", "no",
                             "NOT_ATTEMPTED_RETRYABLE")
            /\ UNCHANGED <<staged, warned>>
       ELSE \/ /\ staged' = [staged EXCEPT ![r] = FALSE]
               /\ AppendAttempt(r, "cleanup", "succeeded", "no", "none")
               /\ UNCHANGED warned
            \/ /\ \E removed \in BOOLEAN :
                     staged' = [staged EXCEPT ![r] = @ /\ ~removed]
               /\ AppendAttempt(r, "cleanup", "failed", "no",
                                "NOT_ATTEMPTED_RETRYABLE")
               /\ warned' = [warned EXCEPT ![r] = TRUE]
    /\ Complete(r, crashOutcome[r].decision, crashOutcome[r].generation,
                verified[r])
    /\ UNCHANGED <<served, touched, landed, observed, observations, failure,
                   crashOutcome, verified>>

-----------------------------------------------------------------------------
(* The specification *)

\* The runner is cancelled or lost; what its calls did so far stays.
Kill(r) ==
    /\ pc[r] \in Running
    /\ Goto(r, "killed")
    /\ UNCHANGED <<provider, observed, journal, crashOutcome, verified, outcome>>

Inspect(r) ==
    \/ InspectThrows(r)
    \/ InspectClassifiesFailure(r)
    \/ InspectAnswersNoObject(r)
    \/ InspectAnswers(r)

Activate(r) ==
    \/ AdapterReadsFence(r)
    \/ AdapterSwitches(r)
    \/ AdapterLosesPointer(r)
    \/ ActivateThrows(r)
    \/ ActivateAnswers(r)

Step(r) ==
    \/ EvaluatePreflight(r)
    \/ Inspect(r)
    \/ PreflightThrows(r) \/ PreflightAnswers(r)
    \/ StageThrows(r) \/ StageAnswers(r)
    \/ Activate(r)
    \/ ObserveThrows(r) \/ ObserveAnswers(r)
    \/ CleanupStaged(r)

Next == \E r \in Runs : Step(r) \/ Kill(r)

Spec == Init /\ [][Next]_vars

\* A live runner goes on: every adapter call is awaited and each ends.
FairSpec == Spec /\ \A r \in Runs : WF_vars(Step(r))

-----------------------------------------------------------------------------
(* Properties *)

TypeOK ==
    /\ served \in Served
    /\ pc \in [Runs -> Phases]
    /\ staged \in [Runs -> BOOLEAN]
    /\ touched \in [Runs -> BOOLEAN]
    /\ landed \in [Runs -> BOOLEAN]
    /\ observed \in [Runs -> Served]
    /\ attempts \in [Runs -> Seq(AttemptRecord)]
    /\ observations \in [Runs -> Seq(ObservationRecord)]
    /\ failure \in [Runs -> FailureCodes]
    /\ warned \in [Runs -> BOOLEAN]
    /\ crashOutcome \in [Runs -> Decided]
    /\ verified \in [Runs -> BOOLEAN]
    /\ outcome \in [Runs -> OutcomeRecord]

\* The activation is journalled as having changed, or as possibly having
\* changed, what is served.
AdmitsChange(r) ==
    \E a \in ToSet(attempts[r]) : a.stage = "activation" /\ a.changed # "no"

DeniesChange(r) ==
    \/ \E a \in ToSet(attempts[r]) : a.stage = "activation" /\ a.changed = "no"
    \/ \E o \in ToSet(observations[r]) : o.stage = "activation" /\ o.changed = "no"

\* A run that ended after its activation changed what is served says so: its
\* journal holds an activation attempt that does not claim "unchanged", and
\* no activation entry that does. (Header of kernel-run.mjs: an unknown
\* outcome is the one thing a journal must never round off.)
ChangeIsJournalled ==
    \A r \in Runs :
        pc[r] = "done" /\ touched[r] => AdmitsChange(r) /\ ~DeniesChange(r)

\* A stage journalled as skipped or failed left the provider alone: nothing
\* staged for the staging stage, nothing served for either.
RefusalLeavesDestination ==
    \A r \in Runs : \A a \in ToSet(attempts[r]) :
        a.outcome \in {"skipped", "failed"} =>
            /\ a.stage # "cleanup" => ~touched[r]
            /\ a.stage = "staging" => ~staged[r]

\* What the journal calls a success happened: an activation journalled as
\* succeeded, or an outcome reported as verified, was of a generation the
\* destination served during the run's activation or observation.
SuccessHasLanded ==
    \A r \in Runs : \A a \in ToSet(attempts[r]) :
        a.stage = "activation" /\ a.outcome = "succeeded" => landed[r]

\* The outcome and the journal tell one story: the run reports a verified
\* activation exactly when its journal witnesses one.
OutcomeMatchesJournal ==
    \A r \in Runs : pc[r] = "done" =>
        ((outcome[r].decision = "activate" /\ outcome[r].verified)
         <=> \E o \in ToSet(observations[r]) :
                o.stage = "activation" /\ o.outcome = "succeeded")

\* Stage-attempt identities are derived from the stage, so a journal never
\* holds two attempts of one stage.
OneAttemptPerStage ==
    \A r \in Runs : \A i, j \in DOMAIN attempts[r] :
        attempts[r][i].stage = attempts[r][j].stage => i = j

\* The class, outcome and change of every observation are a combination the
\* receipt contract admits (docs/evidence-journal-contract.md, tables).
AdmittedObservation(o) ==
    \/ o.class = "request-not-started" /\ o.outcome = "rejected"
                                       /\ o.changed \in {"no", "yes"}
    \/ o.class = "provider-state" /\ o.outcome = "succeeded"
                                  /\ o.changed \in {"no", "yes"}
    \/ o.outcome = "outcome-unknown-reconciling"
                                  /\ o.changed \in {"unknown", "yes"}
    \/ o.class = "provider-error" /\ o.changed = "no"
                                  /\ o.outcome \in {"rejected", "provider-contract-violation"}
AdmittedAttempt(a) ==
    /\ a.outcome \in {"failed", "skipped"} => a.changed = "no"
    /\ a.outcome = "unknown" <=> a.changed = "unknown"
    /\ a.outcome = "unknown" <=> a.code = "OUTCOME_UNKNOWN_RECONCILING"
    /\ a.changed = "yes" => a.stage = "activation"
JournalIsAdmitted ==
    \A r \in Runs :
        /\ \A a \in ToSet(attempts[r]) : AdmittedAttempt(a)
        /\ \A o \in ToSet(observations[r]) : AdmittedObservation(o)

\* A run that was authorized against the same served generation as one that
\* has changed the destination never comes to its own switch, unless it had
\* compared before that change: of an overwritten destination the second
\* writer was already past its comparison (the fence of activate, which the
\* kernel's two inspections do not replace).
LateRunsAreFenced ==
    [][\A r, q \in Runs :
           r # q /\ touched[q] /\ Expected[r] = Expected[q]
           /\ pc'[r] = "switching" => pc[r] = "switching"]_vars

\* Of the runs authorized against the same served generation at most one
\* changes the destination (the comment of activate: never overwrites
\* blindly). Two runs that both compare before either switches break it.
NoLostUpdate ==
    \A r, q \in Runs :
        touched[r] /\ touched[q] /\ Expected[r] = Expected[q] => r = q

\* A run that changed what is served, unless it is killed, ends with a
\* journal that admits the change.
ChangeIsEventuallyJournalled ==
    \A r \in Runs : touched[r] ~>
        (pc[r] = "killed" \/ (pc[r] = "done" /\ AdmitsChange(r)))

\* Cleanup is attempted only once the destination is known: the comment of
\* evaluateCleanupStaged says never while a prior mutation is unresolved.
CleanupOnlyWhenResolved ==
    \A r \in Runs :
        (\E a \in ToSet(attempts[r]) : a.stage = "cleanup" /\ a.outcome # "skipped")
        => ~\E a \in ToSet(attempts[r]) : a.outcome = "unknown"

-----------------------------------------------------------------------------
(* The inductive invariant *)

BeforeStaging == {"created", "inspecting", "preflighting", "staging"}
BeforeActivation == {"reinspecting", "activating", "switching"}
Activating == BeforeActivation \cup {"switched", "declined"}
Activation == {"observing", "cleaning"}

StagedAttempt == [stage |-> "staging", outcome |-> "succeeded",
                  changed |-> "no", code |-> "none"]
StagedObservation == [stage |-> "staging", class |-> "provider-state",
                      outcome |-> "succeeded", changed |-> "no"]

Confirmed(r) == \E o \in ToSet(observations[r]) :
                    o.stage = "activation" /\ o.outcome = "succeeded"

\* What the journal of a run holds in each phase of the run.
JournalShape(r) ==
    /\ pc[r] \in BeforeStaging =>
           ToSet(attempts[r]) = {} /\ ToSet(observations[r]) = {}
    /\ pc[r] \in Activating =>
           /\ ToSet(attempts[r]) = {StagedAttempt}
           /\ ToSet(observations[r]) = {StagedObservation}
    /\ pc[r] \in Activation =>
           /\ AdmitsChange(r)
           /\ \A a \in ToSet(attempts[r]) :
                  a.stage # "cleanup" /\ a.outcome \in {"succeeded", "unknown"}
    /\ pc[r] = "observing" => ~Confirmed(r)

\* What the provider's state may be in each phase.
ProviderShape(r) ==
    /\ pc[r] \in BeforeStaging => ~staged[r]
    /\ pc[r] \in BeforeStaging \cup BeforeActivation => ~touched[r]
    /\ pc[r] = "switched" => landed[r]
    /\ pc[r] \in Activation /\ Activated(r) => landed[r]
    /\ pc[r] \in BeforeStaging \cup Activating =>
           crashOutcome[r] = NothingActivated

\* What the journal may claim, whatever the phase.
Honest(r) ==
    /\ touched[r] => ~DeniesChange(r)
    /\ "activate" \notin Malformed /\ touched[r] /\ pc[r] = "done" =>
           AdmitsChange(r)
    /\ \A a \in ToSet(attempts[r]) :
          /\ AdmittedAttempt(a)
          /\ a.stage = "activation" /\ a.outcome = "succeeded" => landed[r]
          /\ a.outcome \in {"skipped", "failed"} =>
                 /\ a.stage # "cleanup" => ~touched[r]
                 /\ a.stage = "staging" => ~staged[r]
    /\ \A o \in ToSet(observations[r]) : AdmittedObservation(o)
    /\ pc[r] = "cleaning" => (Activated(r) /\ verified[r] <=> Confirmed(r))
    /\ pc[r] = "done" =>
           (outcome[r].decision = "activate" /\ outcome[r].verified
            <=> Confirmed(r))
    /\ \A i, j \in DOMAIN attempts[r] :
          attempts[r][i].stage = attempts[r][j].stage => i = j

RunInv(r) == JournalShape(r) /\ ProviderShape(r) /\ Honest(r)

IInv == TypeOK /\ \A r \in Runs : RunInv(r)
=============================================================================
