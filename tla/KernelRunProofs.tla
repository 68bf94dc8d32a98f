-------------------------- MODULE KernelRunProofs ---------------------------
(***************************************************************************)
(* Type correctness and the honesty of the journal of KernelRun, and that  *)
(* it implements Publication, for every set of runs, every intent and      *)
(* every adapter class.                                                    *)
(*                                                                         *)
(* A run touches only its own entries of every variable but "served", so   *)
(* the inductive invariant is a predicate of one run (RunInv) that does    *)
(* not mention "served": a step of another run leaves it alone.            *)
(***************************************************************************)
EXTENDS KernelPublication, TLAPS

-----------------------------------------------------------------------------
(* Sequences as sets of entries *)

\* The empty sequence has no elements.
LEMMA ToSetEmpty == ToSet(<<>>) = {}
  BY DEF ToSet

\* Appending adds exactly the appended entry to the set of entries.
LEMMA ToSetAppend ==
  ASSUME NEW S, NEW s \in Seq(S), NEW e \in S
  PROVE  ToSet(Append(s, e)) = ToSet(s) \cup {e}
<1>1. /\ DOMAIN s = 1..Len(s)
      /\ DOMAIN Append(s, e) = 1..(Len(s) + 1)
      /\ Len(s) \in Nat
  OBVIOUS
<1>2. \A i \in 1..Len(s) : Append(s, e)[i] = s[i]
  OBVIOUS
<1>3. Append(s, e)[Len(s) + 1] = e
  OBVIOUS
<1>4. \A i \in 1..(Len(s) + 1) : i = Len(s) + 1 \/ i \in 1..Len(s)
  BY <1>1
<1>5. ToSet(Append(s, e)) \subseteq ToSet(s) \cup {e}
  BY <1>1, <1>2, <1>3, <1>4 DEF ToSet
<1>6. ToSet(s) \cup {e} \subseteq ToSet(Append(s, e))
  BY <1>1, <1>2, <1>3 DEF ToSet
<1>7. QED
  BY <1>5, <1>6

\* Entries with distinct stages stay distinct when a new stage is appended.
LEMMA DistinctAppend ==
  ASSUME NEW S, NEW s \in Seq(S), NEW e \in S,
         \A i, j \in DOMAIN s : s[i].stage = s[j].stage => i = j,
         \A x \in ToSet(s) : x.stage # e.stage
  PROVE  \A i, j \in DOMAIN Append(s, e) :
             Append(s, e)[i].stage = Append(s, e)[j].stage => i = j
  BY DEF ToSet

-----------------------------------------------------------------------------
(* Types *)

\* The initial state has its types (KernelJournal, crashOutcome).
LEMMA TypeInit == Init => TypeOK
  BY KernelRunAssumption
  DEF Init, TypeOK, Served, Phases, Running, Calls, FailureCodes, NoFailure,
      Decided, NothingActivated, OutcomeRecord, NoOutcome

\* What each piece of a step leaves in the journal and in the outcome is well
\* typed.
LEMMA AppendAttemptType ==
  ASSUME attempts \in [Runs -> Seq(AttemptRecord)], NEW r \in Runs,
         NEW stage, NEW result, NEW changed, NEW code,
         [stage |-> stage, outcome |-> result, changed |-> changed,
          code |-> code] \in AttemptRecord,
         AppendAttempt(r, stage, result, changed, code)
  PROVE  attempts' \in [Runs -> Seq(AttemptRecord)]
  BY DEF AppendAttempt

\* An appended observation keeps the type of the journal.
LEMMA AppendObservationType ==
  ASSUME observations \in [Runs -> Seq(ObservationRecord)], NEW r \in Runs,
         NEW stage, NEW class, NEW result, NEW changed,
         [stage |-> stage, class |-> class, outcome |-> result,
          changed |-> changed] \in ObservationRecord,
         AppendObservation(r, stage, class, result, changed)
  PROVE  observations' \in [Runs -> Seq(ObservationRecord)]
  BY DEF AppendObservation

\* A recorded failure keeps its type.
LEMMA RecordFailureType ==
  ASSUME failure \in [Runs -> FailureCodes], NEW r \in Runs,
         NEW code \in FailureCodes, RecordFailure(r, code)
  PROVE  failure' \in [Runs -> FailureCodes]
  BY DEF RecordFailure

\* A completed run keeps the types of its phase and outcome.
LEMMA CompleteType ==
  ASSUME TypeOK, NEW r \in Runs, NEW decision \in {"activate", "reconcile"},
         NEW generation \in Served, NEW isVerified \in BOOLEAN,
         Complete(r, decision, generation, isVerified)
  PROVE  /\ pc' \in [Runs -> Phases]
         /\ outcome' \in [Runs -> OutcomeRecord]
<1>1. [decision |-> decision, generation |-> generation,
       verified |-> isVerified] \in OutcomeRecord
  BY DEF OutcomeRecord
<1>2. "done" \in Phases
  BY DEF Phases
<1> QED
  BY <1>1, <1>2 DEF TypeOK, Complete, Goto

\* A run that unwinds keeps the types of its phase and outcome.
LEMMA UnwindType ==
  ASSUME TypeOK, NEW r \in Runs, Unwind(r)
  PROVE  /\ pc' \in [Runs -> Phases]
         /\ outcome' \in [Runs -> OutcomeRecord]
<1>1. crashOutcome[r] \in Decided
  BY DEF TypeOK
<1> QED
  BY <1>1, CompleteType DEF Unwind, Decided

\* A definite failure keeps the type of the journal.
LEMMA RecordUnchangedType ==
  ASSUME TypeOK, NEW r \in Runs, NEW stage \in Stages,
         RecordUnchanged(r, stage)
  PROVE  /\ attempts' \in [Runs -> Seq(AttemptRecord)]
         /\ observations' \in [Runs -> Seq(ObservationRecord)]
<1> USE DEF TypeOK, RecordUnchanged
<1>1. attempts' \in [Runs -> Seq(AttemptRecord)]
  BY AppendAttemptType DEF AttemptRecord
<1>2. observations' \in [Runs -> Seq(ObservationRecord)]
  BY AppendObservationType DEF ObservationRecord
<1> QED
  BY <1>1, <1>2

\* An unknown outcome keeps the type of the journal.
LEMMA RecordUnknownType ==
  ASSUME TypeOK, NEW r \in Runs, NEW stage \in Stages,
         RecordUnknown(r, stage)
  PROVE  /\ attempts' \in [Runs -> Seq(AttemptRecord)]
         /\ observations' \in [Runs -> Seq(ObservationRecord)]
<1> USE DEF TypeOK, RecordUnknown
<1>1. attempts' \in [Runs -> Seq(AttemptRecord)]
  BY AppendAttemptType DEF AttemptRecord
<1>2. observations' \in [Runs -> Seq(ObservationRecord)]
  BY AppendObservationType DEF ObservationRecord
<1> QED
  BY <1>1, <1>2

\* The journal and the outcome keep their types; the rest of a step is
\* examined action by action.
JournalTyped ==
    /\ pc \in [Runs -> Phases]
    /\ attempts \in [Runs -> Seq(AttemptRecord)]
    /\ observations \in [Runs -> Seq(ObservationRecord)]
    /\ failure \in [Runs -> FailureCodes]
    /\ outcome \in [Runs -> OutcomeRecord]

\* A refusal keeps the types of the journal and the outcome.
LEMMA RefuseType ==
  ASSUME TypeOK, NEW r \in Runs,
         NEW code \in {"REJECTED", "TARGET_CAPABILITY_UNAVAILABLE"},
         Refuse(r, code)
  PROVE  JournalTyped'
<1> USE DEF TypeOK, Refuse
<1>1. attempts' \in [Runs -> Seq(AttemptRecord)]
  BY AppendAttemptType DEF AttemptRecord, Stages
<1>2. observations' \in [Runs -> Seq(ObservationRecord)]
  BY AppendObservationType DEF ObservationRecord, Stages
<1>3. pc' \in [Runs -> Phases] /\ outcome' \in [Runs -> OutcomeRecord]
  BY CompleteType DEF Served
<1> QED
  BY <1>1, <1>2, <1>3 DEF JournalTyped

\* A kernel defect keeps the types of the journal and the outcome.
LEMMA InternalFailureType ==
  ASSUME TypeOK, NEW r \in Runs, NEW call, InternalFailure(r, call)
  PROVE  JournalTyped'
<1>1. failure' \in [Runs -> FailureCodes]
  BY RecordFailureType DEF TypeOK, InternalFailure, FailureCodes
<1>2. pc' \in [Runs -> Phases] /\ outcome' \in [Runs -> OutcomeRecord]
  BY UnwindType DEF InternalFailure
<1> QED
  BY <1>1, <1>2 DEF JournalTyped, TypeOK, InternalFailure

\* Every step of every run preserves the types.
LEMMA TypeStep ==
  ASSUME TypeOK, NEW r \in Runs, Step(r) \/ Kill(r)
  PROVE  TypeOK'
<1>a. /\ {"staging", "activation", "cleanup"} = Stages
      /\ InspectedStage(r) \in Stages
      /\ Proposed[r] \in Served
  BY KernelRunAssumption DEF Stages, InspectedStage, Served
<1>b. SUFFICES ASSUME Step(r) \/ Kill(r)
               PROVE  /\ JournalTyped'
                      /\ served' \in Served
                      /\ staged' \in [Runs -> BOOLEAN]
                      /\ touched' \in [Runs -> BOOLEAN]
                      /\ landed' \in [Runs -> BOOLEAN]
                      /\ observed' \in [Runs -> Served]
                      /\ warned' \in [Runs -> BOOLEAN]
                      /\ crashOutcome' \in [Runs -> Decided]
                      /\ verified' \in [Runs -> BOOLEAN]
  BY DEF JournalTyped, TypeOK
<1> USE DEF Phases, Running, Calls, provider, journal
<1>1. CASE EvaluatePreflight(r)
  <2>1. CASE Refuse(r, "REJECTED")
    BY <1>1, <2>1, RefuseType DEF EvaluatePreflight, TypeOK
  <2>2. CASE Goto(r, "inspecting") /\ UNCHANGED <<attempts, observations, failure, outcome>>
    BY <1>1, <2>2 DEF EvaluatePreflight, TypeOK, JournalTyped, Goto
  <2> QED
    BY <1>1, <2>1, <2>2 DEF EvaluatePreflight
<1>2. CASE InspectThrows(r)
  BY <1>2, <1>a, RecordFailureType, RecordUnchangedType, UnwindType
  DEF InspectThrows, TypeOK, JournalTyped, FailureCodes
<1>3. CASE InspectClassifiesFailure(r)
  <2>1. attempts' \in [Runs -> Seq(AttemptRecord)]
    BY <1>3, <1>a, AppendAttemptType
    DEF InspectClassifiesFailure, TypeOK, AttemptRecord
  <2>2. observations' \in [Runs -> Seq(ObservationRecord)]
    BY <1>3, <1>a, AppendObservationType
    DEF InspectClassifiesFailure, TypeOK, ObservationRecord
  <2> QED
    BY <1>3, <2>1, <2>2, RecordFailureType, UnwindType
    DEF InspectClassifiesFailure, TypeOK, JournalTyped, FailureCodes
<1>4. CASE InspectAnswersNoObject(r)
  BY <1>4, InternalFailureType DEF InspectAnswersNoObject, TypeOK
<1>5. CASE InspectAnswers(r)
  <2>1. observed' \in [Runs -> Served]
    BY <1>5 DEF InspectAnswers, TypeOK
  <2>2. ASSUME Goto(r, AfterInspection(r)),
               UNCHANGED <<attempts, observations, failure, outcome>>
        PROVE  JournalTyped'
    BY <2>2, <1>5
    DEF InspectAnswers, TypeOK, JournalTyped, Goto, AfterInspection
  <2>3. ASSUME Refuse(r, "REJECTED") PROVE JournalTyped'
    BY <2>3, RefuseType
  <2>4. ASSUME AppendAttempt(r, "activation", "skipped", "no", "REJECTED"),
               Complete(r, "reconcile", Nothing, FALSE),
               UNCHANGED <<observations, failure>>
        PROVE  JournalTyped'
    <3>1. attempts' \in [Runs -> Seq(AttemptRecord)]
      BY <2>4, <1>a, AppendAttemptType DEF TypeOK, AttemptRecord
    <3> QED
      BY <3>1, <2>4, CompleteType DEF TypeOK, JournalTyped, Served
  <2>5. JournalTyped'
    BY <1>5, <2>2, <2>3, <2>4 DEF InspectAnswers
  <2> QED
    BY <1>5, <2>1, <2>5 DEF InspectAnswers, TypeOK
<1>6. CASE PreflightThrows(r)
  BY <1>6, <1>a, RecordFailureType, RecordUnchangedType, UnwindType
  DEF PreflightThrows, TypeOK, JournalTyped, FailureCodes
<1>7. CASE PreflightAnswers(r)
  <2>1. JournalTyped'
    BY <1>7, RefuseType, InternalFailureType
    DEF PreflightAnswers, TypeOK, JournalTyped, Goto
  <2> QED
    BY <1>7, <2>1 DEF PreflightAnswers, TypeOK
<1>8. CASE StageThrows(r)
  BY <1>8, <1>a, RecordFailureType, RecordUnknownType, UnwindType
  DEF StageThrows, TypeOK, JournalTyped, FailureCodes
<1>9. CASE StageAnswers(r)
  <2>1. ASSUME AppendAttempt(r, "staging", "succeeded", "no", "none"),
               AppendObservation(r, "staging", "provider-state", "succeeded", "no"),
               Goto(r, "reinspecting"),
               UNCHANGED <<failure, outcome>>
        PROVE  JournalTyped'
    <3>1. attempts' \in [Runs -> Seq(AttemptRecord)]
      BY <2>1, <1>a, AppendAttemptType DEF TypeOK, AttemptRecord
    <3>2. observations' \in [Runs -> Seq(ObservationRecord)]
      BY <2>1, <1>a, AppendObservationType DEF TypeOK, ObservationRecord
    <3> QED
      BY <2>1, <3>1, <3>2 DEF TypeOK, JournalTyped, Goto
  <2>2. JournalTyped'
    BY <1>9, <2>1, InternalFailureType DEF StageAnswers
  <2> QED
    BY <1>9, <2>2 DEF StageAnswers, TypeOK
<1>10. CASE AdapterReadsFence(r)
  BY <1>10 DEF AdapterReadsFence, TypeOK, JournalTyped, Goto
<1>11. CASE AdapterSwitches(r)
  BY <1>11, <1>a DEF AdapterSwitches, TypeOK, JournalTyped, Goto
<1>12. CASE AdapterLosesPointer(r)
  BY <1>12 DEF AdapterLosesPointer, TypeOK, JournalTyped, Goto
<1>13. CASE ActivateThrows(r)
  BY <1>13, <1>a, RecordFailureType, RecordUnknownType, UnwindType
  DEF ActivateThrows, TypeOK, JournalTyped, FailureCodes
<1>14. CASE ActivateAnswers(r)
  <2>1. CASE /\ IF pc[r] = "switched"
                 THEN AppendAttempt(r, "activation", "succeeded", "yes", "none")
                 ELSE AppendAttempt(r, "activation", "unknown", "unknown",
                                    "OUTCOME_UNKNOWN_RECONCILING")
             /\ crashOutcome' = [crashOutcome EXCEPT ![r] =
                    [decision |-> IF pc[r] = "switched" THEN "activate" ELSE "reconcile",
                     generation |-> Proposed[r]]]
             /\ Goto(r, "observing")
             /\ UNCHANGED <<observations, failure, outcome>>
    <3>1. attempts' \in [Runs -> Seq(AttemptRecord)]
      BY <2>1, <1>a, AppendAttemptType DEF TypeOK, AttemptRecord
    <3>2. crashOutcome' \in [Runs -> Decided]
      BY <2>1, <1>a DEF TypeOK, Decided
    <3> QED
      BY <1>14, <2>1, <3>1, <3>2 DEF ActivateAnswers, TypeOK, JournalTyped, Goto
  <2>2. CASE InternalFailure(r, "activate") /\ UNCHANGED crashOutcome
    BY <1>14, <2>2, InternalFailureType DEF ActivateAnswers, TypeOK
  <2> QED
    BY <1>14, <2>1, <2>2 DEF ActivateAnswers
<1>15. CASE ObserveThrows(r)
  <2>1. observations' \in [Runs -> Seq(ObservationRecord)]
    BY <1>15, <1>a, AppendObservationType
    DEF ObserveThrows, TypeOK, ObservationRecord, ActivationChanged
  <2> QED
    BY <1>15, <2>1, RecordFailureType, UnwindType
    DEF ObserveThrows, TypeOK, JournalTyped, FailureCodes
<1>16. CASE ObserveAnswers(r)
  <2>1. ASSUME NEW isVerified \in BOOLEAN, NEW classified \in BOOLEAN,
               verified' = [verified EXCEPT ![r] = isVerified],
               IF classified THEN RecordFailure(r, "ADAPTER_CLASSIFIED")
                             ELSE UNCHANGED failure,
               AppendObservation(r, "activation", "provider-state",
                    IF Activated(r) /\ isVerified THEN "succeeded"
                    ELSE "outcome-unknown-reconciling",
                    ActivationChanged(r)),
               Goto(r, "cleaning"),
               UNCHANGED <<attempts, outcome>>
        PROVE  JournalTyped' /\ verified' \in [Runs -> BOOLEAN]
    <3>1. observations' \in [Runs -> Seq(ObservationRecord)]
      BY <2>1, <1>a, AppendObservationType
      DEF TypeOK, ObservationRecord, ActivationChanged
    <3>2. failure' \in [Runs -> FailureCodes]
      BY <2>1, RecordFailureType DEF TypeOK, FailureCodes
    <3> QED
      BY <2>1, <3>1, <3>2 DEF TypeOK, JournalTyped, Goto
  <2>2. ASSUME InternalFailure(r, "observe"), UNCHANGED verified
        PROVE  JournalTyped' /\ verified' \in [Runs -> BOOLEAN]
    BY <2>2, InternalFailureType DEF TypeOK
  <2>3. JournalTyped' /\ verified' \in [Runs -> BOOLEAN]
    BY <1>16, <2>1, <2>2 DEF ObserveAnswers
  <2> QED
    BY <1>16, <2>3 DEF ObserveAnswers, TypeOK
<1>17. CASE CleanupStaged(r)
  <2>1. attempts' \in [Runs -> Seq(AttemptRecord)]
    BY <1>17, <1>a, AppendAttemptType DEF CleanupStaged, TypeOK, AttemptRecord
  <2>2. staged' \in [Runs -> BOOLEAN] /\ warned' \in [Runs -> BOOLEAN]
    BY <1>17 DEF CleanupStaged, TypeOK
  <2>3. pc' \in [Runs -> Phases] /\ outcome' \in [Runs -> OutcomeRecord]
    <3>1. crashOutcome[r] \in Decided /\ verified[r] \in BOOLEAN
      BY DEF TypeOK
    <3> QED
      BY <1>17, <3>1, CompleteType DEF CleanupStaged, Decided
  <2> QED
    BY <1>17, <2>1, <2>2, <2>3 DEF CleanupStaged, TypeOK, JournalTyped
<1>18. CASE Kill(r)
  BY <1>18 DEF Kill, TypeOK, JournalTyped, Goto
<1> QED
  BY <1>b, <1>1, <1>2, <1>3, <1>4, <1>5, <1>6, <1>7, <1>8, <1>9, <1>10, <1>11,
     <1>12, <1>13, <1>14, <1>15, <1>16, <1>17, <1>18
  DEF Step, Inspect, Activate

\* A stuttering step keeps the types.
LEMMA TypeStutter == TypeOK /\ UNCHANGED vars => TypeOK'
  BY DEF TypeOK, vars, provider, journal

\* Every variable of every reachable state has its type.
THEOREM TypeCorrect == Spec => []TypeOK
<1>1. TypeOK /\ [Next]_vars => TypeOK'
  BY TypeStep, TypeStutter DEF Next
<1> QED
  BY TypeInit, <1>1, PTL DEF Spec

-----------------------------------------------------------------------------
(* The honesty of the journal *)

DistinctStages(s) == \A i, j \in DOMAIN s : s[i].stage = s[j].stage => i = j

\* The attempt a step appends is the one entry it adds, and a stage that has
\* no attempt yet keeps the stages distinct.
LEMMA AttemptAdded ==
  ASSUME TypeOK, NEW r \in Runs, NEW stage, NEW result, NEW changed, NEW code,
         [stage |-> stage, outcome |-> result, changed |-> changed,
          code |-> code] \in AttemptRecord,
         AppendAttempt(r, stage, result, changed, code)
  PROVE  /\ ToSet(attempts'[r]) = ToSet(attempts[r]) \cup
                {[stage |-> stage, outcome |-> result, changed |-> changed,
                  code |-> code]}
         /\ (/\ DistinctStages(attempts[r])
             /\ \A a \in ToSet(attempts[r]) : a.stage # stage)
            => DistinctStages(attempts'[r])
<1> DEFINE e == [stage |-> stage, outcome |-> result, changed |-> changed,
                 code |-> code]
<1>1. attempts[r] \in Seq(AttemptRecord) /\ attempts'[r] = Append(attempts[r], e)
  BY DEF TypeOK, AppendAttempt
<1>2. e.stage = stage
  OBVIOUS
<1> HIDE DEF e
<1>3. ToSet(attempts'[r]) = ToSet(attempts[r]) \cup {e}
  BY <1>1, ToSetAppend DEF e
<1>4. ASSUME DistinctStages(attempts[r]),
             \A a \in ToSet(attempts[r]) : a.stage # stage
      PROVE  DistinctStages(attempts'[r])
  <2>1. e \in AttemptRecord
    BY DEF e
  <2>2. \A x \in ToSet(attempts[r]) : x.stage # e.stage
    BY <1>2, <1>4
  <2>3. \A i, j \in DOMAIN attempts[r] :
            attempts[r][i].stage = attempts[r][j].stage => i = j
    BY <1>4 DEF DistinctStages
  <2> QED
    BY <1>1, <2>1, <2>2, <2>3, DistinctAppend DEF DistinctStages
<1> QED
  BY <1>3, <1>4 DEF e

\* What an appended observation adds to the journal's set.
LEMMA ObservationAdded ==
  ASSUME TypeOK, NEW r \in Runs, NEW stage, NEW class, NEW result, NEW changed,
         [stage |-> stage, class |-> class, outcome |-> result,
          changed |-> changed] \in ObservationRecord,
         AppendObservation(r, stage, class, result, changed)
  PROVE  ToSet(observations'[r]) = ToSet(observations[r]) \cup
            {[stage |-> stage, class |-> class, outcome |-> result,
              changed |-> changed]}
  BY ToSetAppend DEF TypeOK, AppendObservation

\* A step of one run leaves every other run's entries alone.
LEMMA OtherRuns ==
  ASSUME TypeOK, NEW r \in Runs, NEW q \in Runs, q # r, Step(r) \/ Kill(r)
  PROVE  /\ pc'[q] = pc[q] /\ staged'[q] = staged[q] /\ touched'[q] = touched[q]
         /\ landed'[q] = landed[q] /\ attempts'[q] = attempts[q]
         /\ observations'[q] = observations[q] /\ verified'[q] = verified[q]
         /\ crashOutcome'[q] = crashOutcome[q] /\ outcome'[q] = outcome[q]
<1> USE DEF TypeOK, AppendAttempt, AppendObservation, Goto, Complete, Unwind,
        RecordUnchanged, RecordUnknown, Refuse, InternalFailure, journal,
        provider
<1>1. CASE EvaluatePreflight(r)
  BY <1>1 DEF EvaluatePreflight
<1>2. CASE InspectThrows(r)
  BY <1>2 DEF InspectThrows
<1>3. CASE InspectClassifiesFailure(r)
  BY <1>3 DEF InspectClassifiesFailure
<1>4. CASE InspectAnswersNoObject(r)
  BY <1>4 DEF InspectAnswersNoObject
<1>5. CASE InspectAnswers(r)
  BY <1>5 DEF InspectAnswers
<1>6. CASE PreflightThrows(r)
  BY <1>6 DEF PreflightThrows
<1>7. CASE PreflightAnswers(r)
  BY <1>7 DEF PreflightAnswers
<1>8. CASE StageThrows(r)
  BY <1>8 DEF StageThrows
<1>9. CASE StageAnswers(r)
  BY <1>9 DEF StageAnswers
<1>10. CASE AdapterReadsFence(r)
  BY <1>10 DEF AdapterReadsFence
<1>11. CASE AdapterSwitches(r)
  BY <1>11 DEF AdapterSwitches
<1>12. CASE AdapterLosesPointer(r)
  BY <1>12 DEF AdapterLosesPointer
<1>13. CASE ActivateThrows(r)
  BY <1>13 DEF ActivateThrows
<1>14. CASE ActivateAnswers(r)
  BY <1>14 DEF ActivateAnswers
<1>15. CASE ObserveThrows(r)
  BY <1>15 DEF ObserveThrows
<1>16. CASE ObserveAnswers(r)
  BY <1>16 DEF ObserveAnswers
<1>17. CASE CleanupStaged(r)
  BY <1>17 DEF CleanupStaged
<1>18. CASE Kill(r)
  BY <1>18 DEF Kill
<1> QED
  BY <1>1, <1>2, <1>3, <1>4, <1>5, <1>6, <1>7, <1>8, <1>9, <1>10, <1>11, <1>12, <1>13, <1>14, <1>15, <1>16, <1>17, <1>18
  DEF Step, Inspect, Activate

\* A step of one run leaves the invariant of the others alone.
LEMMA OtherRunsInv ==
  ASSUME TypeOK, NEW r \in Runs, NEW q \in Runs, q # r, Step(r) \/ Kill(r),
         RunInv(q)
  PROVE  RunInv(q)'
  BY OtherRuns
  DEF RunInv, JournalShape, ProviderShape, Honest, Activated, AdmitsChange,
      DeniesChange, Confirmed

\* A run that ends without a verified activation keeps its invariant when the
\* last entries of its journal are admitted and truthful.
LEMMA Ended ==
  ASSUME NEW r \in Runs, RunInv(r), pc[r] \in BeforeStaging \cup Activating,
         pc'[r] = "done", outcome'[r].verified = FALSE,
         NEW a, NEW o,
         ToSet(attempts'[r]) = ToSet(attempts[r]) \cup {a},
         ToSet(observations'[r]) \subseteq ToSet(observations[r]) \cup {o},
         DistinctStages(attempts'[r]),
         AdmittedAttempt(a), a.outcome # "succeeded",
         AdmittedObservation(o), o.outcome # "succeeded",
         landed'[r] = landed[r], touched'[r] = touched[r],
         \/ touched[r] = FALSE /\ (a.stage # "staging" \/ staged'[r] = FALSE)
         \/ /\ a.stage = "activation" /\ a.outcome = "unknown"
            /\ o.stage = "activation" /\ o.changed = "unknown"
         \/ touched[r] = FALSE /\ a.outcome = "unknown"
  PROVE  RunInv(r)'
<1>1. a.outcome = "unknown" => a.changed = "unknown"
  BY DEF AdmittedAttempt
<1>2. /\ \A x \in ToSet(attempts[r]) : x = StagedAttempt
      /\ \A x \in ToSet(observations[r]) : x = StagedObservation
  BY DEF RunInv, JournalShape, BeforeStaging, BeforeActivation, Activating
<1>3. JournalShape(r)' /\ ProviderShape(r)'
  BY DEF JournalShape, ProviderShape, BeforeStaging, BeforeActivation,
         Activating, Activation
<1>4. \A x \in ToSet(attempts'[r]) :
          /\ AdmittedAttempt(x)
          /\ ~(x.stage = "activation" /\ x.outcome = "succeeded")
          /\ x.outcome \in {"skipped", "failed"} =>
                 /\ x.stage # "cleanup" => touched[r] = FALSE
                 /\ x.stage = "staging" => staged'[r] = FALSE
  BY <1>2 DEF RunInv, Honest, StagedAttempt
<1>5. \A x \in ToSet(observations'[r]) :
          AdmittedObservation(x) /\ ~(x.stage = "activation" /\ x.outcome = "succeeded")
  BY <1>2 DEF RunInv, Honest, StagedObservation
<1>6. touched'[r] => ~DeniesChange(r)' /\ AdmitsChange(r)'
  BY <1>1, <1>2 DEF DeniesChange, AdmitsChange, StagedAttempt, StagedObservation,
     RunInv, ProviderShape
<1>7. Honest(r)'
  BY <1>4, <1>5, <1>6 DEF Honest, Confirmed, DistinctStages
<1> QED
  BY <1>3, <1>7 DEF RunInv

\* The three ways the kernel ends a run early.
LEMMA RefuseInv ==
  ASSUME TypeOK, NEW r \in Runs, RunInv(r), pc[r] \in BeforeStaging,
         NEW code \in {"REJECTED", "TARGET_CAPABILITY_UNAVAILABLE"},
         Refuse(r, code), UNCHANGED provider
  PROVE  RunInv(r)'
<1> DEFINE a == [stage |-> "staging", outcome |-> "skipped", changed |-> "no",
                 code |-> code]
           o == [stage |-> "staging", class |-> "request-not-started",
                 outcome |-> "rejected", changed |-> "no"]
<1>1. a \in AttemptRecord /\ o \in ObservationRecord
  BY DEF AttemptRecord, ObservationRecord, Stages
<1>2. ToSet(attempts[r]) = {} /\ DistinctStages(attempts[r])
  BY DEF RunInv, JournalShape, Honest, DistinctStages
<1>3. ToSet(attempts'[r]) = ToSet(attempts[r]) \cup {a} /\ DistinctStages(attempts'[r])
  BY <1>1, <1>2, AttemptAdded DEF Refuse
<1>4. ToSet(observations'[r]) = ToSet(observations[r]) \cup {o}
  BY <1>1, ObservationAdded DEF Refuse
<1>5. /\ AdmittedAttempt(a) /\ a.outcome # "succeeded"
      /\ AdmittedObservation(o) /\ o.outcome # "succeeded"
  BY DEF AdmittedAttempt, AdmittedObservation
<1>6. pc'[r] = "done" /\ outcome'[r].verified = FALSE
  BY DEF Refuse, Complete, Goto, TypeOK
<1>7. touched[r] = FALSE /\ staged[r] = FALSE
  BY DEF RunInv, ProviderShape, TypeOK
<1> HIDE DEF a, o
<1> QED
  BY <1>3, <1>4, <1>5, <1>6, <1>7, Ended DEF provider

\* Recording a definite failure keeps the run's invariant.
LEMMA UnchangedInv ==
  ASSUME TypeOK, NEW r \in Runs, RunInv(r), NEW stage \in Stages,
         \/ pc[r] \in BeforeStaging /\ stage = "staging"
         \/ pc[r] = "reinspecting" /\ stage = "activation",
         NEW a, NEW o,
         AppendAttempt(r, stage, "failed", "no", a),
         AppendObservation(r, stage, "provider-error", o, "no"),
         a \in {"PROVIDER_CONTRACT_VIOLATION", "TARGET_CAPABILITY_UNAVAILABLE"},
         o \in {"provider-contract-violation", "rejected"},
         Unwind(r), UNCHANGED provider
  PROVE  RunInv(r)'
<1> DEFINE att == [stage |-> stage, outcome |-> "failed", changed |-> "no",
                   code |-> a]
           obs == [stage |-> stage, class |-> "provider-error",
                   outcome |-> o, changed |-> "no"]
<1>1. att \in AttemptRecord /\ obs \in ObservationRecord
  BY DEF AttemptRecord, ObservationRecord
<1>2. /\ \A x \in ToSet(attempts[r]) : x.stage # stage
      /\ DistinctStages(attempts[r])
  BY DEF RunInv, JournalShape, Honest, DistinctStages, StagedAttempt, Activating,
     BeforeActivation
<1>3. ToSet(attempts'[r]) = ToSet(attempts[r]) \cup {att} /\ DistinctStages(attempts'[r])
  BY <1>1, <1>2, AttemptAdded
<1>4. ToSet(observations'[r]) = ToSet(observations[r]) \cup {obs}
  BY <1>1, ObservationAdded
<1>5. /\ AdmittedAttempt(att) /\ att.outcome # "succeeded" /\ att.stage = stage
      /\ AdmittedObservation(obs) /\ obs.outcome # "succeeded"
  BY DEF AdmittedAttempt, AdmittedObservation
<1>6. pc'[r] = "done" /\ outcome'[r].verified = FALSE
  BY DEF Unwind, Complete, Goto, TypeOK
<1>7. touched[r] = FALSE /\ (stage = "staging" => staged[r] = FALSE)
  BY DEF RunInv, ProviderShape, TypeOK, BeforeActivation
<1>8. pc[r] \in BeforeStaging \cup Activating
  BY DEF Activating, BeforeActivation
<1> HIDE DEF att, obs
<1> QED
  BY <1>3, <1>4, <1>5, <1>6, <1>7, <1>8, Ended DEF provider

\* Recording an unknown outcome keeps the run's invariant.
LEMMA UnknownInv ==
  ASSUME TypeOK, NEW r \in Runs, RunInv(r), NEW stage \in Stages,
         \/ pc[r] = "staging" /\ stage = "staging"
         \/ pc[r] \in Activating /\ stage = "activation",
         RecordUnknown(r, stage), Unwind(r), UNCHANGED <<touched, landed>>
  PROVE  RunInv(r)'
<1> DEFINE att == [stage |-> stage, outcome |-> "unknown", changed |-> "unknown",
                   code |-> "OUTCOME_UNKNOWN_RECONCILING"]
           obs == [stage |-> stage, class |-> "provider-error",
                   outcome |-> "outcome-unknown-reconciling", changed |-> "unknown"]
<1>1. att \in AttemptRecord /\ obs \in ObservationRecord
  BY DEF AttemptRecord, ObservationRecord
<1>2. /\ \A x \in ToSet(attempts[r]) : x.stage # stage
      /\ DistinctStages(attempts[r])
  BY DEF RunInv, JournalShape, Honest, DistinctStages, StagedAttempt,
     BeforeStaging
<1>3. ToSet(attempts'[r]) = ToSet(attempts[r]) \cup {att} /\ DistinctStages(attempts'[r])
  BY <1>1, <1>2, AttemptAdded DEF RecordUnknown
<1>4. ToSet(observations'[r]) = ToSet(observations[r]) \cup {obs}
  BY <1>1, ObservationAdded DEF RecordUnknown
<1>5. /\ AdmittedAttempt(att) /\ att.outcome = "unknown" /\ att.stage = stage
      /\ AdmittedObservation(obs) /\ obs.outcome # "succeeded"
      /\ obs.stage = stage /\ obs.changed = "unknown"
  BY DEF AdmittedAttempt, AdmittedObservation
<1>6. pc'[r] = "done" /\ outcome'[r].verified = FALSE
  BY DEF Unwind, Complete, Goto, TypeOK
<1>7. stage = "staging" => touched[r] = FALSE
  BY DEF RunInv, ProviderShape, TypeOK, BeforeStaging, Activating,
     BeforeActivation
<1>8. pc[r] \in BeforeStaging \cup Activating
  BY DEF BeforeStaging
<1>9. stage = "staging" \/ stage = "activation"
  OBVIOUS
<1>10. att.outcome # "succeeded"
  BY <1>5
<1> HIDE DEF att, obs
<1> QED
  BY <1>3, <1>4, <1>5, <1>6, <1>7, <1>8, <1>9, <1>10, Ended

\* An answer that is no object adds nothing to the journal: only after an
\* activation can that leave a change unsaid, and then "activate" is malformed.
LEMMA InternalInv ==
  ASSUME TypeOK, NEW r \in Runs, RunInv(r), NEW call, InternalFailure(r, call),
         pc[r] \in BeforeStaging \cup Activating \cup {"observing"},
         pc[r] \in {"switched", "declined"} => call = "activate",
         UNCHANGED <<touched, landed>>,
         pc[r] = "staging" \/ staged'[r] = staged[r]
  PROVE  RunInv(r)'
<1>1. /\ attempts'[r] = attempts[r] /\ observations'[r] = observations[r]
      /\ pc'[r] = "done" /\ outcome'[r].verified = FALSE
      /\ touched'[r] = touched[r] /\ landed'[r] = landed[r]
      /\ call \in Malformed
  BY DEF InternalFailure, Unwind, Complete, Goto, TypeOK
<1>2. ~Confirmed(r)
  BY DEF RunInv, JournalShape, Confirmed, StagedObservation, Activation
<1>3. touched[r] /\ "activate" \notin Malformed => AdmitsChange(r)
  BY <1>1 DEF RunInv, JournalShape, ProviderShape, Activation, Activating
<1>4. \A x \in ToSet(attempts[r]) :
          x.outcome \in {"skipped", "failed"} /\ x.stage = "staging" => staged'[r] = FALSE
  BY DEF RunInv, JournalShape, Honest, BeforeStaging, TypeOK
<1>5. JournalShape(r)' /\ ProviderShape(r)'
  BY <1>1
  DEF JournalShape, ProviderShape, BeforeStaging, BeforeActivation,
      Activating, Activation
<1>6. Honest(r)'
  BY <1>1, <1>2, <1>3, <1>4
  DEF RunInv, Honest, Confirmed, DeniesChange, AdmitsChange
<1> QED
  BY <1>5, <1>6 DEF RunInv

\* A step that only moves the run on keeps what is unchanged.
LEMMA MovedInv ==
  ASSUME TypeOK, NEW r \in Runs, RunInv(r), NEW phase,
         \/ pc[r] \in BeforeStaging /\ phase \in BeforeStaging
         \/ pc[r] = "reinspecting" /\ phase = "activating",
         Goto(r, phase),
         UNCHANGED <<provider, attempts, observations, crashOutcome, outcome>>
  PROVE  RunInv(r)'
<1>1. pc'[r] = phase
  BY DEF Goto, TypeOK
<1> QED
  BY <1>1
  DEF RunInv, JournalShape, ProviderShape, Honest, BeforeStaging,
      BeforeActivation, Activating, Activation, Activated, AdmitsChange,
      DeniesChange, Confirmed, provider

\* The run that takes the step keeps its own invariant.
LEMMA OwnRunInv ==
  ASSUME TypeOK, NEW r \in Runs, Step(r) \/ Kill(r), RunInv(r)
  PROVE  RunInv(r)'
<1>a. /\ {"created", "inspecting", "preflighting", "staging"} = BeforeStaging
      /\ {"reinspecting", "activating", "switching", "switched", "declined"} = Activating
      /\ {"staging", "activation"} \subseteq Stages
  BY DEF BeforeStaging, BeforeActivation, Activating, Stages
<1>1. CASE EvaluatePreflight(r)
  <2>1. pc[r] \in BeforeStaging /\ UNCHANGED <<provider, crashOutcome>>
    BY <1>1, <1>a DEF EvaluatePreflight
  <2> QED
    BY <1>1, <1>a, <2>1, RefuseInv, MovedInv DEF EvaluatePreflight
<1>2. CASE InspectThrows(r)
  BY <1>2, <1>a, UnchangedInv DEF InspectThrows, RecordUnchanged, InspectedStage
<1>3. CASE InspectClassifiesFailure(r)
  BY <1>3, <1>a, UnchangedInv DEF InspectClassifiesFailure, InspectedStage
<1>4. CASE InspectAnswersNoObject(r)
  BY <1>4, <1>a, InternalInv DEF InspectAnswersNoObject, provider
<1>5. CASE InspectAnswers(r)
  <2>1. /\ pc[r] \in {"inspecting", "reinspecting"}
        /\ UNCHANGED <<provider, crashOutcome>>
    BY <1>5 DEF InspectAnswers
  <2>2. CASE /\ Goto(r, AfterInspection(r))
             /\ UNCHANGED <<attempts, observations, failure, outcome>>
    BY <2>1, <2>2, <1>a, MovedInv DEF AfterInspection
  <2>3. CASE pc[r] = "inspecting" /\ Refuse(r, "REJECTED")
    BY <2>1, <2>3, <1>a, RefuseInv
  <2>4. CASE /\ pc[r] = "reinspecting"
             /\ AppendAttempt(r, "activation", "skipped", "no", "REJECTED")
             /\ Complete(r, "reconcile", Nothing, FALSE)
             /\ UNCHANGED <<observations, failure>>
    <3> DEFINE a == [stage |-> "activation", outcome |-> "skipped",
                     changed |-> "no", code |-> "REJECTED"]
    <3>1. a \in AttemptRecord
      BY DEF AttemptRecord, Stages
    <3>2. /\ \A x \in ToSet(attempts[r]) : x.stage # "activation"
          /\ DistinctStages(attempts[r])
      BY <2>4, <1>a DEF RunInv, JournalShape, Honest, DistinctStages, StagedAttempt
    <3>3. ToSet(attempts'[r]) = ToSet(attempts[r]) \cup {a} /\ DistinctStages(attempts'[r])
      BY <2>4, <3>1, <3>2, AttemptAdded
    <3>4. AdmittedAttempt(a) /\ a.outcome # "succeeded" /\ a.stage = "activation"
      BY DEF AdmittedAttempt
    <3>5. pc'[r] = "done" /\ outcome'[r].verified = FALSE
      BY <2>4 DEF Complete, Goto, TypeOK
    <3>6. touched[r] = FALSE
      BY <2>4 DEF RunInv, ProviderShape, BeforeActivation, TypeOK
    <3>7. LET o == [stage |-> "staging", class |-> "request-not-started",
                    outcome |-> "rejected", changed |-> "no"]
          IN  AdmittedObservation(o) /\ o.outcome # "succeeded"
      BY DEF AdmittedObservation
    <3> HIDE DEF a
    <3> QED
      BY <2>1, <2>4, <1>a, <3>3, <3>4, <3>5, <3>6, <3>7, Ended DEF provider
  <2> QED
    BY <1>5, <2>2, <2>3, <2>4 DEF InspectAnswers
<1>6. CASE PreflightThrows(r)
  BY <1>6, <1>a, UnchangedInv DEF PreflightThrows, RecordUnchanged
<1>7. CASE PreflightAnswers(r)
  <2>1. pc[r] \in BeforeStaging /\ UNCHANGED <<provider, crashOutcome>> /\ pc[r] = "preflighting"
    BY <1>7, <1>a DEF PreflightAnswers
  <2> QED
    BY <1>7, <1>a, <2>1, RefuseInv, MovedInv, InternalInv
    DEF PreflightAnswers, provider
<1>8. CASE StageThrows(r)
  BY <1>8, <1>a, UnknownInv DEF StageThrows
<1>9. CASE StageAnswers(r)
  <2>1. CASE InternalFailure(r, "stage")
    BY <1>9, <2>1, <1>a, InternalInv DEF StageAnswers
  <2>2. CASE /\ AppendAttempt(r, "staging", "succeeded", "no", "none")
             /\ AppendObservation(r, "staging", "provider-state", "succeeded", "no")
             /\ Goto(r, "reinspecting")
             /\ UNCHANGED <<failure, outcome>>
    <3>1. StagedAttempt \in AttemptRecord /\ StagedObservation \in ObservationRecord
      BY DEF AttemptRecord, ObservationRecord, Stages, StagedAttempt, StagedObservation
    <3>2. /\ pc[r] \in BeforeStaging /\ pc'[r] = "reinspecting"
          /\ UNCHANGED <<touched, landed, crashOutcome>>
      BY <1>9, <2>2, <1>a DEF StageAnswers, Goto, TypeOK
    <3>3. ToSet(attempts[r]) = {} /\ ToSet(observations[r]) = {} /\ DistinctStages(attempts[r])
      BY <3>2 DEF RunInv, JournalShape, Honest, DistinctStages
    <3>4. ToSet(attempts'[r]) = {StagedAttempt} /\ DistinctStages(attempts'[r])
      BY <2>2, <3>1, <3>3, AttemptAdded DEF StagedAttempt
    <3>5. ToSet(observations'[r]) = {StagedObservation}
      BY <2>2, <3>1, <3>3, ObservationAdded DEF StagedObservation
    <3>6. JournalShape(r)'
      BY <3>2, <3>4, <3>5
      DEF JournalShape, BeforeStaging, BeforeActivation, Activating, Activation
    <3>7. ProviderShape(r)'
      BY <3>2 DEF RunInv, ProviderShape, BeforeStaging, BeforeActivation,
         Activating, Activation
    <3>8. touched'[r] = FALSE
      BY <3>2 DEF RunInv, ProviderShape, TypeOK
    <3>9. Honest(r)'
      BY <3>2, <3>4, <3>5, <3>8
      DEF Honest, DistinctStages, StagedAttempt, StagedObservation,
          AdmittedAttempt, AdmittedObservation
    <3> QED
      BY <3>6, <3>7, <3>9 DEF RunInv
  <2> QED
    BY <1>9, <2>1, <2>2 DEF StageAnswers
<1>10. CASE AdapterReadsFence(r)
  <2>1. /\ pc[r] = "activating" /\ pc'[r] \in {"switching", "switched", "declined"}
        /\ UNCHANGED <<staged, touched, attempts, observations, crashOutcome, outcome>>
        /\ pc'[r] = "switched" => landed'[r] = TRUE
    BY <1>10 DEF AdapterReadsFence, Goto, TypeOK, journal
  <2>2. /\ ToSet(attempts[r]) = {StagedAttempt}
        /\ ToSet(observations[r]) = {StagedObservation}
        /\ touched[r] = FALSE /\ crashOutcome[r] = NothingActivated
    BY <2>1 DEF RunInv, JournalShape, ProviderShape, Activating,
       BeforeActivation, TypeOK
  <2>3. JournalShape(r)' /\ ProviderShape(r)'
    BY <2>1, <2>2 DEF JournalShape, ProviderShape, BeforeStaging,
       BeforeActivation, Activating, Activation
  <2>4. Honest(r)'
    BY <2>1, <2>2 DEF RunInv, Honest, StagedAttempt, StagedObservation
  <2> QED
    BY <2>3, <2>4 DEF RunInv
<1>11. CASE AdapterSwitches(r)
  BY <1>11
  DEF AdapterSwitches, RunInv, JournalShape, ProviderShape, Honest, Goto,
      BeforeStaging, BeforeActivation, Activating, Activation, Activated,
      AdmitsChange, DeniesChange, Confirmed, TypeOK, journal, StagedAttempt,
      StagedObservation
<1>12. CASE AdapterLosesPointer(r)
  BY <1>12
  DEF AdapterLosesPointer, RunInv, JournalShape, ProviderShape, Honest, Goto,
      BeforeStaging, BeforeActivation, Activating, Activation, Activated,
      AdmitsChange, DeniesChange, Confirmed, TypeOK, journal, StagedAttempt,
      StagedObservation
<1>13. CASE ActivateThrows(r)
  BY <1>13, <1>a, UnknownInv DEF ActivateThrows, provider
<1>14. CASE ActivateAnswers(r)
  <2>1. CASE InternalFailure(r, "activate") /\ UNCHANGED crashOutcome
    BY <1>14, <2>1, <1>a, InternalInv DEF ActivateAnswers, provider
  <2>2. CASE /\ IF pc[r] = "switched"
                 THEN AppendAttempt(r, "activation", "succeeded", "yes", "none")
                 ELSE AppendAttempt(r, "activation", "unknown", "unknown",
                                    "OUTCOME_UNKNOWN_RECONCILING")
             /\ crashOutcome' = [crashOutcome EXCEPT ![r] =
                    [decision |-> IF pc[r] = "switched" THEN "activate" ELSE "reconcile",
                     generation |-> Proposed[r]]]
             /\ Goto(r, "observing")
             /\ UNCHANGED <<observations, failure, outcome>>
    <3> DEFINE a == IF pc[r] = "switched"
                    THEN [stage |-> "activation", outcome |-> "succeeded",
                          changed |-> "yes", code |-> "none"]
                    ELSE [stage |-> "activation", outcome |-> "unknown",
                          changed |-> "unknown", code |-> "OUTCOME_UNKNOWN_RECONCILING"]
    <3>1. a \in AttemptRecord
      BY DEF AttemptRecord, Stages
    <3>2. /\ pc[r] \in {"switched", "declined"} /\ pc'[r] = "observing"
          /\ UNCHANGED <<staged, touched, landed, observations, outcome>>
          /\ pc[r] = "switched" => landed[r]
          /\ Activated(r)' => pc[r] = "switched"
      BY <1>14, <2>2
      DEF ActivateAnswers, Goto, TypeOK, RunInv, ProviderShape, provider, Activated
    <3>3. /\ ToSet(attempts[r]) = {StagedAttempt} /\ DistinctStages(attempts[r])
          /\ ToSet(observations[r]) = {StagedObservation}
      BY <3>2, <1>a DEF RunInv, JournalShape, Honest, DistinctStages
    <3>4. \A x \in ToSet(attempts[r]) : x.stage # "activation"
      BY <3>3 DEF StagedAttempt
    <3>5. ToSet(attempts'[r]) = {StagedAttempt, a} /\ DistinctStages(attempts'[r])
      <4>1. CASE pc[r] = "switched"
        BY <4>1, <2>2, <3>1, <3>3, <3>4, AttemptAdded
      <4>2. CASE pc[r] # "switched"
        BY <4>2, <2>2, <3>1, <3>3, <3>4, AttemptAdded
      <4> QED
        BY <4>1, <4>2
    <3>6. /\ AdmittedAttempt(a) /\ a.stage = "activation" /\ a.changed # "no"
          /\ a.outcome \in {"succeeded", "unknown"}
          /\ a.outcome = "succeeded" => pc[r] = "switched"
      BY DEF AdmittedAttempt
    <3> HIDE DEF a
    <3>7. JournalShape(r)'
      BY <3>2, <3>3, <3>5, <3>6
      DEF JournalShape, BeforeStaging, BeforeActivation, Activating, Activation,
          AdmitsChange, Confirmed, StagedAttempt, StagedObservation
    <3>8. ProviderShape(r)'
      BY <3>2 DEF ProviderShape, BeforeStaging, BeforeActivation, Activating,
         Activation
    <3>9. Honest(r)'
      BY <3>2, <3>3, <3>5, <3>6
      DEF RunInv, Honest, DistinctStages, StagedAttempt, StagedObservation,
          AdmittedAttempt, AdmittedObservation, DeniesChange
    <3> QED
      BY <3>7, <3>8, <3>9 DEF RunInv
  <2> QED
    BY <1>14, <2>1, <2>2 DEF ActivateAnswers
<1>15. CASE ObserveThrows(r)
  <2> DEFINE o == [stage |-> "activation", class |-> "provider-error",
                   outcome |-> "outcome-unknown-reconciling",
                   changed |-> ActivationChanged(r)]
  <2>1. o \in ObservationRecord /\ AdmittedObservation(o)
        /\ o.outcome # "succeeded" /\ o.changed # "no"
    BY DEF ObservationRecord, Stages, ActivationChanged, AdmittedObservation
  <2>2. ToSet(observations'[r]) = ToSet(observations[r]) \cup {o}
    BY <1>15, <2>1, ObservationAdded DEF ObserveThrows
  <2>3. /\ pc[r] = "observing" /\ pc'[r] = "done" /\ outcome'[r].verified = FALSE
        /\ UNCHANGED <<staged, touched, landed, attempts>>
    BY <1>15 DEF ObserveThrows, Unwind, Complete, Goto, TypeOK, provider
  <2> HIDE DEF o
  <2>4. JournalShape(r)' /\ ProviderShape(r)'
    BY <2>3 DEF JournalShape, ProviderShape, BeforeStaging, BeforeActivation,
       Activating, Activation
  <2>5. AdmitsChange(r) /\ ~Confirmed(r)
    BY <2>3 DEF RunInv, JournalShape, Activation
  <2>6. Honest(r)'
    BY <2>1, <2>2, <2>3, <2>5
    DEF RunInv, Honest, AdmitsChange, DeniesChange, Confirmed
  <2> QED
    BY <2>4, <2>6 DEF RunInv
<1>16. CASE ObserveAnswers(r)
  <2>1. CASE InternalFailure(r, "observe") /\ UNCHANGED verified
    BY <1>16, <2>1, InternalInv DEF ObserveAnswers, provider
  <2>2. ASSUME NEW isVerified \in BOOLEAN,
               verified' = [verified EXCEPT ![r] = isVerified],
               AppendObservation(r, "activation", "provider-state",
                    IF Activated(r) /\ isVerified THEN "succeeded"
                    ELSE "outcome-unknown-reconciling",
                    ActivationChanged(r)),
               Goto(r, "cleaning"),
               UNCHANGED <<attempts, outcome>>
        PROVE  RunInv(r)'
    <3> DEFINE o == [stage |-> "activation", class |-> "provider-state",
                     outcome |-> IF Activated(r) /\ isVerified THEN "succeeded"
                                 ELSE "outcome-unknown-reconciling",
                     changed |-> ActivationChanged(r)]
    <3>1. /\ o \in ObservationRecord /\ AdmittedObservation(o)
          /\ o.stage = "activation" /\ o.changed # "no"
          /\ o.outcome = "succeeded" <=> Activated(r) /\ isVerified
      BY DEF ObservationRecord, Stages, ActivationChanged, AdmittedObservation
    <3>2. ToSet(observations'[r]) = ToSet(observations[r]) \cup {o}
      BY <2>2, <3>1, ObservationAdded
    <3>3. /\ pc[r] = "observing" /\ pc'[r] = "cleaning"
          /\ verified'[r] = isVerified
          /\ UNCHANGED <<staged, touched, landed, attempts, crashOutcome, outcome>>
      BY <1>16, <2>2 DEF ObserveAnswers, Goto, TypeOK, provider
    <3> HIDE DEF o
    <3>4. /\ AdmitsChange(r) /\ ~Confirmed(r)
          /\ \A a \in ToSet(attempts[r]) :
                a.stage # "cleanup" /\ a.outcome \in {"succeeded", "unknown"}
      BY <3>3 DEF RunInv, JournalShape, Activation
    <3>5. Confirmed(r)' <=> Activated(r) /\ isVerified
      BY <3>1, <3>2, <3>4 DEF Confirmed
    <3>6. JournalShape(r)'
      BY <3>3, <3>4
      DEF JournalShape, BeforeStaging, BeforeActivation, Activating, Activation,
          AdmitsChange
    <3>7. ProviderShape(r)'
      BY <3>3 DEF RunInv, ProviderShape, BeforeStaging, BeforeActivation,
         Activating, Activation, Activated
    <3>8. Honest(r)'
      BY <3>1, <3>2, <3>3, <3>4, <3>5
      DEF RunInv, Honest, DeniesChange, Activated
    <3> QED
      BY <3>6, <3>7, <3>8 DEF RunInv
  <2> QED
    BY <1>16, <2>1, <2>2 DEF ObserveAnswers
<1>17. CASE CleanupStaged(r)
  <2>1. /\ pc[r] = "cleaning" /\ pc'[r] = "done"
        /\ outcome'[r] = [decision |-> crashOutcome[r].decision,
                          generation |-> crashOutcome[r].generation,
                          verified |-> verified[r]]
        /\ UNCHANGED <<touched, landed, observations>>
        /\ staged'[r] => staged[r]
    BY <1>17 DEF CleanupStaged, Complete, Goto, TypeOK
  <2>2. PICK result \in {"succeeded", "failed", "skipped"},
             code \in {"none", "NOT_ATTEMPTED_RETRYABLE"} :
             AppendAttempt(r, "cleanup", result, "no", code)
    BY <1>17 DEF CleanupStaged
  <2> DEFINE a == [stage |-> "cleanup", outcome |-> result, changed |-> "no",
                   code |-> code]
  <2>3. /\ a \in AttemptRecord /\ AdmittedAttempt(a) /\ a.stage = "cleanup"
    BY DEF AttemptRecord, Stages, AdmittedAttempt
  <2>4. /\ AdmitsChange(r) /\ DistinctStages(attempts[r])
        /\ \A x \in ToSet(attempts[r]) :
              x.stage # "cleanup" /\ x.outcome \in {"succeeded", "unknown"}
    BY <2>1 DEF RunInv, JournalShape, Honest, Activation, DistinctStages
  <2>5. ToSet(attempts'[r]) = ToSet(attempts[r]) \cup {a} /\ DistinctStages(attempts'[r])
    BY <2>2, <2>3, <2>4, AttemptAdded
  <2> HIDE DEF a
  <2>6. JournalShape(r)' /\ ProviderShape(r)'
    BY <2>1 DEF JournalShape, ProviderShape, BeforeStaging, BeforeActivation,
       Activating, Activation
  <2>7. Honest(r)'
    BY <2>1, <2>3, <2>4, <2>5
    DEF RunInv, Honest, AdmitsChange, DeniesChange, Confirmed, Activated,
        DistinctStages
  <2> QED
    BY <2>6, <2>7 DEF RunInv
<1>18. CASE Kill(r)
  BY <1>18
  DEF Kill, RunInv, JournalShape, ProviderShape, Honest, Goto, TypeOK,
      BeforeStaging, BeforeActivation, Activating, Activation, Activated,
      AdmitsChange, DeniesChange, Confirmed, journal, provider
<1> QED
  BY <1>1, <1>2, <1>3, <1>4, <1>5, <1>6, <1>7, <1>8, <1>9, <1>10, <1>11,
     <1>12, <1>13, <1>14, <1>15, <1>16, <1>17, <1>18
  DEF Step, Inspect, Activate

-----------------------------------------------------------------------------
(* Theorems *)

\* The inductive invariant holds initially.
LEMMA InvInit == Init => IInv
<1> SUFFICES ASSUME Init PROVE \A r \in Runs : RunInv(r)
  BY TypeInit DEF IInv
<1> TAKE r \in Runs
<1>1. /\ pc[r] = "created" /\ staged[r] = FALSE /\ touched[r] = FALSE
      /\ attempts[r] = <<>> /\ observations[r] = <<>>
      /\ crashOutcome[r] = NothingActivated
  BY DEF Init
<1> QED
  BY <1>1, ToSetEmpty
  DEF RunInv, JournalShape, ProviderShape, Honest, BeforeStaging, Activating,
      BeforeActivation, Activation

\* Every step of every run keeps the inductive invariant.
LEMMA InvStep == IInv /\ [Next]_vars => IInv'
<1>1. ASSUME IInv, NEW r \in Runs, Step(r) \/ Kill(r) PROVE IInv'
  <2>1. TypeOK'
    BY <1>1, TypeStep DEF IInv
  <2>2. ASSUME NEW q \in Runs PROVE RunInv(q)'
    <3>1. CASE q = r
      BY <1>1, <3>1, OwnRunInv DEF IInv
    <3>2. CASE q # r
      BY <1>1, <3>2, OtherRunsInv DEF IInv
    <3> QED
      BY <3>1, <3>2
  <2> QED
    BY <2>1, <2>2 DEF IInv
<1>2. ASSUME IInv, UNCHANGED vars PROVE IInv'
  <2>1. TypeOK'
    BY <1>2, TypeStutter DEF IInv
  <2>2. ASSUME NEW q \in Runs PROVE RunInv(q)'
    BY <1>2
    DEF IInv, RunInv, JournalShape, ProviderShape, Honest, Activated,
        AdmitsChange, DeniesChange, Confirmed, vars, provider, journal
  <2> QED
    BY <2>1, <2>2 DEF IInv
<1> QED
  BY <1>1, <1>2 DEF Next

\* The inductive invariant holds in every reachable state.
LEMMA Invariant == Spec => []IInv
  BY InvInit, InvStep, PTL DEF Spec

\* A run that ended after its activation changed what is served has a journal
\* that admits it, as long as the adapter answers activate with an object.
THEOREM JournalAdmitsChange ==
  ASSUME "activate" \notin Malformed
  PROVE  Spec => []ChangeIsJournalled
<1>1. IInv => ChangeIsJournalled
  BY DEF IInv, RunInv, Honest, ChangeIsJournalled
<1> QED
  BY <1>1, Invariant, PTL

\* What the journal records as skipped or failed left the destination alone.
THEOREM RefusalsAreClean == Spec => []RefusalLeavesDestination
<1>1. IInv => RefusalLeavesDestination
  BY DEF IInv, RunInv, Honest, RefusalLeavesDestination
<1> QED
  BY <1>1, Invariant, PTL

\* What the journal records as activated was served.
THEOREM SuccessesLanded == Spec => []SuccessHasLanded
<1>1. IInv => SuccessHasLanded
  BY DEF IInv, RunInv, Honest, SuccessHasLanded
<1> QED
  BY <1>1, Invariant, PTL

\* A run reports a verified activation exactly when its journal witnesses one.
THEOREM OutcomeTellsJournal == Spec => []OutcomeMatchesJournal
<1>1. IInv => OutcomeMatchesJournal
  BY DEF IInv, RunInv, Honest, OutcomeMatchesJournal, Confirmed
<1> QED
  BY <1>1, Invariant, PTL

\* The derived stage-attempt identities of one journal never collide.
THEOREM StageAttemptsDistinct == Spec => []OneAttemptPerStage
<1>1. IInv => OneAttemptPerStage
  BY DEF IInv, RunInv, Honest, OneAttemptPerStage
<1> QED
  BY <1>1, Invariant, PTL

\* Every journal entry is a combination the receipt contract admits.
THEOREM JournalsAdmitted == Spec => []JournalIsAdmitted
<1>1. IInv => JournalIsAdmitted
  BY DEF IInv, RunInv, Honest, JournalIsAdmitted
<1> QED
  BY <1>1, Invariant, PTL

\* What a run that changed the destination expected is not served again.
Superseded == \A r \in Runs : touched[r] => FenceDisagrees(Expected[r], served)

\* A step changes nothing that is served, or it is a switch.
LEMMA OnlySwitchesChange ==
  ASSUME Concurrency # "best-effort", NEW r \in Runs, Step(r) \/ Kill(r)
  PROVE  \/ UNCHANGED <<served, touched>>
         \/ /\ touched' = [touched EXCEPT ![r] = TRUE]
            /\ served' = Proposed[r]
  BY DEF Step, Inspect, Activate, Kill, provider, EvaluatePreflight,
      InspectThrows, InspectClassifiesFailure, InspectAnswersNoObject,
      InspectAnswers, PreflightThrows, PreflightAnswers, StageThrows,
      StageAnswers, AdapterReadsFence, AdapterSwitches, AdapterLosesPointer,
      ActivateThrows, ActivateAnswers, ObserveThrows, ObserveAnswers,
      CleanupStaged

\* A run comes to its switch by reading a fence that agrees, and by no other
\* step, be it its own or of another run.
LEMMA OnlyTheFenceAdmits ==
  ASSUME TypeOK, NEW q \in Runs, Step(q) \/ Kill(q),
         NEW r \in Runs, pc'[r] = "switching", pc[r] # "switching"
  PROVE  ~FenceDisagrees(Expected[r], served)
<1>1. CASE AdapterReadsFence(q)
  <2>1. r = q
    BY <1>1 DEF AdapterReadsFence, Goto, TypeOK
  <2> QED
    BY <1>1, <2>1 DEF AdapterReadsFence, Goto, TypeOK
<1>2. ASSUME ~AdapterReadsFence(q) PROVE pc'[r] = pc[r] \/ pc'[r] # "switching"
  BY <1>2
  DEF TypeOK, Step, Inspect, Activate, Kill, EvaluatePreflight, InspectThrows,
      InspectClassifiesFailure, InspectAnswersNoObject, InspectAnswers,
      AfterInspection, PreflightThrows, PreflightAnswers, StageThrows,
      StageAnswers, AdapterSwitches, AdapterLosesPointer, ActivateThrows,
      ActivateAnswers, ObserveThrows, ObserveAnswers, CleanupStaged, Complete,
      Unwind, Refuse, InternalFailure, Goto
<1> QED
  BY <1>1, <1>2

\* Unless the adapter changes what is served before its switch (best effort),
\* and when proposed generations are fresh, a run that comes to its fence
\* after another one of the same expectation has switched is stopped there.
\* The switch itself is not assumed to compare anything.
THEOREM LateRunsAreFencedHolds ==
  ASSUME Concurrency # "best-effort",
         \A r, q \in Runs : Proposed[r] # Expected[q]
  PROVE  Spec => LateRunsAreFenced
<1>1. Init => Superseded
  BY DEF Init, Superseded
<1>2. ASSUME IInv, Superseded, [Next]_vars
      PROVE  Superseded'
  <2>1. CASE UNCHANGED vars
    BY <1>2, <2>1 DEF Superseded, vars, provider
  <2>2. ASSUME NEW r \in Runs,
               touched' = [touched EXCEPT ![r] = TRUE],
               served' = Proposed[r]
        PROVE  Superseded'
    BY <2>2, KernelRunAssumption, FenceAssumption
    DEF FenceDisagrees, Superseded
  <2>3. CASE UNCHANGED <<served, touched>>
    BY <1>2, <2>3 DEF Superseded
  <2> QED
    BY <1>2, <2>1, <2>2, <2>3, OnlySwitchesChange DEF Next
<1>3. ASSUME IInv, Superseded, [Next]_vars,
             NEW r \in Runs, NEW q \in Runs, touched[q],
             Expected[r] = Expected[q], pc'[r] = "switching"
      PROVE  pc[r] = "switching"
  <2>1. CASE UNCHANGED vars
    BY <1>3, <2>1 DEF vars
  <2>2. FenceDisagrees(Expected[r], served)
    BY <1>3 DEF Superseded
  <2> QED
    BY <1>3, <2>1, <2>2, OnlyTheFenceAdmits DEF Next, IInv
<1>4. IInv /\ Superseded /\ [Next]_vars =>
        [\A r, q \in Runs :
           r # q /\ touched[q] /\ Expected[r] = Expected[q]
           /\ pc'[r] = "switching" => pc[r] = "switching"]_vars
  BY <1>3
<1> QED
  BY <1>1, <1>2, <1>4, Invariant, PTL DEF Spec, LateRunsAreFenced

-----------------------------------------------------------------------------
(* The kernel run implements Publication, for every set of runs, every     *)
(* intent and every adapter class, as long as the adapter answers an       *)
(* activation with an object.                                              *)

\* What a step of a run does to the destination, seen from outside.
LEMMA ProviderSteps ==
  ASSUME TypeOK, NEW r \in Runs, Step(r) \/ Kill(r)
  PROVE  \/ UNCHANGED <<served, touched, landed>>
         \/ /\ served' = Proposed[r]
            /\ touched' = [touched EXCEPT ![r] = TRUE]
            /\ landed' = [landed EXCEPT ![r] = TRUE]
         \/ /\ touched' = [touched EXCEPT ![r] = TRUE]
            /\ UNCHANGED <<served, landed>>
         \/ /\ served = Proposed[r]
            /\ landed' = [landed EXCEPT ![r] = TRUE]
            /\ UNCHANGED <<served, touched>>
<1> USE DEF provider
<1>1. CASE AdapterReadsFence(r)
  BY <1>1 DEF AdapterReadsFence, TypeOK
<1>2. CASE AdapterSwitches(r)
  BY <1>2 DEF AdapterSwitches
<1>3. CASE AdapterLosesPointer(r)
  BY <1>3 DEF AdapterLosesPointer
<1>4. ASSUME ~AdapterReadsFence(r), ~AdapterSwitches(r),
             ~AdapterLosesPointer(r)
      PROVE  UNCHANGED <<served, touched, landed>>
  BY <1>4
  DEF Step, Inspect, Activate, Kill, EvaluatePreflight, InspectThrows,
      InspectClassifiesFailure, InspectAnswersNoObject, InspectAnswers,
      PreflightThrows, PreflightAnswers, StageThrows, StageAnswers,
      ActivateThrows, ActivateAnswers, ObserveThrows, ObserveAnswers,
      CleanupStaged
<1> QED
  BY <1>1, <1>2, <1>3, <1>4

\* A run acts only until it is done or killed.
LEMMA OnlyRunning ==
  ASSUME NEW r \in Runs, Step(r) \/ Kill(r)
  PROVE  pc[r] \in Running
  BY DEF Step, Inspect, Activate, Kill, Running, Calls, EvaluatePreflight,
      InspectThrows, InspectClassifiesFailure, InspectAnswersNoObject,
      InspectAnswers, PreflightThrows, PreflightAnswers, StageThrows,
      StageAnswers, AdapterReadsFence, AdapterSwitches, AdapterLosesPointer,
      ActivateThrows, ActivateAnswers, ObserveThrows, ObserveAnswers,
      CleanupStaged

\* A step that ends a run leaves the destination alone.
LEMMA EndsQuietly ==
  ASSUME TypeOK, NEW r \in Runs, Step(r) \/ Kill(r),
         pc'[r] \in {"done", "killed"}
  PROVE  UNCHANGED <<served, touched, landed>>
<1>1. ~AdapterReadsFence(r) /\ ~AdapterSwitches(r) /\ ~AdapterLosesPointer(r)
  BY DEF AdapterReadsFence, AdapterSwitches, AdapterLosesPointer, Goto, TypeOK
<1> QED
  BY <1>1
  DEF provider, Step, Inspect, Activate, Kill, EvaluatePreflight,
      InspectThrows, InspectClassifiesFailure, InspectAnswersNoObject,
      InspectAnswers, PreflightThrows, PreflightAnswers, StageThrows,
      StageAnswers, ActivateThrows, ActivateAnswers, ObserveThrows,
      ObserveAnswers, CleanupStaged

\* Only a run that ends in its cleanup reports itself verified, and what it
\* activated was served.
LEMMA VerifiedHasLanded ==
  ASSUME TypeOK, NEW r \in Runs, RunInv(r), Step(r) \/ Kill(r),
         pc'[r] = "done", outcome'[r].decision = "activate",
         outcome'[r].verified
  PROVE  landed[r]
<1>1. CASE CleanupStaged(r)
  <2>1. pc[r] = "cleaning" /\ outcome'[r].decision = crashOutcome[r].decision
    BY <1>1 DEF CleanupStaged, Complete, TypeOK
  <2> QED
    BY <2>1 DEF RunInv, ProviderShape, Activation, Activated
<1>2. ASSUME ~CleanupStaged(r) PROVE outcome'[r].verified = FALSE
  BY <1>2
  DEF TypeOK, Step, Inspect, Activate, Kill, EvaluatePreflight, InspectThrows,
      InspectClassifiesFailure, InspectAnswersNoObject, InspectAnswers,
      InspectedStage, AfterInspection, PreflightThrows, PreflightAnswers,
      StageThrows, StageAnswers, AdapterReadsFence, AdapterSwitches,
      AdapterLosesPointer, ActivateThrows, ActivateAnswers, ObserveThrows,
      ObserveAnswers, Complete, Unwind, Refuse, InternalFailure, Goto
<1> QED
  BY <1>1, <1>2

\* A step maps to a step of Publication, or to a stutter.
LEMMA PublicationStep ==
  ASSUME "activate" \notin Malformed, IInv, IInv', NEW r \in Runs,
         Step(r) \/ Kill(r)
  PROVE  P!Next \/ UNCHANGED P!vars
<1> DEFINE report == [q \in Runs |-> ReportOf(q)]
<1>1. TypeOK /\ RunInv(r) /\ TypeOK' /\ RunInv(r)'
  BY DEF IInv
<1>2. report[r] = "none"
  BY OnlyRunning DEF ReportOf, Running, Calls
<1>3. \A q \in Runs \ {r} : ReportOf(q)' = ReportOf(q)
  BY <1>1, OtherRuns DEF ReportOf, AdmitsChange
<1>4. CASE pc'[r] \in {"done", "killed"}
  <2>1. UNCHANGED <<served, touched, landed>>
    BY <1>1, <1>4, EndsQuietly
  <2>2. ReportOf(r)' \in P!Reports \ {"none"}
    <3>1. ReportOf(r)' \in {"lost", "published", "unknown", "unchanged"}
      <4>1. CASE pc'[r] = "killed"
        BY <4>1 DEF ReportOf, Running, Calls
      <4>2. CASE pc'[r] = "done"
        BY <4>2 DEF ReportOf, Running, Calls
      <4> QED
        BY <1>4, <4>1, <4>2
    <3> QED
      BY <3>1 DEF P!Reports
  <2>3. ReportOf(r)' = "unchanged" => ~touched[r]
    <3>1. ReportOf(r)' = "unchanged" => pc'[r] = "done" /\ ~AdmitsChange(r)'
      BY <1>4 DEF ReportOf, Running, Calls
    <3> QED
      BY <1>1, <2>1, <3>1 DEF RunInv, Honest
  <2>4. ReportOf(r)' = "published" => landed[r]
    <3>1. ReportOf(r)' = "published" =>
              /\ pc'[r] = "done"
              /\ outcome'[r].decision = "activate"
              /\ outcome'[r].verified
      BY <1>4 DEF ReportOf, Running, Calls
    <3> QED
      BY <1>1, <3>1, VerifiedHasLanded
  <2>5. report' = [report EXCEPT ![r] = ReportOf(r)']
    BY <1>3
  <2>6. P!Report(r)
    BY <1>2, <2>1, <2>2, <2>3, <2>4, <2>5 DEF P!Report
  <2> QED
    BY <2>6 DEF P!Next
<1>5. CASE pc'[r] \in Running
  <2>1. ReportOf(r)' = "none"
    BY <1>5 DEF ReportOf, Running, Calls
  <2>2. UNCHANGED report
    BY <1>2, <1>3, <2>1
  <2>3. CASE UNCHANGED <<served, touched, landed>>
    BY <2>2, <2>3 DEF P!vars
  <2>4. CASE /\ served' = Proposed[r]
             /\ touched' = [touched EXCEPT ![r] = TRUE]
             /\ landed' = [landed EXCEPT ![r] = TRUE]
    BY <1>2, <2>2, <2>4 DEF P!Next, P!Publish
  <2>5. CASE /\ touched' = [touched EXCEPT ![r] = TRUE]
             /\ UNCHANGED <<served, landed>>
    BY <1>2, <2>2, <2>5 DEF P!Next, P!Disturb
  <2>6. CASE /\ served = Proposed[r]
             /\ landed' = [landed EXCEPT ![r] = TRUE]
             /\ UNCHANGED <<served, touched>>
    BY <1>2, <2>2, <2>6 DEF P!Next, P!Find
  <2> QED
    BY <1>1, <2>3, <2>4, <2>5, <2>6, ProviderSteps
<1> QED
  BY <1>1, <1>4, <1>5 DEF TypeOK, Phases

\* A run never reports better than what happened, and nothing changes after
\* its report.
THEOREM KernelRunPublishes ==
  ASSUME "activate" \notin Malformed
  PROVE  Spec => Publishes
<1>1. Init => P!Init
  BY DEF Init, P!Init, ReportOf, Running, Calls
<1>2. IInv /\ IInv' /\ [Next]_vars => [P!Next]_(P!vars)
  <2>1. ASSUME UNCHANGED vars PROVE UNCHANGED P!vars
    BY <2>1 DEF vars, provider, journal, P!vars, ReportOf, AdmitsChange
  <2> QED
    BY <2>1, PublicationStep DEF Next
<1> QED
  BY <1>1, <1>2, Invariant, PTL DEF Spec, P!Spec, Publishes
=============================================================================
