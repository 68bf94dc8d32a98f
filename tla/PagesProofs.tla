------------------------------ MODULE PagesProofs ------------------------------
(***************************************************************************)
(* The github-pages adapter: what the answers of its deployments and of    *)
(* its observations are worth.                                             *)
(*                                                                         *)
(* Deployments, for every number of attempts, versions and polls, whatever *)
(* the provider does and whichever runners are lost: a create is sent      *)
(* once, accepted at most once, and what the provider publishes of a       *)
(* version is the carrier of an attempt whose create it accepted (Sent,    *)
(* Holding, Landed). That needs no hypothesis. The other two theorems are  *)
(* about what an attempt concludes from the status of a version, and need  *)
(* the hypotheses of PagesDeployment on what shares one.                   *)
(*                                                                         *)
(* An observation, for every list of routes, sample, streak and set of     *)
(* transient codes: both properties are about the moment it ends. The      *)
(* invariant says what is true before: what is taken for matched was last  *)
(* answered so (LastAnswers), and a pass that starts after the lifetime    *)
(* and meets no fault leaves nothing unmatched behind it (LatePass).       *)
(***************************************************************************)
EXTENDS PagesDeployment, PagesObservation, TLAPS

(***************************************************************************)
(* Deployments                                                             *)
(***************************************************************************)

Unsent == {"preflight", "staging", "inspecting", "asking", "cancelling",
           "waiting", "fencing", "creating", "reconcile",
           "reconciliation-required", "terminal-candidate"}

Types ==
    /\ status \in [Versions -> Statuses]
    /\ holder \in [Versions -> Attempts \cup {NoAttempt}]
    /\ request \in [Attempts -> Requests]
    /\ pc \in [Attempts -> Phases]
    /\ marker \in [Attempts -> Served]
    /\ published \subseteq Served /\ served \in published
    /\ landed \subseteq Attempts

\* Until its one create, and where it answers without one, nothing was sent.
Sent(a) == pc[a] \in Unsent => request[a] = "unsent"

\* The deployment of a version is of an attempt whose create was accepted.
Holding(v) ==
    /\ holder[v] # NoAttempt => /\ VersionOf[holder[v]] = v
                                /\ request[holder[v]] = "accepted"
    /\ status[v] # "absent" => holder[v] # NoAttempt
    /\ status[v] = "succeed" => holder[v] \in landed

\* What landed was served, and its deployment is over unless replaced.
Landed(a) ==
    a \in landed =>
        /\ request[a] = "accepted"
        /\ GenerationOf[a] \in published
        /\ holder[VersionOf[a]] = a => status[VersionOf[a]] = "succeed"

\* A marker that was read was once the truth.
MarkerWasTrue(a) == marker[a] \in published \cup {Nothing}

IInv ==
    /\ Types
    /\ \A a \in Attempts : Sent(a) /\ Landed(a) /\ MarkerWasTrue(a)
    /\ \A v \in Versions : Holding(v)

-----------------------------------------------------------------------------
(* The one create *)

\* No attempt has sent anything, no version has a deployment.
LEMMA IInvInit == Init => IInv
  BY PagesDeploymentAssumption, FenceAssumption
     DEF Init, IInv, Types, Sent, Landed, Holding, MarkerWasTrue, Statuses,
         Requests, Phases, Served

\* A step of the adapter leaves the provider alone.
AdapterKeepsProvider(a) ==
    /\ UNCHANGED provider
    /\ \A b \in Attempts \ {a} : pc'[b] = pc[b] /\ request'[b] = request[b]
                                /\ marker'[b] = marker[b]
    /\ pc' \in [Attempts -> Phases] /\ marker' \in [Attempts -> Served]
    /\ request' \in [Attempts -> Requests]
    /\ Sent(a)' /\ MarkerWasTrue(a)'
    /\ request'[a] = request[a] \/ (request[a] = "unsent" /\ request'[a] = "travelling")

\* Each of an attempt's own steps does so, and none but Create sends anything.
LEMMA AdapterStep ==
  ASSUME IInv, NEW a \in Attempts, Step(a) \/ Throw(a) \/ Kill(a)
  PROVE  AdapterKeepsProvider(a)
<1> USE DEF IInv, Types, Sent, MarkerWasTrue, AdapterKeepsProvider, Goto, Phases,
            Over, Answers, Unsent, Requests, provider
<1>1. CASE Preflight(a) \/ Stage(a) \/ InputRefused(a) \/ Throw(a) \/ Kill(a)
  BY <1>1 DEF Preflight, Stage, InputRefused, Throw, Kill
<1>2. CASE Inspect(a)
  <2>1. MarkerReads \subseteq Served /\ MarkerReads \subseteq published \cup {Nothing}
    BY DEF MarkerReads, Served
  <2> QED
    BY <1>2, <2>1 DEF Inspect, provider
<1>3. CASE AskPrior(a) \/ CancelPrior(a) \/ AwaitPrior(a)
  BY <1>3 DEF AskPrior, CancelPrior, AwaitPrior, Settled
<1>4. CASE CheckFence(a) \/ TokenRefused(a)
  BY <1>4 DEF CheckFence, TokenRefused
<1>5. CASE Create(a)
  BY <1>5 DEF Create
<1>6. CASE CreateAnswered(a) \/ Unanswered(a)
  BY <1>6 DEF CreateAnswered, Unanswered
<1>7. CASE Poll(a)
  BY <1>7 DEF Poll, AfterPoll
<1> QED
  BY <1>1, <1>2, <1>3, <1>4, <1>5, <1>6, <1>7 DEF Step

\* The invariant is inductive: the provider accepts a create once, and lands
\* what it accepted.
LEMMA IInvStep ==
  ASSUME IInv, [Next]_vars
  PROVE  IInv'
<1> USE DEF IInv, Types, Sent, Landed, MarkerWasTrue, Holding
<1>1. ASSUME NEW a \in Attempts, Step(a) \/ Throw(a) \/ Kill(a)
      PROVE  IInv'
  <2>1. AdapterKeepsProvider(a)
    BY <1>1, AdapterStep
  <2> QED
    BY <2>1, PagesDeploymentAssumption DEF AdapterKeepsProvider, provider
<1>2. ASSUME NEW a \in Attempts, ReceiveCreate(a)
      PROVE  IInv'
  <2>1. VersionOf[a] \in Versions /\ a # NoAttempt
    BY PagesDeploymentAssumption
  <2>2. Types' /\ \A b \in Attempts : Sent(b)' /\ MarkerWasTrue(b)'
    BY <1>2, <2>1 DEF ReceiveCreate, Requests, Statuses
  <2>3. ASSUME NEW v \in Versions
        PROVE  Holding(v)'
    BY <1>2, <2>1, <2>3 DEF ReceiveCreate
  <2>4. ASSUME NEW b \in Attempts
        PROVE  Landed(b)'
    BY <1>2, <2>1, <2>4, PagesDeploymentAssumption DEF ReceiveCreate
  <2> QED
    BY <2>2, <2>3, <2>4
<1>3. ASSUME NEW v \in Versions, Advance(v)
      PROVE  IInv'
  <2>1. /\ holder[v] \in Attempts /\ VersionOf[holder[v]] = v
        /\ GenerationOf[holder[v]] \in Served
    BY <1>3, PagesDeploymentAssumption DEF Advance, Served
  <2>2. Types' /\ \A b \in Attempts : Sent(b)' /\ MarkerWasTrue(b)'
    BY <1>3, <2>1 DEF Advance, Statuses
  <2>3. ASSUME NEW w \in Versions
        PROVE  Holding(w)'
    BY <1>3, <2>1, <2>3 DEF Advance
  <2>4. ASSUME NEW b \in Attempts
        PROVE  Landed(b)'
    BY <1>3, <2>1, <2>4, PagesDeploymentAssumption DEF Advance
  <2> QED
    BY <2>2, <2>3, <2>4
<1>4. CASE UNCHANGED vars
  BY <1>4 DEF vars, provider
<1> QED
  BY <1>1, <1>2, <1>3, <1>4 DEF Next, Done

\* An answer that says "destinationChanged: false" comes from an attempt whose
\* carrier is not the served one, and will not be: it has sent nothing
\* (activate's two such answers, and every path to them).
THEOREM ReconcileChangesNothingHolds == Spec => []ReconcileChangesNothing
<1>1. Init => IInv
  BY IInvInit
<1>2. IInv /\ [Next]_vars => IInv'
  BY IInvStep
<1>3. IInv => ReconcileChangesNothing
  BY PagesDeploymentAssumption
     DEF IInv, Types, Sent, Landed, Holding, Unsent, ReconcileChangesNothing
<1> QED
  BY <1>1, <1>2, <1>3, PTL DEF Spec

-----------------------------------------------------------------------------
(* What a recovery asks *)

\* A digest tells its domain and what it is taken over.
LEMMA DigestTells ==
  ASSUME NEW domain, NEW document
  PROVE  /\ DomainDigest(domain, document).domain = domain
         /\ DomainDigest(domain, document).of = document
  BY DEF DomainDigest

\* A record that is accepted names the version its digest was minted with: the
\* digest is over every other member (ValidateReconciliationRecovery).
LEMMA AcceptedRecordNamesVersion ==
  ASSUME NEW a \in Attempts, NEW recovery, DigestIsMintedFor(a, recovery),
         ValidateReconciliationRecovery(recovery, RepositoryId)
  PROVE  recovery.priorPagesBuildVersion = VersionOf[a]
<1>1. /\ "recoveryDigest" \in DOMAIN recovery
      /\ "priorPagesBuildVersion" \in DOMAIN recovery
  BY DEF ValidateReconciliationRecovery, RecoveryRequiredMembers
<1>2. recovery.recoveryDigest =
          DomainDigest("pages-reconciliation-recovery", Without(recovery, "recoveryDigest"))
  BY DEF ValidateReconciliationRecovery, ComputeRecoveryDigest
<1>3. /\ recovery.recoveryDigest.domain = "pages-reconciliation-recovery"
      /\ recovery.recoveryDigest.of = Without(recovery, "recoveryDigest")
  BY <1>2, DigestTells
<1>4. /\ "priorPagesBuildVersion" \in DOMAIN Without(recovery, "recoveryDigest")
      /\ Without(recovery, "recoveryDigest").priorPagesBuildVersion
             = recovery.priorPagesBuildVersion
  BY <1>1 DEF Without, Restrict
<1> QED
  BY <1>1, <1>3, <1>4 DEF DigestIsMintedFor

\* An attempt asks for its own version, whatever it was called with.
LEMMA BoundStep ==
  ASSUME RecoveriesAreCalledSo, IInv, [Next]_vars, bound = VersionOf
  PROVE  bound' = VersionOf
<1>1. ASSUME NEW a \in Attempts, Inspect(a)
      PROVE  bound' = VersionOf
  <2>1. PICK input \in InputsOf[a] :
            \/ UNCHANGED bound
            \/ /\ input.mode = RecoveryMode /\ MayRecover(input)
               /\ bound' = [bound EXCEPT ![a] = input.pagesRecovery[1].priorPagesBuildVersion]
    BY <1>1 DEF Inspect
  <2>2. CASE UNCHANGED bound
    BY <2>2
  <2>3. CASE input.mode = RecoveryMode /\ MayRecover(input)
    <3>1. DigestIsMintedFor(a, input.pagesRecovery[1])
      BY <2>3 DEF RecoveriesAreCalledSo, MayRecover
    <3>2. input.pagesRecovery[1].priorPagesBuildVersion = VersionOf[a]
      BY <2>3, <3>1, AcceptedRecordNamesVersion DEF MayRecover
    <3> QED
      BY <2>1, <3>2, PagesDeploymentAssumption
  <2> QED
    BY <2>1, <2>2, <2>3
<1>2. ASSUME NEW a \in Attempts, Step(a), ~Inspect(a)
      PROVE  UNCHANGED bound
  BY <1>2 DEF Step, Preflight, Stage, InputRefused, AskPrior, CancelPrior, AwaitPrior,
              CheckFence, TokenRefused, Create, CreateAnswered, Unanswered, Poll
<1>3. ASSUME NEW a \in Attempts, Throw(a) \/ Kill(a) \/ ReceiveCreate(a)
      PROVE  UNCHANGED bound
  BY <1>3 DEF Throw, Kill, ReceiveCreate
<1>4. ASSUME NEW v \in Versions, Advance(v)
      PROVE  UNCHANGED bound
  BY <1>4 DEF Advance
<1> QED
  BY <1>1, <1>2, <1>3, <1>4 DEF Next, Done, vars

\* What is reported as activated was served.
Told(a) == pc[a] \in {"activate", "terminal-candidate"} => GenerationOf[a] \in published

\* A succeeded deployment of a version is of the generation of the commit.
LEMMA SucceededIsServed ==
  ASSUME VersionsAreGenerations, IInv, NEW a \in Attempts,
         status[VersionOf[a]] = "succeed"
  PROVE  GenerationOf[a] \in published
<1>1. /\ VersionOf[a] \in Versions
      /\ holder[VersionOf[a]] \in landed
      /\ VersionOf[holder[VersionOf[a]]] = VersionOf[a]
  BY PagesDeploymentAssumption DEF IInv, Types, Holding
<1> QED
  BY <1>1 DEF IInv, Types, Landed, VersionsAreGenerations

\* Each way to one of those answers has seen it: the marker, or the status.
LEMMA ToldStep ==
  ASSUME VersionsAreGenerations, IInv, [Next]_vars, bound = VersionOf,
         \A a \in Attempts : Told(a)
  PROVE  \A a \in Attempts : Told(a)'
<1> USE DEF IInv, Types, Told
<1>1. published \subseteq published'
  <2>1. ASSUME NEW a \in Attempts, Step(a) \/ Throw(a) \/ Kill(a) \/ ReceiveCreate(a)
        PROVE  UNCHANGED published
    BY <2>1, AdapterStep DEF AdapterKeepsProvider, provider, ReceiveCreate
  <2> QED
    BY <2>1 DEF Next, Done, Advance, vars, provider
<1>2. ASSUME NEW a \in Attempts, Step(a) \/ Throw(a) \/ Kill(a)
      PROVE  Told(a)'
  <2> USE DEF Goto, Phases, Over, Answers
  <2>1. CASE Preflight(a) \/ Stage(a) \/ InputRefused(a) \/ Throw(a) \/ Kill(a)
             \/ Inspect(a) \/ CancelPrior(a) \/ TokenRefused(a) \/ Create(a)
             \/ CreateAnswered(a) \/ Unanswered(a)
    BY <2>1 DEF Preflight, Stage, InputRefused, Throw, Kill, Inspect, CancelPrior,
                TokenRefused, Create, CreateAnswered, Unanswered
  <2>2. \A read \in Reads(VersionOf[a]) : read = "succeed" => GenerationOf[a] \in published
    BY SucceededIsServed DEF Reads
  <2>3. SelectDeploymentId(a) = VersionOf[a]
    BY DEF SelectDeploymentId
  <2>4. CASE AskPrior(a) \/ AwaitPrior(a)
    BY <1>1, <2>2, <2>3, <2>4 DEF AskPrior, AwaitPrior, Settled
  <2>5. CASE CheckFence(a)
    <3>1. CASE marker[a] = GenerationOf[a]
      <4>1. GenerationOf[a] # Nothing
        BY PagesDeploymentAssumption, FenceAssumption
      <4> QED
        BY <1>1, <3>1, <4>1 DEF MarkerWasTrue
    <3>2. CASE marker[a] # GenerationOf[a]
      BY <2>5, <3>2 DEF CheckFence
    <3> QED
      BY <3>1, <3>2
  <2>6. CASE Poll(a)
    BY <1>1, <2>2, <2>3, <2>6 DEF Poll, AfterPoll
  <2> QED
    BY <1>2, <2>1, <2>4, <2>5, <2>6 DEF Step
<1>3. ASSUME NEW a \in Attempts, UNCHANGED pc[a]
      PROVE  Told(a)'
  BY <1>1, <1>3
<1>4. ASSUME NEW a \in Attempts, Step(a) \/ Throw(a) \/ Kill(a),
             NEW b \in Attempts \ {a}
      PROVE  UNCHANGED pc[b]
  BY <1>4, AdapterStep DEF AdapterKeepsProvider
<1>5. CASE \E a \in Attempts : Step(a) \/ Throw(a) \/ Kill(a)
  BY <1>2, <1>3, <1>4, <1>5
<1>6. CASE ~\E a \in Attempts : Step(a) \/ Throw(a) \/ Kill(a)
  <2>1. UNCHANGED pc
    BY <1>6 DEF Next, ReceiveCreate, Advance, Done, vars
  <2> QED
    BY <1>3, <2>1
<1> QED
  BY <1>5, <1>6

\* An activation that is reported did happen, when no commit is built into two
\* generations and the server's digests are its own (activate's answers
\* "activate" and "terminal-candidate").
THEOREM ActivateAnswerIsTrueHolds ==
  ASSUME RecoveriesAreCalledSo, VersionsAreGenerations
  PROVE  Spec => []ActivateAnswerIsTrue
<1> DEFINE Inv == IInv /\ bound = VersionOf /\ \A a \in Attempts : Told(a)
<1>1. Init => Inv
  BY IInvInit DEF Init, Told
<1>2. Inv /\ [Next]_vars => Inv'
  BY IInvStep, BoundStep, ToldStep
<1>3. Inv => ActivateAnswerIsTrue
  BY DEF Told, ActivateAnswerIsTrue
<1> QED
  BY <1>1, <1>2, <1>3, PTL DEF Spec

-----------------------------------------------------------------------------
(* The attempt that was given up *)

\* Once its recovery may create, an attempt's own create was accepted and came
\* to nothing; the provider's failure is final.
Cleared(a) ==
    LET prior == PriorOf[a]
        v == VersionOf[a]
    IN  pc[a] \in {"fencing", "creating"} \/ request[a] # "unsent" =>
            /\ request[prior] = "accepted"
            /\ prior \notin landed
            /\ holder[v] = prior => status[v] = "failure"

\* A failure that the recovery reads is that of the attempt it recovers.
LEMMA FailureIsThePriors ==
  ASSUME RecoveriesShareNoVersion, IInv, NEW a \in Attempts, Recovers(a),
         request[a] = "unsent", status[VersionOf[a]] = "failure"
  PROVE  /\ holder[VersionOf[a]] = PriorOf[a]
         /\ request[PriorOf[a]] = "accepted"
         /\ PriorOf[a] \notin landed
<1>1. /\ VersionOf[a] \in Versions
      /\ holder[VersionOf[a]] \in Attempts
      /\ VersionOf[holder[VersionOf[a]]] = VersionOf[a]
      /\ request[holder[VersionOf[a]]] = "accepted"
  BY PagesDeploymentAssumption DEF IInv, Types, Holding
<1>2. holder[VersionOf[a]] = PriorOf[a]
  BY <1>1 DEF RecoveriesShareNoVersion
<1> QED
  BY <1>1, <1>2 DEF IInv, Landed

\* Only that failure lets a recovery go on to its create.
LEMMA ClearedOwn ==
  ASSUME RecoveriesAreCalledSo, RecoveriesShareNoVersion, IInv, bound = VersionOf,
         NEW a \in Attempts, Recovers(a), Cleared(a), Step(a) \/ Throw(a) \/ Kill(a)
  PROVE  Cleared(a)'
<1> USE DEF IInv, Types, Goto, Phases, Over, Answers
<1>0. UNCHANGED provider /\ PriorOf[a] \in Attempts
  BY AdapterStep, PagesDeploymentAssumption DEF AdapterKeepsProvider, Recovers
<1>1. CASE pc'[a] \in {"fencing", "creating"} /\ pc[a] \notin {"fencing", "creating"}
  <2>1. ~Inspect(a)
    BY <1>1 DEF Inspect, RecoveriesAreCalledSo
  <2>2. AskPrior(a) \/ AwaitPrior(a)
    BY <1>1, <2>1 DEF Step, Preflight, Stage, InputRefused, CancelPrior, CheckFence,
            TokenRefused, Create, CreateAnswered, Unanswered, Poll, AfterPoll, Throw, Kill
  <2>3. SelectDeploymentId(a) = VersionOf[a]
    BY DEF SelectDeploymentId
  <2>4. status[VersionOf[a]] = "failure" /\ UNCHANGED request
    BY <1>1, <2>2, <2>3 DEF AskPrior, AwaitPrior, Settled, Reads
  <2>5. request[a] = "unsent"
    BY <2>2 DEF Sent, Unsent, AskPrior, AwaitPrior
  <2> QED
    BY <1>0, <2>4, <2>5, FailureIsThePriors DEF Cleared, provider
<1>2. CASE pc'[a] \in {"fencing", "creating"} /\ pc[a] \in {"fencing", "creating"}
  <2>1. UNCHANGED request
    BY <1>2 DEF Step, Preflight, Stage, Inspect, InputRefused, AskPrior, CancelPrior,
            AwaitPrior, CheckFence, TokenRefused, Create, CreateAnswered, Unanswered,
            Poll, Throw, Kill
  <2> QED
    BY <1>0, <1>2, <2>1 DEF Cleared, provider
<1>3. CASE pc'[a] \notin {"fencing", "creating"}
  <2>1. CASE UNCHANGED request
    BY <1>0, <1>3, <2>1 DEF Cleared, provider
  <2>2. CASE ~UNCHANGED request
    <3>1. Create(a)
      BY <2>2 DEF Step, Preflight, Stage, Inspect, InputRefused, AskPrior, CancelPrior,
            AwaitPrior, CheckFence, TokenRefused, CreateAnswered, Unanswered,
            Poll, Throw, Kill
    <3>2. request[a] = "unsent" /\ request[PriorOf[a]] = "accepted"
      BY <3>1 DEF Create, Cleared, Sent, Unsent
    <3> QED
      BY <1>0, <3>1, <3>2 DEF Create, Cleared, provider
  <2> QED
    BY <2>1, <2>2
<1> QED
  BY <1>1, <1>2, <1>3

\* A step of another attempt sends no create that was sent, and the provider
\* accepts none twice.
LEMMA ClearedOther ==
  ASSUME RecoveriesShareNoVersion, IInv, NEW a \in Attempts, Recovers(a), Cleared(a),
         \/ \E b \in Attempts \ {a} : Step(b) \/ Throw(b) \/ Kill(b)
         \/ \E b \in Attempts : ReceiveCreate(b)
         \/ \E v \in Versions : Advance(v)
  PROVE  Cleared(a)'
<1> USE DEF IInv, Types, Cleared
<1>0. PriorOf[a] \in Attempts /\ VersionOf[a] \in Versions /\ a # NoAttempt
  BY PagesDeploymentAssumption DEF Recovers
<1>1. ASSUME NEW b \in Attempts \ {a}, Step(b) \/ Throw(b) \/ Kill(b)
      PROVE  Cleared(a)'
  BY <1>0, <1>1, AdapterStep DEF AdapterKeepsProvider, provider
<1>2. ASSUME NEW b \in Attempts, ReceiveCreate(b)
      PROVE  Cleared(a)'
  <2>1. b # PriorOf[a] \/ ~(pc[a] \in {"fencing", "creating"} \/ request[a] # "unsent")
    BY <1>2 DEF ReceiveCreate
  <2>2. pc'[a] = pc[a] /\ (request'[a] # "unsent" => request[a] # "unsent")
        /\ UNCHANGED landed
    BY <1>2 DEF ReceiveCreate
  <2> QED
    BY <1>0, <1>2, <2>1, <2>2 DEF ReceiveCreate
<1>3. ASSUME NEW v \in Versions, Advance(v)
      PROVE  Cleared(a)'
  <2>1. VersionOf[holder[v]] = v /\ status[v] = "temporary"
    BY <1>3 DEF Advance, Holding
  <2>2. CASE v = VersionOf[a]
    BY <1>0, <1>3, <2>1, <2>2 DEF Advance
  <2>3. CASE v # VersionOf[a]
    <3>1. VersionOf[PriorOf[a]] = VersionOf[a]
      BY PagesDeploymentAssumption
    <3> QED
      BY <1>0, <1>3, <2>1, <2>3, <3>1 DEF Advance
  <2> QED
    BY <2>2, <2>3
<1> QED
  BY <1>1, <1>2, <1>3

\* Once a recovery has sent a create of its own, the deployment of the attempt
\* it recovers never becomes the served one, when the two are the only attempts
\* of their commit and the server's digests are its own (the fence by way of a
\* terminal failure, recovery.js).
THEOREM PriorStaysDeadHolds ==
  ASSUME RecoveriesAreCalledSo, RecoveriesShareNoVersion
  PROVE  Spec => []PriorStaysDead
<1> DEFINE Inv == /\ IInv /\ bound = VersionOf
                  /\ \A a \in Attempts : Recovers(a) => Cleared(a)
<1>1. Init => Inv
  BY IInvInit DEF Init, Cleared
<1>2. Inv /\ [Next]_vars => Inv'
  <2> SUFFICES ASSUME Inv, [Next]_vars
               PROVE  Inv'
    OBVIOUS
  <2>1. IInv' /\ bound' = VersionOf
    BY IInvStep, BoundStep
  <2>2. ASSUME NEW a \in Attempts, Recovers(a)
        PROVE  Cleared(a)'
    <3>1. CASE UNCHANGED vars
      BY <2>2, <3>1 DEF Cleared, vars, provider
    <3> QED
      BY <2>2, <3>1, ClearedOwn, ClearedOther DEF Next, Done
  <2> QED
    BY <2>1, <2>2
<1>3. Inv => PriorStaysDead
  BY DEF Cleared, PriorStaysDead
<1> QED
  BY <1>1, <1>2, <1>3, PTL DEF Spec

(***************************************************************************)
(* Observations                                                            *)
(***************************************************************************)

\* The streak never reaches its limit, nor the late passes theirs, while the
\* observation goes on.
Going ==
    /\ phase # "ended" => errorStreak < TransientStreak
    /\ phase = "waiting" => late < MarginPasses
    /\ late > 0 => expired
    /\ result = "none" <=> phase # "ended"

\* What counts as matched was answered with the generation, and by nothing
\* else since.
LastAnswers ==
    phase # "ended" /\ ~redirected =>
        /\ matched \subseteq lastServed
        /\ markerMatches => Marker \in lastServed

\* A read that goes wrong leaves its trace in history.
FaultsAreSeen ==
    ~faulty => ~redirected /\ readError = NoCode /\ result # "thrown"

\* In a pass that started after the lifetime, and without a fault, what is not
\* matched yet is still to be read.
LatePass ==
    ~faulty /\ late > 0 =>
        /\ phase \notin {"reading-marker", "ended"} => markerMatches
        /\ phase = "sampling" => sample \subseteq matched \cup todo
        /\ phase = "reading-rest" => RouteSet \subseteq matched \cup todo
        /\ phase # "sampled"
        /\ phase \in {"confirming", "confirming-marker", "judging"} =>
              matched = RouteSet

ObservationInv ==
    /\ ObservationTypeOK
    /\ Going
    /\ LastAnswers
    /\ FaultsAreSeen
    /\ LatePass
    /\ VerifiedOnLastAnswers
    /\ FailsForAReason

-----------------------------------------------------------------------------
(* One read *)

\* The transient codes are none of the other answers.
LEMMA CodesAreTheirOwn ==
  /\ NoCode \notin TransientCodes
  /\ "generation" \notin TransientCodes /\ "other" \notin TransientCodes
  /\ "redirect" \notin TransientCodes /\ "fatal" \notin TransientCodes
  BY PagesObservationAssumption

\* The bounds are positive.
LEMMA Bounds ==
  /\ TransientStreak \in Nat /\ 0 < TransientStreak
  /\ MarginPasses \in Nat /\ 0 < MarginPasses
  /\ CursorPeriod \in Nat /\ 0 < CursorPeriod
  /\ Marker \notin RouteSet
  BY PagesObservationAssumption

\* What a read of x does to the bookkeeping, one answer at a time.
LEMMA ReadLeaves ==
  ASSUME ObservationTypeOK, FaultsAreSeen, NEW x \in RouteSet \cup {Marker},
         NEW answer \in ReadAnswers, Answered(x, answer)
  PROVE  /\ faulty' \in BOOLEAN /\ redirected' \in BOOLEAN
         /\ readError' \in TransientCodes \cup {NoCode}
         /\ lastServed' \subseteq RouteSet \cup {Marker}
         /\ faulty => faulty'
         /\ ~faulty' => /\ ~redirected' /\ readError' = NoCode
                        /\ answer \in {"generation", "other"}
                        /\ expired => answer = "generation"
         /\ ~redirected' => ~redirected /\ answer # "redirect"
         /\ answer = "generation" => lastServed' = lastServed \cup {x}
         /\ answer # "generation" => lastServed \ {x} \subseteq lastServed'
         /\ answer \in TransientCodes => lastServed' = lastServed
         /\ answer = "fatal" => result' = "thrown" /\ faulty'
         /\ answer # "fatal" => result' = result
         /\ UNCHANGED <<errorCode, errorStreak, expired, late>>
<1>1. /\ faulty' = (faulty \/ answer \notin {"generation", "other"}
                           \/ (expired /\ answer = "other"))
      /\ faulty \in BOOLEAN /\ expired \in BOOLEAN
  BY DEF Answered, ObservationTypeOK
<1>2. /\ readError' = IF readError = NoCode /\ answer \in TransientCodes
                      THEN answer ELSE readError
      /\ readError \in TransientCodes \cup {NoCode}
      /\ ~faulty => readError = NoCode
  BY DEF Answered, ObservationTypeOK, FaultsAreSeen
<1>3. /\ redirected' = (redirected \/ answer = "redirect")
      /\ redirected \in BOOLEAN
      /\ ~faulty => ~redirected
  BY DEF Answered, ObservationTypeOK, FaultsAreSeen
<1>4. /\ lastServed' \subseteq RouteSet \cup {Marker}
      /\ answer = "generation" => lastServed' = lastServed \cup {x}
      /\ answer # "generation" => lastServed \ {x} \subseteq lastServed'
      /\ answer \in TransientCodes => lastServed' = lastServed
  BY CodesAreTheirOwn DEF Answered, ObservationTypeOK
<1>5. /\ result' = IF answer = "fatal" THEN "thrown" ELSE result
      /\ UNCHANGED <<errorCode, errorStreak, expired, late>>
  BY DEF Answered, world
<1>6. /\ faulty' \in BOOLEAN
      /\ faulty => faulty'
      /\ ~faulty' => /\ ~faulty
                     /\ answer \in {"generation", "other"}
                     /\ expired => answer = "generation"
      /\ answer = "fatal" => faulty'
  BY <1>1, Zenon
<1>7. ~faulty' => ~redirected' /\ readError' = NoCode
  BY <1>2, <1>3, <1>6, CodesAreTheirOwn
<1>8. redirected' \in BOOLEAN /\ (~redirected' => ~redirected /\ answer # "redirect")
  BY <1>3, Zenon
<1>9. readError' \in TransientCodes \cup {NoCode}
  BY <1>2
<1> QED
  BY <1>4, <1>5, <1>6, <1>7, <1>8, <1>9, Zenon

-----------------------------------------------------------------------------
(* The invariant, action by action *)

LEMMA ObservationInvInit == ObservationInit => ObservationInv
<1>1. ASSUME ObservationInit PROVE ObservationTypeOK
  <2>1. /\ cursor \in 0 .. CursorPeriod - 1
        /\ errorStreak \in 0 .. TransientStreak
        /\ late \in 0 .. MarginPasses
    <3>1. cursor = 0 /\ errorStreak = 0 /\ late = 0
      BY <1>1 DEF ObservationInit
    <3>2. CursorPeriod - 1 \in Nat
      BY Bounds
    <3> QED
      BY <3>1, <3>2, Bounds
  <2> QED
    BY <1>1, <2>1 DEF ObservationInit, ObservationTypeOK, Reading
<1>2. ASSUME ObservationInit PROVE ObservationInv
  <2>1. /\ phase = "reading-marker" /\ result = "none" /\ readError = NoCode
        /\ errorStreak = 0 /\ late = 0 /\ matched = {}
        /\ markerMatches = FALSE /\ redirected = FALSE
    BY <1>2 DEF ObservationInit
  <2>2. Going
    BY <2>1, Bounds DEF Going
  <2>3. LastAnswers /\ LatePass
    BY <2>1 DEF LastAnswers, LatePass
  <2>4. FaultsAreSeen /\ VerifiedOnLastAnswers /\ FailsForAReason
    BY <2>1 DEF FaultsAreSeen, VerifiedOnLastAnswers, FailsForAReason
  <2> QED
    BY <1>1, <1>2, <2>2, <2>3, <2>4 DEF ObservationInv
<1> QED
  BY <1>2

LEMMA MarkerKeepsObservationInv ==
  ASSUME ObservationInv, ReadMarker
  PROVE  ObservationInv'
<1>1. PICK answer \in ReadAnswers :
         /\ Answered(Marker, answer)
         /\ IF answer \in TransientCodes
            THEN UNCHANGED <<markerMatches, markerFresh>>
            ELSE markerMatches' = (answer = "generation") /\ markerFresh' = TRUE
         /\ phase' = IF answer = "fatal" THEN "ended"
                     ELSE IF phase = "confirming-marker" THEN "confirming"
                     ELSE IF answer = "redirect" THEN "judging"
                     ELSE "choosing"
  BY DEF ReadMarker
<1>2. /\ phase \in {"reading-marker", "confirming-marker"}
      /\ UNCHANGED <<first, todo, sample, cursor, matched, fresh, confirmed>>
  BY DEF ReadMarker
<1>3. ObservationTypeOK /\ Going /\ LastAnswers /\ FaultsAreSeen /\ LatePass
      /\ VerifiedOnLastAnswers /\ FailsForAReason
  BY DEF ObservationInv
<1>4. Marker \in RouteSet \cup {Marker}
  OBVIOUS
<1> DEFINE kept ==
      /\ faulty' \in BOOLEAN /\ redirected' \in BOOLEAN
      /\ readError' \in TransientCodes \cup {NoCode}
      /\ lastServed' \subseteq RouteSet \cup {Marker}
      /\ faulty => faulty'
      /\ ~faulty' => /\ ~redirected' /\ readError' = NoCode
                     /\ answer \in {"generation", "other"}
                     /\ expired => answer = "generation"
      /\ ~redirected' => ~redirected /\ answer # "redirect"
      /\ answer = "generation" => lastServed' = lastServed \cup {Marker}
      /\ answer # "generation" => lastServed \ {Marker} \subseteq lastServed'
      /\ answer \in TransientCodes => lastServed' = lastServed
      /\ answer = "fatal" => result' = "thrown" /\ faulty'
      /\ answer # "fatal" => result' = result
      /\ UNCHANGED <<errorCode, errorStreak, expired, late>>
<1>5. kept
  BY <1>1, <1>3, <1>4, ReadLeaves
<1>6. ObservationTypeOK'
  BY <1>1, <1>2, <1>3, <1>5 DEF ObservationTypeOK, Reading
<1>7. Going'
  BY <1>1, <1>2, <1>3, <1>5, CodesAreTheirOwn DEF Going
<1>8. LastAnswers'
  BY <1>1, <1>2, <1>3, <1>5, PagesObservationAssumption
  DEF LastAnswers, ObservationTypeOK
<1>9. FaultsAreSeen'
  BY <1>3, <1>5 DEF FaultsAreSeen
<1>10. LatePass'
  BY <1>1, <1>2, <1>3, <1>5, CodesAreTheirOwn DEF LatePass, Going
<1>11. VerifiedOnLastAnswers' /\ FailsForAReason'
  BY <1>2, <1>3, <1>5 DEF VerifiedOnLastAnswers, FailsForAReason, Going
<1> QED
  BY <1>6, <1>7, <1>8, <1>9, <1>10, <1>11 DEF ObservationInv

LEMMA RouteKeepsObservationInv ==
  ASSUME ObservationInv, ReadRoute
  PROVE  ObservationInv'
<1>1. PICK x \in todo : \E answer \in ReadAnswers :
         /\ Answered(x, answer)
         /\ matched' = CASE answer = "generation" -> matched \cup {x}
                         [] answer = "other" -> matched \ {x}
                         [] OTHER -> matched
         /\ fresh' = CASE answer = "generation" -> fresh \cup {x}
                       [] answer = "other" -> fresh \ {x}
                       [] OTHER -> fresh
         /\ todo' = todo \ {x}
         /\ phase' = CASE answer = "fatal" -> "ended"
                       [] answer = "redirect" -> "judging"
                       [] OTHER -> phase
  BY DEF ReadRoute
<1>2. PICK answer \in ReadAnswers :
         /\ Answered(x, answer)
         /\ matched' = CASE answer = "generation" -> matched \cup {x}
                         [] answer = "other" -> matched \ {x}
                         [] OTHER -> matched
         /\ fresh' = CASE answer = "generation" -> fresh \cup {x}
                       [] answer = "other" -> fresh \ {x}
                       [] OTHER -> fresh
         /\ todo' = todo \ {x}
         /\ phase' = CASE answer = "fatal" -> "ended"
                       [] answer = "redirect" -> "judging"
                       [] OTHER -> phase
  BY <1>1
<1>3. /\ phase \in Reading
      /\ UNCHANGED <<first, sample, cursor, markerMatches, markerFresh, confirmed>>
  BY DEF ReadRoute
<1>4. ObservationTypeOK /\ Going /\ LastAnswers /\ FaultsAreSeen /\ LatePass
      /\ VerifiedOnLastAnswers /\ FailsForAReason
  BY DEF ObservationInv
<1>5. x \in RouteSet /\ x # Marker /\ x \in RouteSet \cup {Marker}
  BY <1>4, PagesObservationAssumption DEF ObservationTypeOK
<1> DEFINE kept ==
      /\ faulty' \in BOOLEAN /\ redirected' \in BOOLEAN
      /\ readError' \in TransientCodes \cup {NoCode}
      /\ lastServed' \subseteq RouteSet \cup {Marker}
      /\ faulty => faulty'
      /\ ~faulty' => /\ ~redirected' /\ readError' = NoCode
                     /\ answer \in {"generation", "other"}
                     /\ expired => answer = "generation"
      /\ ~redirected' => ~redirected /\ answer # "redirect"
      /\ answer = "generation" => lastServed' = lastServed \cup {x}
      /\ answer # "generation" => lastServed \ {x} \subseteq lastServed'
      /\ answer \in TransientCodes => lastServed' = lastServed
      /\ answer = "fatal" => result' = "thrown" /\ faulty'
      /\ answer # "fatal" => result' = result
      /\ UNCHANGED <<errorCode, errorStreak, expired, late>>
<1>6. kept
  BY <1>2, <1>4, <1>5, ReadLeaves
<1>7. ObservationTypeOK'
  BY <1>2, <1>3, <1>4, <1>5, <1>6 DEF ObservationTypeOK, Reading
<1>8. Going'
  BY <1>2, <1>3, <1>4, <1>6, CodesAreTheirOwn DEF Going, Reading
<1>9. LastAnswers'
  BY <1>2, <1>3, <1>4, <1>5, <1>6, CodesAreTheirOwn
  DEF LastAnswers, ObservationTypeOK, Reading, ReadAnswers
<1>10. FaultsAreSeen'
  BY <1>4, <1>6 DEF FaultsAreSeen
<1>11. LatePass'
  <2>1. SUFFICES ASSUME ~faulty', late' > 0
                 PROVE  LatePass'
    BY DEF LatePass
  <2>2. answer = "generation" /\ ~faulty /\ late > 0
    BY <1>4, <1>6, <2>1 DEF Going, ObservationTypeOK
  <2>3. matched' = matched \cup {x} /\ phase' = phase /\ todo' = todo \ {x}
    BY <1>2, <2>2
  <2> QED
    BY <1>3, <1>4, <1>5, <2>2, <2>3 DEF LatePass, Reading, ObservationTypeOK
<1>12. VerifiedOnLastAnswers' /\ FailsForAReason'
  BY <1>3, <1>4, <1>6
  DEF VerifiedOnLastAnswers, FailsForAReason, Going, Reading
<1> QED
  BY <1>7, <1>8, <1>9, <1>10, <1>11, <1>12 DEF ObservationInv

\* The sample is of routes that do not match, and in a first or a last pass
\* it is all of them.
LEMMA SamplingKeepsObservationInv ==
  ASSUME ObservationInv, ChooseSample
  PROVE  ObservationInv'
<1>1. sample' \subseteq Unmatched /\ todo' = sample'
  BY DEF ChooseSample, Rotated
<1>2. cursor' \in 0 .. CursorPeriod - 1
  BY PagesObservationAssumption DEF ChooseSample, ObservationInv, ObservationTypeOK
<1>3. /\ phase = "choosing" /\ phase' = "sampling"
      /\ UNCHANGED <<first, progress, errors, world, result, faulty, lastServed>>
  BY DEF ChooseSample
<1> QED
  BY <1>1, <1>2, <1>3
  DEF ObservationInv, ObservationTypeOK, Going, LastAnswers, FaultsAreSeen, LatePass, Unmatched,
      VerifiedOnLastAnswers, FailsForAReason, Reading, progress, errors, world

LEMMA LoopEndsKeepObservationInv ==
  ASSUME ObservationInv, FinishSample \/ Confirm \/ FinishConfirmation
  PROVE  ObservationInv'
<1>1. CASE FinishSample
  BY <1>1
  DEF FinishSample, ObservationInv, ObservationTypeOK, Going, LastAnswers, FaultsAreSeen, LatePass,
      VerifiedOnLastAnswers, FailsForAReason, Reading, progress, errors, world
<1>2. CASE Confirm
  BY <1>2
  DEF Confirm, ObservationInv, ObservationTypeOK, Going, LastAnswers, FaultsAreSeen, LatePass,
      VerifiedOnLastAnswers, FailsForAReason, Reading, errors, world
<1>3. CASE FinishConfirmation
  BY <1>3
  DEF FinishConfirmation, ObservationInv, ObservationTypeOK, Going, LastAnswers, FaultsAreSeen,
      LatePass, VerifiedOnLastAnswers, FailsForAReason, Reading, progress,
      errors, world
<1> QED
  BY <1>1, <1>2, <1>3

\* Without a fault, a pass that started late has found nothing amiss.
LEMMA JudgeKeepsObservationInv ==
  ASSUME ObservationInv, Judge
  PROVE  ObservationInv'
<1>1. ObservationTypeOK /\ Going /\ LastAnswers /\ FaultsAreSeen /\ LatePass
      /\ VerifiedOnLastAnswers /\ FailsForAReason
  BY DEF ObservationInv
<1>2. /\ phase = "judging"
      /\ UNCHANGED <<first, todo, sample, progress, cursor, readError,
                     redirected, world, faulty, lastServed>>
      /\ errorStreak' = IF redirected THEN errorStreak ELSE Streak
      /\ errorCode' = IF redirected THEN errorCode ELSE readError
  BY DEF Judge
<1>3. Streak \in 0 .. errorStreak + 1 /\ errorStreak \in Nat
  BY <1>1 DEF Streak, ObservationTypeOK
<1>4. errorStreak' \in 0 .. TransientStreak
  BY <1>1, <1>2, <1>3, PagesObservationAssumption DEF Going, ObservationTypeOK
<1>5. CASE NothingFound /\ result' = "verified" /\ phase' = "ended"
  BY <1>1, <1>2, <1>4, <1>5
  DEF ObservationInv, ObservationTypeOK, Going, LastAnswers, FaultsAreSeen, LatePass, NothingFound,
      VerifiedOnLastAnswers, FailsForAReason, progress, world
<1>6. CASE /\ ~NothingFound
           /\ Hopeless \/ late > 0
           /\ result' = "unverified" /\ phase' = "ended"
  <2>1. faulty
    <3>1. SUFFICES ASSUME ~faulty PROVE FALSE
      BY <1>1 DEF ObservationTypeOK
    <3>2. ~redirected /\ readError = NoCode /\ Streak = 0
      BY <1>1, <3>1 DEF FaultsAreSeen, Streak
    <3>3. late > 0 => markerMatches /\ matched = RouteSet
      BY <1>1, <1>2, <3>1 DEF LatePass
    <3> QED
      BY <1>6, <3>2, <3>3, PagesObservationAssumption
      DEF NothingFound, Hopeless
  <2> QED
    BY <1>1, <1>2, <1>4, <1>6, <2>1
    DEF ObservationInv, ObservationTypeOK, Going, LastAnswers, FaultsAreSeen, LatePass,
        VerifiedOnLastAnswers, FailsForAReason, progress, world
<1>7. CASE /\ ~NothingFound /\ ~Hopeless /\ late < MarginPasses
           /\ UNCHANGED result /\ phase' = "waiting"
  <2>1. errorStreak' < TransientStreak
    BY <1>1, <1>2, <1>3, <1>7, PagesObservationAssumption
    DEF Hopeless, Going, ObservationTypeOK
  <2> QED
    BY <1>1, <1>2, <1>4, <1>7, <2>1
    DEF ObservationInv, ObservationTypeOK, Going, LastAnswers, FaultsAreSeen, LatePass,
        VerifiedOnLastAnswers, FailsForAReason, progress, world
<1> QED
  BY <1>5, <1>6, <1>7 DEF Judge

LEMMA NextPassKeepsObservationInv ==
  ASSUME ObservationInv, StartPass \/ Expire
  PROVE  ObservationInv'
<1>1. CASE StartPass
  <2>1. ObservationTypeOK /\ Going /\ LastAnswers /\ FaultsAreSeen /\ LatePass
        /\ VerifiedOnLastAnswers /\ FailsForAReason
    BY DEF ObservationInv
  <2>2. /\ phase = "waiting"
        /\ first' = FALSE /\ fresh' = {} /\ markerFresh' = FALSE
        /\ readError' = NoCode
        /\ late' = IF expired THEN late + 1 ELSE 0
        /\ phase' = IF markerMatches THEN "choosing" ELSE "reading-marker"
        /\ UNCHANGED <<todo, sample, matched, markerMatches, cursor, confirmed,
                       errorCode, errorStreak, redirected, expired, result,
                       faulty, lastServed>>
    BY <1>1 DEF StartPass
  <2>3. ObservationTypeOK'
    <3>1. late' \in 0 .. MarginPasses
      <4>1. late \in Nat /\ late < MarginPasses
        BY <2>1, <2>2 DEF ObservationTypeOK, Going
      <4> QED
        BY <2>2, <4>1, Bounds
    <3> QED
      BY <2>1, <2>2, <3>1 DEF ObservationTypeOK, Reading
  <2>4. Going' /\ LastAnswers' /\ LatePass'
    BY <2>1, <2>2 DEF Going, LastAnswers, LatePass, ObservationTypeOK
  <2>5. FaultsAreSeen' /\ VerifiedOnLastAnswers' /\ FailsForAReason'
    BY <2>1, <2>2
    DEF FaultsAreSeen, VerifiedOnLastAnswers, FailsForAReason
  <2> QED
    BY <2>3, <2>4, <2>5 DEF ObservationInv
<1>2. CASE Expire
  BY <1>2
  DEF Expire, ObservationInv, ObservationTypeOK, Going, LastAnswers, FaultsAreSeen, LatePass,
      VerifiedOnLastAnswers, FailsForAReason, Reading, progress, errors
<1> QED
  BY <1>1, <1>2

LEMMA ObservationInvHolds == ObservationSpec => []ObservationInv
<1>1. ObservationInv /\ [ObservationNext]_observationVars => ObservationInv'
  <2>1. ASSUME ObservationInv, UNCHANGED observationVars PROVE ObservationInv'
    BY <2>1
    DEF observationVars, progress, errors, world, ObservationInv, ObservationTypeOK, Going, LastAnswers,
        FaultsAreSeen, LatePass, VerifiedOnLastAnswers, FailsForAReason
  <2> QED
    BY <2>1, MarkerKeepsObservationInv, RouteKeepsObservationInv, SamplingKeepsObservationInv,
       LoopEndsKeepObservationInv, JudgeKeepsObservationInv, NextPassKeepsObservationInv DEF ObservationNext, Pass
<1> QED
  BY <1>1, ObservationInvInit, PTL DEF ObservationSpec

-----------------------------------------------------------------------------
(* Theorems *)

\* An observation that answers "verified" got the staged generation as its
\* last answer for the marker and for every single route.
THEOREM VerifiedOnLastAnswersHolds == ObservationSpec => []VerifiedOnLastAnswers
  BY ObservationInvHolds, PTL DEF ObservationInv

\* An observation that fails met a redirect, a transport failure, or an answer
\* older than the caches may still hold.
THEOREM FailsForAReasonHolds == ObservationSpec => []FailsForAReason
  BY ObservationInvHolds, PTL DEF ObservationInv
=============================================================================
