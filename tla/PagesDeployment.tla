-------------------------- MODULE PagesDeployment --------------------------
(***************************************************************************)
(* An attempt to publish a GitHub Pages generation: the preflight, the     *)
(* upload of the carrier, the one create-deployment call, the poll for its *)
(* terminal status, and the recovery that first finds out what became of   *)
(* the create of an attempt that was lost. A provider call is a step; the  *)
(* provider receives a create some time after it was sent, the answer may  *)
(* be lost, and a runner may be lost at any moment.                        *)
(*                                                                         *)
(* The twelve statuses are abstracted to the partition the code makes of   *)
(* them. Pages names a deployment by its build version, which the adapter  *)
(* takes from the head commit of the workflow run: attempts of one run     *)
(* share it. A recovery asks for the version that its record names.        *)
(*                                                                         *)
(* Source: packages/adapter-github-pages/src/index.js with recovery.js,    *)
(* deployment.js, oidc.js and rest.js.                                     *)
(***************************************************************************)
EXTENDS GenerationFence, PagesRecoveryRecord, Integers

CONSTANTS
    Attempts,
    NoAttempt,
    GenerationOf,   \* generationId of each attempt
    Expected,       \* generation fence of each attempt
    PriorOf,        \* the attempt a recovery resolves; NoAttempt in normal mode
    Versions,       \* pages_build_version values: head commits
    VersionOf,
    InputsOf,       \* what activate may be called with: mode, pagesRecovery,
                    \* pagesOidcToken and pagesOidcClaims, each of the last
                    \* three a sequence of one or none
    RepositoryId,   \* of the destination
    Polls,          \* bound: polls the budget of a deployment allows
    RecoveryPolls   \* bound: polls the budget of a recovery allows

Recovers(a) == PriorOf[a] # NoAttempt

ASSUME PagesDeploymentAssumption ==
    /\ NoAttempt \notin Attempts
    /\ GenerationOf \in [Attempts -> Generations]
    /\ Expected \in [Attempts -> Fences]
    /\ PriorOf \in [Attempts -> Attempts \cup {NoAttempt}]
    /\ VersionOf \in [Attempts -> Versions]
    /\ DOMAIN InputsOf = Attempts
    /\ Polls \in Nat /\ RecoveryPolls \in Nat
    /\ \A a \in Attempts : Recovers(a) =>
          /\ GenerationOf[PriorOf[a]] = GenerationOf[a]
          /\ VersionOf[PriorOf[a]] = VersionOf[a]

VARIABLES
    status,      \* the provider's deployment of each build version
    holder,      \* the attempt whose carrier that deployment publishes
    served,      \* the generation the public origin serves
    request,     \* the create request of each attempt
    pc,          \* the next provider call of each attempt
    bound,       \* the build version a recovery-prior call asks for
    marker,      \* the generation the attempt read from the public origin
    polled,      \* polls made in the present loop
    published,   \* history: every generation that was served
    landed       \* history: attempts whose deployment succeeded

provider == <<status, holder, served, published, landed>>
vars == <<provider, request, pc, bound, marker, polled>>

Statuses == {"absent", "temporary", "failure", "succeed"}
Answers == {"activate", "terminal-candidate", "reconcile",
            "reconciliation-required"}
Over == Answers \cup {"refused", "threw", "killed"}
Phases == Over \cup {"preflight", "staging", "inspecting", "asking", "cancelling", "waiting", "fencing",
                     "creating", "created", "polling"}
Requests == {"unsent", "travelling", "accepted", "refused"}

Goto(a, phase) == pc' = [pc EXCEPT ![a] = phase]

\* What a status call may say: the status, or a value outside the twelve, or
\* a body without one.
Reads(version) == {status[version]}
                      \cup (IF status[version] = "absent" THEN {}
                            ELSE {"unknown", "malformed"})

\* The calls of a recovery name the prior attempt's build version, all others
\* the attempt's own.
SelectDeploymentId(a) ==
    IF pc[a] \in {"asking", "cancelling", "waiting"} THEN bound[a] ELSE VersionOf[a]

\* What the credential-free read of the marker may say: what is served, what
\* a cache still holds, or nothing at all when it cannot be read.
MarkerReads == published \cup {served, Nothing}

Init ==
    /\ status = [v \in Versions |-> "absent"]
    /\ holder = [v \in Versions |-> NoAttempt]
    /\ served \in Served
    /\ request = [a \in Attempts |-> "unsent"]
    /\ pc = [a \in Attempts |-> "preflight"]
    /\ bound = VersionOf
    /\ marker = [a \in Attempts |-> Nothing]
    /\ polled = [a \in Attempts |-> 0]
    /\ published = {served}
    /\ landed = {}

-----------------------------------------------------------------------------
(* The attempt *)

\* The attempts of a workflow run come one after another.
HasBegun(a) == Recovers(a) => pc[PriorOf[a]] \in Over

\* A call that fails, or is answered as it must not be, ends the attempt.
Throw(a) ==
    /\ pc[a] \in Phases \ (Over \cup {"fencing"})
    /\ HasBegun(a)
    /\ Goto(a, "threw")
    /\ UNCHANGED <<provider, request, bound, marker, polled>>

\* The paths of the artifact are portable, or they are not; a marker that
\* cannot be read is a finding like any other. The kernel passes no
\* expectedGenerationId, so the generation is compared with nothing here.
Preflight(a) ==
    /\ pc[a] = "preflight" /\ HasBegun(a)
    /\ \E pathsArePortable, markerWasRead \in BOOLEAN :
          Goto(a, IF pathsArePortable /\ markerWasRead THEN "staging" ELSE "refused")
    /\ UNCHANGED <<provider, request, bound, marker, polled>>

\* The carrier is uploaded, and nothing public changes; a publisher that
\* fails, or took other bytes, is Throw.
Stage(a) ==
    /\ pc[a] = "staging"
    /\ Goto(a, "inspecting")
    /\ UNCHANGED <<provider, request, bound, marker, polled>>

NormalMode == "normal"
RecoveryMode == "pages-reconciliation-recovery"

\* What activate refuses before it reads anything.
IsAdmitted(input) ==
    /\ input.mode \in {NormalMode, RecoveryMode}
    /\ input.mode = NormalMode => input.pagesRecovery = <<>>
    /\ input.pagesOidcToken # <<>> /\ input.pagesOidcClaims # <<>>

\* What a recovery needs before it calls the provider.
MayRecover(input) ==
    /\ input.pagesRecovery # <<>>
    /\ ValidateReconciliationRecovery(input.pagesRecovery[1], RepositoryId)

Inspect(a) ==
    /\ pc[a] = "inspecting"
    /\ \E input \in InputsOf[a], read \in MarkerReads :
          /\ IsAdmitted(input)
          /\ marker' = [marker EXCEPT ![a] = read]
          /\ \/ /\ input.mode = NormalMode
                /\ Goto(a, "fencing") /\ UNCHANGED bound
             \/ /\ input.mode = RecoveryMode /\ MayRecover(input)
                /\ bound' = [bound EXCEPT ![a] = input.pagesRecovery[1].priorPagesBuildVersion]
                /\ Goto(a, "asking")
    /\ UNCHANGED <<provider, request, polled>>

\* What it was called with, or the record, is refused.
InputRefused(a) ==
    /\ pc[a] = "inspecting"
    /\ \E input \in InputsOf[a] :
          ~IsAdmitted(input) \/ (input.mode = RecoveryMode /\ ~MayRecover(input))
    /\ Goto(a, "threw")
    /\ UNCHANGED <<provider, request, bound, marker, polled>>

\* The answer of a recovery to a status that settles it.
Settled(read) ==
    CASE read = "succeed" -> "terminal-candidate"
      [] read = "failure" -> "fencing"
      [] OTHER -> "reconciliation-required"

\* Mutant: 404 taken for a prior that never existed, so that the create may go ahead.
SettledOnAbsence(a) ==
    /\ pc[a] = "asking"
    /\ \E read \in Reads(SelectDeploymentId(a)) :
          Goto(a, IF read = "temporary" THEN "cancelling"
                  ELSE IF read = "absent" THEN "fencing" ELSE Settled(read))
    /\ UNCHANGED <<provider, request, bound, marker, polled>>

\* The first read of the prior status; 404 and a temporary status lead to the
\* cancel.
AskPrior(a) ==
    /\ pc[a] = "asking"
    /\ \E read \in Reads(SelectDeploymentId(a)) :
          Goto(a, IF read \in {"absent", "temporary"} THEN "cancelling"
                  ELSE Settled(read))
    /\ UNCHANGED <<provider, request, bound, marker, polled>>

\* What the cancel does to the deployment is the provider's: see Advance.
CancelPrior(a) ==
    /\ pc[a] = "cancelling"
    /\ Goto(a, "waiting")
    /\ UNCHANGED <<provider, request, bound, marker, polled>>

\* The budget is looked at before the wait; in this loop a malformed body is
\* waited out like a 404.
AwaitPrior(a) ==
    /\ pc[a] = "waiting"
    /\ IF polled[a] = RecoveryPolls
         THEN Goto(a, "reconciliation-required") /\ UNCHANGED polled
         ELSE /\ polled' = [polled EXCEPT ![a] = @ + 1]
              /\ \E read \in Reads(SelectDeploymentId(a)) :
                    Goto(a, IF read \in {"absent", "temporary", "malformed"}
                              THEN "waiting" ELSE Settled(read))
    /\ UNCHANGED <<provider, request, bound, marker>>

\* The own generation is an idempotent activation. The marker was read before
\* the recovery waited.
CheckFence(a) ==
    /\ pc[a] = "fencing"
    /\ Goto(a, IF marker[a] = GenerationOf[a] THEN "activate"
               ELSE IF FenceDisagrees(Expected[a], marker[a]) THEN "reconcile"
               ELSE "creating")
    /\ UNCHANGED <<provider, request, bound, marker, polled>>

BoundClaims ==
    {"repository_owner", "repository", "repository_id", "repository_owner_id", "iss", "aud",
     "environment", "ref", "sha", "run_id", "run_attempt", "job_workflow_ref",
     "job_workflow_sha"}

\* Every bound claim is there and as expected, the subject has one of the two
\* forms, and the time of the token is within the skew: it was minted before
\* the recovery waited.
VerifyPagesOidcToken(token, expected) ==
    /\ token.isCurrent
    /\ BoundClaims \cup {"sub"} \subseteq DOMAIN token.claims
    /\ \A claim \in BoundClaims : token.claims[claim] = expected[claim]
    /\ token.claims["sub"] \in {"name", "identifier"}

TokenIsVerified(input) ==
    VerifyPagesOidcToken(input.pagesOidcToken[1], input.pagesOidcClaims[1])

\* The token is looked at here and not before.
TokenRefused(a) ==
    /\ pc[a] = "creating"
    /\ \E input \in InputsOf[a] : IsAdmitted(input) /\ ~TokenIsVerified(input)
    /\ Goto(a, "threw")
    /\ UNCHANGED <<provider, request, bound, marker, polled>>

Create(a) ==
    /\ pc[a] = "creating"
    /\ \E input \in InputsOf[a] : IsAdmitted(input) /\ TokenIsVerified(input)
    /\ request' = [request EXCEPT ![a] = "travelling"]
    /\ polled' = [polled EXCEPT ![a] = 0]
    /\ Goto(a, "created")
    /\ UNCHANGED <<provider, bound, marker>>

\* The HTTP client gives up on an answer that does not come.
Unanswered(a) ==
    /\ pc[a] = "created"
    /\ request[a] = "travelling"
    /\ Goto(a, "threw")
    /\ UNCHANGED <<provider, request, bound, marker, polled>>

\* A refusal throws.
CreateAnswered(a) ==
    /\ pc[a] = "created"
    /\ request[a] \in {"accepted", "refused"}
    /\ Goto(a, IF request[a] = "accepted" THEN "polling" ELSE "threw")
    /\ UNCHANGED <<provider, request, bound, marker, polled>>

\* Mutant: an exhausted budget answered like a stale fence instead of thrown.
AfterPollReconciling(a, read) ==
    CASE read = "succeed" -> "activate"
      [] read = "temporary" /\ polled[a] < Polls -> "polling"
      [] read = "temporary" -> "reconcile"
      [] OTHER -> "threw"

\* What one poll leads to; here a 404 is not accepted and the budget is looked
\* at after the status.
AfterPoll(a, read) ==
    CASE read = "succeed" -> "activate"
      [] read = "temporary" /\ polled[a] < Polls -> "polling"
      [] OTHER -> "threw"

Poll(a) ==
    /\ pc[a] = "polling"
    /\ \E read \in Reads(SelectDeploymentId(a)) :
          /\ Goto(a, AfterPoll(a, read))
          /\ polled' = IF AfterPoll(a, read) = "polling"
                         THEN [polled EXCEPT ![a] = @ + 1] ELSE polled
    /\ UNCHANGED <<provider, request, bound, marker>>

\* The runner is lost. The wait of AwaitPrior may also end the process: it is
\* on an unreferenced timer.
Kill(a) ==
    /\ pc[a] \notin Over
    /\ Goto(a, "killed")
    /\ UNCHANGED <<provider, request, bound, marker, polled>>

-----------------------------------------------------------------------------
(* The provider *)

\* A build version has one deployment at a time; the provider may refuse.
ReceiveCreate(a) ==
    /\ request[a] = "travelling"
    /\ \/ /\ request' = [request EXCEPT ![a] = "refused"]
          /\ UNCHANGED <<status, holder>>
       \/ /\ status[VersionOf[a]] # "temporary"
          /\ request' = [request EXCEPT ![a] = "accepted"]
          /\ status' = [status EXCEPT ![VersionOf[a]] = "temporary"]
          /\ holder' = [holder EXCEPT ![VersionOf[a]] = a]
    /\ UNCHANGED <<served, published, landed, pc, bound, marker, polled>>

\* A deployment fails, cancelled or not, or is served, even if cancelled.
Advance(v) ==
    /\ status[v] = "temporary"
    /\ \/ /\ status' = [status EXCEPT ![v] = "failure"]
          /\ UNCHANGED <<served, published, landed>>
       \/ /\ status' = [status EXCEPT ![v] = "succeed"]
          /\ served' = GenerationOf[holder[v]]
          /\ published' = published \cup {served'}
          /\ landed' = landed \cup {holder[v]}
    /\ UNCHANGED <<holder, request, pc, bound, marker, polled>>

Step(a) ==
    \/ Preflight(a) \/ Stage(a) \/ Inspect(a) \/ InputRefused(a)
    \/ AskPrior(a) \/ CancelPrior(a) \/ AwaitPrior(a)
    \/ CheckFence(a) \/ TokenRefused(a) \/ Create(a)
    \/ CreateAnswered(a) \/ Unanswered(a) \/ Poll(a)

Done == (\A a \in Attempts : pc[a] \in Over) /\ UNCHANGED vars

Next ==
    \/ \E a \in Attempts : Step(a) \/ Throw(a) \/ Kill(a) \/ ReceiveCreate(a)
    \/ \E v \in Versions : Advance(v)
    \/ Done

\* A process that is not killed keeps calling; the provider owes nothing, not
\* even an answer.
Spec == Init /\ [][Next]_vars
FairSpec == Spec /\ \A a \in Attempts : WF_vars(Step(a))

-----------------------------------------------------------------------------
(* What the callers and the server owe: the hypotheses of the theorems *)

\* The server mints the digests, and none that it minted for another attempt
\* reaches this one.
DigestIsMintedFor(a, recovery) ==
    "recoveryDigest" \in DOMAIN recovery =>
        LET digest == recovery.recoveryDigest
        IN  digest.domain = "pages-reconciliation-recovery"
            /\ "priorPagesBuildVersion" \in DOMAIN digest.of
            => digest.of.priorPagesBuildVersion = VersionOf[a]

\* A recovery is called as one, and no other attempt is.
RecoveriesAreCalledSo ==
    \A a \in Attempts : \A input \in InputsOf[a] :
        /\ input.mode = NormalMode => ~Recovers(a)
        /\ input.mode = RecoveryMode => Recovers(a)
        /\ Recovers(a) /\ input.pagesRecovery # <<>> =>
              DigestIsMintedFor(a, input.pagesRecovery[1])

\* A commit is built into one generation.
VersionsAreGenerations ==
    \A a, b \in Attempts :
        VersionOf[a] = VersionOf[b] => GenerationOf[a] = GenerationOf[b]

\* A commit whose attempt is recovered has that attempt and the recovery only.
RecoveriesShareNoVersion ==
    \A a, b \in Attempts :
        Recovers(a) /\ VersionOf[b] = VersionOf[a] => b \in {a, PriorOf[a]}

-----------------------------------------------------------------------------
(* Properties *)

\* Every variable has its type, and no loop polls past its budget.
TypeOK ==
    /\ status \in [Versions -> Statuses]
    /\ holder \in [Versions -> Attempts \cup {NoAttempt}]
    /\ served \in Served
    /\ request \in [Attempts -> Requests]
    /\ pc \in [Attempts -> Phases]
    /\ bound \in [Attempts -> Versions]
    /\ marker \in [Attempts -> Served]
    /\ \A a \in Attempts : polled[a] \in
          0 .. (IF pc[a] \in {"created", "polling"} THEN Polls
                ELSE IF RecoveryPolls > Polls THEN RecoveryPolls ELSE Polls)
    /\ published \subseteq Served
    /\ landed \subseteq Attempts

\* Once a recovery has sent a create of its own, the deployment of the attempt
\* it recovers never becomes the served one: an operation is not published
\* twice, and not by an attempt everyone has given up ("immutable, so the
\* prior create can never activate", recovery.js).
PriorStaysDead ==
    \A a \in Attempts :
        Recovers(a) /\ request[a] # "unsent" => PriorOf[a] \notin landed

\* An activation that is reported did happen: the generation was served, by
\* this attempt, by the one it recovers or before either of them (activate's
\* three "activate" answers).
ActivateAnswerIsTrue ==
    \A a \in Attempts : pc[a] \in {"activate", "terminal-candidate"} =>
        GenerationOf[a] \in published

\* An answer that says "destinationChanged: false" comes from an attempt whose
\* carrier is not, and will not be, the served one.
ReconcileChangesNothing ==
    \A a \in Attempts : pc[a] \in {"reconcile", "reconciliation-required"} =>
        a \notin landed /\ \A v \in Versions : holder[v] # a

\* Two budgets bound the loops: an attempt ends whatever the provider does or
\* does not do.
AttemptEnds == \A a \in Attempts : <>(pc[a] \in Over)

\* "terminal `succeed`: the same operation's proposed generation was already
\* selected" (recovery.js): a terminal candidate is the prior attempt's work.
SucceedIsThePriors ==
    \A a \in Attempts : pc[a] = "terminal-candidate" => PriorOf[a] \in landed
=============================================================================
