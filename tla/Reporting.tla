----------------------------- MODULE Reporting -----------------------------
(***************************************************************************)
(* One publish workflow from its authorization to its report, with the     *)
(* attempts GitHub makes of it ("re-run all jobs", "re-run failed jobs"),  *)
(* and the Gala API it talks to. The authorize job exchanges the frozen    *)
(* metadata for an intent bound to this attempt; the deploy job runs the   *)
(* kernel and writes one journal; the report job exchanges its challenge   *)
(* for a single-use capability and submits the journal with it. Every call *)
(* goes through one retry loop; a request or its answer may be lost, and a *)
(* request may arrive after its sender has given it up.                    *)
(*                                                                         *)
(* The kernel run is one step here (see KernelRun), an assertion is fresh  *)
(* in every send and so never refused as replayed, and documents are       *)
(* reduced to what they claim about the destination.                       *)
(*                                                                         *)
(* Source: scripts/workflow/gala-api.mjs, exchange.mjs, deploy.mjs,        *)
(* report.mjs and .github/workflows/publish-v2.yml; the API as             *)
(* test/fixtures/fake-gala-api.mjs answers it.                             *)
(***************************************************************************)
EXTENDS Integers, Sequences, SequencesExt

CONSTANTS
    MaximumAttempts,   \* bound: attempts of the workflow run
    Sends,             \* RETRY_DELAYS_SECONDS.length
    CapabilityLimit    \* capability generations the API issues for an operation

ASSUME ReportingAssumption ==
    /\ MaximumAttempts \in Nat \ {0}
    /\ Sends \in Nat \ {0}
    /\ CapabilityLimit \in Nat

Attempts == 1 .. MaximumAttempts
Capabilities == 1 .. CapabilityLimit
NoAttempt == 0
NoCapability == 0

VARIABLES
    attempt,      \* GITHUB_RUN_ATTEMPT
    job,          \* the exchange or the work the workflow is at
    result,       \* result of each job, kept by a re-run of the failed ones
    carrier,      \* attempt the uploaded intent and challenge are bound to
    journal,      \* what the deploy job left for the report
    sends,        \* sends of the present call
    reply,        \* the answer to the last of them
    capability,   \* the reporting capability the report job holds
    network,      \* requests on their way
    bound,        \* API: attempt the retained intent is bound to
    generation,   \* API: capability generations issued
    status,       \* API: status of each of them
    recorded,     \* API: receivedSubmissions
    deployed      \* history: attempts that ran the kernel, with what they did

call == <<sends, reply>>
api == <<bound, generation, status, recorded>>
progress == <<attempt, job, result, carrier, journal>>
jobs == <<progress, capability>>
vars == <<jobs, call, network, api, deployed>>

JobNames == {"authorize", "deploy", "report"}
Exchanges == {"authorizing", "challenging", "submitting"}
NoJournal == [kind |-> "absent", changed |-> FALSE, verified |-> FALSE]
Documents == [kind : {"absent", "kernel", "failure"}, changed : BOOLEAN,
              verified : BOOLEAN]
Outcomes == {o \in Documents : o.kind = "kernel" /\ (o.verified => o.changed)}
FailureJournal == [NoJournal EXCEPT !.kind = "failure"]
Statuses == {"unissued", "active", "superseded", "recorded", "tombstone"}

\* Answers that end a call, and those that are worth another send.
Final == {"intent", "page-loss", "capability", "recorded", "accepted",
          "unauthorized", "refused"}
Replies == Final \cup {"retryable", "awaited", "unsent"}

Init ==
    /\ attempt = 1
    /\ job = "authorizing"
    /\ result = [name \in JobNames |-> "none"]
    /\ carrier = NoAttempt
    /\ journal = NoJournal
    /\ sends = 0
    /\ reply = "unsent"
    /\ capability = NoCapability
    /\ network = {}
    /\ bound = NoAttempt
    /\ generation = 0
    /\ status = [c \in Capabilities |-> "unissued"]
    /\ recorded = <<>>
    /\ deployed = {}

NewCall == sends' = 0 /\ reply' = "unsent"
Finish(name, how, next) ==
    /\ result' = [result EXCEPT ![name] = how]
    /\ job' = next

-----------------------------------------------------------------------------
(* The call: sendWithRetry *)

\* Mutant: the attempt of the run is left out of the comparison.
BoundToAnyAttempt == carrier # NoAttempt

\* assertIntentBoundToRunner: the run attempt is part of the intent's subject.
BoundToRunner == carrier = attempt

MaySend == job = "submitting" => BoundToRunner

Request ==
    [job |-> job, attempt |-> attempt, send |-> sends + 1,
     capability |-> capability, document |-> journal]

\* Mutant: every send starts the schedule again.
SendAnew ==
    /\ job \in Exchanges /\ MaySend
    /\ reply = "unsent"
    /\ network' = network \cup {[Request EXCEPT !.send = 1]}
    /\ sends' = 1
    /\ reply' = "awaited"
    /\ UNCHANGED <<jobs, api, deployed>>

Send ==
    /\ job \in Exchanges /\ MaySend
    /\ reply = "unsent"
    /\ network' = network \cup {Request}
    /\ sends' = sends + 1
    /\ reply' = "awaited"
    /\ UNCHANGED <<jobs, api, deployed>>

\* The answer reaches its sender if that is still waiting for this send.
Waiting(request) ==
    /\ reply = "awaited"
    /\ request.job = job /\ request.attempt = attempt /\ request.send = sends
Answer(request, with) ==
    /\ network' = network \ {request}
    /\ reply' = IF Waiting(request) THEN with ELSE reply
    /\ UNCHANGED sends

\* 503, 429 or a transport code before the API acted on the request.
Lose(request) ==
    /\ Answer(request, "retryable")
    /\ UNCHANGED <<jobs, api, deployed>>

\* A timeout: the request may still arrive.
GiveUp ==
    /\ reply = "awaited"
    /\ reply' = "retryable"
    /\ UNCHANGED <<jobs, sends, network, api, deployed>>

Exhausted == sends = Sends

Resend ==
    /\ reply = "retryable" /\ ~Exhausted
    /\ reply' = "unsent"
    /\ UNCHANGED <<jobs, sends, network, api, deployed>>

-----------------------------------------------------------------------------
(* The API *)

\* handleExchange for a deployment intent: the same tuple is a replay.
AnswerIntent(request) ==
    /\ request.job = "authorizing"
    /\ \/ /\ bound \in {NoAttempt, request.attempt}
          /\ bound' = request.attempt
          /\ \E with \in {"intent", "retryable"} : Answer(request, with)
       \/ /\ UNCHANGED bound
          /\ \E with \in {"page-loss", "refused", "retryable"} :
                /\ with = "page-loss" => bound = NoAttempt
                /\ Answer(request, with)
    /\ UNCHANGED <<jobs, generation, status, recorded, deployed>>

\* handleExchange for a receipt: a new generation supersedes the active one,
\* and its capability is in the answer.
AnswerChallenge(request) ==
    /\ request.job = "challenging"
    /\ IF recorded # <<>>
         THEN /\ \E with \in {"recorded", "retryable"} : Answer(request, with)
              /\ UNCHANGED <<generation, status, capability>>
       ELSE IF generation = CapabilityLimit
         THEN /\ Answer(request, "retryable")
              /\ UNCHANGED <<generation, status, capability>>
       ELSE /\ \E with \in {"capability", "retryable"} : Answer(request, with)
            /\ generation' = generation + 1
            /\ status' = [c \in Capabilities |->
                  IF c = generation + 1 THEN "active"
                  ELSE IF status[c] = "active" THEN "superseded" ELSE status[c]]
            /\ capability' = IF Waiting(request) THEN generation + 1
                             ELSE capability
    /\ UNCHANGED <<progress, bound, recorded, deployed>>

\* handleReceipt: the capability is consumed before the body is read.
AnswerSubmission(request) ==
    /\ request.job = "submitting"
    /\ LET c == request.capability
       IN  IF status[c] # "active"
             THEN /\ \E with \in {"unauthorized", "retryable"} :
                        Answer(request, with)
                  /\ UNCHANGED <<status, recorded>>
             ELSE \/ /\ status' = [status EXCEPT ![c] = "recorded"]
                     /\ recorded' = Append(recorded, request.document)
                     /\ \E with \in {"accepted", "retryable"} :
                           Answer(request, with)
                  \/ /\ status' = [status EXCEPT ![c] = "tombstone"]
                     /\ \E with \in {"refused", "retryable"} :
                           Answer(request, with)
                     /\ UNCHANGED recorded
    /\ UNCHANGED <<jobs, bound, generation, deployed>>

\* The capability's five minutes are over, or the fence has moved.
Invalidate(c) ==
    /\ status[c] = "active"
    /\ status' = [status EXCEPT ![c] = "superseded"]
    /\ UNCHANGED <<jobs, call, network, bound, generation, recorded, deployed>>

-----------------------------------------------------------------------------
(* The jobs *)

\* The page-loss guard ends the run: the jobs behind it are skipped. An intent
\* for another destination, or one that cannot be uploaded, fails the job.
Authorize ==
    /\ job = "authorizing"
    /\ \/ /\ reply = "intent"
          /\ carrier' = attempt
          /\ Finish("authorize", "success", "deploying")
       \/ /\ reply = "page-loss"
          /\ Finish("authorize", "success", "ended")
          /\ UNCHANGED carrier
       \/ /\ reply \in {"intent", "refused"} \/ (reply = "retryable" /\ Exhausted)
          /\ Finish("authorize", "failure", "ended")
          /\ UNCHANGED carrier
    /\ NewCall
    /\ UNCHANGED <<attempt, journal, capability, network, api, deployed>>

\* A failure before the kernel is classified and written as a journal of its
\* own; the verifier of the Spaces configuration reports such a failure too.
RefuseDeploy ==
    /\ job = "deploying"
    /\ journal' = FailureJournal
    /\ Finish("deploy", "failure", "uploading")
    /\ UNCHANGED <<attempt, carrier, capability, call, network, api, deployed>>

\* Mutant: a run that fails writes its failure journal over the kernel's.
LeftOverwritten(outcome) ==
    {IF outcome.verified THEN outcome ELSE FailureJournal, NoJournal}

\* What a kernel run leaves: its journal, or nothing when the process or the
\* write failed (JOURNAL_WRITE_FAILED, DEPLOY_CRASHED: no claim).
Left(outcome) == {outcome, NoJournal}

Deploy ==
    /\ job = "deploying" /\ BoundToRunner
    /\ \E outcome \in Outcomes :
          /\ deployed' = deployed \cup {[by |-> attempt, outcome |-> outcome]}
          /\ \E left \in Left(outcome) :
                /\ journal' = left
                /\ Finish("deploy", IF left.verified THEN "success"
                                    ELSE "failure", "uploading")
    /\ UNCHANGED <<attempt, carrier, capability, call, network, api>>

\* A journal that cannot be uploaded and re-observed fails the job, and the
\* report is made without it.
Upload ==
    /\ job = "uploading"
    /\ \/ job' = "challenging" /\ UNCHANGED <<result, journal>>
       \/ /\ journal # NoJournal
          /\ journal' = NoJournal
          /\ Finish("deploy", "failure", "challenging")
    /\ UNCHANGED <<attempt, carrier, capability, call, network, api, deployed>>

\* exchangeDeploymentReceipt: a recorded submission is not made again.
Challenge ==
    /\ job = "challenging"
    /\ \/ reply = "capability" /\ job' = "submitting" /\ UNCHANGED result
       \/ reply = "recorded" /\ Finish("report", "success", "ended")
       \/ reply = "retryable" /\ Exhausted /\ Finish("report", "failure", "ended")
    /\ NewCall
    /\ UNCHANGED <<attempt, carrier, journal, capability, network, api,
                   deployed>>

\* Mutant: every 401 is taken for the replay of a recorded submission.
RecordedOrConsumed == reply \in {"accepted", "unauthorized"}

\* Only the 202 is a success.
Recorded == reply = "accepted"

Submit ==
    /\ job = "submitting"
    /\ \/ Recorded /\ Finish("report", "success", "ended")
       \/ /\ ~Recorded
          /\ \/ reply \in {"unauthorized", "refused"} \/ ~BoundToRunner
             \/ reply = "retryable" /\ Exhausted
          /\ Finish("report", "failure", "ended")
    /\ UNCHANGED <<attempt, carrier, journal, capability, call, network, api,
                   deployed>>

\* A cancelled run is not reported.
Cancel ==
    /\ job # "ended"
    /\ Finish(IF job = "authorizing" THEN "authorize"
              ELSE IF job \in {"deploying", "uploading"} THEN "deploy"
              ELSE "report", "cancelled", "ended")
    /\ NewCall
    /\ UNCHANGED <<attempt, carrier, journal, capability, network, api,
                   deployed>>

\* GitHub runs all jobs again, or those that did not succeed and what needs
\* them, with the carriers of the others.
Rerun ==
    /\ job = "ended" /\ attempt < MaximumAttempts
    /\ attempt' = attempt + 1
    /\ \/ /\ job' = "authorizing"
          /\ result' = [name \in JobNames |-> "none"]
       \/ /\ result["authorize"] = "success" /\ carrier # NoAttempt
          /\ result["deploy"] # "success"
          /\ job' = "deploying"
          /\ result' = [result EXCEPT !["deploy"] = "none",
                                      !["report"] = "none"]
       \/ /\ result["deploy"] = "success" /\ result["report"] # "success"
          /\ job' = "challenging"
          /\ result' = [result EXCEPT !["report"] = "none"]
    /\ capability' = NoCapability
    /\ NewCall
    /\ UNCHANGED <<carrier, journal, network, api, deployed>>

Work == Send \/ Resend \/ GiveUp \/ Authorize \/ RefuseDeploy \/ Deploy
            \/ Upload \/ Challenge \/ Submit

Ended == job = "ended" /\ attempt = MaximumAttempts /\ UNCHANGED vars

Next ==
    \/ Work \/ Cancel \/ Rerun \/ Ended
    \/ \E request \in network :
          \/ Lose(request) \/ AnswerIntent(request)
          \/ AnswerChallenge(request) \/ AnswerSubmission(request)
    \/ \E c \in Capabilities : Invalidate(c)

\* The jobs go on by themselves, by timeouts if need be; the API, the
\* operator and the network owe nothing.
Spec == Init /\ [][Next]_vars
FairSpec == Spec /\ WF_vars(Work)

-----------------------------------------------------------------------------
(* Properties *)

TypeOK ==
    /\ attempt \in Attempts
    /\ job \in Exchanges \cup {"deploying", "uploading", "ended"}
    /\ result \in [JobNames -> {"none", "success", "failure", "cancelled"}]
    /\ {carrier, bound} \subseteq Attempts \cup {NoAttempt}
    /\ journal \in Documents
    /\ sends \in 0 .. Sends
    /\ reply \in Replies
    /\ {capability, generation} \subseteq Capabilities \cup {NoCapability}
    /\ status \in [Capabilities -> Statuses]
    /\ ToSet(recorded) \subseteq Documents
    /\ \A run \in deployed : run.by \in Attempts /\ run.outcome \in Outcomes

\* However often the workflow is re-run, one intent lets the kernel run once
\* (bindAuthorizedIntent compares the run attempt; the API binds one attempt).
OneDeployment == \A run, other \in deployed : run = other

\* A recorded submission agrees with what was done to the destination: a
\* kernel journal is the outcome of the run, and a classified failure of a
\* deploy that never reached the kernel is the whole story.
ReportTellsWhatHappened ==
    \A i \in DOMAIN recorded :
        /\ recorded[i].kind = "kernel" =>
               \E run \in deployed : run.outcome = recorded[i]
        /\ recorded[i].kind = "failure" => deployed = {}

\* A workflow without a red job has reported every deployment it made, as the
\* verified activation it was (report.mjs fails on all but the 202).
GreenIsReported ==
    job = "ended" /\ (\A name \in JobNames : result[name] = "success") =>
        /\ Len(recorded) = 1
        /\ \E run \in deployed : run.outcome.verified
        /\ recorded[1].kind # "failure"

\* Retries and timeouts are bounded: the run ends whatever the API does.
WorkflowEnds == <>[](job = "ended")

\* "the replay of an already recorded submission" is told apart from a refused
\* capability (gala-api.mjs, postDeploymentReceipt).
ReplayIsToldApart ==
    job = "ended" /\ reply = "unauthorized" => recorded = <<>>
=============================================================================
