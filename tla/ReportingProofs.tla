-------------------------- MODULE ReportingProofs --------------------------
(***************************************************************************)
(* One workflow deploys once, reports what happened and is green only when *)
(* that is reported: for every number of attempts, sends and capabilities, *)
(* with requests that are lost, sent again and arrive late.                *)
(*                                                                         *)
(* The argument: the API binds one attempt and never another (Binding), so *)
(* that once that attempt's deploy job is behind it, nothing can deploy    *)
(* any more (Closed); a document is submitted by the bound attempt only,   *)
(* when Closed, and so stays true (Story); and a recorded submission       *)
(* leaves no capability with which to make another (Capability).           *)
(***************************************************************************)
EXTENDS Reporting, SequenceTheorems, TLAPS

Requests ==
    [job : Exchanges, attempt : Attempts, send : Nat,
     capability : Capabilities \cup {NoCapability}, document : Documents]

Types ==
    /\ attempt \in Attempts
    /\ job \in Exchanges \cup {"deploying", "uploading", "ended"}
    /\ result \in [JobNames -> {"none", "success", "failure", "cancelled"}]
    /\ carrier \in Attempts \cup {NoAttempt} /\ bound \in Attempts \cup {NoAttempt}
    /\ journal \in Documents
    /\ sends \in Nat
    /\ reply \in Replies
    /\ capability \in Capabilities \cup {NoCapability}
    /\ generation \in 0 .. CapabilityLimit
    /\ network \subseteq Requests
    /\ status \in [Capabilities -> Statuses]
    /\ recorded \in Seq(Documents)
    /\ deployed \subseteq [by : Attempts, outcome : Outcomes]

\* The API binds one attempt, and the intent that was carried is bound to it.
Binding ==
    /\ bound <= attempt /\ \A request \in network : request.attempt <= attempt
    /\ carrier # NoAttempt => carrier = bound
    /\ reply = "intent" => job = "authorizing" /\ bound = attempt
    /\ job \notin {"authorizing", "ended"} \/ result["deploy"] = "success"
           => carrier # NoAttempt

\* No attempt can deploy any more: the bound one is past its deploy job.
Closed ==
    /\ bound # NoAttempt
    /\ bound < attempt \/ job \notin {"authorizing", "deploying"}

Once ==
    /\ deployed # {} \/ journal # NoJournal => Closed
    /\ OneDeployment

\* The documents that say what happened, and will go on saying it.
Truths ==
    {document \in Documents :
        /\ document.kind = "kernel" => \E run \in deployed : run.outcome = document
        /\ document.kind = "failure" => deployed = {} /\ Closed}

Story ==
    /\ journal.kind = "kernel" => \E run \in deployed : run.outcome = journal
    /\ journal.kind = "failure" /\ deployed # {} => bound < attempt
    /\ \A request \in network :
          request.job = "submitting" => request.document \in Truths
    /\ \A i \in DOMAIN recorded : recorded[i] \in Truths

\* One capability is active, and none once a submission is recorded.
Capability ==
    /\ \A c, d \in Capabilities : status[c] = "active" /\ status[d] = "active" => c = d
    /\ recorded # <<>> => \A c \in Capabilities : status[c] # "active"
    /\ Len(recorded) \in {0, 1}
    /\ reply = "capability" \/ job = "submitting" => capability # NoCapability
    /\ \A request \in network :
          request.job = "submitting" => request.capability # NoCapability

\* What the jobs' results rest on.
Results ==
    /\ reply \in {"accepted", "recorded"} \/ result["report"] = "success"
           => recorded # <<>>
    /\ result["deploy"] = "success" => \E run \in deployed : run.outcome.verified

IInv == Types /\ Binding /\ Once /\ Story /\ Capability /\ Results

-----------------------------------------------------------------------------
(* Types *)

\* The two journals that no kernel wrote.
LEMMA Journals ==
  /\ NoJournal \in Documents /\ NoJournal.kind = "absent" /\ ~NoJournal.verified
  /\ FailureJournal \in Documents /\ FailureJournal.kind = "failure"
  /\ ~FailureJournal.verified
  /\ \A outcome \in Outcomes : outcome \in Documents /\ outcome.kind = "kernel"
  BY DEF NoJournal, FailureJournal, Documents, Outcomes

\* The workflow begins with nothing authorized, sent or recorded.
LEMMA IInvInit == Init => IInv
<1> SUFFICES ASSUME Init
             PROVE  IInv
  OBVIOUS
<1> USE ReportingAssumption DEF Init
<1>1. Types
  BY Journals DEF Types, Attempts, Capabilities, NoAttempt, NoCapability, Exchanges,
                  Replies, Statuses, JobNames
<1>2. Binding /\ Once /\ Results
  BY Journals DEF Binding, Once, Closed, OneDeployment, Results, NoAttempt, JobNames
<1>3. Story /\ Capability
  BY Journals DEF Story, Capability, NoCapability
<1> QED
  BY <1>1, <1>2, <1>3 DEF IInv

\* A call keeps the types.
LEMMA TypesCall ==
  ASSUME Types, \/ Send \/ GiveUp \/ Resend
                \/ \E request \in network : Lose(request) \/ AnswerIntent(request)
  PROVE  Types'
<1> USE DEF Types, jobs, progress, api, call, Replies, Final
<1>1. CASE Send
  BY <1>1 DEF Send, Request, Requests
<1>2. CASE GiveUp \/ Resend
  BY <1>2 DEF GiveUp, Resend
<1>3. ASSUME NEW request \in network, Lose(request) \/ AnswerIntent(request)
      PROVE  Types'
  BY <1>3 DEF Lose, AnswerIntent, Answer, Requests
<1> QED
  BY <1>1, <1>2, <1>3

\* The API's books keep their types.
LEMMA TypesApi ==
  ASSUME Types, \/ \E request \in network :
                      AnswerChallenge(request) \/ AnswerSubmission(request)
                \/ \E c \in Capabilities : Invalidate(c)
  PROVE  Types'
<1> USE DEF Types, jobs, progress, api, call, Replies, Final, Statuses
<1>1. ASSUME NEW request \in network, AnswerChallenge(request)
      PROVE  Types'
  BY <1>1, ReportingAssumption DEF AnswerChallenge, Answer, Capabilities
<1>2. ASSUME NEW request \in network, AnswerSubmission(request)
      PROVE  Types'
  <2>1. request.document \in Documents
    BY DEF Requests
  <2>2. Append(recorded, request.document) \in Seq(Documents)
    BY <2>1
  <2>3. recorded' \in Seq(Documents)
    BY <1>2, <2>2 DEF AnswerSubmission
  <2>4. status' \in [Capabilities -> Statuses]
    BY <1>2 DEF AnswerSubmission
  <2>5. reply' \in Replies /\ network' \subseteq Requests /\ UNCHANGED sends
    BY <1>2 DEF AnswerSubmission, Answer
  <2> QED
    BY <1>2, <2>3, <2>4, <2>5 DEF AnswerSubmission
<1>3. ASSUME NEW c \in Capabilities, Invalidate(c)
      PROVE  Types'
  BY <1>3 DEF Invalidate
<1> QED
  BY <1>1, <1>2, <1>3

\* So do the jobs.
LEMMA TypesJobs ==
  ASSUME Types, \/ Authorize \/ RefuseDeploy \/ Deploy \/ Upload
                \/ Challenge \/ Submit \/ Cancel \/ Rerun
  PROVE  Types'
<1> USE DEF Types, jobs, progress, api, call, Replies, Final, Finish, NewCall,
            Exchanges, JobNames
<1>1. CASE Authorize
  BY <1>1 DEF Authorize
<1>2. CASE RefuseDeploy
  BY <1>2, Journals DEF RefuseDeploy
<1>3. CASE Deploy
  BY <1>3, Journals DEF Deploy, Left
<1>4. CASE Upload
  BY <1>4, Journals DEF Upload
<1>5. CASE Challenge \/ Submit
  BY <1>5 DEF Challenge, Submit
<1>6. CASE Cancel
  BY <1>6 DEF Cancel
<1>7. CASE Rerun
  BY <1>7, ReportingAssumption DEF Rerun, Attempts
<1> QED
  BY <1>1, <1>2, <1>3, <1>4, <1>5, <1>6, <1>7

-----------------------------------------------------------------------------
(* The binding *)

\* The API binds an attempt that asked, and never another; the carrier is of
\* the attempt that was answered.
LEMMA BindingStep ==
  ASSUME IInv, [Next]_vars
  PROVE  Binding'
<1> USE DEF IInv, Types, Binding, jobs, progress, api, call, Final, Finish, NewCall,
            Exchanges, JobNames, NoAttempt, Attempts
<1>1. CASE Send \/ GiveUp \/ Resend
  BY <1>1 DEF Send, Request, GiveUp, Resend
<1>2. ASSUME NEW request \in network, Lose(request) \/ AnswerChallenge(request)
                                      \/ AnswerSubmission(request)
      PROVE  Binding'
  BY <1>2 DEF Lose, AnswerChallenge, AnswerSubmission, Answer
<1>3. ASSUME NEW request \in network, AnswerIntent(request)
      PROVE  Binding'
  <2>1. request.attempt \in 1 .. attempt
    BY DEF Requests
  <2> QED
    BY <1>3, <2>1 DEF AnswerIntent, Answer, Waiting
<1>4. ASSUME NEW c \in Capabilities, Invalidate(c)
      PROVE  Binding'
  BY <1>4 DEF Invalidate
<1>5. CASE Authorize
  BY <1>5 DEF Authorize
<1>6. CASE RefuseDeploy \/ Deploy \/ Upload
  BY <1>6 DEF RefuseDeploy, Deploy, Upload
<1>7. CASE Challenge \/ Submit
  BY <1>7 DEF Challenge, Submit
<1>8. CASE Cancel
  BY <1>8 DEF Cancel
<1>9. CASE Rerun
  <2>1. attempt' = attempt + 1 /\ bound <= attempt + 1
    BY <1>9 DEF Rerun
  <2>2. \A request \in network : request.attempt <= attempt + 1
    BY DEF Requests
  <2>3. carrier' # NoAttempt
        \/ (job' = "authorizing" /\ result'["deploy"] = "none")
    BY <1>9 DEF Rerun
  <2> QED
    BY <1>9, <2>1, <2>2, <2>3 DEF Rerun
<1>10. CASE UNCHANGED vars
  BY <1>10 DEF vars
<1> QED
  BY <1>1, <1>2, <1>3, <1>4, <1>5, <1>6, <1>7, <1>8, <1>9, <1>10 DEF Next, Work, Ended

\* What cannot deploy any more never can again.
LEMMA ClosedStep ==
  ASSUME IInv, [Next]_vars, Closed
  PROVE  Closed' /\ UNCHANGED <<bound, deployed>>
<1> USE DEF IInv, Types, Binding, Closed, jobs, progress, api, call, Final, Finish,
            NewCall, Exchanges, NoAttempt, Attempts
<1>1. CASE Send \/ GiveUp \/ Resend
  BY <1>1 DEF Send, GiveUp, Resend
<1>2. ASSUME NEW request \in network,
             Lose(request) \/ AnswerChallenge(request) \/ AnswerSubmission(request)
             \/ AnswerIntent(request)
      PROVE  Closed' /\ UNCHANGED <<bound, deployed>>
  BY <1>2 DEF Lose, AnswerChallenge, AnswerSubmission, AnswerIntent
<1>3. ASSUME NEW c \in Capabilities, Invalidate(c)
      PROVE  Closed' /\ UNCHANGED <<bound, deployed>>
  BY <1>3 DEF Invalidate
<1>4. CASE Authorize \/ RefuseDeploy \/ Upload \/ Challenge \/ Submit \/ Cancel
  BY <1>4 DEF Authorize, RefuseDeploy, Upload, Challenge, Submit, Cancel
<1>5. CASE Deploy
  BY <1>5 DEF Deploy, BoundToRunner
<1>6. CASE Rerun
  BY <1>6 DEF Rerun
<1>7. CASE UNCHANGED vars
  BY <1>7 DEF vars
<1> QED
  BY <1>1, <1>2, <1>3, <1>4, <1>5, <1>6, <1>7 DEF Next, Work, Ended

\* Only a workflow that is not closed deploys, and it is closed by that.
LEMMA OnceStep ==
  ASSUME IInv, [Next]_vars
  PROVE  Once'
<1> USE DEF IInv, Types, Once, OneDeployment
<1>1. CASE Closed
  BY <1>1, ClosedStep
<1>2. CASE ~Closed
  <2>1. deployed = {} /\ journal = NoJournal
    BY <1>2
  <2>2. CASE Deploy
    <3>1. Closed'
      BY <2>2 DEF Deploy, BoundToRunner, Finish, Closed, Binding, api
    <3> QED
      BY <2>1, <2>2, <3>1 DEF Deploy
  <2>3. CASE RefuseDeploy
    <3>1. bound # NoAttempt /\ bound <= attempt
      BY <2>3 DEF RefuseDeploy, Binding
    <3>2. Closed'
      BY <2>3, <3>1 DEF RefuseDeploy, Finish, Closed, api
    <3> QED
      BY <2>1, <2>3, <3>2 DEF RefuseDeploy
  <2>4. CASE ~Deploy /\ ~RefuseDeploy
    <3>1. UNCHANGED deployed /\ (journal' = journal \/ journal' = NoJournal)
      BY <2>4 DEF Next, Work, Send, GiveUp, Resend, Lose, AnswerIntent, AnswerChallenge,
              AnswerSubmission, Invalidate, Authorize, Upload, Challenge, Submit, Cancel,
              Rerun, Ended, vars, jobs, progress
    <3> QED
      BY <2>1, <3>1
  <2> QED
    BY <2>2, <2>3, <2>4
<1> QED
  BY <1>1, <1>2

-----------------------------------------------------------------------------
(* The story *)

\* A document that tells what happened goes on doing so.
LEMMA TruthsStep ==
  ASSUME IInv, [Next]_vars
  PROVE  Truths \subseteq Truths'
<1>1. deployed \subseteq deployed'
  BY DEF Next, Work, Send, GiveUp, Resend, Lose, AnswerIntent, AnswerChallenge,
         AnswerSubmission, Invalidate, Authorize, RefuseDeploy, Deploy, Upload,
         Challenge, Submit, Cancel, Rerun, Ended, vars
<1> QED
  BY <1>1, ClosedStep DEF Truths

\* The journal is the kernel's, or of a deploy job that never reached it.
LEMMA JournalStep ==
  ASSUME IInv, [Next]_vars
  PROVE  /\ journal'.kind = "kernel" => \E run \in deployed' : run.outcome = journal'
         /\ journal'.kind = "failure" /\ deployed' # {} => bound' < attempt'
<1> USE DEF IInv, Types, Story
<1>1. CASE Deploy
  <2>1. PICK outcome \in Outcomes :
            /\ deployed' = deployed \cup {[by |-> attempt, outcome |-> outcome]}
            /\ journal' \in {outcome, NoJournal}
    BY <1>1 DEF Deploy, Left
  <2>2. \E run \in deployed' : run.outcome = outcome
    <3>1. /\ [by |-> attempt, outcome |-> outcome] \in deployed'
          /\ [by |-> attempt, outcome |-> outcome].outcome = outcome
      BY <2>1
    <3> QED
      BY <3>1
  <2> QED
    BY <2>1, <2>2, Journals
<1>2. CASE RefuseDeploy
  <2>1. deployed # {} => bound < attempt
    BY <1>2 DEF Once, Closed, RefuseDeploy
  <2> QED
    BY <1>2, <2>1, Journals DEF RefuseDeploy, api
<1>3. CASE ~Deploy /\ ~RefuseDeploy
  <2>1. UNCHANGED deployed /\ (journal' = journal \/ journal' = NoJournal)
    BY <1>3 DEF Next, Work, Send, GiveUp, Resend, Lose, AnswerIntent, AnswerChallenge,
            AnswerSubmission, Invalidate, Authorize, Upload, Challenge, Submit, Cancel,
            Rerun, Ended, vars, jobs, progress
  <2>2. attempt' \in Nat /\ attempt' >= attempt /\ attempt \in Nat
    BY <1>3 DEF Next, Work, Send, GiveUp, Resend, Lose, AnswerIntent, AnswerChallenge,
            AnswerSubmission, Invalidate, Authorize, Upload, Challenge, Submit, Cancel,
            Rerun, Ended, vars, jobs, progress, Attempts
  <2>3. journal' # NoJournal => UNCHANGED bound
    BY <2>1, ClosedStep DEF Once
  <2> QED
    BY <2>1, <2>2, <2>3, Journals DEF Attempts, NoAttempt
<1> QED
  BY <1>1, <1>2, <1>3

\* What is submitted tells what happened: the attempt that submits is the bound
\* one, past its deploy job.
LEMMA StoryStep ==
  ASSUME IInv, [Next]_vars
  PROVE  Story'
<1> USE DEF IInv, Types
<1>1. \A request \in network : request.job = "submitting" => request.document \in Truths'
  BY TruthsStep DEF Story
<1>2. \A i \in DOMAIN recorded : recorded[i] \in Truths'
  BY TruthsStep DEF Story
<1>3. CASE Send
  <2>1. network' = network \cup {Request} /\ UNCHANGED recorded
    BY <1>3 DEF Send, api
  <2>2. job = "submitting" => journal \in Truths
    BY <1>3 DEF Send, MaySend, BoundToRunner, Truths, Story, Binding, Closed, Attempts,
                NoAttempt
  <2>3. PICK request : request = Request
    OBVIOUS
  <2>4. request.job = "submitting" => request.document \in Truths'
    BY <2>2, <2>3, TruthsStep DEF Request
  <2> QED
    BY <1>1, <1>2, <2>1, <2>3, <2>4, JournalStep DEF Story
<1>4. ASSUME NEW request \in network, AnswerSubmission(request)
      PROVE  Story'
  <2>1. \/ UNCHANGED recorded
        \/ recorded' = Append(recorded, request.document)
    BY <1>4 DEF AnswerSubmission
  <2>2. \A i \in DOMAIN recorded' : \/ i \in DOMAIN recorded /\ recorded'[i] = recorded[i]
                                    \/ recorded'[i] = request.document
    BY <2>1 DEF Requests
  <2>3. network' \subseteq network /\ request.job = "submitting"
    BY <1>4 DEF AnswerSubmission, Answer
  <2> QED
    BY <1>1, <1>2, <2>2, <2>3, JournalStep DEF Story
<1>5. CASE ~Send /\ ~\E request \in network : AnswerSubmission(request)
  <2>1. UNCHANGED recorded /\ network' \subseteq network
    BY <1>5 DEF Next, Work, GiveUp, Resend, Lose, AnswerIntent, AnswerChallenge, Answer,
            Invalidate, Authorize, RefuseDeploy, Deploy, Upload, Challenge, Submit,
            Cancel, Rerun, Ended, vars, api, jobs
  <2> QED
    BY <1>1, <1>2, <2>1, JournalStep DEF Story
<1> QED
  BY <1>3, <1>4, <1>5

-----------------------------------------------------------------------------
(* The capability and the results *)

\* A new capability supersedes the active one, a consumed one is not active,
\* and none is issued once a submission is recorded.
LEMMA CapabilityStep ==
  ASSUME IInv, [Next]_vars
  PROVE  Capability'
<1> USE DEF IInv, Types, Capability, jobs, progress, api, call, Final, Finish, NewCall,
            Exchanges, NoCapability
<1>1. CASE Send
  <2>1. network' = network \cup {Request} /\ UNCHANGED <<recorded, status, capability, job>>
        /\ reply' = "awaited"
    BY <1>1 DEF Send
  <2>2. Request.job = "submitting" => Request.capability # NoCapability
    BY <1>1 DEF Send, Request
  <2> QED
    BY <2>1, <2>2
<1>2. CASE GiveUp \/ Resend
  BY <1>2 DEF GiveUp, Resend
<1>3. ASSUME NEW request \in network, Lose(request) \/ AnswerIntent(request)
      PROVE  Capability'
  BY <1>3 DEF Lose, AnswerIntent, Answer
<1>4. ASSUME NEW request \in network, AnswerChallenge(request)
      PROVE  Capability'
  <2>1. network' \subseteq network /\ UNCHANGED <<recorded, job>>
        /\ (reply' = reply \/ Waiting(request))
    BY <1>4 DEF AnswerChallenge, Answer
  <2>2. CASE recorded # <<>> \/ generation = CapabilityLimit
    <3>1. /\ UNCHANGED <<status, capability>>
          /\ reply' = "capability" => reply = "capability"
      BY <1>4, <2>2 DEF AnswerChallenge, Answer
    <3> QED
      BY <2>1, <3>1
  <2>3. CASE recorded = <<>> /\ generation # CapabilityLimit
    <3>1. /\ generation + 1 \in Capabilities
          /\ status' = [c \in Capabilities |->
                IF c = generation + 1 THEN "active"
                ELSE IF status[c] = "active" THEN "superseded" ELSE status[c]]
      BY <1>4, <2>3, ReportingAssumption DEF AnswerChallenge, Capabilities
    <3>2. \A c, d \in Capabilities : status'[c] = "active" /\ status'[d] = "active" => c = d
      BY <3>1
    <3>3. CASE Waiting(request)
      <4>1. capability' = generation + 1 /\ generation + 1 # NoCapability
        BY <1>4, <2>3, <3>3 DEF AnswerChallenge
      <4> QED
        BY <2>1, <2>3, <3>2, <4>1
    <3>4. CASE ~Waiting(request)
      <4>1. capability' = capability
        BY <1>4, <2>3, <3>4 DEF AnswerChallenge
      <4> QED
        BY <2>1, <2>3, <3>2, <3>4, <4>1
    <3> QED
      BY <3>3, <3>4
  <2> QED
    BY <2>2, <2>3
<1>5. ASSUME NEW request \in network, AnswerSubmission(request)
      PROVE  Capability'
  <2>1. /\ request.capability \in Capabilities
        /\ request.document \in Documents
        /\ request.job = "submitting"
    BY <1>5 DEF AnswerSubmission, Requests
  <2>2. /\ network' \subseteq network /\ UNCHANGED <<capability, job>>
        /\ reply' = "capability" => reply = "capability"
    BY <1>5 DEF AnswerSubmission, Answer
  <2>3. CASE status[request.capability] # "active"
    BY <1>5, <2>2, <2>3 DEF AnswerSubmission
  <2>4. CASE status[request.capability] = "active"
    <3>1. recorded = <<>>
      BY <2>1, <2>4
    <3>2. \A c \in Capabilities : status'[c] # "active"
      BY <1>5, <2>1, <2>4 DEF AnswerSubmission
    <3>3. Len(Append(recorded, request.document)) = 1 /\ Len(recorded) = 0
      BY <2>1, <3>1, AppendProperties, EmptySeq
    <3>4. recorded' = recorded \/ recorded' = Append(recorded, request.document)
      BY <1>5 DEF AnswerSubmission
    <3>5. Len(recorded') \in {0, 1}
      BY <3>3, <3>4, Zenon
    <3> QED
      BY <2>2, <3>2, <3>5
  <2> QED
    BY <2>3, <2>4
<1>6. ASSUME NEW c \in Capabilities, Invalidate(c)
      PROVE  Capability'
  BY <1>6 DEF Invalidate
<1>7. CASE Authorize \/ RefuseDeploy \/ Upload \/ Submit \/ Cancel \/ Rerun
  BY <1>7 DEF Authorize, RefuseDeploy, Upload, Submit, Cancel, Rerun
<1>8. CASE Deploy
  BY <1>8 DEF Deploy
<1>9. CASE Challenge
  BY <1>9 DEF Challenge
<1>10. CASE UNCHANGED vars
  BY <1>10 DEF vars
<1> QED
  BY <1>1, <1>2, <1>3, <1>4, <1>5, <1>6, <1>7, <1>8, <1>9, <1>10 DEF Next, Work, Ended

\* A green report job has seen a record, a green deploy job a verified run.
LEMMA ResultsStep ==
  ASSUME IInv, [Next]_vars
  PROVE  Results'
<1> USE DEF IInv, Types, Results, jobs, progress, api, call, Final, Finish, NewCall,
            Exchanges, JobNames
<1>1. CASE Send \/ GiveUp \/ Resend
  BY <1>1 DEF Send, GiveUp, Resend
<1>2. ASSUME NEW request \in network,
             Lose(request) \/ AnswerIntent(request) \/ AnswerChallenge(request)
      PROVE  Results'
  BY <1>2 DEF Lose, AnswerIntent, AnswerChallenge, Answer
<1>3. ASSUME NEW request \in network, AnswerSubmission(request)
      PROVE  Results'
  <2>1. Append(recorded, request.document) # <<>>
    BY DEF Requests
  <2> QED
    BY <1>3, <2>1 DEF AnswerSubmission, Answer
<1>4. ASSUME NEW c \in Capabilities, Invalidate(c)
      PROVE  Results'
  BY <1>4 DEF Invalidate
<1>5. CASE Authorize \/ RefuseDeploy \/ Upload \/ Cancel \/ Rerun
  BY <1>5 DEF Authorize, RefuseDeploy, Upload, Cancel, Rerun
<1>6. CASE Deploy
  <2>1. PICK outcome \in Outcomes :
            /\ deployed' = deployed \cup {[by |-> attempt, outcome |-> outcome]}
            /\ \E left \in {outcome, NoJournal} :
                  result' = [result EXCEPT !["deploy"] =
                                IF left.verified THEN "success" ELSE "failure"]
    BY <1>6 DEF Deploy, Left
  <2>2. result'["deploy"] = "success" => outcome.verified
    BY <2>1, Journals
  <2>3. /\ [by |-> attempt, outcome |-> outcome] \in deployed'
        /\ [by |-> attempt, outcome |-> outcome].outcome = outcome
    BY <2>1
  <2>4. result'["deploy"] = "success" => \E run \in deployed' : run.outcome.verified
    BY <2>2, <2>3
  <2> QED
    BY <1>6, <2>1, <2>4 DEF Deploy
<1>7. CASE Challenge \/ Submit
  BY <1>7 DEF Challenge, Submit, Recorded
<1>8. CASE UNCHANGED vars
  BY <1>8 DEF vars
<1> QED
  BY <1>1, <1>2, <1>3, <1>4, <1>5, <1>6, <1>7, <1>8 DEF Next, Work, Ended

-----------------------------------------------------------------------------
(* The theorems *)

\* The invariant is inductive.
LEMMA IInvStep ==
  ASSUME IInv, [Next]_vars
  PROVE  IInv'
<1>1. Types'
  <2>1. CASE UNCHANGED vars
    BY <2>1 DEF IInv, Types, vars, jobs, progress, call, api
  <2> QED
    BY <2>1, TypesCall, TypesApi, TypesJobs DEF IInv, Next, Work, Ended
<1> QED
  BY <1>1, BindingStep, OnceStep, StoryStep, CapabilityStep, ResultsStep DEF IInv

\* However often the workflow is re-run, one intent lets the kernel run once
\* (bindAuthorizedIntent compares the run attempt; the API binds one attempt).
THEOREM OneDeploymentHolds == Spec => []OneDeployment
<1>1. Init => IInv
  BY IInvInit
<1>2. IInv /\ [Next]_vars => IInv'
  BY IInvStep
<1>3. IInv => OneDeployment
  BY DEF IInv, Once
<1> QED
  BY <1>1, <1>2, <1>3, PTL DEF Spec

\* A recorded submission agrees with what was done to the destination, and
\* goes on doing so (the journal is written once, and sent by its own attempt).
THEOREM ReportTellsWhatHappenedHolds == Spec => []ReportTellsWhatHappened
<1>1. Init => IInv
  BY IInvInit
<1>2. IInv /\ [Next]_vars => IInv'
  BY IInvStep
<1>3. IInv => ReportTellsWhatHappened
  BY DEF IInv, Story, Truths, ReportTellsWhatHappened
<1> QED
  BY <1>1, <1>2, <1>3, PTL DEF Spec

\* A workflow without a red job has reported the deployment it made, once, as
\* the verified activation it was (report.mjs fails on all but the 202).
THEOREM GreenIsReportedHolds == Spec => []GreenIsReported
<1>1. Init => IInv
  BY IInvInit
<1>2. IInv /\ [Next]_vars => IInv'
  BY IInvStep
<1>3. IInv => GreenIsReported
  <2> SUFFICES ASSUME IInv, \A name \in JobNames : result[name] = "success"
               PROVE  /\ Len(recorded) = 1
                      /\ \E run \in deployed : run.outcome.verified
                      /\ recorded[1].kind # "failure"
    BY DEF GreenIsReported
  <2>1. recorded # <<>> /\ \E run \in deployed : run.outcome.verified
    BY DEF IInv, Results, JobNames
  <2>2. Len(recorded) \in Nat \ {0}
    BY <2>1, EmptySeq DEF IInv, Types
  <2>3. Len(recorded) \in {0, 1}
    BY DEF IInv, Capability
  <2>4. Len(recorded) = 1
    BY <2>2, <2>3, Zenon
  <2>5. recorded[1] \in Truths
    BY <2>4 DEF IInv, Types, Story
  <2>6. recorded[1].kind # "failure"
    BY <2>1, <2>5 DEF Truths
  <2> QED
    BY <2>1, <2>4, <2>6
<1> QED
  BY <1>1, <1>2, <1>3, PTL DEF Spec

=============================================================================
