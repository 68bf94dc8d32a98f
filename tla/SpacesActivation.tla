-------------------------- MODULE SpacesActivation --------------------------
(***************************************************************************)
(* The DigitalOcean Spaces adapter under a kernel run: a private staging   *)
(* bucket, and a served bucket that an activation replaces object by       *)
(* object with the generation marker, the activation pointer, written last *)
(* under a conditional guard the provider may ignore. Every provider call  *)
(* is a step of its own; between two of them another run may act, a call   *)
(* may throw and the runner may be lost. The credential-free read of the   *)
(* marker over the website origin can fail, and then says "nothing served" *)
(* with a finding.                                                         *)
(*                                                                         *)
(* The bytes of an object are an abstract value, large or not: a large     *)
(* object goes up in parts. The paths of an artifact are legal.            *)
(*                                                                         *)
(* Source: packages/adapter-do-spaces/src/index.js and staging.js, in the   *)
(* order of calls of scripts/workflow/kernel-run.mjs.                      *)
(***************************************************************************)
EXTENDS GenerationFence, Naturals

CONSTANTS
    Runs,
    Objects,        \* object keys of the artifacts, the marker's not included
    Bytes,          \* contents of objects
    LargeBytes,     \* those above MAXIMUM_SINGLE_PART_BYTES
    Parts,          \* number of parts a large object is cut into
    NoObject,       \* the key is not in the bucket
    FilesOf,        \* the artifact of each generation
    GenerationOf,   \* generationId of each run
    Expected,       \* fence of each run, from its frozen intent
    Marker,         \* GENERATION_MARKER_KEY
    Honoured,       \* answers the provider may give to "is the guard honoured"
    Flaky,          \* the website origin may fail
    Exclusive       \* the runs of a destination come one after another

Contents == Bytes \cup {NoObject}
Files == [Objects -> Contents]
NoFiles == [o \in Objects |-> NoObject]

ASSUME SpacesAssumption ==
    /\ FilesOf \in [Generations -> Files]
    /\ GenerationOf \in [Runs -> Generations]
    /\ Expected \in [Runs -> Fences]
    /\ NoObject \notin Bytes /\ Marker \notin Objects
    /\ LargeBytes \subseteq Bytes /\ Parts \in Nat \ {0, 1}
    /\ Honoured \subseteq BOOLEAN /\ Honoured # {}
    /\ Flaky \in BOOLEAN /\ Exclusive \in BOOLEAN

VARIABLES
    root,        \* objects of the served bucket
    pointer,     \* generation the marker in the served bucket names
    staged,      \* keys under the private prefix of each run
    open,        \* uploads of each run that the provider keeps open
    upload,      \* the upload each run is in
    pc,          \* the next provider call of each run
    etag,        \* what the HEAD said of the marker
    todo,        \* keys the run's present loop has yet to write or read
    superseded,  \* served keys the activation has yet to delete
    seen,        \* what observe read of each key
    clean,       \* observe has no finding so far
    decision,    \* decision of activate
    changed,     \* destinationChanged of the decision
    verified,    \* verdict of observe
    touched,     \* history: the run wrote to or deleted from the served bucket
    exact,       \* history: the served bucket was the run's when observe listed it
    restored     \* history: another run wrote an object the run was reading,
                 \* with the very bytes that the run expects

bucket == <<root, pointer>>
uploads == <<open, upload>>
writes == <<touched, restored>>
answers == <<decision, changed>>
observation == <<seen, clean, verified, exact>>
vars == <<bucket, staged, pc, etag, todo, superseded, answers, observation,
          writes, uploads>>

Over == {"done", "failed", "refused"}
Activating == {"activating", "heading", "listing", "putting", "deleting",
               "pointing", "confirming"}
Observing == {"observing", "enumerating", "fetching"}
Phases == Over \cup Activating \cup Observing
          \cup {"inspecting", "preflighting", "staging", "reinspecting",
                "aborting", "cleaning", "unstaging"}

Artifact(r) == FilesOf[GenerationOf[r]]
Present(files) == {o \in Objects : files[o] # NoObject}
FilesFor(g) == IF g = Nothing THEN NoFiles ELSE FilesOf[g]
Goto(r, phase) == pc' = [pc EXCEPT ![r] = phase]
Set(f, r, value) == [f EXCEPT ![r] = value]
IsLarge(r, o) == o # Marker /\ Artifact(r)[o] \in LargeBytes
Touch(r) == touched' = Set(touched, r, TRUE)

\* r writes object o: its history, and that of the runs which are reading.
Wrote(r, o) ==
    /\ Touch(r)
    /\ restored' = [q \in Runs |->
          \/ restored[q]
          \/ q # r /\ pc[q] = "fetching" /\ Artifact(q)[o] = Artifact(r)[o]]

\* putObject and uploadMultipart write to the bucket of the stage they serve.
BucketOf(r) == IF pc[r] = "staging" THEN "staging" ELSE "served"
NoUpload == [bucket |-> "none", key |-> Marker, parts |-> 0]
CoordinateOf(u) == <<u.bucket, u.key>>

\* What readServedMarker may answer.
MarkerReads ==
    {[generation |-> pointer, finding |-> FALSE]}
        \cup (IF Flaky THEN {[generation |-> Nothing, finding |-> TRUE]} ELSE {})

Init ==
    /\ pointer \in Served
    /\ root = FilesFor(pointer)
    /\ staged = [r \in Runs |-> {}]
    /\ open = [r \in Runs |-> {}]
    /\ upload = [r \in Runs |-> NoUpload]
    /\ pc = [r \in Runs |-> "inspecting"]
    /\ etag = [r \in Runs |-> Nothing]
    /\ todo = [r \in Runs |-> {}]
    /\ superseded = [r \in Runs |-> {}]
    /\ seen = [r \in Runs |-> NoFiles]
    /\ clean = [r \in Runs |-> FALSE]
    /\ decision = [r \in Runs |-> "none"]
    /\ changed = [r \in Runs |-> "unsaid"]
    /\ verified = [r \in Runs |-> FALSE]
    /\ touched = [r \in Runs |-> FALSE]
    /\ exact = [r \in Runs |-> FALSE]
    /\ restored = [r \in Runs |-> FALSE]

-----------------------------------------------------------------------------
(* Inspect, preflight and stage *)

\* The kernel takes the generation of the answer and none of its findings: a
\* marker that could not be read is a destination that serves nothing.
Inspect(r) ==
    /\ pc[r] \in {"inspecting", "reinspecting"}
    /\ Exclusive /\ pc[r] = "inspecting" =>
           \A q \in Runs \ {r} : pc[q] \in Over \cup {"inspecting"}
    /\ \E read \in MarkerReads :
          Goto(r, IF FenceDisagrees(Expected[r], read.generation) THEN "refused"
                  ELSE IF pc[r] = "inspecting" THEN "preflighting"
                  ELSE "activating")
    /\ UNCHANGED <<bucket, staged, etag, todo, superseded, answers,
                   observation, writes, uploads>>

\* Preflight refuses a marker it cannot read.
Preflight(r) ==
    /\ pc[r] = "preflighting"
    /\ \E read \in MarkerReads :
          Goto(r, IF read.finding THEN "refused" ELSE "staging")
    /\ todo' = Set(todo, r, Present(Artifact(r)) \cup {Marker})
    /\ UNCHANGED <<bucket, staged, etag, superseded, answers, observation,
                   writes, uploads>>

\* The files and then the marker, under the private prefix of the run.
StageObject(r) ==
    /\ pc[r] = "staging" /\ upload[r] = NoUpload
    /\ \E o \in todo[r] :
          /\ ~IsLarge(r, o)
          /\ o = Marker => todo[r] = {Marker}
          /\ staged' = Set(staged, r, staged[r] \cup {o})
          /\ todo' = Set(todo, r, todo[r] \ {o})
    /\ Goto(r, IF todo'[r] = {} THEN "reinspecting" ELSE "staging")
    /\ UNCHANGED <<bucket, etag, superseded, answers, observation, writes, uploads>>

-----------------------------------------------------------------------------
(* Multipart uploads: create, part after part, complete; an error after the*)
(* create aborts the upload and then throws.                               *)

others == <<pointer, etag, superseded, answers, observation>>

\* An answer that is lost, or has no UploadId, throws before there is anything
\* to abort.
CreateUpload(r) ==
    /\ pc[r] \in {"staging", "putting"} /\ upload[r] = NoUpload
    /\ \E o \in todo[r] :
          /\ IsLarge(r, o)
          /\ open' = Set(open, r, open[r] \cup {<<BucketOf(r), o>>})
          /\ \/ /\ upload' = Set(upload, r, [bucket |-> BucketOf(r), key |-> o,
                                           parts |-> 0])
                /\ UNCHANGED pc
             \/ Goto(r, "failed") /\ UNCHANGED upload
    /\ UNCHANGED <<others, root, staged, todo, writes>>

UploadPart(r) ==
    /\ pc[r] \in {"staging", "putting"}
    /\ upload[r] # NoUpload /\ upload[r].parts < Parts
    /\ \/ upload' = [upload EXCEPT ![r].parts = @ + 1] /\ UNCHANGED pc
       \/ Goto(r, "aborting") /\ UNCHANGED upload
    /\ UNCHANGED <<others, root, staged, todo, writes, open>>

\* The provider makes the object of its parts.
Assemble(r) ==
    LET u == upload[r]
    IN  /\ open' = Set(open, r, open[r] \ {CoordinateOf(u)})
        /\ IF u.bucket = "staging"
           THEN /\ staged' = Set(staged, r, staged[r] \cup {u.key})
                /\ UNCHANGED <<root, writes>>
           ELSE /\ root' = Set(root, u.key, Artifact(r)[u.key])
                /\ Wrote(r, u.key)
                /\ UNCHANGED staged

\* The completion is answered; or it is lost, or its answer is.
CompleteUpload(r) ==
    /\ pc[r] \in {"staging", "putting"} /\ upload[r].parts = Parts
    /\ \/ /\ Assemble(r)
          /\ upload' = Set(upload, r, NoUpload)
          /\ todo' = Set(todo, r, todo[r] \ {upload[r].key})
          /\ UNCHANGED pc
       \/ /\ Assemble(r) \/ UNCHANGED <<open, root, staged, writes>>
          /\ Goto(r, "aborting")
          /\ UNCHANGED <<upload, todo>>
    /\ UNCHANGED others

\* That the abort itself fails is ignored.
AbortUpload(r) ==
    /\ pc[r] = "aborting"
    /\ \/ /\ open' = Set(open, r, open[r] \ {CoordinateOf(upload[r])})
          /\ upload' = Set(upload, r, NoUpload)
       \/ UNCHANGED uploads
    /\ Goto(r, "failed")
    /\ UNCHANGED <<others, root, staged, todo, writes>>

-----------------------------------------------------------------------------
(* Activate *)

Decide(r, which, said, phase) ==
    /\ decision' = Set(decision, r, which)
    /\ changed' = Set(changed, r, said)
    /\ Goto(r, phase)

\* The run's own generation is an idempotent activation; a stale fence is a
\* refusal that says nothing was changed.
ReadFence(r) ==
    /\ pc[r] = "activating"
    /\ \E read \in MarkerReads :
          IF read.generation = GenerationOf[r]
          THEN Decide(r, "activate", "unsaid", "observing")
          ELSE IF FenceDisagrees(Expected[r], read.generation)
          THEN Decide(r, "reconcile", "no", "observing")
          ELSE Goto(r, "heading") /\ UNCHANGED answers
    /\ UNCHANGED <<bucket, staged, etag, todo, superseded, observation, writes,
                   uploads>>

\* Without a 200 there is no ETag, whatever the reason.
HeadPointer(r) ==
    /\ pc[r] = "heading"
    /\ \E seenTag \in {pointer, Nothing} : etag' = Set(etag, r, seenTag)
    /\ Goto(r, "listing")
    /\ UNCHANGED <<bucket, staged, todo, superseded, answers, observation,
                   writes, uploads>>

\* Mutant: only objects the new artifact has as well are listed.
ListWithoutSuperseded(r) ==
    /\ pc[r] = "listing"
    /\ todo' = Set(todo, r, Present(Artifact(r)))
    /\ Goto(r, "putting")
    /\ UNCHANGED <<bucket, staged, etag, superseded, answers, observation,
                   writes, uploads>>

\* servedBefore, less the files that are about to be written.
ListServed(r) ==
    /\ pc[r] = "listing"
    /\ todo' = Set(todo, r, Present(Artifact(r)))
    /\ superseded' = Set(superseded, r, Present(root) \ Present(Artifact(r)))
    /\ Goto(r, "putting")
    /\ UNCHANGED <<bucket, staged, etag, answers, observation, writes, uploads>>

PutObject(r) ==
    /\ pc[r] = "putting" /\ upload[r] = NoUpload
    /\ IF todo[r] = {}
       THEN Goto(r, "deleting") /\ UNCHANGED <<root, todo, writes>>
       ELSE /\ \E o \in todo[r] :
                  /\ ~IsLarge(r, o)
                  /\ root' = Set(root, o, Artifact(r)[o])
                  /\ todo' = Set(todo, r, todo[r] \ {o})
                  /\ Wrote(r, o)
            /\ UNCHANGED pc
    /\ UNCHANGED <<pointer, staged, etag, superseded, answers, observation, uploads>>

DeleteObject(r) ==
    /\ pc[r] = "deleting"
    /\ IF superseded[r] = {}
       THEN Goto(r, "pointing") /\ UNCHANGED <<root, superseded, writes>>
       ELSE /\ \E o \in superseded[r] :
                  /\ root' = Set(root, o, NoObject)
                  /\ superseded' = Set(superseded, r, superseded[r] \ {o})
            /\ Touch(r)
            /\ UNCHANGED <<pc, restored>>
    /\ UNCHANGED <<pointer, staged, etag, todo, answers, observation, uploads>>

\* If-Match with the ETag, If-None-Match: * without one.
GuardHolds(r) == pointer = etag[r]

\* Mutant: the lost race is reported as leaving the destination unchanged.
PutPointerDenied(r) ==
    /\ pc[r] = "pointing"
    /\ \E honoured \in Honoured :
          IF honoured /\ ~GuardHolds(r)
          THEN /\ Decide(r, "reconcile", "no", "observing")
               /\ UNCHANGED <<pointer, writes>>
          ELSE /\ pointer' = GenerationOf[r] /\ Touch(r) /\ UNCHANGED restored
               /\ Goto(r, "confirming") /\ UNCHANGED answers
    /\ UNCHANGED <<root, staged, etag, todo, superseded, observation, uploads>>

\* The pointer goes last. 412: another run moved it, and this run's objects
\* stay where they are.
PutPointer(r) ==
    /\ pc[r] = "pointing"
    /\ \E honoured \in Honoured :
          IF honoured /\ ~GuardHolds(r)
          THEN /\ Decide(r, "reconcile", "yes", "observing")
               /\ UNCHANGED <<pointer, writes>>
          ELSE /\ pointer' = GenerationOf[r] /\ Touch(r) /\ UNCHANGED restored
               /\ Goto(r, "confirming") /\ UNCHANGED answers
    /\ UNCHANGED <<root, staged, etag, todo, superseded, observation, uploads>>

\* Anything but the run's own marker throws SPACES_ACTIVATION_UNCONFIRMED.
Confirm(r) ==
    /\ pc[r] = "confirming"
    /\ \E read \in MarkerReads :
          IF read.generation = GenerationOf[r]
          THEN Decide(r, "activate", "yes", "observing")
          ELSE Goto(r, "failed") /\ UNCHANGED answers
    /\ UNCHANGED <<bucket, staged, etag, todo, superseded, observation, writes,
                   uploads>>

-----------------------------------------------------------------------------
(* Observe and clean up *)

ObserveMarker(r) ==
    /\ pc[r] = "observing"
    /\ \E read \in MarkerReads :
          clean' = Set(clean, r, ~read.finding
                                 /\ read.generation = GenerationOf[r])
    /\ Goto(r, "enumerating")
    /\ UNCHANGED <<bucket, staged, etag, todo, superseded, answers, seen,
                   verified, exact, writes, uploads>>

\* The HEAD of the marker and the enumeration that follows it.
ObserveList(r) ==
    /\ pc[r] = "enumerating"
    /\ clean' = Set(clean, r, clean[r] /\ pointer # Nothing)
    /\ todo' = Set(todo, r, Present(root))
    /\ exact' = Set(exact, r, root = Artifact(r))
    /\ Goto(r, "fetching")
    /\ UNCHANGED <<bucket, staged, etag, superseded, answers, seen, verified,
                   writes, uploads>>

\* An object that is gone, or whose read fails, is a finding.
Fetch(r) ==
    /\ pc[r] = "fetching"
    /\ \E o \in todo[r] : \E answer \in
             {root[o]} \cup (IF Flaky THEN {NoObject} ELSE {}) :
          /\ seen' = Set(seen, r, Set(seen[r], o, answer))
          /\ clean' = Set(clean, r, clean[r] /\ answer # NoObject)
          /\ todo' = Set(todo, r, todo[r] \ {o})
    /\ UNCHANGED <<bucket, staged, pc, etag, superseded, answers, verified,
                   exact, writes, uploads>>

\* Mutant: a marker that agrees is enough.
JudgeByMarker(r) ==
    /\ pc[r] = "fetching" /\ todo[r] = {}
    /\ verified' = Set(verified, r, clean[r])
    /\ Goto(r, "cleaning")
    /\ UNCHANGED <<bucket, staged, etag, todo, superseded, answers, seen,
                   clean, exact, writes, uploads>>

\* Every read together must digest to the expected artifact.
Judge(r) ==
    /\ pc[r] = "fetching" /\ todo[r] = {}
    /\ verified' = Set(verified, r, clean[r] /\ seen[r] = Artifact(r))
    /\ Goto(r, "cleaning")
    /\ UNCHANGED <<bucket, staged, etag, todo, superseded, answers, seen,
                   clean, exact, writes, uploads>>

\* The private prefix is listed once, then deleted key by key.
ListStaged(r) ==
    /\ pc[r] = "cleaning"
    /\ todo' = Set(todo, r, staged[r])
    /\ Goto(r, "unstaging")
    /\ UNCHANGED <<bucket, staged, etag, superseded, answers, observation,
                   writes, uploads>>

Unstage(r) ==
    /\ pc[r] = "unstaging"
    /\ \/ todo[r] = {} /\ Goto(r, "done") /\ UNCHANGED <<staged, todo>>
       \/ \E o \in todo[r] :
             /\ staged' = Set(staged, r, staged[r] \ {o})
             /\ todo' = Set(todo, r, todo[r] \ {o})
             /\ UNCHANGED pc
    /\ UNCHANGED <<bucket, etag, superseded, answers, observation, writes, uploads>>

\* A provider call throws, or the runner is lost. In the cleanup a throw is a
\* warning and the run's outcome stands.
Fail(r) ==
    /\ pc[r] \notin Over
    /\ Goto(r, IF pc[r] \in {"cleaning", "unstaging"} THEN "done" ELSE "failed")
    /\ UNCHANGED <<bucket, staged, etag, todo, superseded, answers, observation,
                   writes, uploads>>

Upload(r) ==
    \/ CreateUpload(r) \/ UploadPart(r) \/ CompleteUpload(r) \/ AbortUpload(r)

Activate(r) ==
    \/ ReadFence(r) \/ HeadPointer(r) \/ ListServed(r)
    \/ PutObject(r) \/ DeleteObject(r) \/ PutPointer(r) \/ Confirm(r)

Observe(r) == ObserveMarker(r) \/ ObserveList(r) \/ Fetch(r) \/ Judge(r)

Step(r) ==
    \/ Inspect(r) \/ Preflight(r) \/ StageObject(r)
    \/ Upload(r)
    \/ Activate(r)
    \/ Observe(r)
    \/ ListStaged(r) \/ Unstage(r)

Next == \E r \in Runs : Step(r) \/ Fail(r)

Spec == Init /\ [][Next]_vars

-----------------------------------------------------------------------------
(* Properties *)

TypeOK ==
    /\ root \in Files
    /\ pointer \in Served
    /\ staged \in [Runs -> SUBSET (Objects \cup {Marker})]
    /\ open \in [Runs -> SUBSET ({"staging", "served"} \X Objects)]
    /\ upload \in [Runs -> {NoUpload} \cup [bucket : {"staging", "served"},
                                          key : Objects, parts : 0 .. Parts]]
    /\ pc \in [Runs -> Phases]
    /\ etag \in [Runs -> Served]
    /\ todo \in [Runs -> SUBSET (Objects \cup {Marker})]
    /\ superseded \in [Runs -> SUBSET Objects]
    /\ seen \in [Runs -> Files]
    /\ clean \in [Runs -> BOOLEAN]
    /\ decision \in [Runs -> {"none", "activate", "reconcile"}]
    /\ changed \in [Runs -> {"unsaid", "no", "yes"}]
    /\ verified \in [Runs -> BOOLEAN]
    /\ touched \in [Runs -> BOOLEAN]
    /\ exact \in [Runs -> BOOLEAN]
    /\ restored \in [Runs -> BOOLEAN]

\* A run that says it left the destination unchanged did: neither an object
\* nor the pointer was written or deleted by it, whoever else was at work.
RefusalIsHonest == \A r \in Runs : changed[r] = "no" => ~touched[r]

\* Objects are enumerated and read one by one while others may write; still,
\* what observe verifies was the complete served inventory when it was listed.
\* The exception is that another run put back, during the reads, bytes which a
\* third had replaced: then no moment need have had all of them.
VerifiedWasServed ==
    \A r \in Runs : verified[r] => exact[r] \/ restored[r]

\* The served objects are those of the generation the marker names.
Backed == root = FilesFor(pointer)

\* The run reports an activation that was confirmed by its observation.
Vouches(r) == decision[r] = "activate" /\ verified[r]

\* When no run is at work, a served bucket that is not what its marker says
\* is admitted by the report of a run that wrote to it: a mix left by a crash
\* or by racing runs is never vouched for by every run that made it.
DamageIsReported ==
    /\ \A r \in Runs : pc[r] \in Over
    /\ ~Backed
    => \E r \in Runs : touched[r] /\ ~Vouches(r)

\* Runs that come one after another write the pointer last: it never names a
\* generation whose objects are not all, and alone, served, not even after an
\* earlier run died half way (index.js, the comment on the pointer write).
PointerIsLast == [][pointer' # pointer => Backed']_vars

\* Runs that come one after another and expect a generation change the served
\* bucket only when that generation is the one served, even when the website
\* origin fails to answer.
GenerationFenceHolds ==
    [][\A r \in Runs :
          touched'[r] /\ ~touched[r] /\ Expected[r] # ExpectNothing
              => pointer = Expected[r]]_vars

\* README of the adapter: the sentinel "genuinely refuses to overwrite a
\* destination that already serves a generation".
SentinelRefuses ==
    [][\A r \in Runs :
          touched'[r] /\ ~touched[r] /\ Expected[r] = ExpectNothing
              => pointer = Nothing]_vars

\* uploadMultipart is "aborting the upload rather than leaving an unaccepted
\* one behind on any failure": a run that failed, was not lost in an upload and
\* had its abort answered has none open.
NothingLeftBehind ==
    \A r \in Runs : pc[r] = "failed" /\ upload[r] = NoUpload => open[r] = {}
=============================================================================
