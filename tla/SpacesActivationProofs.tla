----------------------- MODULE SpacesActivationProofs -----------------------
(***************************************************************************)
(* What the Spaces adapter promises, for every number of runs, objects and *)
(* artifacts: its reports are no better than what happened, and runs that  *)
(* come one after another move the pointer last and keep their fences.     *)
(*                                                                         *)
(* A run's step changes its own entries of every variable, and the bucket  *)
(* in one of three ways (BucketStep): not at all, one object, the pointer. *)
(* The invariants of a run are shown to survive those three.               *)
(***************************************************************************)
EXTENDS SpacesActivation, TLAPS

-----------------------------------------------------------------------------
(* Types *)

\* Every artifact is a set of files, and keeps to the objects.
LEMMA ArtifactType ==
  ASSUME NEW r \in Runs
  PROVE  /\ GenerationOf[r] \in Generations
         /\ GenerationOf[r] # Nothing
         /\ Artifact(r) \in Files
         /\ FilesFor(GenerationOf[r]) = Artifact(r)
  BY SpacesAssumption, FenceAssumption DEF Artifact, FilesFor

\* Empty files are files, and what an initial pointer names are files.
LEMMA FilesType ==
  /\ NoFiles \in Files
  /\ \A g \in Served : FilesFor(g) \in Files
  BY SpacesAssumption DEF NoFiles, Files, Contents, FilesFor, Served

\* Files with the content of one object replaced are files; the marker's key
\* is none of theirs.
LEMMA SetFiles ==
  ASSUME NEW files \in Files, NEW o \in Objects \cup {Marker}, NEW c,
         o \in Objects => c \in Contents
  PROVE  Set(files, o, c) \in Files
  BY DEF Files, Set

\* The histories are of truth values.
LEMMA TypeWrote ==
  ASSUME NEW r \in Runs, NEW o, Wrote(r, o),
         touched \in [Runs -> BOOLEAN], restored \in [Runs -> BOOLEAN]
  PROVE  touched' \in [Runs -> BOOLEAN] /\ restored' \in [Runs -> BOOLEAN]
<1>1. \A q \in Runs :
         (\/ restored[q]
          \/ q # r /\ pc[q] = "fetching" /\ Artifact(q)[o] = Artifact(r)[o]) \in BOOLEAN
  OBVIOUS
<1> QED
  BY <1>1 DEF Wrote, Touch, Set

\* The initial values are of their types.
LEMMA TypeInit == Init => TypeOK
  BY FilesType DEF Init, TypeOK, Phases, Over, Activating, Observing, Served

\* The steps before the activation keep the types.
LEMMA TypeBefore ==
  ASSUME TypeOK, NEW r \in Runs, Inspect(r) \/ Preflight(r) \/ StageObject(r)
  PROVE  TypeOK'
<1> USE DEF TypeOK, Goto, Set, Phases, Over, Activating, Observing, bucket,
            answers, observation, uploads, writes
<1>1. CASE Inspect(r)
  BY <1>1 DEF Inspect
<1>2. CASE Preflight(r)
  BY <1>2 DEF Preflight, Present
<1>3. CASE StageObject(r)
  BY <1>3 DEF StageObject
<1> QED
  BY <1>1, <1>2, <1>3

\* So do those of an upload; what it assembles is an object of the artifact.
LEMMA TypeUpload ==
  ASSUME TypeOK, NEW r \in Runs, Upload(r)
  PROVE  TypeOK'
<1> USE SpacesAssumption
    DEF TypeOK, Goto, Set, Phases, Over, Activating, Observing, others, answers,
        observation, uploads, writes
<1>0. /\ Artifact(r) \in Files
      /\ BucketOf(r) \in {"staging", "served"}
      /\ \A u : u \in [bucket : {"staging", "served"}, key : Objects, parts : 0 .. Parts]
                => u.key \in Objects
  BY ArtifactType DEF BucketOf
<1>1. CASE CreateUpload(r)
  BY <1>0, <1>1 DEF CreateUpload, IsLarge, CoordinateOf
<1>2. CASE UploadPart(r)
  <2>1. CASE UNCHANGED upload
    BY <1>2, <2>1 DEF UploadPart
  <2>2. CASE upload' = [upload EXCEPT ![r].parts = @ + 1]
    <3>1. /\ upload[r] # NoUpload
          /\ upload[r].parts \in 0 .. Parts
          /\ upload[r].parts < Parts
          /\ upload[r] \in [bucket : {"staging", "served"}, key : Objects, parts : 0 .. Parts]
      BY <1>2 DEF UploadPart
    <3>2. [upload[r] EXCEPT !.parts = @ + 1]
            \in [bucket : {"staging", "served"}, key : Objects, parts : 0 .. Parts]
      BY <3>1
    <3> QED
      BY <1>2, <2>2, <3>2 DEF UploadPart
  <2> QED
    BY <1>2, <2>1, <2>2 DEF UploadPart
<1>3. CASE CompleteUpload(r)
  <2>1. /\ upload[r] # NoUpload
        /\ upload[r].key \in Objects
    BY <1>3 DEF CompleteUpload, NoUpload
  <2>2. CASE Assemble(r)
    <3>1. [root EXCEPT ![upload[r].key] = Artifact(r)[upload[r].key]] \in Files
      BY <1>0, <2>1 DEF Files
    <3>2. root' \in Files
      BY <2>2, <3>1 DEF Assemble
    <3>3. staged' \in [Runs -> SUBSET (Objects \cup {Marker})]
      BY <2>1, <2>2 DEF Assemble
    <3>4. open' \in [Runs -> SUBSET ({"staging", "served"} \X Objects)]
      BY <2>2 DEF Assemble
    <3>5. touched' \in [Runs -> BOOLEAN] /\ restored' \in [Runs -> BOOLEAN]
      BY <2>2, TypeWrote DEF Assemble
    <3> QED
      BY <1>3, <3>2, <3>3, <3>4, <3>5 DEF CompleteUpload
  <2>3. CASE UNCHANGED <<open, root, staged, writes>>
    BY <1>3, <2>3 DEF CompleteUpload, Assemble
  <2> QED
    BY <1>3, <2>2, <2>3 DEF CompleteUpload
<1>4. CASE AbortUpload(r)
  BY <1>4 DEF AbortUpload
<1> QED
  BY <1>1, <1>2, <1>3, <1>4 DEF Upload

\* So do those of the activation.
LEMMA TypeActivate ==
  ASSUME TypeOK, NEW r \in Runs, Activate(r)
  PROVE  TypeOK'
<1> USE SpacesAssumption
    DEF TypeOK, Goto, Set, Phases, Over, Activating, Observing, bucket, answers,
        observation, uploads, writes
<1>0. Artifact(r) \in Files /\ GenerationOf[r] \in Served
  BY ArtifactType DEF Served
<1>1. CASE ReadFence(r)
  BY <1>1 DEF ReadFence, Decide
<1>2. CASE HeadPointer(r)
  BY <1>2 DEF HeadPointer, Served
<1>3. CASE ListServed(r)
  BY <1>3 DEF ListServed, Present
<1>4. CASE PutObject(r)
  <2>1. CASE todo[r] = {}
    BY <1>4, <2>1 DEF PutObject
  <2>2. CASE todo[r] # {}
    <3>1. PICK o \in todo[r] : /\ root' = [root EXCEPT ![o] = Artifact(r)[o]]
                              /\ todo' = [todo EXCEPT ![r] = @ \ {o}]
                              /\ Wrote(r, o)
      BY <1>4, <2>2 DEF PutObject
    <3>2. root' \in Files
      BY <1>0, <3>1 DEF Files
    <3>3. touched' \in [Runs -> BOOLEAN] /\ restored' \in [Runs -> BOOLEAN]
      BY <3>1, TypeWrote
    <3> QED
      BY <1>4, <2>2, <3>1, <3>2, <3>3 DEF PutObject
  <2> QED
    BY <2>1, <2>2
<1>5. CASE DeleteObject(r)
  <2>1. CASE superseded[r] = {}
    BY <1>5, <2>1 DEF DeleteObject
  <2>2. CASE superseded[r] # {}
    <3>1. PICK o \in superseded[r] :
              /\ root' = [root EXCEPT ![o] = NoObject]
              /\ superseded' = [superseded EXCEPT ![r] = @ \ {o}]
      BY <1>5, <2>2 DEF DeleteObject
    <3>2. root' \in Files
      BY <3>1 DEF Files, Contents
    <3> QED
      BY <1>5, <2>2, <3>1, <3>2 DEF DeleteObject, Touch
  <2> QED
    BY <2>1, <2>2
<1>6. CASE PutPointer(r)
  BY <1>0, <1>6 DEF PutPointer, Decide, Touch
<1>7. CASE Confirm(r)
  BY <1>7 DEF Confirm, Decide
<1> QED
  BY <1>1, <1>2, <1>3, <1>4, <1>5, <1>6, <1>7 DEF Activate

\* So do those of observe, of the cleanup and of a failure.
LEMMA TypeObserve ==
  ASSUME TypeOK, NEW r \in Runs,
         Observe(r) \/ ListStaged(r) \/ Unstage(r) \/ Fail(r)
  PROVE  TypeOK'
<1> USE SpacesAssumption
    DEF TypeOK, Goto, Set, Phases, Over, Activating, Observing, bucket, answers,
        observation, uploads, writes
<1>1. CASE ObserveMarker(r)
  BY <1>1 DEF ObserveMarker
<1>2. CASE ObserveList(r)
  BY <1>2 DEF ObserveList, Present
<1>3. CASE Fetch(r)
  <2>1. PICK o \in todo[r] : \E answer \in {root[o], NoObject} :
            /\ seen' = [seen EXCEPT ![r] = [@ EXCEPT ![o] = answer]]
            /\ clean' = [clean EXCEPT ![r] = @ /\ answer # NoObject]
            /\ todo' = [todo EXCEPT ![r] = @ \ {o}]
    BY <1>3 DEF Fetch
  <2>2. PICK answer \in {root[o], NoObject} :
            seen' = [seen EXCEPT ![r] = [@ EXCEPT ![o] = answer]]
    BY <2>1
  <2>3. o \in Objects => answer \in Contents
    BY <2>2 DEF Files, Contents
  <2>4. [seen[r] EXCEPT ![o] = answer] \in Files
    BY <2>3, SetFiles
  <2>5. seen' \in [Runs -> Files]
    BY <2>2, <2>4
  <2>6. clean' \in [Runs -> BOOLEAN]
    BY <2>1
  <2> QED
    BY <1>3, <2>1, <2>5, <2>6 DEF Fetch
<1>4. CASE Judge(r)
  BY <1>4 DEF Judge
<1>5. CASE ListStaged(r) \/ Unstage(r) \/ Fail(r)
  BY <1>5 DEF ListStaged, Unstage, Fail
<1> QED
  BY <1>1, <1>2, <1>3, <1>4, <1>5 DEF Observe

-----------------------------------------------------------------------------
(* What a step changes *)

\* The entries of a run that only its own steps change.
Own(r) == <<pc[r], etag[r], todo[r], superseded[r], seen[r], clean[r],
            decision[r], changed[r], verified[r], touched[r], exact[r],
            upload[r]>>

\* The run is the kernel's process: it does not see another run's variables.
LEMMA OthersKeep ==
  ASSUME TypeOK, NEW r \in Runs, NEW q \in Runs \ {r}, Step(r) \/ Fail(r)
  PROVE  UNCHANGED Own(q) /\ (restored[q] => restored'[q])
<1> USE DEF TypeOK, Own, Goto, Set, bucket, answers, observation, uploads, writes
<1>1. CASE Inspect(r) \/ Preflight(r) \/ StageObject(r) \/ ListStaged(r)
           \/ Unstage(r) \/ Fail(r)
  BY <1>1 DEF Inspect, Preflight, StageObject, ListStaged, Unstage, Fail
<1>2. CASE Upload(r)
  BY <1>2 DEF Upload, CreateUpload, UploadPart, CompleteUpload, AbortUpload,
              Assemble, Wrote, Touch, others
<1>3. CASE Activate(r)
  BY <1>3 DEF Activate, ReadFence, HeadPointer, ListServed, PutObject,
              DeleteObject, PutPointer, Confirm, Decide, Wrote, Touch
<1>4. CASE Observe(r)
  BY <1>4 DEF Observe, ObserveMarker, ObserveList, Fetch, Judge
<1> QED
  BY <1>1, <1>2, <1>3, <1>4 DEF Step

\* An object of the artifact is written, alone or as the last of its parts.
Puts(r, o) ==
    /\ pc[r] = "putting" /\ pc'[r] \in {"putting", "aborting"}
    /\ root' = Set(root, o, Artifact(r)[o])
    /\ Wrote(r, o)
    /\ UNCHANGED <<pointer, superseded>>
    /\ todo[r] \subseteq todo'[r] \cup {o}

\* A superseded object is deleted.
Deletes(r, o) ==
    /\ pc[r] = "deleting" /\ pc'[r] = "deleting"
    /\ o \in superseded[r] /\ superseded' = Set(superseded, r, superseded[r] \ {o})
    /\ root' = Set(root, o, NoObject)
    /\ Touch(r)
    /\ UNCHANGED <<pointer, restored>>

\* The pointer is written.
Points(r) ==
    /\ pc[r] = "pointing" /\ pc'[r] = "confirming"
    /\ pointer' = GenerationOf[r]
    /\ Touch(r)
    /\ UNCHANGED <<root, restored>>

\* What the loops of a run have to do is about objects, and an upload is into
\* the bucket of the stage that the run is in.
Shape(r) ==
    /\ pc[r] \in {"putting", "fetching"} => todo[r] \subseteq Objects
    /\ pc[r] \in {"staging", "putting"} /\ upload[r] # NoUpload
           => upload[r].bucket = BucketOf(r)
    /\ pc[r] \in {"inspecting", "preflighting", "reinspecting", "activating",
                  "heading", "listing"} => upload[r] = NoUpload

\* A run writes to the served bucket in these three ways only.
LEMMA BucketStep ==
  ASSUME TypeOK, NEW r \in Runs, Shape(r), Step(r) \/ Fail(r)
  PROVE  \/ UNCHANGED <<bucket, writes>>
         \/ \E o \in Objects : Puts(r, o) \/ Deletes(r, o)
         \/ Points(r)
<1> USE DEF TypeOK, Goto, Set, bucket, answers, observation, uploads, writes
<1>1. CASE Inspect(r) \/ Preflight(r) \/ StageObject(r) \/ ListStaged(r)
           \/ Unstage(r) \/ Fail(r) \/ Observe(r)
  BY <1>1 DEF Inspect, Preflight, StageObject, ListStaged, Unstage, Fail,
              Observe, ObserveMarker, ObserveList, Fetch, Judge
<1>2. CASE CreateUpload(r) \/ UploadPart(r) \/ AbortUpload(r)
  BY <1>2 DEF CreateUpload, UploadPart, AbortUpload, others
<1>3. CASE CompleteUpload(r)
  <2>1. upload[r] # NoUpload /\ upload[r].key \in Objects
    BY <1>3, SpacesAssumption DEF CompleteUpload, NoUpload
  <2>2. upload[r].bucket = BucketOf(r)
    BY <1>3, <2>1 DEF CompleteUpload, Shape
  <2>3. CASE pc[r] = "staging"
    BY <1>3, <2>2, <2>3 DEF CompleteUpload, Assemble, BucketOf, others
  <2>4. CASE pc[r] = "putting" /\ ~UNCHANGED <<open, root, staged, writes>>
    <3>1. Assemble(r) /\ upload[r].bucket = "served"
      BY <1>3, <2>2, <2>4 DEF CompleteUpload, BucketOf
    <3> QED
      BY <1>3, <2>1, <2>4, <3>1 DEF CompleteUpload, Assemble, others, Puts
  <2>5. CASE UNCHANGED <<open, root, staged, writes>>
    BY <1>3, <2>5 DEF CompleteUpload, others
  <2> QED
    BY <1>3, <2>3, <2>4, <2>5 DEF CompleteUpload
<1>4. CASE ReadFence(r) \/ HeadPointer(r) \/ ListServed(r) \/ Confirm(r)
  BY <1>4 DEF ReadFence, HeadPointer, ListServed, Confirm, Decide
<1>5. CASE PutObject(r)
  BY <1>5 DEF PutObject, Shape, Puts
<1>6. CASE DeleteObject(r)
  BY <1>6 DEF DeleteObject, Deletes
<1>7. CASE PutPointer(r)
  BY <1>7 DEF PutPointer, Points, Decide
<1> QED
  BY <1>1, <1>2, <1>3, <1>4, <1>5, <1>6, <1>7 DEF Step, Upload, Activate

-----------------------------------------------------------------------------
(* A run on its own *)

Before == {"inspecting", "preflighting", "staging", "reinspecting",
           "activating", "heading", "listing"}
After == {"cleaning", "unstaging"} \cup Over

\* Until its first write a run has written nothing, and it says "unchanged"
\* only where it has not.
Honest(r) ==
    /\ pc[r] \in Before => ~touched[r]
    /\ changed[r] = "no" => ~touched[r] /\ pc[r] \in Observing \cup After

\* Nothing is verified, or read, before it was observed.
Unjudged(r) ==
    /\ pc[r] \notin After => ~verified[r]
    /\ pc[r] \notin {"fetching"} \cup After => seen[r] = NoFiles

\* What a run's own steps keep, whatever the others do.
RunInv(r) == Shape(r) /\ Honest(r) /\ Unjudged(r)

\* A fresh run has done and said nothing.
LEMMA RunInit == Init => \A r \in Runs : RunInv(r)
  BY DEF Init, RunInv, Shape, Honest, Unjudged, Before, After, Over, Observing

\* A step of another run leaves all of it as it was.
LEMMA RunOther ==
  ASSUME NEW q \in Runs, RunInv(q), UNCHANGED Own(q)
  PROVE  RunInv(q)'
  BY DEF RunInv, Shape, Honest, Unjudged, Own, BucketOf

\* The loops and the uploads of a run keep their shape.
LEMMA ShapeStep ==
  ASSUME TypeOK, NEW r \in Runs, RunInv(r), Step(r) \/ Fail(r)
  PROVE  Shape(r)'
<1> USE DEF TypeOK, RunInv, Shape, Goto, Set, bucket, answers, observation,
            uploads, writes, BucketOf
<1>1. CASE Inspect(r) \/ Preflight(r) \/ StageObject(r) \/ ListStaged(r)
           \/ Unstage(r) \/ Fail(r)
  BY <1>1 DEF Inspect, Preflight, StageObject, ListStaged, Unstage, Fail
<1>2. CASE Upload(r)
  BY <1>2 DEF Upload, CreateUpload, UploadPart, CompleteUpload, AbortUpload,
              Assemble, Wrote, Touch, others, NoUpload
<1>3. CASE Activate(r)
  BY <1>3 DEF Activate, ReadFence, HeadPointer, ListServed, PutObject,
              DeleteObject, PutPointer, Confirm, Decide, Wrote, Touch, Present
<1>4. CASE Observe(r)
  BY <1>4 DEF Observe, ObserveMarker, ObserveList, Fetch, Judge, Present
<1> QED
  BY <1>1, <1>2, <1>3, <1>4 DEF Step

\* So do what a run has written and what it says of it.
LEMMA HonestStep ==
  ASSUME TypeOK, NEW r \in Runs, RunInv(r), Step(r) \/ Fail(r)
  PROVE  Honest(r)'
<1> USE DEF TypeOK, RunInv, Honest, Before, After, Over, Observing, Goto, Set,
            bucket, answers, observation, uploads, writes
<1>1. CASE Inspect(r) \/ Preflight(r) \/ StageObject(r) \/ ListStaged(r)
           \/ Unstage(r) \/ Fail(r)
  BY <1>1 DEF Inspect, Preflight, StageObject, ListStaged, Unstage, Fail
<1>2. CASE Upload(r)
  <2>1. pc[r] = "staging" => touched' = touched
    BY <1>2, BucketStep DEF Puts, Deletes, Points
  <2> QED
    BY <1>2, <2>1 DEF Upload, CreateUpload, UploadPart, CompleteUpload, AbortUpload,
              Assemble, Wrote, Touch, others
<1>3. CASE Activate(r)
  BY <1>3 DEF Activate, ReadFence, HeadPointer, ListServed, PutObject,
              DeleteObject, PutPointer, Confirm, Decide, Wrote, Touch
<1>4. CASE Observe(r)
  BY <1>4 DEF Observe, ObserveMarker, ObserveList, Fetch, Judge
<1> QED
  BY <1>1, <1>2, <1>3, <1>4 DEF Step

\* So do its reads and its verdict.
LEMMA UnjudgedStep ==
  ASSUME TypeOK, NEW r \in Runs, RunInv(r), Step(r) \/ Fail(r)
  PROVE  Unjudged(r)'
<1> USE DEF TypeOK, RunInv, Unjudged, After, Over, Goto, Set,
            bucket, answers, observation, uploads, writes
<1>1. CASE Inspect(r) \/ Preflight(r) \/ StageObject(r) \/ ListStaged(r)
           \/ Unstage(r) \/ Fail(r)
  BY <1>1 DEF Inspect, Preflight, StageObject, ListStaged, Unstage, Fail
<1>2. CASE Upload(r)
  BY <1>2 DEF Upload, CreateUpload, UploadPart, CompleteUpload, AbortUpload, others
<1>3. CASE Activate(r)
  BY <1>3 DEF Activate, ReadFence, HeadPointer, ListServed, PutObject,
              DeleteObject, PutPointer, Confirm, Decide
<1>4. CASE Observe(r)
  BY <1>4 DEF Observe, ObserveMarker, ObserveList, Fetch, Judge
<1> QED
  BY <1>1, <1>2, <1>3, <1>4 DEF Step

IInv == TypeOK /\ \A r \in Runs : RunInv(r)

\* The types and each run's own invariant are inductive.
LEMMA IInvStep ==
  ASSUME IInv, [Next]_vars
  PROVE  IInv'
<1>1. CASE UNCHANGED vars
  BY <1>1 DEF IInv, TypeOK, RunInv, Shape, Honest, Unjudged, BucketOf, vars,
              bucket, answers, observation, writes, uploads
<1>2. ASSUME NEW r \in Runs, Step(r) \/ Fail(r)
      PROVE  IInv'
  <2>1. TypeOK'
    BY <1>2, TypeBefore, TypeUpload, TypeActivate, TypeObserve DEF IInv, Step
  <2>2. RunInv(r)'
    BY <1>2, ShapeStep, HonestStep, UnjudgedStep DEF IInv, RunInv
  <2>3. ASSUME NEW q \in Runs \ {r}
        PROVE  RunInv(q)'
    BY <1>2, OthersKeep, RunOther DEF IInv
  <2> QED
    BY <2>1, <2>2, <2>3 DEF IInv
<1> QED
  BY <1>1, <1>2 DEF Next

\* The initial state satisfies them.
LEMMA IInvInit == Init => IInv
  BY TypeInit, RunInit DEF IInv

\* The buckets, the uploads and the answers of every run keep their types.
THEOREM SpacesTypes == Spec => []TypeOK
<1>1. Init => IInv
  BY IInvInit
<1>2. IInv /\ [Next]_vars => IInv'
  BY IInvStep
<1> QED
  BY <1>1, <1>2, PTL DEF Spec, IInv

\* A run that says it left the destination unchanged wrote nothing to it,
\* whoever else was at work (the "no" of ReadFence, and of no other answer).
THEOREM RefusalIsHonestHolds == Spec => []RefusalIsHonest
<1>1. Init => IInv
  BY IInvInit
<1>2. IInv /\ [Next]_vars => IInv'
  BY IInvStep
<1>3. IInv => RefusalIsHonest
  BY DEF IInv, RunInv, Honest, RefusalIsHonest
<1> QED
  BY <1>1, <1>2, <1>3, PTL DEF Spec

-----------------------------------------------------------------------------
(* What observe verifies *)

\* An object for which a bucket that was not the run's will be found out, in
\* the reads that are done or in those to come.
Tells(r, o) ==
    IF o \in todo[r] THEN root[o] # Artifact(r)[o] \/ Artifact(r)[o] = NoObject
    ELSE seen[r][o] # Artifact(r)[o]

\* While a run reads a bucket that was not its own, some object still tells;
\* and what it has verified is what it promises.
Reading(r) ==
    /\ pc[r] = "fetching" /\ clean[r] /\ ~exact[r] /\ ~restored[r]
           => \E o \in Objects : Tells(r, o)
    /\ verified[r] => exact[r] \/ restored[r]

\* Two sets of files that differ do so in an object.
LEMMA FilesDiffer ==
  ASSUME NEW f \in Files, NEW g \in Files, f # g
  PROVE  \E o \in Objects : f[o] # g[o]
  BY DEF Files

\* Another run's write leaves a telling object, or is noted as a restoration.
LEMMA ReadingOther ==
  ASSUME IInv, NEW r \in Runs, NEW q \in Runs \ {r}, Step(r) \/ Fail(r), Reading(q)
  PROVE  Reading(q)'
<1> USE DEF IInv, TypeOK, Reading, Own
<1>0. /\ UNCHANGED Own(q) /\ (restored[q] => restored'[q])
      /\ Artifact(q)' = Artifact(q) /\ Artifact(q) \in Files
  BY OthersKeep, ArtifactType DEF Artifact
<1>1. verified[q]' => exact[q]' \/ restored[q]'
  BY <1>0
<1>2. ASSUME pc[q]' = "fetching", clean[q]', ~exact[q]', ~restored[q]'
      PROVE  \E o \in Objects : Tells(q, o)'
  <2>1. PICK o \in Objects : Tells(q, o)
    BY <1>0, <1>2
  <2>2. CASE root'[o] = root[o]
    BY <1>0, <2>1, <2>2 DEF Tells
  <2>3. CASE root'[o] # root[o]
    <3>1. PICK p \in Objects : Puts(r, p) \/ Deletes(r, p)
      BY <2>3, BucketStep DEF RunInv, Points, bucket
    <3>2. p = o
      BY <2>3, <3>1 DEF Puts, Deletes, Set, Files
    <3>3. CASE Deletes(r, o)
      <4>1. root'[o] = NoObject
        BY <3>3 DEF Deletes, Set, Files
      <4> QED
        BY <1>0, <2>1, <4>1 DEF Tells
    <3>4. CASE Puts(r, o)
      <4>1. root'[o] = Artifact(r)[o]
        BY <3>4 DEF Puts, Set, Files
      <4>2. Artifact(q)[o] # Artifact(r)[o]
        BY <1>0, <1>2, <3>4 DEF Puts, Wrote
      <4> QED
        BY <1>0, <2>1, <4>1, <4>2 DEF Tells
    <3> QED
      BY <3>1, <3>2, <3>3, <3>4
  <2> QED
    BY <2>2, <2>3
<1> QED
  BY <1>1, <1>2

\* A read of the telling object tells; the list made one, if the bucket was
\* not the run's.
LEMMA ReadingOwn ==
  ASSUME IInv, NEW r \in Runs, Step(r) \/ Fail(r), Reading(r)
  PROVE  Reading(r)'
<1> USE DEF IInv, TypeOK, Reading, Goto, Set, bucket, answers, observation,
            uploads, writes
<1>0. Artifact(r)' = Artifact(r) /\ Artifact(r) \in Files /\ RunInv(r)
  BY ArtifactType DEF Artifact
<1>1. CASE Inspect(r) \/ Preflight(r) \/ StageObject(r) \/ ListStaged(r)
           \/ Unstage(r) \/ Fail(r)
  BY <1>1 DEF Inspect, Preflight, StageObject, ListStaged, Unstage, Fail
<1>2. CASE Upload(r)
  BY <1>0, <1>2 DEF Upload, CreateUpload, UploadPart, CompleteUpload, AbortUpload,
       others, RunInv, Unjudged, After, Over
<1>3. CASE Activate(r)
  BY <1>0, <1>3 DEF Activate, ReadFence, HeadPointer, ListServed, PutObject,
       DeleteObject, PutPointer, Confirm, Decide, RunInv, Unjudged, After, Over
<1>4. CASE ObserveMarker(r)
  BY <1>4 DEF ObserveMarker
<1>5. CASE ObserveList(r)
  <2>1. seen[r] = NoFiles /\ ~verified[r]
    BY <1>0, <1>5 DEF ObserveList, RunInv, Unjudged, After, Over
  <2>2. ASSUME ~exact[r]'
        PROVE  \E o \in Objects : Tells(r, o)'
    <3>1. root # Artifact(r)
      BY <1>5, <2>2 DEF ObserveList
    <3>2. PICK o \in Objects : root[o] # Artifact(r)[o]
      BY <1>0, <3>1, FilesDiffer
    <3>3. Tells(r, o)'
      BY <1>0, <1>5, <2>1, <3>2 DEF ObserveList, Tells, Present, NoFiles
    <3> QED
      BY <3>3
  <2> QED
    BY <1>5, <2>1, <2>2 DEF ObserveList
<1>6. CASE Fetch(r)
  <2>1. PICK p \in todo[r] : \E answer \in {root[p], NoObject} :
            /\ seen' = Set(seen, r, Set(seen[r], p, answer))
            /\ clean' = Set(clean, r, clean[r] /\ answer # NoObject)
            /\ todo' = Set(todo, r, todo[r] \ {p})
    BY <1>6 DEF Fetch
  <2>2. PICK answer \in {root[p], NoObject} :
            /\ seen' = Set(seen, r, Set(seen[r], p, answer))
            /\ clean' = Set(clean, r, clean[r] /\ answer # NoObject)
    BY <2>1
  <2>3. ASSUME clean[r]', ~exact[r]', ~restored[r]'
        PROVE  \E o \in Objects : Tells(r, o)'
    <3>1. PICK o \in Objects : Tells(r, o)
      BY <1>6, <2>2, <2>3 DEF Fetch
    <3>2. CASE o = p
      <4>1. seen'[r][o] = root[o] /\ root[o] # NoObject
        BY <2>2, <2>3, <3>2 DEF Files
      <4> QED
        BY <1>0, <2>1, <3>1, <3>2, <4>1 DEF Tells
    <3>3. CASE o # p
      <4>1. seen'[r][o] = seen[r][o] /\ root'[o] = root[o]
        BY <1>6, <2>2, <3>3 DEF Fetch, Files
      <4> QED
        BY <1>0, <2>1, <3>1, <3>3, <4>1 DEF Tells
    <3> QED
      BY <3>2, <3>3
  <2> QED
    BY <1>6, <2>3 DEF Fetch
<1>7. CASE Judge(r)
  BY <1>0, <1>7 DEF Judge, Tells
<1> QED
  BY <1>1, <1>2, <1>3, <1>4, <1>5, <1>6, <1>7 DEF Step, Observe

\* What observe verifies was the complete inventory when it was listed, unless
\* another run put the run's own bytes back while it read (observe's reads one
\* by one, with any number of other runs at work).
THEOREM VerifiedWasServedHolds == Spec => []VerifiedWasServed
<1> DEFINE Inv == IInv /\ \A r \in Runs : Reading(r)
<1>1. Init => Inv
  BY IInvInit DEF Init, Reading
<1>2. Inv /\ [Next]_vars => Inv'
  <2> SUFFICES ASSUME Inv, [Next]_vars
               PROVE  Inv'
    OBVIOUS
  <2>1. IInv'
    BY IInvStep
  <2>2. CASE UNCHANGED vars
    BY <2>1, <2>2 DEF Reading, Tells, Artifact, vars, bucket, observation, writes
  <2>3. ASSUME NEW r \in Runs, Step(r) \/ Fail(r)
        PROVE  \A q \in Runs : Reading(q)'
    BY <2>3, ReadingOther, ReadingOwn
  <2> QED
    BY <2>1, <2>2, <2>3 DEF Next
<1>3. Inv => VerifiedWasServed
  BY DEF Reading, VerifiedWasServed
<1> QED
  BY <1>1, <1>2, <1>3, PTL DEF Spec

-----------------------------------------------------------------------------
(* Damage is reported *)

\* A run that wrote and will not vouch for it, or is still to find out: what it
\* has found so far agrees with the bucket as it is.
Witness(r) ==
    /\ touched[r]
    /\ \/ pc[r] \in {"putting", "deleting", "pointing", "confirming",
                     "aborting", "observing"}
       \/ /\ pc[r] = "enumerating"
          /\ clean[r] => pointer = GenerationOf[r]
       \/ /\ pc[r] = "fetching"
          /\ clean[r] => /\ pointer = GenerationOf[r]
                         /\ \A o \in Objects : o \in todo[r] \/ seen[r][o] = root[o]
       \/ pc[r] \in After /\ ~Vouches(r)

DamageInv == Backed \/ \E r \in Runs : Witness(r)

\* Whoever writes becomes a witness.
LEMMA WriterIsWitness ==
  ASSUME IInv, NEW r \in Runs, Step(r) \/ Fail(r), ~UNCHANGED <<bucket, writes>>
  PROVE  Witness(r)'
<1>1. (\E o \in Objects : Puts(r, o) \/ Deletes(r, o)) \/ Points(r)
  BY BucketStep DEF IInv, RunInv
<1>2. touched'[r]
  BY <1>1 DEF Puts, Deletes, Points, Wrote, Touch, Set, IInv, TypeOK
<1> QED
  BY <1>1, <1>2 DEF Puts, Deletes, Points, Witness

\* While nobody writes, the witness of a bucket that is not its marker's stays.
LEMMA WitnessOther ==
  ASSUME IInv, NEW r \in Runs, NEW q \in Runs \ {r}, Step(r) \/ Fail(r),
         UNCHANGED <<bucket, writes>>, Witness(q)
  PROVE  Witness(q)'
  BY OthersKeep DEF Witness, Own, Vouches, bucket, IInv

\* A witness that is done with its reads vouches only for a bucket that is its
\* own, and its marker's.
LEMMA WitnessOwn ==
  ASSUME IInv, NEW r \in Runs, Step(r) \/ Fail(r), UNCHANGED <<bucket, writes>>,
         Witness(r), ~Backed
  PROVE  Witness(r)'
<1> USE DEF IInv, TypeOK, Witness, Vouches, Goto, Set, bucket, answers,
            observation, uploads, writes, After, Over
<1>0. /\ Artifact(r) \in Files /\ FilesFor(GenerationOf[r]) = Artifact(r)
      /\ Unjudged(r)
  BY ArtifactType DEF RunInv
<1>1. CASE Inspect(r) \/ Preflight(r) \/ StageObject(r) \/ ListStaged(r)
           \/ Unstage(r) \/ Fail(r)
  BY <1>0, <1>1 DEF Inspect, Preflight, StageObject, ListStaged, Unstage, Fail, Unjudged
<1>2. CASE Upload(r)
  BY <1>0, <1>2 DEF Upload, CreateUpload, UploadPart, CompleteUpload, AbortUpload,
       others, Unjudged
<1>3. CASE Activate(r)
  BY <1>0, <1>3 DEF Activate, ReadFence, HeadPointer, ListServed, PutObject,
       DeleteObject, PutPointer, Confirm, Decide, Unjudged
<1>4. CASE ObserveMarker(r)
  <2>1. \A read \in MarkerReads : ~read.finding => read.generation = pointer
    BY DEF MarkerReads
  <2> QED
    BY <1>4, <2>1 DEF ObserveMarker
<1>5. CASE ObserveList(r)
  BY <1>0, <1>5 DEF ObserveList, Unjudged, Present, NoFiles
<1>6. CASE Fetch(r)
  <2>1. PICK p \in todo[r] : \E answer \in {root[p], NoObject} :
            /\ seen' = Set(seen, r, Set(seen[r], p, answer))
            /\ clean' = Set(clean, r, clean[r] /\ answer # NoObject)
            /\ todo' = Set(todo, r, todo[r] \ {p})
    BY <1>6 DEF Fetch
  <2>2. PICK answer \in {root[p], NoObject} :
            /\ seen' = Set(seen, r, Set(seen[r], p, answer))
            /\ clean' = Set(clean, r, clean[r] /\ answer # NoObject)
    BY <2>1
  <2>3. ASSUME clean[r]'
        PROVE  /\ pointer' = GenerationOf[r]
               /\ \A o \in Objects : o \in todo'[r] \/ seen'[r][o] = root'[o]
    <3>1. clean[r] /\ answer = root[p]
      BY <2>2, <2>3
    <3>2. \A o \in Objects : o \in todo[r] \/ seen[r][o] = root[o]
      BY <1>6, <3>1 DEF Fetch
    <3>3. \A o \in Objects : seen'[r][o] = IF o = p THEN root[o] ELSE seen[r][o]
      BY <2>2, <3>1 DEF Files
    <3> QED
      BY <1>6, <2>1, <3>1, <3>2, <3>3 DEF Fetch
  <2> QED
    BY <1>6, <2>3 DEF Fetch
<1>7. CASE Judge(r)
  <2>1. CASE verified'[r]
    <3>1. clean[r] /\ seen[r] = Artifact(r) /\ todo[r] = {}
      BY <1>7, <2>1 DEF Judge
    <3>2. pointer = GenerationOf[r] /\ \A o \in Objects : Artifact(r)[o] = root[o]
      BY <1>7, <3>1 DEF Judge
    <3>3. root = Artifact(r)
      BY <1>0, <3>2, FilesDiffer
    <3> QED
      BY <1>0, <3>2, <3>3 DEF Backed
  <2> QED
    BY <1>7, <2>1 DEF Judge
<1> QED
  BY <1>1, <1>2, <1>3, <1>4, <1>5, <1>6, <1>7 DEF Step, Observe

\* A served bucket that is not what its marker says is admitted by the report
\* of a run that wrote to it, however many runs raced and died (the objects go
\* before the pointer, and observe goes after both).
THEOREM DamageIsReportedHolds == Spec => []DamageIsReported
<1> DEFINE Inv == IInv /\ DamageInv
<1>1. Init => Inv
  BY IInvInit DEF Init, DamageInv, Backed
<1>2. Inv /\ [Next]_vars => Inv'
  <2> SUFFICES ASSUME Inv, [Next]_vars
               PROVE  DamageInv'
    BY IInvStep
  <2>1. CASE UNCHANGED vars
    BY <2>1 DEF DamageInv, Backed, Witness, Vouches, vars, bucket, answers,
                observation, writes
  <2>2. ASSUME NEW r \in Runs, Step(r) \/ Fail(r)
        PROVE  DamageInv'
    <3>1. CASE UNCHANGED <<bucket, writes>>
      <4>1. CASE Backed
        BY <3>1, <4>1 DEF DamageInv, Backed, bucket
      <4>2. CASE ~Backed
        BY <2>2, <3>1, <4>2, WitnessOther, WitnessOwn DEF DamageInv
      <4> QED
        BY <4>1, <4>2
    <3>2. CASE ~UNCHANGED <<bucket, writes>>
      BY <2>2, <3>2, WriterIsWitness DEF DamageInv
    <3> QED
      BY <3>1, <3>2
  <2> QED
    BY <2>1, <2>2 DEF Next
<1>3. Inv => DamageIsReported
  BY DEF DamageInv, DamageIsReported, Witness, After, Over
<1> QED
  BY <1>1, <1>2, <1>3, PTL DEF Spec

-----------------------------------------------------------------------------
(* Runs that come one after another *)

Idle == Over \cup {"inspecting"}

\* One run at most is at work.
Alone == \A q \in Runs, r \in Runs : q # r => pc[q] \in Idle \/ pc[r] \in Idle

\* What an activation has yet to put right: the objects it will write, and
\* those it will delete, which are none of the artifact's.
Building(r) ==
    /\ pc[r] \in {"putting", "deleting", "pointing"}
           => /\ \A o \in superseded[r] : Artifact(r)[o] = NoObject
              /\ \A o \in Objects : \/ root[o] = Artifact(r)[o]
                                    \/ o \in superseded[r]
                                    \/ pc[r] = "putting" /\ o \in todo[r]
    /\ pc[r] = "pointing" => superseded[r] = {}

\* Since its fence was read a run that has written nothing serves under it.
Fenced(r) ==
    /\ pc[r] \in {"heading", "listing", "putting", "deleting", "pointing"}
    /\ ~touched[r] /\ Expected[r] # ExpectNothing
    => pointer = Expected[r]

OneByOne == IInv /\ Alone /\ \A r \in Runs : Building(r) /\ Fenced(r)

\* A run begins when no other is at work, and a run that is over does nothing.
LEMMA AloneStep ==
  ASSUME Exclusive, IInv, Alone, NEW r \in Runs, Step(r) \/ Fail(r)
  PROVE  /\ Alone'
         /\ pc[r] # "inspecting" => \A q \in Runs \ {r} : pc[q] \in Idle
<1> USE DEF IInv, TypeOK, Idle, Over
<1>1. pc[r] \notin Over
  BY DEF Step, Inspect, Preflight, StageObject, Upload, CreateUpload, UploadPart,
         CompleteUpload, AbortUpload, Activate, ReadFence, HeadPointer, ListServed,
         PutObject, DeleteObject, PutPointer, Confirm, Observe, ObserveMarker,
         ObserveList, Fetch, Judge, ListStaged, Unstage, Fail
<1>2. \A q \in Runs \ {r} : pc'[q] = pc[q]
  BY OthersKeep DEF Own
<1>3. CASE pc[r] # "inspecting"
  BY <1>1, <1>2, <1>3 DEF Alone
<1>4. CASE pc[r] = "inspecting"
  <2>1. Inspect(r) \/ Fail(r)
    BY <1>4 DEF Step, Preflight, StageObject, Upload, CreateUpload, UploadPart,
         CompleteUpload, AbortUpload, Activate, ReadFence, HeadPointer, ListServed,
         PutObject, DeleteObject, PutPointer, Confirm, Observe, ObserveMarker,
         ObserveList, Fetch, Judge, ListStaged, Unstage
  <2> QED
    BY <1>2, <1>4, <2>1 DEF Alone, Inspect, Fail, Goto
<1> QED
  BY <1>3, <1>4

\* The run at work keeps what it has yet to put right.
LEMMA BuildingOwn ==
  ASSUME IInv, NEW r \in Runs, Step(r) \/ Fail(r), Building(r)
  PROVE  Building(r)'
<1> USE DEF IInv, TypeOK, Building, Goto, Set, bucket, answers, observation,
            uploads, writes
<1>0. Artifact(r)' = Artifact(r) /\ Artifact(r) \in Files /\ Shape(r)
  BY ArtifactType DEF Artifact, RunInv
<1>1. CASE Inspect(r) \/ Preflight(r) \/ StageObject(r) \/ ListStaged(r)
           \/ Unstage(r) \/ Fail(r) \/ Observe(r)
  BY <1>1 DEF Inspect, Preflight, StageObject, ListStaged, Unstage, Fail,
              Observe, ObserveMarker, ObserveList, Fetch, Judge
<1>2. CASE CreateUpload(r) \/ UploadPart(r) \/ AbortUpload(r)
  BY <1>2 DEF CreateUpload, UploadPart, AbortUpload, others, Artifact
<1>3. CASE CompleteUpload(r)
  <2>1. CASE pc'[r] = "putting"
    <3>1. pc[r] = "putting" /\ Assemble(r) /\ superseded' = superseded
      BY <1>3, <2>1 DEF CompleteUpload, others
    <3>2. upload[r] # NoUpload
      BY <1>3, SpacesAssumption DEF CompleteUpload, NoUpload
    <3>3. upload[r].bucket = "served" /\ upload[r].key \in Objects
      BY <1>0, <3>1, <3>2 DEF Shape, BucketOf
    <3>4. root' = Set(root, upload[r].key, Artifact(r)[upload[r].key])
      BY <3>1, <3>3 DEF Assemble
    <3>5. todo'[r] = todo[r] \ {upload[r].key}
      BY <1>3, <2>1 DEF CompleteUpload
    <3>6. \A o \in Objects : root'[o] = IF o = upload[r].key THEN Artifact(r)[o]
                                        ELSE root[o]
      BY <3>4 DEF Files
    <3> QED
      BY <1>0, <2>1, <3>1, <3>5, <3>6
  <2>2. CASE pc'[r] # "putting"
    BY <1>3, <2>2 DEF CompleteUpload
  <2> QED
    BY <2>1, <2>2
<1>4. CASE ReadFence(r) \/ HeadPointer(r) \/ Confirm(r)
  BY <1>4 DEF ReadFence, HeadPointer, Confirm, Decide
<1>5. CASE ListServed(r)
  BY <1>0, <1>5 DEF ListServed, Present
<1>6. CASE PutObject(r)
  <2>1. CASE todo[r] = {}
    BY <1>0, <1>6, <2>1 DEF PutObject
  <2>2. CASE todo[r] # {}
    <3>1. PICK p \in todo[r] : /\ root' = Set(root, p, Artifact(r)[p])
                              /\ todo' = Set(todo, r, todo[r] \ {p})
      BY <1>6, <2>2 DEF PutObject
    <3>2. \A o \in Objects : root'[o] = IF o = p THEN Artifact(r)[o] ELSE root[o]
      BY <3>1 DEF Files
    <3> QED
      BY <1>0, <1>6, <2>2, <3>1, <3>2 DEF PutObject
  <2> QED
    BY <2>1, <2>2
<1>7. CASE DeleteObject(r)
  <2>1. CASE superseded[r] = {}
    BY <1>0, <1>7, <2>1 DEF DeleteObject
  <2>2. CASE superseded[r] # {}
    <3>1. PICK p \in superseded[r] : /\ root' = Set(root, p, NoObject)
                                    /\ superseded' = Set(superseded, r, superseded[r] \ {p})
      BY <1>7, <2>2 DEF DeleteObject
    <3>2. \A o \in Objects : root'[o] = IF o = p THEN NoObject ELSE root[o]
      BY <3>1 DEF Files
    <3> QED
      BY <1>0, <1>7, <2>2, <3>1, <3>2 DEF DeleteObject
  <2> QED
    BY <2>1, <2>2
<1>8. CASE PutPointer(r)
  BY <1>8 DEF PutPointer, Decide
<1> QED
  BY <1>1, <1>2, <1>3, <1>4, <1>5, <1>6, <1>7, <1>8 DEF Step, Upload, Activate

\* The fence is read from the marker, and only a run's own write moves it.
LEMMA FencedOwn ==
  ASSUME IInv, NEW r \in Runs, Step(r) \/ Fail(r), Fenced(r)
  PROVE  Fenced(r)'
<1> USE DEF IInv, TypeOK, Fenced, Goto, Set, bucket, answers, observation,
            uploads, writes
<1>1. CASE Inspect(r) \/ Preflight(r) \/ StageObject(r) \/ ListStaged(r)
           \/ Unstage(r) \/ Fail(r) \/ Observe(r)
  BY <1>1 DEF Inspect, Preflight, StageObject, ListStaged, Unstage, Fail,
              Observe, ObserveMarker, ObserveList, Fetch, Judge
<1>2. CASE ReadFence(r)
  <2>1. \A read \in MarkerReads :
           Expected[r] # ExpectNothing /\ ~FenceDisagrees(Expected[r], read.generation)
               => pointer = Expected[r]
    BY SpacesAssumption, FenceAssumption DEF MarkerReads, FenceDisagrees, Fences
  <2> QED
    BY <1>2, <2>1 DEF ReadFence, Decide
<1>3. CASE Upload(r)
  BY <1>3 DEF Upload, CreateUpload, UploadPart, CompleteUpload, AbortUpload,
              others, Assemble, Wrote, Touch
<1>4. CASE HeadPointer(r) \/ ListServed(r) \/ PutObject(r) \/ DeleteObject(r)
           \/ PutPointer(r) \/ Confirm(r)
  BY <1>4 DEF HeadPointer, ListServed, PutObject, DeleteObject, PutPointer,
              Confirm, Decide, Wrote, Touch
<1> QED
  BY <1>1, <1>2, <1>3, <1>4 DEF Step, Activate

\* Runs one by one keep all of it: the others are not at work while one writes.
LEMMA OneByOneStep ==
  ASSUME Exclusive, OneByOne, [Next]_vars
  PROVE  OneByOne'
<1>1. IInv'
  BY IInvStep DEF OneByOne
<1>2. CASE UNCHANGED vars
  BY <1>1, <1>2 DEF OneByOne, Alone, Building, Fenced, Artifact, vars, bucket, writes
<1>3. ASSUME NEW r \in Runs, Step(r) \/ Fail(r)
      PROVE  OneByOne'
  <2>1. Alone'
    BY <1>3, AloneStep DEF OneByOne
  <2>2. Building(r)' /\ Fenced(r)'
    BY <1>3, BuildingOwn, FencedOwn DEF OneByOne
  <2>3. ASSUME NEW q \in Runs \ {r}
        PROVE  Building(q)' /\ Fenced(q)'
    <3>1. UNCHANGED Own(q) /\ Building(q) /\ Fenced(q)
      BY <1>3, OthersKeep DEF OneByOne, IInv
    <3>2. CASE UNCHANGED bucket
      BY <3>1, <3>2 DEF Own, Building, Fenced, Artifact, bucket
    <3>3. CASE ~UNCHANGED bucket
      <4>1. pc[r] # "inspecting"
        BY <1>3, <3>3, BucketStep DEF OneByOne, IInv, RunInv, Puts, Deletes, Points
      <4>2. pc[q] \in Idle
        BY <1>3, <4>1, AloneStep DEF OneByOne
      <4> QED
        BY <3>1, <4>2 DEF Own, Building, Fenced, Idle, Over
    <3> QED
      BY <3>2, <3>3
  <2> QED
    BY <1>1, <2>1, <2>2, <2>3 DEF OneByOne
<1> QED
  BY <1>2, <1>3 DEF Next

\* The initial state has no run at work.
LEMMA OneByOneInit == Init => OneByOne
  BY IInvInit DEF Init, OneByOne, Alone, Idle, Building, Fenced

\* Runs that come one after another move the pointer only to a generation whose
\* objects are all, and alone, served, whatever an earlier run that died half
\* way left in the bucket (PutPointer after every PutObject and DeleteObject).
THEOREM PointerIsLastHolds == Exclusive => (Spec => PointerIsLast)
<1> SUFFICES ASSUME Exclusive
             PROVE  Spec => PointerIsLast
  OBVIOUS
<1>1. Init => OneByOne
  BY OneByOneInit
<1>2. OneByOne /\ [Next]_vars => OneByOne'
  BY OneByOneStep
<1>3. OneByOne /\ [Next]_vars => [pointer' # pointer => Backed']_vars
  <2> SUFFICES ASSUME OneByOne, NEW r \in Runs, Step(r) \/ Fail(r), pointer' # pointer
               PROVE  Backed'
    BY DEF Next, vars, bucket
  <2>1. Points(r) /\ Building(r) /\ TypeOK
    BY BucketStep DEF OneByOne, IInv, RunInv, Puts, Deletes, bucket
  <2>2. Artifact(r) \in Files /\ FilesFor(GenerationOf[r]) = Artifact(r)
    BY ArtifactType
  <2>3. \A o \in Objects : root[o] = Artifact(r)[o]
    BY <2>1 DEF Points, Building
  <2>4. root = Artifact(r)
    BY <2>1, <2>2, <2>3, FilesDiffer DEF TypeOK
  <2> QED
    BY <2>1, <2>2, <2>4 DEF Backed, Points, FilesFor
<1> QED
  BY <1>1, <1>2, <1>3, PTL DEF Spec, PointerIsLast

\* Runs that come one after another and expect a generation write to the bucket
\* only while that generation is the one served, however often the website
\* origin fails (the fence of Inspect, and again of ReadFence).
THEOREM GenerationFenceKept == Exclusive => (Spec => GenerationFenceHolds)
<1> SUFFICES ASSUME Exclusive
             PROVE  Spec => GenerationFenceHolds
  OBVIOUS
<1> DEFINE Fence(r) == touched'[r] /\ ~touched[r] /\ Expected[r] # ExpectNothing
                           => pointer = Expected[r]
<1>1. Init => OneByOne
  BY OneByOneInit
<1>2. OneByOne /\ [Next]_vars => OneByOne'
  BY OneByOneStep
<1>3. OneByOne /\ [Next]_vars => [\A r \in Runs : Fence(r)]_vars
  <2> SUFFICES ASSUME OneByOne, NEW q \in Runs, Step(q) \/ Fail(q),
                      NEW r \in Runs, touched'[r], ~touched[r],
                      Expected[r] # ExpectNothing
               PROVE  pointer = Expected[r]
    BY DEF Next
  <2>1. q = r
    BY OthersKeep DEF Own, OneByOne, IInv
  <2>2. pc[r] \in {"putting", "deleting", "pointing"}
    BY <2>1, BucketStep DEF OneByOne, IInv, RunInv, Puts, Deletes, Points, writes
  <2> QED
    BY <2>2 DEF OneByOne, Fenced
<1> QED
  BY <1>1, <1>2, <1>3, PTL DEF Spec, GenerationFenceHolds

=============================================================================
