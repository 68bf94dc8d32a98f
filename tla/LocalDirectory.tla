--------------------------- MODULE LocalDirectory ---------------------------
(***************************************************************************)
(* The local-directory adapter: releases and private stages are            *)
(* directories of one publication root, `current` is a symlink that an     *)
(* activation swaps, and two JSON files hold the retained history and the  *)
(* idempotency journal. No lock guards the root: every filesystem call is  *)
(* awaited, so another process may run, and a crash may fall, between any  *)
(* two of them. Both JSON files are rewritten in place: truncated, then    *)
(* written.                                                                *)
(*                                                                         *)
(* A run is one deployment (inspect, stage, activate, observe, clean up)   *)
(* or one rollback (copy a retained generation, stage, activate). Runs     *)
(* with the same identities are retries of one attempt.                    *)
(*                                                                         *)
(* Source: packages/adapter-local-directory/src, and the order of calls of *)
(* packages/publish-action/src/deploy-local-directory.js.                  *)
(***************************************************************************)
EXTENDS GenerationFence, Integers, SequencesExt

CONSTANTS
    Runs,
    Artifacts,        \* digests of complete file sets
    GenerationOf,     \* generationId of each run
    ArtifactsOf,      \* the artifactDigests a deployment may carry
    KeyOf,            \* idempotencyKey of each run
    TokenOf,          \* stageTokenFor(operationId, attemptId, generationId)
    TargetOf,         \* targetGenerationId of a rollback; Nothing: a deployment
    MaximumPrior,     \* MAXIMUM_PRIOR_GENERATIONS_ON_DISK
    Exclusive,        \* callers change the root one run at a time
    Torn              \* a JSON file truncated and not yet written

Tokens == {TokenOf[r] : r \in Runs}
Keys == {KeyOf[r] : r \in Runs}

ASSUME LocalDirectoryAssumption ==
    /\ GenerationOf \in [Runs -> Generations]
    /\ ArtifactsOf \in [Runs -> SUBSET Artifacts]
    /\ DOMAIN KeyOf = Runs /\ DOMAIN TokenOf = Runs
    /\ TargetOf \in [Runs -> Served]
    /\ MaximumPrior \in Nat
    /\ Exclusive \in BOOLEAN
    /\ "absent" \notin Artifacts /\ "partial" \notin Artifacts

VARIABLES
    current,    \* where the activation pointer points
    releases,   \* content of releases/<generation>
    stages,     \* content of releases/.gala-stage-<token>
    history,    \* history.json: generations, most recent first
    journal,    \* journal.json: entries in the order of their stages
    pc,         \* the next filesystem step of each run
    fence,      \* expectedCurrentGenerationId
    artifact,   \* digest of the files the run holds
    copy,       \* what the run read of a JSON file, as it will write it
    doomed,     \* the release directories the run is removing
    previous,   \* previousGenerationId of the activation
    replayed,   \* the stage answered idempotent
    decision,   \* decision of the activation
    verified    \* answer of observe

disk == <<current, releases, stages, history, journal>>
local == <<fence, artifact, copy, doomed, previous, replayed, decision, verified>>
vars == <<disk, pc, local>>

Contents == Artifacts \cup {"absent", "partial"}
Entries == [key : Keys, artifact : Contents]
Idle == {"new", "staging", "done", "failed", "crashed"}
Busy == {"copying", "writing", "journalling", "truncatingJournal",
         "writingJournal", "staged", "promoting", "swapping", "certifying",
         "truncatingHistory", "writingHistory", "listing", "sweeping",
         "observing", "cleaning", "recovering", "abandoning"}

ASSUME TornAssumption == Torn \notin Seq(Generations) \cup Seq(Entries)

IsRollback(r) == TargetOf[r] # Nothing
Alone(r) == Exclusive => \A q \in Runs \ {r} : pc[q] \in Idle
Goto(r, phase) == pc' = [pc EXCEPT ![r] = phase]
Set(f, r, value) == [f EXCEPT ![r] = value]

Init ==
    /\ current = Nothing
    /\ releases = [g \in Generations |-> "absent"]
    /\ stages = [t \in Tokens |-> "absent"]
    /\ history = <<>>
    /\ journal = <<>>
    /\ pc = [r \in Runs |-> "new"]
    /\ fence = [r \in Runs |-> ExpectNothing]
    /\ artifact \in [Runs -> Artifacts]
    /\ \A r \in Runs : artifact[r] \in ArtifactsOf[r]
    /\ copy = [r \in Runs |-> <<>>]
    /\ doomed = [r \in Runs |-> {}]
    /\ previous = [r \in Runs |-> Nothing]
    /\ replayed = [r \in Runs |-> FALSE]
    /\ decision = [r \in Runs |-> "none"]
    /\ verified = [r \in Runs |-> FALSE]

-----------------------------------------------------------------------------
(* Inspect, and the copy a rollback stages *)

\* inspectDestination: what is served becomes the fence of the activation.
Inspect(r) ==
    /\ pc[r] = "new" /\ ~IsRollback(r)
    /\ fence' = Set(fence, r, FenceFor(current))
    /\ Goto(r, IF history = Torn THEN "failed" ELSE "staging")
    /\ UNCHANGED <<disk, artifact, copy, doomed, previous, replayed, decision,
                   verified>>

\* A caller picks the target of a rollback from the retained history.
StartRollback(r) ==
    /\ pc[r] = "new" /\ IsRollback(r)
    /\ Alone(r)
    /\ history # Torn /\ Contains(history, TargetOf[r])
    /\ Goto(r, "copying")
    /\ UNCHANGED <<disk, local>>

\* The files are read back from the release; their digest is recomputed.
CopyTarget(r) ==
    LET target == releases[TargetOf[r]]
    IN  /\ pc[r] = "copying"
        /\ artifact' = IF target = "absent" THEN artifact
                                            ELSE Set(artifact, r, target)
        /\ Goto(r, IF target = "absent" THEN "failed" ELSE "staging")
        /\ UNCHANGED <<disk, fence, copy, doomed, previous, replayed, decision,
                       verified>>

-----------------------------------------------------------------------------
(* Stage *)

\* The key of the run is in the journal, and the first entry that has it.
Journalled(entries, r) == \E i \in DOMAIN entries : entries[i].key = KeyOf[r]
PriorSameKey(r) ==
    journal[CHOOSE i \in DOMAIN journal :
                /\ journal[i].key = KeyOf[r]
                /\ \A j \in 1 .. i - 1 : journal[j].key # KeyOf[r]]

\* The first entry with the key decides: another digest is a conflict, the
\* same digest answers with the token of this attempt and writes nothing.
Stage(r) ==
    /\ pc[r] = "staging"
    /\ Alone(r)
    /\ \/ /\ journal = Torn
          /\ Goto(r, "failed")
          /\ UNCHANGED <<stages, replayed>>
       \/ /\ journal # Torn /\ Journalled(journal, r)
          /\ IF PriorSameKey(r).artifact = artifact[r]
             THEN Goto(r, "staged") /\ replayed' = Set(replayed, r, TRUE)
             ELSE Goto(r, "failed") /\ UNCHANGED replayed
          /\ UNCHANGED stages
       \/ /\ journal # Torn /\ ~Journalled(journal, r)
          /\ stages' = Set(stages, TokenOf[r], "partial")
          /\ Goto(r, "writing")
          /\ UNCHANGED replayed
    /\ UNCHANGED <<current, releases, history, journal, fence, artifact, copy,
                   doomed, previous, decision, verified>>

\* The last file and the marker are written, unless the directory went away.
WriteStage(r) ==
    /\ pc[r] = "writing"
    /\ stages' = Set(stages, TokenOf[r],
                     IF stages[TokenOf[r]] = "absent" THEN "partial"
                                                      ELSE artifact[r])
    /\ Goto(r, "journalling")
    /\ UNCHANGED <<current, releases, history, journal, local>>

\* appendJournal reads the file again before it rewrites it.
ReadJournal(r) ==
    /\ pc[r] = "journalling"
    /\ IF journal = Torn
       THEN Goto(r, "failed") /\ UNCHANGED copy
       ELSE /\ copy' = Set(copy, r, Append(journal,
                       [key |-> KeyOf[r], artifact |-> artifact[r]]))
            /\ Goto(r, "truncatingJournal")
    /\ UNCHANGED <<disk, fence, artifact, doomed, previous, replayed, decision,
                   verified>>

\* writeFileDurably opens with "w": the old content is gone before the new
\* one is written.
Truncate(r) ==
    /\ \/ /\ pc[r] = "truncatingJournal"
          /\ journal' = Torn
          /\ Goto(r, "writingJournal")
          /\ UNCHANGED history
       \/ /\ pc[r] = "truncatingHistory"
          /\ history' = Torn
          /\ Goto(r, "writingHistory")
          /\ UNCHANGED journal
    /\ UNCHANGED <<current, releases, stages, local>>

\* After its journal is written a rollback reads the fence, a deployment has
\* it already; after its history is written an activation sweeps.
WriteFile(r) ==
    /\ \/ /\ pc[r] = "writingJournal"
          /\ journal' = copy[r]
          /\ copy' = Set(copy, r, <<>>)
          /\ Goto(r, "staged")
          /\ UNCHANGED history
       \/ /\ pc[r] = "writingHistory"
          /\ history' = copy[r]
          /\ Goto(r, "listing")
          /\ UNCHANGED <<journal, copy>>
    /\ UNCHANGED <<current, releases, stages, fence, artifact, doomed, previous,
                   replayed, decision, verified>>

-----------------------------------------------------------------------------
(* Activate *)

\* The generation is already active, the fence disagrees, or it goes on. A
\* rollback fences on what is current now.
Activate(r) ==
    LET expected == IF IsRollback(r) THEN FenceFor(current) ELSE fence[r]
        after == IF IsRollback(r) THEN "done" ELSE "observing"
    IN  /\ pc[r] = "staged"
        /\ fence' = Set(fence, r, expected)
        /\ previous' = Set(previous, r, current)
        /\ \/ /\ current = GenerationOf[r]
              /\ decision' = Set(decision, r, "activate")
              /\ Goto(r, after)
           \/ /\ current # GenerationOf[r] /\ FenceDisagrees(expected, current)
              /\ decision' = Set(decision, r, "reconcile")
              /\ Goto(r, after)
           \/ /\ current # GenerationOf[r] /\ ~FenceDisagrees(expected, current)
              /\ Goto(r, "promoting")
              /\ UNCHANGED decision
        /\ UNCHANGED <<disk, artifact, copy, doomed, replayed, verified>>

\* A deployment digests its stage first, and so needs it even when the
\* release is already there; then the stage is renamed to the release.
Promote(r) ==
    LET stage == stages[TokenOf[r]]
        intact == IsRollback(r) \/ stage = artifact[r]
        released == releases[GenerationOf[r]] # "absent"
    IN  /\ pc[r] = "promoting"
        /\ IF intact /\ ~released /\ stage # "absent"
           THEN /\ releases' = Set(releases, GenerationOf[r], stage)
                /\ stages' = Set(stages, TokenOf[r], "absent")
           ELSE UNCHANGED <<releases, stages>>
        /\ Goto(r, IF intact /\ (released \/ stage # "absent")
                   THEN "swapping" ELSE "failed")
        /\ UNCHANGED <<current, history, journal, local>>

\* Mutant: the pointer is unlinked and created again.
SwapByUnlink(r) ==
    /\ pc[r] = "swapping"
    /\ current' = IF current = Nothing THEN GenerationOf[r] ELSE Nothing
    /\ Goto(r, IF current = Nothing THEN "certifying" ELSE "swapping")
    /\ UNCHANGED <<releases, stages, history, journal, local>>

\* atomicSymlinkSwap: a rename over the pointer, which compares nothing.
Swap(r) ==
    /\ pc[r] = "swapping"
    /\ current' = GenerationOf[r]
    /\ Goto(r, "certifying")
    /\ UNCHANGED <<releases, stages, history, journal, local>>

\* The generation heads the history, which has it once and keeps MaximumPrior priors.
Retained(r) ==
    LET inserted == <<GenerationOf[r]>> \o RemoveFirst(history, GenerationOf[r])
    IN  IF Len(inserted) > MaximumPrior + 1
        THEN SubSeq(inserted, 1, MaximumPrior + 1) ELSE inserted

\* The marker of the release is read back, then the history.
Certify(r) ==
    /\ pc[r] = "certifying"
    /\ IF releases[GenerationOf[r]] = "absent" \/ history = Torn
       THEN Goto(r, "failed") /\ UNCHANGED copy
       ELSE /\ copy' = Set(copy, r, Retained(r))
            /\ Goto(r, "truncatingHistory")
    /\ UNCHANGED <<disk, fence, artifact, doomed, previous, replayed, decision,
                   verified>>

\* Mutant: the sweep starts from every release but the active one.
ListAllReleases(r) ==
    /\ pc[r] = "listing"
    /\ doomed' = Set(doomed, r, {g \in Generations : releases[g] # "absent"}
                                    \ {GenerationOf[r]})
    /\ copy' = Set(copy, r, <<>>)
    /\ Goto(r, "sweeping")
    /\ UNCHANGED <<disk, fence, artifact, previous, replayed, decision, verified>>

\* Every release that is not in the history this run wrote is to be removed.
ListReleases(r) ==
    /\ pc[r] = "listing"
    /\ doomed' = Set(doomed, r, {g \in Generations : releases[g] # "absent"}
                                    \ ToSet(copy[r]))
    /\ copy' = Set(copy, r, <<>>)
    /\ Goto(r, "sweeping")
    /\ UNCHANGED <<disk, fence, artifact, previous, replayed, decision, verified>>

\* Removing a tree takes many calls: it is partial before it is absent.
RemoveTree(r) ==
    /\ pc[r] \in {"sweeping", "abandoning"}
    /\ \E g \in doomed[r] :
          IF releases[g] \in Artifacts
          THEN /\ releases' = Set(releases, g, "partial")
               /\ UNCHANGED doomed
          ELSE /\ releases' = Set(releases, g, "absent")
               /\ doomed' = Set(doomed, r, doomed[r] \ {g})
    /\ UNCHANGED <<current, stages, history, journal, pc, fence, artifact,
                   copy, previous, replayed, decision, verified>>

Swept(r) ==
    /\ pc[r] \in {"sweeping", "abandoning"}
    /\ doomed[r] = {}
    /\ IF pc[r] = "abandoning"
       THEN Goto(r, "done") /\ UNCHANGED decision
       ELSE /\ Goto(r, IF IsRollback(r) THEN "done" ELSE "observing")
            /\ decision' = Set(decision, r, "activate")
    /\ UNCHANGED <<disk, fence, artifact, copy, doomed, previous, replayed,
                   verified>>

-----------------------------------------------------------------------------
(* Observe and clean up *)

\* Walking a release that is not there throws, also after a reconcile.
Observe(r) ==
    LET release == releases[GenerationOf[r]]
    IN  /\ pc[r] = "observing"
        /\ verified' = Set(verified, r,
               current = GenerationOf[r] /\ release = artifact[r])
        /\ Goto(r, IF release = "absent" THEN "failed" ELSE "cleaning")
        /\ UNCHANGED <<disk, fence, artifact, copy, doomed, previous, replayed,
                       decision>>

\* cleanupStaged removes the private stage; given a generationId (as the
\* kernel-driven run gives it) it goes on to an abandoned release.
CleanStage(r) ==
    /\ pc[r] = "cleaning"
    /\ stages' = Set(stages, TokenOf[r], "absent")
    /\ \E phase \in {"done", "recovering"} : Goto(r, phase)
    /\ UNCHANGED <<current, releases, history, journal, local>>

\* Mutant: only the pointer protects a release from the cleanup.
RecoverUnlessActive(r) ==
    /\ pc[r] = "recovering"
    /\ IF GenerationOf[r] = current
       THEN Goto(r, "done") /\ UNCHANGED doomed
       ELSE Goto(r, "abandoning") /\ doomed' = Set(doomed, r, {GenerationOf[r]})
    /\ UNCHANGED <<disk, fence, artifact, copy, previous, replayed, decision,
                   verified>>

\* Mutant: only the history protects a release from the cleanup.
RecoverUnlessRetained(r) ==
    /\ pc[r] = "recovering"
    /\ IF history = Torn
       THEN Goto(r, "failed") /\ UNCHANGED doomed
       ELSE IF Contains(history, GenerationOf[r])
       THEN Goto(r, "done") /\ UNCHANGED doomed
       ELSE Goto(r, "abandoning") /\ doomed' = Set(doomed, r, {GenerationOf[r]})
    /\ UNCHANGED <<disk, fence, artifact, copy, previous, replayed, decision,
                   verified>>

\* A release is abandoned when it is neither active nor in the history.
Recover(r) ==
    /\ pc[r] = "recovering"
    /\ IF history = Torn
       THEN Goto(r, "failed") /\ UNCHANGED doomed
       ELSE IF GenerationOf[r] = current \/ Contains(history, GenerationOf[r])
                \/ releases[GenerationOf[r]] = "absent"
       THEN Goto(r, "done") /\ UNCHANGED doomed
       ELSE Goto(r, "abandoning") /\ doomed' = Set(doomed, r, {GenerationOf[r]})
    /\ UNCHANGED <<disk, fence, artifact, copy, previous, replayed, decision,
                   verified>>

-----------------------------------------------------------------------------
(* The specification *)

\* The process dies, or a filesystem call throws: the disk stays as it is,
\* what the run knew is lost.
Crash(r) ==
    /\ pc[r] \in Busy
    /\ Goto(r, "crashed")
    /\ fence' = Set(fence, r, ExpectNothing)
    /\ copy' = Set(copy, r, <<>>)
    /\ doomed' = Set(doomed, r, {})
    /\ previous' = Set(previous, r, Nothing)
    /\ replayed' = Set(replayed, r, FALSE)
    /\ decision' = Set(decision, r, "none")
    /\ verified' = Set(verified, r, FALSE)
    /\ UNCHANGED <<disk, artifact>>

\* The stage and the release of a crashed run are cleaned up later.
CleanUpAfterCrash(r) ==
    /\ pc[r] = "crashed"
    /\ Alone(r)
    /\ Goto(r, "cleaning")
    /\ UNCHANGED <<disk, local>>

Step(r) ==
    \/ Inspect(r) \/ StartRollback(r) \/ CopyTarget(r)
    \/ Stage(r) \/ WriteStage(r) \/ ReadJournal(r)
    \/ Truncate(r) \/ WriteFile(r)
    \/ Activate(r) \/ Promote(r) \/ Swap(r) \/ Certify(r)
    \/ ListReleases(r) \/ RemoveTree(r) \/ Swept(r)
    \/ Observe(r) \/ CleanStage(r) \/ Recover(r)

Next == \E r \in Runs : Step(r) \/ Crash(r) \/ CleanUpAfterCrash(r)

Spec == Init /\ [][Next]_vars

-----------------------------------------------------------------------------
(* Properties *)

TypeOK ==
    /\ current \in Served
    /\ releases \in [Generations -> Contents]
    /\ stages \in [Tokens -> Contents]
    /\ history \in Seq(Generations) \cup {Torn}
    /\ journal \in Seq(Entries) \cup {Torn}
    /\ pc \in [Runs -> Idle \cup Busy]
    /\ fence \in [Runs -> Fences]
    /\ artifact \in [Runs -> Contents]
    /\ copy \in [Runs -> Seq(Generations) \cup Seq(Entries)]
    /\ doomed \in [Runs -> SUBSET Generations]
    /\ previous \in [Runs -> Served]
    /\ replayed \in [Runs -> BOOLEAN]
    /\ decision \in [Runs -> {"none", "activate", "reconcile"}]
    /\ verified \in [Runs -> BOOLEAN]

\* Hypothesis: one generation, one stage token and one idempotency key are of
\* one attempt, which several runs may make.
IdentitiesGoTogether ==
    \A q, r \in Runs :
        /\ GenerationOf[q] = GenerationOf[r] <=> TokenOf[q] = TokenOf[r]
        /\ GenerationOf[q] = GenerationOf[r] <=> KeyOf[q] = KeyOf[r]

\* Hypothesis: a rollback is made once; one that failed is made again with
\* identities of its own.
RollbacksAreNotRetried ==
    \A q, r \in Runs :
        q # r /\ GenerationOf[q] = GenerationOf[r] => ~IsRollback(r)

\* What a reader of the site gets through the pointer.
ServedContent == IF current = Nothing THEN "absent" ELSE releases[current]

\* The generation the pointer names is on disk, every file of it: neither a
\* sweep nor a cleanup takes it away, and no partial stage is promoted.
ServedIsWhole == current # Nothing => releases[current] \in Artifacts

\* Whatever falls between two steps, every generation of the retained history
\* is whole on disk, so that each of them can be rolled back to.
RetainedIsOnDisk ==
    history # Torn => \A g \in ToSet(history) : releases[g] \in Artifacts

\* Readers never see a change other than the swap of the pointer to a whole
\* generation.
ActivationIsAtomic ==
    [][ServedContent' # ServedContent =>
        current' # current /\ ServedContent' \in Artifacts]_vars

\* After the sweep of an activation the releases on disk are those of the
\* retained history, the active one first.
SweepLeavesRetained ==
    \A r \in Runs :
        pc[r] = "sweeping" /\ doomed[r] = {} =>
            /\ ToSet(history) = {g \in Generations : releases[g] # "absent"}
            /\ Head(history) = current

\* An idempotency key is never journalled for two artifacts.
KeysAreBound ==
    journal # Torn =>
        \A e, f \in ToSet(journal) : e.key = f.key => e.artifact = f.artifact

\* A deployment or a rollback replaces only the generation it fenced on: the
\* pointer moves from a generation that agrees with the fence.
SwapRespectsFence ==
    [][\A r \in Runs :
        pc[r] = "swapping" /\ pc'[r] = "certifying" =>
            ~FenceDisagrees(fence[r], current)]_vars

\* The generation an activation replaced stays on disk: it is the first of
\* the priors the retention keeps.
PriorIsRetained ==
    MaximumPrior > 0 =>
        \A r \in Runs :
            pc[r] = "sweeping" /\ doomed[r] = {} /\ previous[r] # Nothing =>
                releases[previous[r]] # "absent"

\* A stage that is answered as a replay is there to be activated, as a stage
\* or as the release it was promoted to.
ReplayHasStage ==
    \A r \in Runs :
        pc[r] = "staged" /\ replayed[r] =>
            stages[TokenOf[r]] # "absent" \/ releases[GenerationOf[r]] # "absent"

\* Both files of the control directory can be read when no run is writing.
BookkeepingIsReadable ==
    (\A r \in Runs : pc[r] \notin {"writingJournal", "writingHistory"}) =>
        history # Torn /\ journal # Torn
=============================================================================
