----------------------------- MODULE BuildProofs -----------------------------
(***************************************************************************)
(* What a build leaves, and what is requested of it.                       *)
(*                                                                         *)
(* RepositoryBuild: a build that is refused has touched nothing, and what  *)
(* builds leave, whole or cut short, is described by the manifest beside   *)
(* it: for every repository, every edit of it and every number of builds   *)
(* and crashes. The steps are of two kinds, and none of the first follows  *)
(* one of the second. Before the removal nothing has changed, and only     *)
(* there can a command be refused (Refusals). From the removal on the two  *)
(* directories are emptied, output before work, and filled from the input  *)
(* that was read, which no step changes any more (Contents).               *)
(*                                                                         *)
(* CandidateJobs: whatever a decoder accepts is the encoding of what it    *)
(* answers, and a request is of one build: for every path, site, lock,     *)
(* limit, output a build may leave and damage an envelope may take. What   *)
(* is sorted by rank is sorted (RowsInByteOrder), so a stream in order is  *)
(* its own encoding (EncodingIsCanonical); what freeze packs is the site   *)
(* its manifest was written for, file by file (PayloadIsTheSite), and the  *)
(* two other documents are that build's (RequestedOutputIsOneBuilds).      *)
(***************************************************************************)
EXTENDS RepositoryBuild, CandidateJobs, FiniteSetTheorems, SequenceTheorems,
        WellFoundedInduction, TLAPS

-----------------------------------------------------------------------------
(* The order of the steps.                                                 *)

\* Steps before which nothing was changed, and those that follow the first removal.
Checking ==
    {"configuration", "list", "documents", "inspect-image", "read-image", "inspect-audio",
     "read-audio", "inspect-file", "read-file", "content", "modules", "sharing",
     "sharing-again", "pages", "root", "theme", "distinct", "check-output", "check-work"}
Filling == {"mark-output", "mark-work", "manifest", "records", "done"}
Changing == {"remove-output", "remove-work", "render"} \cup Filling

\* Where each step stands.
LEMMA StepsInOrder ==
    /\ Len(Steps) = 27
    /\ Steps[1] = "configuration" /\ Steps[2] = "list" /\ Steps[3] = "documents"
    /\ Steps[4] = "inspect-image" /\ Steps[5] = "read-image" /\ Steps[6] = "inspect-audio"
    /\ Steps[7] = "read-audio" /\ Steps[8] = "inspect-file" /\ Steps[9] = "read-file"
    /\ Steps[10] = "content" /\ Steps[11] = "modules" /\ Steps[12] = "sharing"
    /\ Steps[13] = "sharing-again" /\ Steps[14] = "pages" /\ Steps[15] = "root"
    /\ Steps[16] = "theme" /\ Steps[17] = "distinct" /\ Steps[18] = "check-output"
    /\ Steps[19] = "check-work" /\ Steps[20] = "remove-output" /\ Steps[21] = "remove-work"
    /\ Steps[22] = "render" /\ Steps[23] = "mark-output" /\ Steps[24] = "mark-work"
    /\ Steps[25] = "manifest" /\ Steps[26] = "records" /\ Steps[27] = "done"
  BY DEF Steps, IntakeSteps

\* No two steps have one name, so what follows a step is the next one.
LEMMA AfterPlace ==
    ASSUME NEW i \in 1 .. 26
    PROVE  After(Steps[i]) = Steps[i + 1]
  BY StepsInOrder DEF After, SelectInSeq, Min

\* What is checked is followed by a check, or by the removal of the output.
LEMMA AfterChecking ==
    ASSUME NEW s \in Checking
    PROVE  After(s) \in Checking \cup {"remove-output"}
  <1>1. PICK i \in 1 .. 19 : s = Steps[i]
    BY StepsInOrder DEF Checking
  <1>2. Steps[i + 1] \in Checking \cup {"remove-output"}
    BY StepsInOrder DEF Checking
  <1> QED  BY <1>1, <1>2, AfterPlace

\* What follows the first removal.
LEMMA AfterChanging ==
    /\ After("remove-output") = "remove-work" /\ After("remove-work") = "render"
    /\ After("render") = "mark-output" /\ After("mark-output") = "mark-work"
    /\ After("mark-work") = "manifest" /\ After("manifest") = "records"
    /\ After("records") = "done"
  <1>1. \A i \in 20 .. 26 : After(Steps[i]) = Steps[i + 1]
    BY AfterPlace
  <1> QED  BY <1>1, StepsInOrder

-----------------------------------------------------------------------------
(* The steps that check, and those that change.                            *)

\* A step of a command that has changed nothing changes nothing, and goes on or refuses.
OnlyChecks ==
    /\ step \in Checking
    /\ \/ step' = "ended"
       \/ step' \in Checking \cup {"remove-output"} /\ result' = result
    /\ UNCHANGED <<directories, began>>

LEMMA RefusingChecks ==
    ASSUME NEW findings, step \in Checking, Fail(findings)
    PROVE  OnlyChecks
  BY DEF OnlyChecks, Fail

LEMMA ReadingChecks ==
    ASSUME NEW facts, step \in Checking, Read(facts)
    PROVE  OnlyChecks
  BY AfterChecking DEF OnlyChecks, Read, Proceed, Go

LEMMA ReadUnlessChecks ==
    ASSUME NEW problem, NEW facts, step \in Checking, ReadUnless(problem, facts)
    PROVE  OnlyChecks
  BY RefusingChecks, ReadingChecks DEF ReadUnless

\* All of intake, and what build checks before it removes anything.
LEMMA IntakeChecks ==
    ASSUME Intake
    PROVE  OnlyChecks
  <1>1. CASE ReadConfiguration
    BY <1>1, ReadUnlessChecks DEF ReadConfiguration, Checking
  <1>2. CASE ListContent
    BY <1>2, ReadUnlessChecks DEF ListContent, Checking
  <1>3. CASE ReadAllDocuments
    BY <1>3, ReadUnlessChecks, RefusingChecks DEF ReadAllDocuments, Checking
  <1>4. ASSUME NEW kind \in MediaKinds, InspectMedia(kind)  PROVE OnlyChecks
    BY <1>4, ReadingChecks DEF InspectMedia, MediaKinds, Checking
  <1>5. ASSUME NEW kind \in MediaKinds, ReadMedia(kind)  PROVE OnlyChecks
    <2>1. step \in Checking
      BY <1>5 DEF ReadMedia, MediaKinds, Checking
    <2>2. PICK problem, facts : ReadUnless(problem, facts)
      BY <1>5, Zenon DEF ReadMedia
    <2> QED  BY <2>1, <2>2, ReadUnlessChecks
  <1>6. CASE AssembleContent
    BY <1>6, ReadingChecks, RefusingChecks DEF AssembleContent, Checking
  <1>7. CASE ReadModules
    BY <1>7, ReadUnlessChecks DEF ReadModules, Checking
  <1>8. CASE FetchSharing \/ SharingIsUnavailable
    BY <1>8 DEF FetchSharing, SharingIsUnavailable, Share, Go, OnlyChecks, Checking
  <1>9. CASE SharingFails
    BY <1>9, AfterChecking DEF SharingFails, Proceed, Go, OnlyChecks, Checking
  <1>10. CASE ReadPages
    BY <1>10, ReadingChecks, RefusingChecks DEF ReadPages, Checking
  <1>11. CASE ReadRoot
    BY <1>11, ReadUnlessChecks DEF ReadRoot, Checking
  <1> QED
    BY <1>1, <1>2, <1>3, <1>4, <1>5, <1>6, <1>7, <1>8, <1>9, <1>10, <1>11 DEF Intake

LEMMA BuildChecks ==
    ASSUME \/ FindTheme \/ AssertDistinctBuildDirectories
           \/ \E name \in {"output", "work"} : AssertWipeableBuildDirectory(name)
    PROVE  OnlyChecks
  BY ReadUnlessChecks
  DEF FindTheme, AssertDistinctBuildDirectories, AssertWipeableBuildDirectory, Checking

\* What removes, renders and writes goes on among the steps that change.
GoesOnChanging ==
    /\ step \in Changing /\ step' \in Changing
    /\ UNCHANGED <<result, began, intake>>

LEMMA WritesChange ==
    ASSUME \/ \E name \in {"output", "work"} :
                  RemoveEntry(name) \/ Removed(name) \/ WriteBuildDirectoryMarker(name)
           \/ RenderFile \/ RenderEnds \/ WriteManifest \/ WriteRecords
    PROVE  GoesOnChanging
  <1> USE AfterChanging DEF GoesOnChanging, Changing, Filling, Proceed, Go
  <1>1. ASSUME NEW name \in {"output", "work"}, RemoveEntry(name)  PROVE GoesOnChanging
    BY <1>1 DEF RemoveEntry, Removing, Change
  <1>2. ASSUME NEW name \in {"output", "work"}, Removed(name)  PROVE GoesOnChanging
    BY <1>2 DEF Removed, Removing
  <1>3. ASSUME NEW name \in {"output", "work"}, WriteBuildDirectoryMarker(name)
        PROVE  GoesOnChanging
    BY <1>3 DEF WriteBuildDirectoryMarker, Change
  <1>4. CASE RenderFile
    BY <1>4 DEF RenderFile, Change
  <1>5. CASE RenderEnds
    BY <1>5 DEF RenderEnds
  <1>6. CASE WriteManifest \/ WriteRecords
    BY <1>6 DEF WriteManifest, WriteRecords, Change
  <1> QED
    BY <1>1, <1>2, <1>3, <1>4, <1>5, <1>6

\* Every step is one of these.
LEMMA NextIs ==
    ASSUME [BuildNext]_buildVars
    PROVE  \/ \E command \in Commands : Start(command)
           \/ OnlyChecks
           \/ GoesOnChanging /\ Write
           \/ RenderFails \/ Succeed \/ Crash \/ AuthorEdits
           \/ UNCHANGED buildVars
  BY IntakeChecks, BuildChecks, WritesChange DEF BuildNext, Write

-----------------------------------------------------------------------------
(* Refusals.                                                               *)

\* A command that goes on has not answered, and one that only checked has changed nothing.
Refusals ==
    /\ step \in {"idle", "ended"} \cup Checking \cup Changing
    /\ step # "ended" => result = <<>>
    /\ step \in Checking => directories = began.directories
    /\ RefusalTouchesNothing

LEMMA RefusalsInitially ==
    ASSUME BuildInit
    PROVE  Refusals
  BY DEF BuildInit, Refusals, RefusalTouchesNothing

LEMMA RefusalsKept ==
    ASSUME Refusals, [BuildNext]_buildVars
    PROVE  Refusals'
  <1> USE DEF Refusals
  <1>1. ASSUME NEW command \in Commands, Start(command)  PROVE Refusals'
    <2>1. Head(Steps) = "configuration"
      BY StepsInOrder DEF Steps, IntakeSteps
    <2> QED
      BY <1>1, <2>1 DEF Start, RefusalTouchesNothing, Checking
  <1>2. CASE OnlyChecks
    <2>1. directories' = began'.directories
      BY <1>2 DEF OnlyChecks
    <2> QED
      BY <1>2, <2>1 DEF OnlyChecks, RefusalTouchesNothing, Checking, Changing
  <1>3. CASE GoesOnChanging
    BY <1>3 DEF GoesOnChanging, RefusalTouchesNothing, Checking, Changing, Filling
  <1>4. CASE RenderFails
    <2>1. Codes' = {"RENDER_DIAGNOSTIC"}
      BY <1>4 DEF RenderFails, Fail, FindingOf, Envelope, Codes, Code
    <2> QED
      BY <1>4, <2>1 DEF RenderFails, Fail, RefusalTouchesNothing, Checking
  <1>5. CASE Succeed
    BY <1>5 DEF Succeed, Envelope, RefusalTouchesNothing, Succeeded, Checking
  <1>6. CASE Crash
    BY <1>6 DEF Crash, RefusalTouchesNothing, Checking, Changing
  <1>7. CASE AuthorEdits
    <2>1. UNCHANGED <<directories, step, result, began>>
      BY <1>7 DEF AuthorEdits, ReplaceFile, RemoveFile, RewriteDocument, RemoveDocument, Edit
    <2> QED
      BY <2>1 DEF RefusalTouchesNothing, Succeeded, Codes
  <1>8. CASE UNCHANGED buildVars
    BY <1>8 DEF buildVars, RefusalTouchesNothing, Succeeded, Codes
  <1> QED
    BY <1>1, <1>2, <1>3, <1>4, <1>5, <1>6, <1>7, <1>8, NextIs

(* A build that is refused before it renders leaves both directories as it *)
(* found them: build.js removes nothing until everything was checked.      *)
THEOREM RefusalTouchesNothingHolds == BuildSpec => []RefusalTouchesNothing
  <1>1. Refusals => RefusalTouchesNothing
    BY DEF Refusals
  <1> QED
    BY RefusalsInitially, RefusalsKept, <1>1, PTL DEF BuildSpec

-----------------------------------------------------------------------------
(* Contents.                                                               *)

Directory(name) ==
    [marker |-> directories[name].marker, files |-> directories[name].files]

\* What each of the steps that change finds in the two directories.
Contents ==
    /\ directories = [name \in {"output", "work"} |-> Directory(name)]
    /\ WorkDescribesTheOutput
    /\ step = "remove-work" => directories["output"].files = {}
    /\ step = "render" => directories["work"].files = {}
    /\ step \in {"render"} \cup Filling =>
           \A file \in directories["output"].files : file.of = BuildInput
    /\ step \in Filling => \A record \in directories["work"].files : record.of = BuildInput

LEMMA ContentsInitially ==
    ASSUME BeginningsAreOfBuilds, BuildInit
    PROVE  Contents
  <1>1. PICK beginning \in Beginnings : directories = beginning.directories
    BY DEF BuildInit
  <1>2. directories = [name \in {"output", "work"} |-> Directory(name)]
    BY <1>1 DEF BeginningsAreOfBuilds, Directory
  <1>3. WorkDescribesTheOutput
    BY <1>1 DEF BeginningsAreOfBuilds, WorkDescribesTheOutput
  <1>4. step = "idle"
    BY DEF BuildInit
  <1> QED  BY <1>2, <1>3, <1>4 DEF Contents, Filling

\* A change of one directory leaves the other as it was.
LEMMA ChangeOfOne ==
    ASSUME NEW name \in {"output", "work"}, NEW directory, Contents, Change(name, directory)
    PROVE  /\ directories'[name] = directory
           /\ \A other \in {"output", "work"} \ {name} : directories'[other] = directories[other]
           /\ DOMAIN directories' = {"output", "work"}
           /\ BuildInput' = BuildInput
  BY DEF Change, Contents, BuildInput

\* While the directories stay as they are, so do what they hold and its description.
LEMMA NothingChanges ==
    ASSUME Contents, UNCHANGED directories, step' \notin {"remove-work", "render"} \cup Filling
    PROVE  Contents'
  BY DEF Contents, Directory, WorkDescribesTheOutput

\* A directory with a marker, or without.
LEMMA MarkedDirectory ==
    ASSUME NEW d, NEW marked, d = [marker |-> d.marker, files |-> d.files]
    PROVE  [d EXCEPT !.marker = marked] = [marker |-> marked, files |-> d.files]
  OBVIOUS

LEMMA DirectoryIsRecord ==
    ASSUME Contents, NEW name \in {"output", "work"}
    PROVE  directories[name] =
               [marker |-> directories[name].marker, files |-> directories[name].files]
  BY DEF Contents, Directory

\* One entry less.
Lessens(name, directory) ==
    /\ Change(name, directory)
    /\ directory = [marker |-> directory.marker, files |-> directory.files]
    /\ directory.files \subseteq directories[name].files

LEMMA RemovalKeepsContents ==
    ASSUME Contents, NEW name \in {"output", "work"}, RemoveEntry(name)
    PROVE  Contents'
  <1>1. PICK directory : Lessens(name, directory)
    <2>1. directories[name] = Directory(name)
      BY DEF Contents
    <2>2. CASE \E file \in directories[name].files :
                  Change(name, [directories[name] EXCEPT !.files = @ \ {file}])
      <3>1. PICK file : Change(name, [directories[name] EXCEPT !.files = @ \ {file}])
        BY <2>2
      <3> DEFINE rest == [marker |-> directories[name].marker,
                          files |-> directories[name].files \ {file}]
      <3>2. [directories[name] EXCEPT !.files = @ \ {file}] = rest
        BY <2>1 DEF Directory
      <3>3. Lessens(name, rest)
        BY <3>1, <3>2 DEF Lessens
      <3> QED  BY <3>3
    <2>3. CASE Change(name, [directories[name] EXCEPT !.marker = FALSE])
      <3> DEFINE rest == [marker |-> FALSE, files |-> directories[name].files]
      <3>1. [directories[name] EXCEPT !.marker = FALSE] = rest
        BY DirectoryIsRecord, MarkedDirectory, Zenon
      <3>2. Lessens(name, rest)
        BY <2>3, <3>1 DEF Lessens
      <3> QED  BY <3>2
    <2> QED  BY <2>2, <2>3 DEF RemoveEntry
  <1>2. step' = step /\ step \in {"remove-output", "remove-work"}
    BY DEF RemoveEntry, Removing, Go
  <1>3. \A other \in {"output", "work"} : directories'[other].files \subseteq directories[other].files
    BY <1>1, ChangeOfOne DEF Lessens
  <1>4. directories' = [other \in {"output", "work"} |-> Directory(other)']
    BY <1>1, ChangeOfOne DEF Lessens, Directory, Contents, Change
  <1>5. WorkDescribesTheOutput'
    BY <1>3 DEF Contents, WorkDescribesTheOutput
  <1> QED
    BY <1>2, <1>3, <1>4, <1>5 DEF Contents, Filling

LEMMA EmptyDirectory ==
    ASSUME Contents, NEW name \in {"output", "work"}, Removed(name)
    PROVE  Contents'
  <1>1. directories[name].files = {} /\ UNCHANGED <<directories, intake>>
    BY DEF Removed, Empty
  <1>2. \/ name = "output" /\ step' = "remove-work"
        \/ name = "work" /\ step = "remove-work" /\ step' = "render"
    BY AfterChanging DEF Removed, Removing, Proceed, Go
  <1>3. WorkDescribesTheOutput' /\ directories' = [other \in {"output", "work"} |-> Directory(other)']
    BY <1>1 DEF Contents, WorkDescribesTheOutput, Directory
  <1> QED
    BY <1>1, <1>2, <1>3 DEF Contents, Filling

\* What is written is of the input that was read.
LEMMA WritingKeepsContents ==
    ASSUME Contents, NEW name \in {"output", "work"}, NEW directory,
           Change(name, directory),
           directory = [marker |-> directory.marker, files |-> directory.files],
           \A file \in directory.files : file \in directories[name].files \/ file.of = BuildInput,
           \/ name = "output" /\ step = "render" /\ step' = "render"
           \/ step \in Filling /\ step' \in Filling
    PROVE  Contents'
  <1>1. \A file \in directories'["output"].files : file.of = BuildInput'
    BY ChangeOfOne DEF Contents
  <1>2. /\ step' = "render" => directories'["work"].files = {}
        /\ step' \in Filling => \A record \in directories'["work"].files : record.of = BuildInput'
    BY ChangeOfOne DEF Contents, Filling
  <1>3. directories' = [other \in {"output", "work"} |-> Directory(other)']
    BY ChangeOfOne DEF Directory, Contents, Change
  <1>4. WorkDescribesTheOutput'
    BY <1>1, <1>2 DEF WorkDescribesTheOutput, Filling
  <1> QED
    BY <1>1, <1>2, <1>3, <1>4 DEF Contents, Filling

\* The three ways to write: a rendered file, a marker, a record.
LEMMA WithFiles ==
    ASSUME Contents, NEW name \in {"output", "work"}, NEW names
    PROVE  With(directories[name], names) =
               [marker |-> directories[name].marker,
                files |-> directories[name].files \cup {File(n) : n \in names}]
  BY DEF With, Contents, Directory

LEMMA FileIsOfTheInput ==
    ASSUME NEW n
    PROVE  File(n).of = BuildInput
  BY DEF File

LEMMA WritesKeepContents ==
    ASSUME Contents,
           \/ RenderFile \/ WriteManifest \/ WriteRecords
           \/ \E name \in {"output", "work"} : WriteBuildDirectoryMarker(name)
    PROVE  Contents'
  <1>1. ASSUME NEW name \in {"output", "work"}, NEW names,
               Change(name, With(directories[name], names)),
               \/ name = "output" /\ step = "render" /\ step' = "render"
               \/ step \in Filling /\ step' \in Filling
        PROVE  Contents'
    <2> DEFINE written == With(directories[name], names)
    <2>1. /\ written = [marker |-> written.marker, files |-> written.files]
          /\ written.files = directories[name].files \cup {File(n) : n \in names}
      <3>1. written = [marker |-> directories[name].marker,
                       files |-> directories[name].files \cup {File(n) : n \in names}]
        BY WithFiles
      <3> HIDE DEF written
      <3> QED  BY <3>1
    <2>2. \A file \in written.files : file \in directories[name].files \/ file.of = BuildInput
      BY <2>1, FileIsOfTheInput
    <2> HIDE DEF written
    <2>3. Change(name, written)
      BY <1>1 DEF written
    <2> QED  BY <1>1, <2>1, <2>2, <2>3, WritingKeepsContents
  <1>2. CASE RenderFile
    BY <1>2, <1>1 DEF RenderFile, Go
  <1>3. CASE WriteManifest \/ WriteRecords
    BY <1>3, <1>1, AfterChanging DEF WriteManifest, WriteRecords, Proceed, Go, Filling
  <1>4. ASSUME NEW name \in {"output", "work"}, WriteBuildDirectoryMarker(name)
        PROVE  Contents'
    <2> DEFINE marked == [directories[name] EXCEPT !.marker = TRUE]
    <2>1. marked = [marker |-> TRUE, files |-> directories[name].files]
      BY DirectoryIsRecord, MarkedDirectory, Zenon
    <2>2. /\ marked = [marker |-> marked.marker, files |-> marked.files]
          /\ marked.files = directories[name].files
      BY <2>1
    <2>3. Change(name, marked) /\ step \in Filling /\ step' \in Filling
      BY <1>4, AfterChanging DEF WriteBuildDirectoryMarker, Filling, Proceed, Go
    <2> HIDE DEF marked
    <2> QED  BY <2>2, <2>3, WritingKeepsContents
  <1> QED
    BY <1>2, <1>3, <1>4

LEMMA ContentsKept ==
    ASSUME Contents, [BuildNext]_buildVars
    PROVE  Contents'
  <1>1. ASSUME NEW command \in Commands, Start(command)  PROVE Contents'
    <2>1. Head(Steps) = "configuration"
      BY StepsInOrder DEF Steps, IntakeSteps
    <2> QED
      BY <1>1, <2>1, NothingChanges DEF Start, Filling
  <1>2. CASE OnlyChecks
    BY <1>2, NothingChanges DEF OnlyChecks, Checking, Filling
  <1>3. CASE GoesOnChanging /\ Write
    <2>1. CASE RenderEnds
      BY <2>1, AfterChanging
      DEF RenderEnds, Proceed, Go, Contents, Directory, Filling, WorkDescribesTheOutput, BuildInput
    <2>2. GoesOnChanging => ~OnlyChecks /\ ~RenderFails
      BY DEF GoesOnChanging, OnlyChecks, Checking, Changing, Filling, RenderFails, Fail
    <2> QED
      BY <1>3, <2>1, <2>2, BuildChecks, RemovalKeepsContents, EmptyDirectory, WritesKeepContents
      DEF Write
  <1>4. CASE RenderFails \/ Succeed \/ Crash
    BY <1>4, NothingChanges DEF RenderFails, Fail, Succeed, Crash, Filling
  <1>5. CASE AuthorEdits
    <2>1. UNCHANGED <<directories, step, intake>>
      BY <1>5 DEF AuthorEdits, ReplaceFile, RemoveFile, RewriteDocument, RemoveDocument, Edit
    <2> QED
      BY <2>1 DEF Contents, Directory, WorkDescribesTheOutput, BuildInput
  <1>6. CASE UNCHANGED buildVars
    BY <1>6 DEF buildVars, Contents, Directory, WorkDescribesTheOutput, BuildInput
  <1> QED
    BY <1>1, <1>2, <1>3, <1>4, <1>5, <1>6, NextIs

(* Whatever died in between, a manifest in the work directory and what is  *)
(* in the output directory come of one build input (build.js removes       *)
(* output and work before it renders), if that was so to begin with.       *)
THEOREM WorkDescribesTheOutputHolds ==
    ASSUME BeginningsAreOfBuilds
    PROVE  BuildSpec => []WorkDescribesTheOutput
  <1>1. BuildInit => Contents
    BY ContentsInitially
  <1>2. Contents => WorkDescribesTheOutput
    BY DEF Contents
  <1> QED
    BY <1>1, ContentsKept, <1>2, PTL DEF BuildSpec

-----------------------------------------------------------------------------
(* The byte order of paths.                                                *)

Paths == ToSet(PathOrder)

LEMMA PathRanks ==
    /\ \A path \in Paths : PathRank[path] \in Nat
    /\ \A left, right \in Paths : PathRank[left] = PathRank[right] => left = right
<1>1. /\ DOMAIN PathOrder = 1 .. Len(PathOrder) /\ Len(PathOrder) \in Nat
  BY EnvelopeAssumption, LenProperties
<1>2. \A path \in Paths : \E i \in DOMAIN PathOrder : PathOrder[i] = path
  BY DEF Paths, ToSet
<1>3. \A path \in Paths :
         PathRank[path] \in DOMAIN PathOrder /\ PathOrder[PathRank[path]] = path
  BY <1>2 DEF PathRank, Paths
<1>4. QED  BY <1>1, <1>3

LEMMA PathsAreOrdered ==
    /\ \A left, right : CompareUtf8(left, right) => left \in Paths /\ right \in Paths
    /\ \A path : ~CompareUtf8(path, path)
    /\ \A left, middle, right :
          CompareUtf8(left, middle) /\ CompareUtf8(middle, right)
             => CompareUtf8(left, right)
    /\ \A left, right \in Paths :
          left = right \/ CompareUtf8(left, right) \/ CompareUtf8(right, left)
<1>1. \A left, right : CompareUtf8(left, right) <=>
         left \in Paths /\ right \in Paths /\ PathRank[left] < PathRank[right]
  BY DEF CompareUtf8, Paths
<1>2. QED  BY <1>1, PathRanks

LEMMA LeastMember ==
    ASSUME NEW I \in SUBSET Nat, I # {}
    PROVE  \E i \in I : \A k \in I : i <= k
<1> DEFINE less == {pair \in Nat \X Nat : pair[1] < pair[2]}
<1>1. IsWellFoundedOn(less, Nat)
  BY NatLessThanWellFounded DEF OpToRel
<1>2. \A x, y \in Nat : y < x => <<y, x>> \in less
  OBVIOUS
<1> HIDE DEF less
<1>3. PICK x \in I : \A y \in I : ~(<<y, x>> \in less)
  BY <1>1, WFMin
<1>4. ASSUME NEW y \in I PROVE x <= y
  <2>1. x \in Nat /\ y \in Nat /\ ~(y < x)
    BY <1>2, <1>3
  <2>2. QED  BY <2>1
<1>5. QED  BY <1>4

(* Each row before the next one: then each before all that follow it.      *)
AscendTo(rows, n) ==
    /\ n \in Nat
    /\ DOMAIN rows = 1 .. n
    /\ \A i \in 2 .. n : ByPath(rows[i - 1], rows[i])

LEMMA AscendingIsAscending ==
    ASSUME NEW rows, NEW n, AscendTo(rows, n)
    PROVE  \A i, j \in 1 .. n : i < j <=> ByPath(rows[i], rows[j])
<1> DEFINE low(i, j) == CompareUtf8(rows[i].path, rows[j].path)
<1>1. \A i \in 2 .. n : low(i - 1, i)
  BY DEF AscendTo, ByPath
<1>2. /\ \A i : ~low(i, i)
      /\ \A i, j, k : low(i, j) /\ low(j, k) => low(i, k)
  BY PathsAreOrdered
<1> HIDE DEF low
<1>3. ASSUME NEW i \in 1 .. n, NEW j \in 1 .. n, i < j PROVE low(i, j)
  <2> DEFINE failing == {k \in 1 .. n : i < k /\ ~low(i, k)}
  <2>1. SUFFICES ASSUME failing # {} PROVE FALSE
    BY <1>3
  <2>2. n \in Nat
    BY DEF AscendTo
  <2>3. failing \in SUBSET Nat
    BY <2>2
  <2>4. PICK k \in failing : \A other \in failing : k <= other
    BY <2>1, <2>3, LeastMember
  <2>5. k \in 2 .. n /\ i < k /\ ~low(i, k)
    BY <2>2, <2>4
  <2>6. low(k - 1, k)
    BY <1>1, <2>5
  <2>7. CASE k - 1 = i
    BY <2>5, <2>6, <2>7
  <2>8. CASE k - 1 # i
    <3>1. k - 1 \in 1 .. n /\ i < k - 1 /\ ~(k <= k - 1)
      BY <2>2, <2>5, <2>8
    <3>2. low(i, k - 1)
      BY <2>4, <3>1
    <3>3. QED  BY <1>2, <2>5, <2>6, <3>2
  <2>9. QED  BY <2>7, <2>8
<1>4. ASSUME NEW i \in 1 .. n, NEW j \in 1 .. n, low(i, j) PROVE i < j
  <2>1. i \in Int /\ j \in Int
    BY DEF AscendTo
  <2>2. ~(i = j) /\ ~(j < i)
    BY <1>2, <1>3, <1>4
  <2>3. QED  BY <2>1, <2>2
<1>5. QED  BY <1>3, <1>4 DEF low, ByPath

LEMMA AscendingIsSorted ==
    ASSUME NEW rows, NEW n, AscendTo(rows, n), rows = [i \in 1 .. n |-> rows[i]]
    PROVE  InByteOrder(rows) = rows
<1> DEFINE lesser(i) == {j \in DOMAIN rows : ByPath(rows[j], rows[i])}
<1>1. n \in Nat /\ DOMAIN rows = 1 .. n
  BY DEF AscendTo
<1>2. ASSUME NEW i \in 1 .. n PROVE Cardinality(lesser(i)) = i - 1
  <2>1. lesser(i) = 1 .. i - 1
    BY <1>1, AscendingIsAscending
  <2>2. PICK last \in Nat : last = i - 1
    BY <1>1
  <2>3. Cardinality(1 .. last) = last
    <3>1. 1 \in Int /\ last \in Int
      OBVIOUS
    <3>2. Cardinality(1 .. last) = IF 1 > last THEN 0 ELSE last - 1 + 1
      BY <3>1, FS_Interval, Zenon
    <3>3. QED  BY <3>2
  <2>4. QED  BY <2>1, <2>2, <2>3
<1> HIDE DEF lesser
<1> DEFINE found(place) == CHOOSE i \in 1 .. n : Cardinality(lesser(i)) = place - 1
<1>3. ASSUME NEW place \in 1 .. n
      PROVE  found(place) = place
  BY <1>1, <1>2, <1>3
<1>4. InByteOrder(rows) = [place \in 1 .. n |-> rows[found(place)]]
  BY <1>1 DEF InByteOrder, lesser
<1> HIDE DEF found
<1>5. QED  BY <1>3, <1>4

-----------------------------------------------------------------------------
(* What a stream of records is, however it was damaged: bytes that are the *)
(* canonical form of a document are nothing else.                          *)

RecordIsShaped(record) ==
    /\ record = [kind |-> record.kind, path |-> record.path, content |-> record.content]
    /\ record.kind # "payload" /\ Has(record.content, "jcs") =>
          record.content = JcsBytes(record.content.jcs)

RecordsAreShaped(records) ==
    /\ records \in Seq(ToSet(records))
    /\ \A i \in DOMAIN records : RecordIsShaped(records[i])

StreamIsShaped(stream) ==
    /\ stream = [magic |-> stream.magic, count |-> stream.count,
                 records |-> stream.records, tail |-> stream.tail]
    /\ stream.magic \in BOOLEAN /\ stream.tail \in BOOLEAN /\ stream.count \in Int
    /\ RecordsAreShaped(stream.records)

LEMMA MetadataPositions ==
    /\ Len(MetadataRecords) = 3 /\ DOMAIN MetadataRecords = 1 .. 3
    /\ MetadataRecords[1].kind = "manifest"
    /\ MetadataRecords[2].kind = "provenance"
    /\ MetadataRecords[3].kind = "sbom"
    /\ \A k \in 1 .. 3 :
          (CHOOSE i \in DOMAIN MetadataRecords :
              MetadataRecords[i].kind = MetadataRecords[k].kind) = k
<1>1. /\ Len(MetadataRecords) = 3 /\ DOMAIN MetadataRecords = 1 .. 3
      /\ MetadataRecords[1].kind = "manifest"
      /\ MetadataRecords[2].kind = "provenance"
      /\ MetadataRecords[3].kind = "sbom"
  BY DEF MetadataRecords
<1>2. ASSUME NEW k \in 1 .. 3
      PROVE  (CHOOSE i \in DOMAIN MetadataRecords :
                 MetadataRecords[i].kind = MetadataRecords[k].kind) = k
  <2>1. \A i \in DOMAIN MetadataRecords :
           MetadataRecords[i].kind = MetadataRecords[k].kind => i = k
    BY <1>1
  <2>2. QED  BY <1>1, <2>1
<1>3. QED  BY <1>1, <1>2

LEMMA RecordsOfStream ==
    ASSUME NEW stream, StreamIsShaped(stream), RecordsAreInOrder(stream)
    PROVE  /\ stream.count \in Nat /\ stream.count - 3 \in Nat
           /\ stream.count <= MaximumRecordCount
           /\ DOMAIN stream.records = 1 .. stream.count
           /\ stream.magic = TRUE /\ stream.tail = FALSE
           /\ \A i \in 1 .. stream.count : RecordIsShaped(stream.records[i])
<1>1. stream.count \in 3 .. MaximumRecordCount /\ Len(stream.records) = stream.count
  BY MetadataPositions DEF RecordsAreInOrder, EndsWithItsRecords
<1>2. /\ stream.count \in Nat /\ stream.count - 3 \in Nat
      /\ stream.count <= MaximumRecordCount
  BY <1>1, EnvelopeAssumption
<1>3. DOMAIN stream.records = 1 .. stream.count
  BY <1>1, LenProperties DEF StreamIsShaped, RecordsAreShaped
<1>4. \A i \in 1 .. stream.count : RecordIsShaped(stream.records[i])
  BY <1>3 DEF StreamIsShaped, RecordsAreShaped
<1>5. stream.magic = TRUE /\ stream.tail = FALSE
  BY DEF StreamIsShaped, RecordsAreInOrder, EndsWithItsRecords
<1>6. QED  BY <1>2, <1>3, <1>4, <1>5

LEMMA RecordCount ==
    ASSUME NEW stream, StreamIsShaped(stream), RecordsAreInOrder(stream),
           NEW n, n = stream.count - 3
    PROVE  n \in Nat /\ stream.count = n + 3
<1>1. stream.count \in Nat /\ stream.count - 3 \in Nat
  BY RecordsOfStream
<1>2. QED  BY <1>1

LEMMA PayloadRecords ==
    ASSUME NEW stream, StreamIsShaped(stream), RecordsAreInOrder(stream),
           NEW n, n = stream.count - 3
    PROVE  /\ \A i \in 1 .. n :
                 /\ stream.records[i].kind = "payload"
                 /\ RequirePayloadPath(stream.records[i].path)
                 /\ RecordIsShaped(stream.records[i])
           /\ \A i \in 2 .. n : ByPath(stream.records[i - 1], stream.records[i])
<1>1. n \in Nat /\ stream.count = n + 3
  BY RecordCount
<1>2. \A i \in 1 .. n : i \in 1 .. stream.count /\ ~(i > n)
  BY <1>1
<1>3. \A i \in 2 .. n : i \in 1 .. n /\ i > 1
  BY <1>1
<1>4. \A i \in 1 .. n : RecordIsInPlace(stream, i)
  BY <1>2 DEF RecordsAreInOrder
<1>5. stream.count - Len(MetadataRecords) = n
  BY MetadataPositions
<1>6. \A i \in 1 .. n :
         /\ stream.records[i].kind = "payload"
         /\ RequirePayloadPath(stream.records[i].path)
         /\ i > 1 => ByPath(stream.records[i - 1], stream.records[i])
  BY <1>2, <1>4, <1>5 DEF RecordIsInPlace
<1>7. \A i \in 1 .. n : RecordIsShaped(stream.records[i])
  BY <1>2, RecordsOfStream
<1>8. QED  BY <1>3, <1>6, <1>7

LEMMA MetadataInPlace ==
    ASSUME NEW stream, StreamIsShaped(stream), RecordsAreInOrder(stream),
           NEW n, n = stream.count - 3, NEW k \in 1 .. 3
    PROVE  /\ RecordIsShaped(stream.records[n + k])
           /\ stream.records[n + k].kind = MetadataRecords[k].kind
           /\ stream.records[n + k].path = MetadataRecords[k].path
           /\ stream.records[n + k].content = MetadataOf(stream, MetadataRecords[k].kind)
<1>1. n \in Nat /\ stream.count = n + 3
  BY RecordCount
<1>2. PICK i : i = n + k
  OBVIOUS
<1>3. i \in 1 .. stream.count /\ i > n /\ i - n = k
  <2>1. n \in Nat /\ k \in Nat /\ 1 <= k /\ k <= 3
    BY <1>1
  <2>2. i \in 1 .. n + 3 /\ i > n /\ i - n = k
    BY <1>2, <2>1
  <2>3. QED  BY <1>1, <2>2
<1>4. RecordIsInPlace(stream, i)
  BY <1>3 DEF RecordsAreInOrder
<1>5. stream.count - Len(MetadataRecords) = n
  BY MetadataPositions
<1>6. /\ stream.records[i].kind = MetadataRecords[k].kind
      /\ stream.records[i].path = MetadataRecords[k].path
  BY <1>3, <1>4, <1>5 DEF RecordIsInPlace
<1>7. RecordIsShaped(stream.records[i])
  BY <1>3, RecordsOfStream
<1>8. stream.records[i].content = MetadataOf(stream, MetadataRecords[k].kind)
  BY <1>2, <1>5, MetadataPositions DEF MetadataOf
<1>9. QED  BY <1>2, <1>6, <1>7, <1>8

(* The files a decoder answers are in order, and are written as they were. *)
LEMMA PayloadAscends ==
    ASSUME NEW stream, StreamIsShaped(stream), RecordsAreInOrder(stream),
           NEW payload, payload = PayloadOf(stream), NEW n, n = stream.count - 3
    PROVE  /\ payload = [i \in 1 .. n |-> [path |-> stream.records[i].path,
                                           bytes |-> stream.records[i].content]]
           /\ payload \in Seq(ToSet(payload)) /\ Len(payload) = n
           /\ AscendTo(payload, n)
           /\ Sorted(payload) = payload
<1>1. n \in Nat
  BY RecordsOfStream
<1>2. payload = [i \in 1 .. n |-> [path |-> stream.records[i].path,
                                   bytes |-> stream.records[i].content]]
  BY MetadataPositions DEF PayloadOf
<1>3. \A i \in 2 .. n : ByPath(stream.records[i - 1], stream.records[i])
  BY PayloadRecords
<1>4. AscendTo(payload, n)
  <2>1. \A i \in 1 .. n : payload[i].path = stream.records[i].path
    BY <1>2
  <2>2. \A i \in 2 .. n : i \in 1 .. n /\ i - 1 \in 1 .. n
    BY <1>1
  <2>3. \A i \in 2 .. n : ByPath(payload[i - 1], payload[i])
    BY <1>3, <2>1, <2>2 DEF ByPath
  <2>4. QED  BY <1>1, <1>2, <2>3 DEF AscendTo
<1>5. payload = [i \in 1 .. n |-> payload[i]]
  BY <1>2
<1>6. payload \in Seq(ToSet(payload)) /\ Len(payload) = n
  <2>1. payload \in [1 .. n -> ToSet(payload)]
    BY <1>2 DEF ToSet
  <2>2. payload \in Seq(ToSet(payload))
    BY <1>1, <2>1, SeqDef
  <2>3. QED  BY <1>1, <2>1, <2>2, LenProperties
<1>7. Sorted(payload) = payload
  BY <1>4, <1>5, AscendingIsSorted DEF Sorted
<1>8. QED  BY <1>2, <1>4, <1>6, <1>7

LEMMA DecodedRecords ==
    ASSUME NEW stream, StreamIsShaped(stream), Decodes(stream), NEW answer,
           answer = DecodeFrozenEnvelope(stream), NEW n, n = stream.count - 3,
           NEW k \in 1 .. 3
    PROVE  stream.records[n + k]
              = [kind |-> MetadataRecords[k].kind, path |-> MetadataRecords[k].path,
                 content |-> JcsBytes(answer[MetadataRecords[k].kind])]
<1>1. RecordsAreInOrder(stream) /\ RecordsAgree(stream)
  BY DEF Decodes
<1>2. /\ answer["manifest"] = MetadataOf(stream, "manifest").jcs
      /\ answer["provenance"] = MetadataOf(stream, "provenance").jcs
      /\ answer["sbom"] = MetadataOf(stream, "sbom").jcs
  BY DEF DecodeFrozenEnvelope
<1>3. PICK record : record = stream.records[n + k]
  OBVIOUS
<1>4. Has(MetadataOf(stream, MetadataRecords[k].kind), "jcs")
  BY <1>1, MetadataPositions DEF RecordsAgree, ParsesAsJcsObject
<1>5. /\ RecordIsShaped(record)
      /\ record.kind = MetadataRecords[k].kind
      /\ record.path = MetadataRecords[k].path
      /\ record.content = MetadataOf(stream, MetadataRecords[k].kind)
  BY <1>1, <1>3, MetadataInPlace
<1>6. MetadataRecords[k].kind \in {"manifest", "provenance", "sbom"}
  BY MetadataPositions
<1>7. record.content = JcsBytes(record.content.jcs)
  BY <1>4, <1>5, <1>6 DEF RecordIsShaped
<1>8. answer[MetadataRecords[k].kind] = record.content.jcs
  BY <1>2, <1>5, <1>6
<1>9. record = [kind |-> record.kind, path |-> record.path, content |-> record.content]
  BY <1>5 DEF RecordIsShaped
<1>10. QED  BY <1>3, <1>5, <1>7, <1>8, <1>9

LEMMA FunctionIsSequence ==
    ASSUME NEW S, NEW n \in Nat, NEW f \in [1 .. n -> S]
    PROVE  f \in Seq(S) /\ Len(f) = n
<1>1. f \in Seq(S)
  BY SeqDef
<1>2. QED  BY <1>1, LenProperties

LEMMA ConcatenationOf ==
    ASSUME NEW records, NEW n \in Nat, NEW m \in Nat, DOMAIN records = 1 .. n + m,
           records \in Seq(ToSet(records)), NEW first, NEW second,
           first = [i \in 1 .. n |-> records[i]],
           second = [i \in 1 .. m |-> records[n + i]]
    PROVE  first \o second = records /\ Len(first) = n /\ Len(second) = m
<1> DEFINE S == ToSet(records)
<1>1. \A i \in 1 .. n + m : records[i] \in S
  BY DEF ToSet
<1>2. first \in [1 .. n -> S] /\ second \in [1 .. m -> S]
  <2>1. \A i \in 1 .. n : i \in 1 .. n + m
    OBVIOUS
  <2>2. \A i \in 1 .. m : n + i \in 1 .. n + m
    OBVIOUS
  <2> HIDE DEF S
  <2>3. QED  BY <1>1, <2>1, <2>2
<1> HIDE DEF S
<1>3. first \in Seq(S) /\ second \in Seq(S)
  BY <1>2, FunctionIsSequence
<1>4. Len(first) = n /\ Len(second) = m
  BY <1>2, FunctionIsSequence
<1>5. /\ first \o second \in Seq(S)
      /\ Len(first \o second) = n + m
      /\ \A i \in 1 .. n + m : (first \o second)[i]
            = IF i <= n THEN first[i] ELSE second[i - n]
  BY <1>3, <1>4, ConcatProperties
<1>6. ASSUME NEW i \in 1 .. n + m PROVE (first \o second)[i] = records[i]
  <2>1. CASE i <= n
    BY <1>5, <2>1
  <2>2. CASE ~(i <= n)
    <3>1. i - n \in 1 .. m /\ n + (i - n) = i
      BY <2>2
    <3>2. second[i - n] = records[n + (i - n)]
      BY <3>1
    <3>3. QED  BY <1>5, <2>2, <3>1, <3>2
  <2>3. QED  BY <2>1, <2>2
<1>7. records \in Seq(S) /\ Len(records) = n + m
  BY LenProperties DEF S
<1>8. first \o second = records
  BY <1>5, <1>6, <1>7, SeqEqual
<1>9. QED  BY <1>4, <1>8

(* A decoder accepts only what the encoder would have written: an envelope *)
(* has one form for what it answers, so one digest, whatever the stream    *)
(* was before (decodeFrozenEnvelope, encodeFrozenEnvelope).                *)
LEMMA EncodingIsCanonical ==
    ASSUME NEW stream, StreamIsShaped(stream), Decodes(stream), NEW answer,
           answer = DecodeFrozenEnvelope(stream)
    PROVE  Encodes(answer) /\ EncodeFrozenEnvelope(answer) = stream
<1> DEFINE n == stream.count - 3
           payload == [i \in 1 .. n |-> [kind |-> "payload", path |-> answer.files[i].path,
                                         content |-> answer.files[i].bytes]]
           metadata == [i \in 1 .. 3 |-> [kind |-> MetadataRecords[i].kind,
                                          path |-> MetadataRecords[i].path,
                                          content |-> JcsBytes(answer[MetadataRecords[i].kind])]]
<1>1. RecordsAreInOrder(stream)
  BY DEF Decodes
<1>2. answer.files = PayloadOf(stream)
  BY DEF DecodeFrozenEnvelope
<1>3. /\ answer.files = [i \in 1 .. n |-> [path |-> stream.records[i].path,
                                           bytes |-> stream.records[i].content]]
      /\ Len(answer.files) = n
      /\ AscendTo(answer.files, n)
      /\ Sorted(answer.files) = answer.files
  BY <1>1, <1>2, PayloadAscends
<1>4. n \in Nat /\ stream.count = n + 3
  BY <1>1, RecordCount
<1>5. payload = [i \in 1 .. n |-> stream.records[i]]
  <2>1. ASSUME NEW i \in 1 .. n PROVE payload[i] = stream.records[i]
    <3>1. PICK record : record = stream.records[i]
      OBVIOUS
    <3>2. answer.files[i].path = record.path /\ answer.files[i].bytes = record.content
      BY <1>3, <3>1
    <3>3. record.kind = "payload"
          /\ record = [kind |-> record.kind, path |-> record.path,
                       content |-> record.content]
      BY <1>1, <3>1, PayloadRecords DEF RecordIsShaped
    <3>4. QED  BY <3>1, <3>2, <3>3
  <2>2. QED  BY <2>1
<1>6. metadata = [i \in 1 .. 3 |-> stream.records[n + i]]
  BY DecodedRecords
<1>7. /\ DOMAIN stream.records = 1 .. n + 3
      /\ stream.records \in Seq(ToSet(stream.records))
  BY <1>1, <1>4, RecordsOfStream DEF StreamIsShaped, RecordsAreShaped
<1>8. payload \o metadata = stream.records /\ Len(payload) = n /\ Len(metadata) = 3
  <2> HIDE DEF n, payload, metadata
  <2>1. QED  BY <1>4, <1>5, <1>6, <1>7, ConcatenationOf
<1>9. StreamOf(answer) = [magic |-> TRUE, count |-> Len(payload) + Len(metadata),
                          records |-> payload \o metadata, tail |-> FALSE]
  <2>1. DOMAIN answer.files = 1 .. n
    BY <1>3
  <2>2. payload = [i \in DOMAIN answer.files |->
                     [kind |-> "payload", path |-> answer.files[i].path,
                      content |-> answer.files[i].bytes]]
    BY <2>1
  <2>3. metadata = [i \in DOMAIN MetadataRecords |->
                      [kind |-> MetadataRecords[i].kind,
                       path |-> MetadataRecords[i].path,
                       content |-> JcsBytes(answer[MetadataRecords[i].kind])]]
    BY MetadataPositions
  <2> HIDE DEF payload, metadata
  <2>4. QED  BY <1>3, <2>2, <2>3, Zenon DEF StreamOf
<1>10. stream.magic = TRUE /\ stream.tail = FALSE
  BY <1>1, RecordsOfStream
<1> HIDE DEF payload, metadata
<1>11. StreamOf(answer) = stream
  BY <1>4, <1>8, <1>9, <1>10 DEF StreamIsShaped
<1>12. /\ Len(answer.files) + Len(MetadataRecords) <= MaximumRecordCount
       /\ \A i \in DOMAIN answer.files : RequirePayloadPath(answer.files[i].path)
       /\ IsInjective([i \in DOMAIN answer.files |-> answer.files[i].path])
  <2>1. n + 3 <= MaximumRecordCount
    BY <1>1, <1>4, RecordsOfStream
  <2>2. \A i \in 1 .. n : answer.files[i].path = stream.records[i].path
    BY <1>3
  <2>3. \A i \in 1 .. n : RequirePayloadPath(stream.records[i].path)
    BY <1>1, PayloadRecords
  <2>4. ASSUME NEW i \in 1 .. n, NEW j \in 1 .. n,
               answer.files[i].path = answer.files[j].path
        PROVE  i = j
    <3>1. ~ByPath(answer.files[i], answer.files[j]) /\ ~ByPath(answer.files[j], answer.files[i])
      BY <2>4, PathsAreOrdered DEF ByPath
    <3>2. ~(i < j) /\ ~(j < i)
      BY <1>3, <3>1, AscendingIsAscending
    <3>3. QED  BY <1>4, <3>2
  <2>5. DOMAIN answer.files = 1 .. n
    BY <1>3
  <2>6. IsInjective([i \in DOMAIN answer.files |-> answer.files[i].path])
    BY <2>4, <2>5 DEF IsInjective
  <2>7. QED  BY <1>3, <2>1, <2>2, <2>3, <2>5, <2>6, MetadataPositions
<1>13. EnvelopeByteCount(stream) <= MaximumEnvelopeBytes
  BY <1>1 DEF RecordsAreInOrder
<1>14. QED  BY <1>11, <1>12, <1>13 DEF Encodes, EncodeFrozenEnvelope

-----------------------------------------------------------------------------
(* Streams keep their shape.                                               *)

LEMMA ShapedSequence ==
    ASSUME NEW S, \A record \in S : RecordIsShaped(record), NEW records \in Seq(S)
    PROVE  RecordsAreShaped(records)
<1>1. /\ DOMAIN records = 1 .. Len(records) /\ Len(records) \in Nat
      /\ records \in [1 .. Len(records) -> S]
  BY LenProperties
<1>2. records \in [1 .. Len(records) -> ToSet(records)]
  BY <1>1 DEF ToSet
<1>3. records \in Seq(ToSet(records))
  BY <1>1, <1>2, FunctionIsSequence
<1>4. \A i \in DOMAIN records : RecordIsShaped(records[i])
  BY <1>1
<1>5. QED  BY <1>3, <1>4 DEF RecordsAreShaped

LEMMA EnvelopeIsShaped ==
    ASSUME NEW candidate, NEW n \in Nat, DOMAIN candidate.files = 1 .. n
    PROVE  StreamIsShaped(StreamOf(candidate))
<1> DEFINE files == Sorted(candidate.files)
           payload == [i \in DOMAIN files |->
                         [kind |-> "payload", path |-> files[i].path,
                          content |-> files[i].bytes]]
           metadata == [i \in DOMAIN MetadataRecords |->
                          [kind |-> MetadataRecords[i].kind,
                           path |-> MetadataRecords[i].path,
                           content |-> JcsBytes(candidate[MetadataRecords[i].kind])]]
           S == {payload[i] : i \in 1 .. n} \cup {metadata[i] : i \in 1 .. 3}
<1>1. DOMAIN files = 1 .. n
  BY DEF Sorted, InByteOrder
<1>2. DOMAIN MetadataRecords = 1 .. 3
  BY MetadataPositions
<1>3. ASSUME NEW record \in S PROVE RecordIsShaped(record)
  <2>1. CASE \E i \in 1 .. n : record = payload[i]
    <3>1. PICK i \in 1 .. n : record = payload[i]
      BY <2>1
    <3>2. record = [kind |-> "payload", path |-> files[i].path, content |-> files[i].bytes]
      BY <1>1, <3>1
    <3>3. QED  BY <3>2 DEF RecordIsShaped
  <2>2. CASE \E i \in 1 .. 3 : record = metadata[i]
    <3>1. PICK i \in 1 .. 3 : record = metadata[i]
      BY <2>2
    <3>2. PICK document : document = candidate[MetadataRecords[i].kind]
      OBVIOUS
    <3>3. record = [kind |-> MetadataRecords[i].kind, path |-> MetadataRecords[i].path,
                    content |-> JcsBytes(document)]
      BY <1>2, <3>1, <3>2
    <3>4. record.content = JcsBytes(document) /\ JcsBytes(document).jcs = document
      BY <3>3 DEF JcsBytes
    <3>5. QED  BY <3>3, <3>4 DEF RecordIsShaped
  <2>3. QED  BY <1>3, <2>1, <2>2
<1>4. payload \in [1 .. n -> S] /\ metadata \in [1 .. 3 -> S]
  BY <1>1, <1>2
<1>5. StreamOf(candidate) = [magic |-> TRUE, count |-> Len(payload) + Len(metadata),
                             records |-> payload \o metadata, tail |-> FALSE]
  BY Zenon DEF StreamOf
<1> HIDE DEF payload, metadata, S, files
<1>6. /\ payload \in Seq(S) /\ metadata \in Seq(S)
      /\ Len(payload) \in Nat /\ Len(metadata) \in Nat
  <2>1. payload \in Seq(S) /\ Len(payload) = n
    BY <1>4, FunctionIsSequence
  <2>2. metadata \in Seq(S) /\ Len(metadata) = 3
    BY <1>4, FunctionIsSequence
  <2>3. QED  BY <2>1, <2>2
<1>7. payload \o metadata \in Seq(S)
  BY <1>6, ConcatProperties
<1>8. RecordsAreShaped(payload \o metadata)
  BY <1>3, <1>7, ShapedSequence
<1>9. QED  BY <1>5, <1>6, <1>8 DEF StreamIsShaped

LEMMA DamageKeepsShape ==
    ASSUME BytesAreOfOneForm, NEW stream, StreamIsShaped(stream),
           NEW damaged \in Damaged(stream)
    PROVE  StreamIsShaped(damaged)
<1> DEFINE records == stream.records
           S == ToSet(stream.records)
           with(changed) == [stream EXCEPT !.records = changed]
<1>1. /\ records \in Seq(S) /\ \A record \in S : RecordIsShaped(record)
      /\ DOMAIN records = 1 .. Len(records) /\ Len(records) \in Nat
      /\ \A i \in DOMAIN records : records[i] \in S
  BY LenProperties DEF StreamIsShaped, RecordsAreShaped, ToSet
<1>2. ASSUME NEW changed, RecordsAreShaped(changed)
      PROVE  StreamIsShaped(with(changed)) /\ with(changed).count \in Int
             /\ StreamIsShaped([with(changed) EXCEPT !.count = @ - 1])
             /\ StreamIsShaped([with(changed) EXCEPT !.count = @ + 1])
  <2>1. with(changed) = [magic |-> stream.magic, count |-> stream.count,
                         records |-> changed, tail |-> stream.tail]
    BY DEF StreamIsShaped
  <2>2. /\ [with(changed) EXCEPT !.count = @ - 1]
              = [magic |-> stream.magic, count |-> stream.count - 1,
                 records |-> changed, tail |-> stream.tail]
        /\ [with(changed) EXCEPT !.count = @ + 1]
              = [magic |-> stream.magic, count |-> stream.count + 1,
                 records |-> changed, tail |-> stream.tail]
    <3>1. with(changed).count = stream.count
      BY <2>1
    <3>2. PICK magic, tail, count, copy :
             /\ magic = stream.magic /\ tail = stream.tail /\ count = stream.count
             /\ copy = with(changed)
      OBVIOUS
    <3> HIDE DEF with
    <3>3. copy = [magic |-> magic, count |-> count, records |-> changed, tail |-> tail]
      BY <2>1, <3>2
    <3>4. /\ [copy EXCEPT !.count = copy.count - 1]
                = [magic |-> magic, count |-> count - 1, records |-> changed,
                   tail |-> tail]
          /\ [copy EXCEPT !.count = copy.count + 1]
                = [magic |-> magic, count |-> count + 1, records |-> changed,
                   tail |-> tail]
      BY <3>3
    <3>5. QED  BY <3>2, <3>4
  <2>3. /\ stream.count \in Int /\ stream.count - 1 \in Int /\ stream.count + 1 \in Int
        /\ stream.magic \in BOOLEAN /\ stream.tail \in BOOLEAN
    BY DEF StreamIsShaped
  <2>4. ASSUME NEW magic \in BOOLEAN, NEW tail \in BOOLEAN, NEW count \in Int
        PROVE  StreamIsShaped([magic |-> magic, count |-> count, records |-> changed,
                               tail |-> tail])
    BY <1>2 DEF StreamIsShaped
  <2> HIDE DEF with
  <2>5. QED  BY <2>1, <2>2, <2>3, <2>4
<1>3. ASSUME NEW i \in DOMAIN records
      PROVE  RecordsAreShaped(RemoveAt(records, i))
             /\ RecordsAreShaped(InsertAt(records, i, records[i]))
  <2>1. i \in Int /\ 1 <= i /\ i <= Len(records)
    BY <1>1
  <2>2. SubSeq(records, 1, i - 1) \in Seq(S)
    <3>1. \A j \in 1 .. i - 1 : j \in DOMAIN records
      BY <1>1, <2>1
    <3>2. \A j \in 1 .. i - 1 : records[j] \in S
      BY <1>1, <3>1
    <3>3. 1 \in Int /\ i - 1 \in Int
      BY <2>1
    <3> HIDE DEF S, records
    <3>4. QED  BY <3>2, <3>3, SubSeqProperties
  <2>3. /\ SubSeq(records, i + 1, Len(records)) \in Seq(S)
        /\ SubSeq(records, i, Len(records)) \in Seq(S)
    <3>1. /\ \A j \in i + 1 .. Len(records) : j \in DOMAIN records
          /\ \A j \in i .. Len(records) : j \in DOMAIN records
      BY <1>1, <2>1
    <3>2. /\ \A j \in i + 1 .. Len(records) : records[j] \in S
          /\ \A j \in i .. Len(records) : records[j] \in S
      BY <1>1, <3>1
    <3>3. i + 1 \in Int /\ Len(records) \in Int
      BY <1>1, <2>1
    <3> HIDE DEF S, records
    <3>4. SubSeq(records, i + 1, Len(records)) \in Seq(S)
      BY <3>2, <3>3, SubSeqProperties
    <3>5. SubSeq(records, i, Len(records)) \in Seq(S)
      BY <2>1, <3>2, <3>3, SubSeqProperties
    <3>6. QED  BY <3>4, <3>5
  <2>4. <<records[i]>> \in Seq(S)
    BY <1>1
  <2> HIDE DEF S, records
  <2>5. RemoveAt(records, i) \in Seq(S)
    BY <2>2, <2>3, ConcatProperties DEF RemoveAt
  <2>6. InsertAt(records, i, records[i]) \in Seq(S)
    <3>1. SubSeq(records, 1, i - 1) \o <<records[i]>> \in Seq(S)
      BY <2>2, <2>4, ConcatProperties
    <3>2. QED  BY <2>3, <3>1, ConcatProperties DEF InsertAt
  <2>7. QED  BY <1>1, <2>5, <2>6, ShapedSequence
<1>4. ASSUME NEW i \in DOMAIN records, NEW record, RecordIsShaped(record)
      PROVE  RecordsAreShaped([records EXCEPT ![i] = record])
  <2> DEFINE T == S \cup {record}
  <2>1. [records EXCEPT ![i] = record] \in [1 .. Len(records) -> T]
    BY <1>1
  <2>2. \A other \in T : RecordIsShaped(other)
    BY <1>1, <1>4
  <2> HIDE DEF T
  <2>3. [records EXCEPT ![i] = record] \in Seq(T)
    BY <1>1, <2>1, FunctionIsSequence
  <2>4. QED  BY <2>2, <2>3, ShapedSequence
<1>5. ASSUME NEW i \in 1 .. Len(records) - 1
      PROVE  RecordsAreShaped([records EXCEPT ![i] = records[i + 1],
                                              ![i + 1] = records[i]])
  <2>1. i \in DOMAIN records /\ i + 1 \in DOMAIN records
    BY <1>1
  <2>2. [records EXCEPT ![i] = records[i + 1], ![i + 1] = records[i]]
           \in [1 .. Len(records) -> S]
    BY <1>1, <2>1
  <2> HIDE DEF S, records
  <2>3. [records EXCEPT ![i] = records[i + 1], ![i + 1] = records[i]] \in Seq(S)
    BY <1>1, <2>2, FunctionIsSequence
  <2>4. QED  BY <1>1, <2>3, ShapedSequence
<1>6. ASSUME NEW i \in DOMAIN records
      PROVE  /\ RecordsAreShaped([records EXCEPT ![i].content = StrayBytes])
             /\ RecordsAreShaped([records EXCEPT ![i].content =
                                     [json |-> records[i].content.jcs]])
             /\ RecordsAreShaped([records EXCEPT ![i].kind = "payload"])
  <2>1. PICK old : old = records[i]
    OBVIOUS
  <2>2. old = [kind |-> old.kind, path |-> old.path, content |-> old.content]
    BY <1>1, <2>1 DEF RecordIsShaped
  <2>3. RecordIsShaped([kind |-> old.kind, path |-> old.path, content |-> StrayBytes])
    BY DEF RecordIsShaped, BytesAreOfOneForm
  <2>4. RecordIsShaped([kind |-> old.kind, path |-> old.path,
                        content |-> [json |-> old.content.jcs]])
    <3>1. ~Has([json |-> old.content.jcs], "jcs")
      BY DEF Has
    <3>2. QED  BY <3>1 DEF RecordIsShaped
  <2>5. RecordIsShaped([kind |-> "payload", path |-> old.path, content |-> old.content])
    BY DEF RecordIsShaped
  <2>6. /\ [old EXCEPT !.content = StrayBytes]
              = [kind |-> old.kind, path |-> old.path, content |-> StrayBytes]
        /\ [old EXCEPT !.content = [json |-> old.content.jcs]]
              = [kind |-> old.kind, path |-> old.path,
                 content |-> [json |-> old.content.jcs]]
        /\ [old EXCEPT !.kind = "payload"]
              = [kind |-> "payload", path |-> old.path, content |-> old.content]
    BY <2>2
  <2>7. [records EXCEPT ![i].content = StrayBytes]
           = [records EXCEPT ![i] = [old EXCEPT !.content = StrayBytes]]
    BY <2>1
  <2>8. [records EXCEPT ![i].content = [json |-> records[i].content.jcs]]
           = [records EXCEPT ![i] = [old EXCEPT !.content = [json |-> old.content.jcs]]]
    BY <2>1
  <2>9. [records EXCEPT ![i].kind = "payload"]
           = [records EXCEPT ![i] = [old EXCEPT !.kind = "payload"]]
    BY <2>1
  <2>10. QED  BY <1>4, <2>3, <2>4, <2>5, <2>6, <2>7, <2>8, <2>9
<1>7. /\ StreamIsShaped([stream EXCEPT !.tail = TRUE])
      /\ StreamIsShaped([stream EXCEPT !.magic = FALSE])
      /\ StreamIsShaped([stream EXCEPT !.count = @ + 1])
  <2>1. PICK magic, count, tail, rows :
           /\ magic = stream.magic /\ count = stream.count
           /\ tail = stream.tail /\ rows = stream.records
    OBVIOUS
  <2>2. stream = [magic |-> magic, count |-> count, records |-> rows, tail |-> tail]
    BY <2>1, Zenon DEF StreamIsShaped
  <2>3. /\ magic \in BOOLEAN /\ tail \in BOOLEAN /\ count \in Int
        /\ RecordsAreShaped(rows)
    BY <2>1 DEF StreamIsShaped
  <2>4. ASSUME NEW left \in BOOLEAN, NEW number \in Int, NEW right \in BOOLEAN
        PROVE  StreamIsShaped([magic |-> left, count |-> number, records |-> rows,
                               tail |-> right])
    BY <2>3 DEF StreamIsShaped
  <2>5. ASSUME NEW other
        PROVE  /\ [stream EXCEPT !.tail = other]
                     = [magic |-> magic, count |-> count, records |-> rows, tail |-> other]
               /\ [stream EXCEPT !.magic = other]
                     = [magic |-> other, count |-> count, records |-> rows, tail |-> tail]
               /\ [stream EXCEPT !.count = other]
                     = [magic |-> magic, count |-> other, records |-> rows, tail |-> tail]
    BY <2>2
  <2>6. StreamIsShaped([stream EXCEPT !.tail = TRUE])
    <3>1. [stream EXCEPT !.tail = TRUE]
             = [magic |-> magic, count |-> count, records |-> rows, tail |-> TRUE]
      BY <2>5, Zenon
    <3>2. QED  BY <2>3, <2>4, <3>1, Zenon
  <2>7. StreamIsShaped([stream EXCEPT !.magic = FALSE])
    <3>1. [stream EXCEPT !.magic = FALSE]
             = [magic |-> FALSE, count |-> count, records |-> rows, tail |-> tail]
      BY <2>5, Zenon
    <3>2. QED  BY <2>3, <2>4, <3>1, Zenon
  <2>8. StreamIsShaped([stream EXCEPT !.count = @ + 1])
    <3>1. stream.count + 1 \in Int
      BY <2>1, <2>3
    <3>2. [stream EXCEPT !.count = @ + 1]
             = [magic |-> magic, count |-> stream.count + 1, records |-> rows,
                tail |-> tail]
      BY <2>5, Zenon
    <3>3. PICK number \in Int : number = stream.count + 1
      BY <3>1
    <3>4. QED  BY <2>3, <2>4, <3>2, <3>3
  <2>9. QED  BY <2>6, <2>7, <2>8
<1>8. \/ \E i \in DOMAIN records : damaged = with(RemoveAt(records, i))
      \/ \E i \in DOMAIN records :
            damaged = [with(RemoveAt(records, i)) EXCEPT !.count = @ - 1]
      \/ \E i \in DOMAIN records :
            damaged = [with(InsertAt(records, i, records[i])) EXCEPT !.count = @ + 1]
      \/ \E i \in 1 .. Len(records) - 1 :
            damaged = with([records EXCEPT ![i] = records[i + 1], ![i + 1] = records[i]])
      \/ \E i \in DOMAIN records : damaged = with([records EXCEPT ![i].content = StrayBytes])
      \/ \E i \in DOMAIN records :
            damaged = with([records EXCEPT ![i].content = [json |-> records[i].content.jcs]])
      \/ \E i \in DOMAIN records : damaged = with([records EXCEPT ![i].kind = "payload"])
      \/ damaged = [stream EXCEPT !.tail = TRUE]
      \/ damaged = [stream EXCEPT !.magic = FALSE]
      \/ damaged = [stream EXCEPT !.count = @ + 1]
  BY DEF Damaged
<1> HIDE DEF with, records
<1>9. QED  BY <1>2, <1>3, <1>5, <1>6, <1>7, <1>8

-----------------------------------------------------------------------------
(* Ranks: in a finite set under a strict total order, as many members are  *)
(* before one as its place says, each place is one member's.               *)

IsStrictOrder(S, before) ==
    /\ \A x \in S : before[x] \subseteq S /\ x \notin before[x]
    /\ \A x, y \in S : y \in before[x] => before[y] \subseteq before[x]
    /\ \A x, y \in S : x = y \/ x \in before[y] \/ y \in before[x]

LEMMA RanksDiffer ==
    ASSUME NEW S, IsFiniteSet(S), NEW before, IsStrictOrder(S, before),
           NEW x \in S, NEW y \in S, x \in before[y]
    PROVE  /\ Cardinality(before[x]) \in Nat /\ Cardinality(before[y]) \in Nat
           /\ Cardinality(before[x]) < Cardinality(before[y])
<1>1. before[x] \subseteq before[y] /\ x \notin before[x] /\ before[y] \subseteq S
  BY DEF IsStrictOrder
<1>2. IsFiniteSet(before[y]) /\ IsFiniteSet(before[x])
  BY <1>1, FS_Subset
<1>3. /\ Cardinality(before[x]) \in Nat /\ Cardinality(before[y]) \in Nat
      /\ Cardinality(before[x]) <= Cardinality(before[y])
      /\ Cardinality(before[y]) = Cardinality(before[x]) => before[y] = before[x]
  BY <1>1, <1>2, FS_Subset, FS_CardinalityType
<1>4. QED  BY <1>1, <1>3

LEMMA RanksAreInRange ==
    ASSUME NEW S, IsFiniteSet(S), NEW before, IsStrictOrder(S, before), NEW x \in S
    PROVE  /\ Cardinality(S) \in Nat
           /\ Cardinality(before[x]) + 1 \in 1 .. Cardinality(S)
<1>1. before[x] \in SUBSET (S \ {x})
  BY DEF IsStrictOrder
<1>2. /\ IsFiniteSet(S \ {x}) /\ Cardinality(S \ {x}) = Cardinality(S) - 1
      /\ Cardinality(S) \in Nat
  BY FS_RemoveElement, FS_CardinalityType
<1>3. /\ Cardinality(before[x]) \in Nat
      /\ Cardinality(before[x]) <= Cardinality(S \ {x})
  BY <1>1, <1>2, FS_Subset, FS_CardinalityType
<1>4. QED  BY <1>2, <1>3

LEMMA EveryRankIsTaken ==
    ASSUME NEW S, IsFiniteSet(S), NEW before, IsStrictOrder(S, before)
    PROVE  /\ Cardinality(S) \in Nat
           /\ \A x \in S : Cardinality(before[x]) + 1 \in 1 .. Cardinality(S)
           /\ \A place \in 1 .. Cardinality(S) :
                 \E x \in S : Cardinality(before[x]) = place - 1
           /\ \A x, y \in S : Cardinality(before[x]) = Cardinality(before[y]) => x = y
<1> DEFINE n == Cardinality(S)
           place == [x \in S |-> Cardinality(before[x]) + 1]
<1>1. n \in Nat
  BY FS_CardinalityType
<1>2. \A x \in S : Cardinality(before[x]) + 1 \in 1 .. n
  BY RanksAreInRange
<1>3. \A x \in S : Cardinality(before[x]) \in Nat
  <2>1. \A x \in S : before[x] \in SUBSET S
    BY DEF IsStrictOrder
  <2>2. QED  BY <2>1, FS_Subset, FS_CardinalityType
<1>4. ASSUME NEW x \in S, NEW y \in S, Cardinality(before[x]) = Cardinality(before[y])
      PROVE  x = y
  <2>1. x \in before[y] => Cardinality(before[x]) < Cardinality(before[y])
    BY RanksDiffer
  <2>2. y \in before[x] => Cardinality(before[y]) < Cardinality(before[x])
    BY RanksDiffer
  <2>3. Cardinality(before[x]) \in Nat
    BY <1>3
  <2>4. ~(x \in before[y]) /\ ~(y \in before[x])
    BY <1>4, <2>1, <2>2, <2>3
  <2>5. QED  BY <2>4 DEF IsStrictOrder
<1>5. place \in [S -> 1 .. n]
  BY <1>2
<1>6. ASSUME NEW x \in S, NEW y \in S, place[x] = place[y]
      PROVE  x = y
  <2>1. Cardinality(before[x]) + 1 = Cardinality(before[y]) + 1
    BY <1>6
  <2>2. Cardinality(before[x]) \in Nat /\ Cardinality(before[y]) \in Nat
    BY <1>3
  <2>3. Cardinality(before[x]) = Cardinality(before[y])
    BY <2>1, <2>2
  <2>4. QED  BY <1>4, <2>3
<1> HIDE DEF place
<1>7. place \in Injection(S, 1 .. n)
  BY <1>5, <1>6 DEF Injection, IsInjective
<1>8. IsFiniteSet(1 .. n) /\ Cardinality(1 .. n) = n
  <2>1. 1 \in Int /\ n \in Int
    BY <1>1
  <2>2. /\ IsFiniteSet(1 .. n)
        /\ Cardinality(1 .. n) = IF 1 > n THEN 0 ELSE n - 1 + 1
    BY <2>1, FS_Interval, Zenon
  <2>3. QED  BY <1>1, <2>2
<1>9. place \in Surjection(S, 1 .. n)
  BY <1>7, <1>8, FS_Injection
<1>10. \A k \in 1 .. n : \E x \in S : place[x] = k
  BY <1>9 DEF Surjection
<1>11. ASSUME NEW k \in 1 .. n PROVE \E x \in S : Cardinality(before[x]) = k - 1
  <2>1. PICK x \in S : place[x] = k
    BY <1>10
  <2>2. Cardinality(before[x]) + 1 = k
    BY <2>1 DEF place
  <2>3. QED  BY <1>1, <1>3, <2>2
<1>12. QED  BY <1>1, <1>2, <1>4, <1>11

-----------------------------------------------------------------------------
(* What FileSequence and InByteOrder answer: the files, and the rows, each *)
(* once.                                                                   *)

LEMMA PathsAreFinite == IsFiniteSet(Paths)
<1>1. Len(PathOrder) \in Nat /\ DOMAIN PathOrder = 1 .. Len(PathOrder)
  BY EnvelopeAssumption, LenProperties
<1>2. 1 \in Int /\ Len(PathOrder) \in Int
  BY <1>1
<1>3. IsFiniteSet(1 .. Len(PathOrder))
  BY <1>2, FS_Interval
<1>4. PathOrder \in Surjection(1 .. Len(PathOrder), Paths)
  BY <1>1, EnvelopeAssumption, LenProperties DEF Surjection, Paths, ToSet
<1>5. QED  BY <1>3, <1>4, FS_Surjection

LEMMA FilesInSequence ==
    ASSUME NEW files, DOMAIN files \subseteq Paths
    PROVE  LET n == Cardinality(DOMAIN files)
               rows == FileSequence(files)
           IN  /\ n \in Nat /\ DOMAIN rows = 1 .. n
               /\ \A i \in 1 .. n : /\ rows[i].path \in DOMAIN files
                                    /\ rows[i] = [path |-> rows[i].path,
                                                  bytes |-> files[rows[i].path]]
               /\ \A path \in DOMAIN files : \E i \in 1 .. n : rows[i].path = path
               /\ \A i, j \in 1 .. n : rows[i].path = rows[j].path => i = j
<1> DEFINE S == DOMAIN files
           n == Cardinality(S)
           greater(path) == {other \in DOMAIN files : CompareUtf8(path, other)}
           before == [path \in S |-> greater(path)]
           walked(i) == CHOOSE path \in DOMAIN files : Cardinality(greater(path)) = i - 1
<1>1. IsFiniteSet(S)
  BY PathsAreFinite, FS_Subset
<1>2. IsStrictOrder(S, before)
  <2>1. \A x \in S : before[x] = greater(x)
    OBVIOUS
  <2>2. QED  BY <2>1, PathsAreOrdered DEF IsStrictOrder
<1>3. /\ n \in Nat
      /\ \A x \in S : Cardinality(before[x]) + 1 \in 1 .. n
      /\ \A k \in 1 .. n : \E x \in S : Cardinality(before[x]) = k - 1
      /\ \A x, y \in S : Cardinality(before[x]) = Cardinality(before[y]) => x = y
  BY <1>1, <1>2, EveryRankIsTaken
<1>4. \A x \in S : before[x] = greater(x)
  OBVIOUS
<1> HIDE DEF before, greater
<1>5. FileSequence(files) = [i \in 1 .. n |-> [path |-> walked(i), bytes |-> files[walked(i)]]]
  BY Zenon DEF FileSequence, greater
<1>6. ASSUME NEW i \in 1 .. n
      PROVE  walked(i) \in S /\ Cardinality(greater(walked(i))) = i - 1
  <2>1. \E path \in S : Cardinality(greater(path)) = i - 1
    BY <1>3, <1>4
  <2>2. QED  BY <2>1
<1>7. ASSUME NEW path \in S
      PROVE  \E i \in 1 .. n : walked(i) = path
  <2>1. PICK i \in 1 .. n : i = Cardinality(greater(path)) + 1
    BY <1>3, <1>4
  <2>2. Cardinality(greater(path)) = i - 1
    <3>1. \A size : size + 1 \in 1 .. n /\ size \in Int => size + 1 - 1 = size
      OBVIOUS
    <3>2. Cardinality(greater(path)) \in Nat
      <4>1. greater(path) \in SUBSET S
        BY DEF greater
      <4>2. QED  BY <1>1, <4>1, FS_Subset, FS_CardinalityType
    <3>3. QED  BY <2>1, <3>2
  <2>3. walked(i) \in S /\ Cardinality(greater(walked(i))) = Cardinality(greater(path))
    BY <1>6, <2>2
  <2>4. walked(i) = path
    BY <1>3, <1>4, <2>3
  <2>5. QED  BY <2>4
<1>8. ASSUME NEW i \in 1 .. n, NEW j \in 1 .. n, walked(i) = walked(j)
      PROVE  i = j
  <2>1. i - 1 = j - 1
    BY <1>6, <1>8
  <2>2. QED  BY <1>3, <2>1
<1> HIDE DEF walked
<1>9. DOMAIN FileSequence(files) = 1 .. n
  BY <1>5
<1>10. \A i \in 1 .. n : FileSequence(files)[i] = [path |-> walked(i), bytes |-> files[walked(i)]]
  BY <1>5
<1>11. ASSUME NEW i \in 1 .. n PROVE FileSequence(files)[i].path = walked(i)
  <2>1. FileSequence(files)[i] = [path |-> walked(i), bytes |-> files[walked(i)]]
    BY <1>10
  <2>2. QED  BY <2>1
<1>12. QED
  <2> HIDE DEF n
  <2>1. \A i \in 1 .. n :
           /\ FileSequence(files)[i].path \in DOMAIN files
           /\ FileSequence(files)[i] = [path |-> FileSequence(files)[i].path,
                                        bytes |-> files[FileSequence(files)[i].path]]
    BY <1>6, <1>10, <1>11
  <2>2. QED  BY <1>3, <1>7, <1>8, <1>9, <1>11, <2>1 DEF n

LEMMA RowsInByteOrder ==
    ASSUME NEW rows, NEW n \in Nat, DOMAIN rows = 1 .. n,
           \A i \in 1 .. n : rows[i].path \in Paths,
           \A i, j \in 1 .. n : rows[i].path = rows[j].path => i = j
    PROVE  /\ DOMAIN InByteOrder(rows) = 1 .. n
           /\ \A place \in 1 .. n : \E i \in 1 .. n : InByteOrder(rows)[place] = rows[i]
           /\ \A i \in 1 .. n : \E place \in 1 .. n : InByteOrder(rows)[place] = rows[i]
<1> DEFINE S == 1 .. n
           lesser(i) == {j \in DOMAIN rows : ByPath(rows[j], rows[i])}
           before == [i \in S |-> lesser(i)]
           found(place) == CHOOSE i \in DOMAIN rows : Cardinality(lesser(i)) = place - 1
<1>1. IsFiniteSet(S) /\ Cardinality(S) = n
  <2>1. 1 \in Int /\ n \in Int
    OBVIOUS
  <2>2. IsFiniteSet(1 .. n) /\ Cardinality(1 .. n) = IF 1 > n THEN 0 ELSE n - 1 + 1
    BY <2>1, FS_Interval, Zenon
  <2>3. QED  BY <2>2
<1>2. \A i \in S : before[i] = lesser(i)
  OBVIOUS
<1>3. IsStrictOrder(S, before)
  <2>1. \A i, j \in S : j \in before[i] <=> CompareUtf8(rows[j].path, rows[i].path)
    BY <1>2 DEF ByPath
  <2>2. \A i \in S : before[i] \subseteq S
    BY <1>2
  <2> HIDE DEF before, S
  <2>3. \A i \in S : i \notin before[i]
    BY <2>1, PathsAreOrdered
  <2>4. \A i, j \in S : j \in before[i] => before[j] \subseteq before[i]
    <3>1. SUFFICES ASSUME NEW i \in S, NEW j \in S, j \in before[i], NEW k \in before[j]
                   PROVE  k \in before[i]
      OBVIOUS
    <3>2. k \in S
      BY <2>2, <3>1
    <3>3. CompareUtf8(rows[k].path, rows[j].path) /\ CompareUtf8(rows[j].path, rows[i].path)
      BY <2>1, <3>1, <3>2
    <3>4. QED  BY <2>1, <3>2, <3>3, PathsAreOrdered
  <2>5. \A i, j \in S : i = j \/ i \in before[j] \/ j \in before[i]
    BY <2>1, PathsAreOrdered DEF S
  <2>6. QED  BY <2>2, <2>3, <2>4, <2>5 DEF IsStrictOrder
<1>4. /\ \A x \in S : Cardinality(before[x]) + 1 \in 1 .. n
      /\ \A k \in 1 .. n : \E x \in S : Cardinality(before[x]) = k - 1
      /\ \A x, y \in S : Cardinality(before[x]) = Cardinality(before[y]) => x = y
  <2> HIDE DEF before, S
  <2>1. /\ Cardinality(S) \in Nat
        /\ \A x \in S : Cardinality(before[x]) + 1 \in 1 .. Cardinality(S)
        /\ \A place \in 1 .. Cardinality(S) :
              \E x \in S : Cardinality(before[x]) = place - 1
        /\ \A x, y \in S : Cardinality(before[x]) = Cardinality(before[y]) => x = y
    <3>1. IsFiniteSet(S)
      BY <1>1
    <3>2. QED  BY <1>3, <3>1, EveryRankIsTaken, Zenon
  <2>2. QED  BY <1>1, <2>1
<1>5. \A i \in S : Cardinality(lesser(i)) \in Nat
  <2>1. \A i \in S : lesser(i) \in SUBSET S
    OBVIOUS
  <2>2. QED  BY <1>1, <2>1, FS_Subset, FS_CardinalityType
<1>6. InByteOrder(rows) = [place \in 1 .. n |-> rows[found(place)]]
  BY Zenon DEF InByteOrder
<1> HIDE DEF before, lesser
<1>7. ASSUME NEW place \in 1 .. n
      PROVE  found(place) \in 1 .. n /\ Cardinality(lesser(found(place))) = place - 1
  <2>1. \E i \in DOMAIN rows : Cardinality(lesser(i)) = place - 1
    BY <1>2, <1>4
  <2>2. QED  BY <2>1
<1>8. ASSUME NEW i \in 1 .. n PROVE \E place \in 1 .. n : found(place) = i
  <2>1. PICK place \in 1 .. n : place = Cardinality(lesser(i)) + 1
    BY <1>2, <1>4
  <2>2. Cardinality(lesser(i)) = place - 1
    BY <1>5, <2>1
  <2>3. /\ found(place) \in 1 .. n
        /\ Cardinality(lesser(found(place))) = Cardinality(lesser(i))
    BY <1>7, <2>2
  <2>4. found(place) = i
    BY <1>2, <1>4, <2>3
  <2>5. QED  BY <2>4
<1> HIDE DEF found
<1>9. DOMAIN InByteOrder(rows) = 1 .. n
  BY <1>6
<1>10. \A place \in 1 .. n : InByteOrder(rows)[place] = rows[found(place)]
  BY <1>6
<1>11. QED  BY <1>7, <1>8, <1>9, <1>10

-----------------------------------------------------------------------------
(* Documents in one.                                                       *)

LEMMA TogetherDomain ==
    ASSUME NEW left, NEW right
    PROVE  DOMAIN (left ++ right) = DOMAIN left \cup DOMAIN right
BY DEF ++

LEMMA MemberOfLeft ==
    ASSUME NEW left, NEW right, NEW member \in DOMAIN left
    PROVE  /\ member \in DOMAIN (left ++ right)
           /\ (left ++ right)[member] = left[member]
BY DEF ++

LEMMA MemberOfRight ==
    ASSUME NEW left, NEW right, NEW member \in DOMAIN right, member \notin DOMAIN left
    PROVE  (left ++ right)[member] = right[member]
BY DEF ++

LEMMA WithoutDomain ==
    ASSUME NEW document, NEW members
    PROVE  DOMAIN Without(document, members) = DOMAIN document \ members
BY DEF Without, Restrict

LEMMA WithoutMember ==
    ASSUME NEW document, NEW members, NEW member \in DOMAIN document, member \notin members
    PROVE  Without(document, members)[member] = document[member]
BY DEF Without, Restrict

-----------------------------------------------------------------------------
(* What an envelope was written of is read of it.                          *)

LEMMA StreamContents ==
    ASSUME NEW candidate, NEW n \in Nat, DOMAIN candidate.files = 1 .. n,
           NEW stream, stream = StreamOf(candidate)
    PROVE  /\ stream.count = n + 3
           /\ PayloadOf(stream) = [i \in 1 .. n |->
                                     [path |-> Sorted(candidate.files)[i].path,
                                      bytes |-> Sorted(candidate.files)[i].bytes]]
           /\ MetadataOf(stream, "manifest").jcs = candidate["manifest"]
           /\ MetadataOf(stream, "provenance").jcs = candidate["provenance"]
           /\ MetadataOf(stream, "sbom").jcs = candidate["sbom"]
<1> DEFINE files == Sorted(candidate.files)
           payload == [i \in DOMAIN files |->
                         [kind |-> "payload", path |-> files[i].path,
                          content |-> files[i].bytes]]
           metadata == [i \in DOMAIN MetadataRecords |->
                          [kind |-> MetadataRecords[i].kind,
                           path |-> MetadataRecords[i].path,
                           content |-> JcsBytes(candidate[MetadataRecords[i].kind])]]
           S == {payload[i] : i \in 1 .. n} \cup {metadata[i] : i \in 1 .. 3}
<1>1. DOMAIN files = 1 .. n
  BY DEF Sorted, InByteOrder
<1>2. DOMAIN MetadataRecords = 1 .. 3 /\ Len(MetadataRecords) = 3
  BY MetadataPositions
<1>3. payload \in [1 .. n -> S] /\ metadata \in [1 .. 3 -> S]
  BY <1>1, <1>2
<1>4. stream = [magic |-> TRUE, count |-> Len(payload) + Len(metadata),
                records |-> payload \o metadata, tail |-> FALSE]
  BY Zenon DEF StreamOf
<1>5. \A i \in 1 .. n : /\ payload[i].path = files[i].path
                        /\ payload[i].content = files[i].bytes
  BY <1>1
<1>6. \A k \in 1 .. 3 : metadata[k].content.jcs = candidate[MetadataRecords[k].kind]
  BY <1>2 DEF JcsBytes
<1> HIDE DEF payload, metadata, S, files
<1>7. /\ payload \in Seq(S) /\ Len(payload) = n
      /\ metadata \in Seq(S) /\ Len(metadata) = 3
  <2>1. payload \in Seq(S) /\ Len(payload) = n
    BY <1>3, FunctionIsSequence
  <2>2. metadata \in Seq(S) /\ Len(metadata) = 3
    BY <1>3, FunctionIsSequence
  <2>3. QED  BY <2>1, <2>2
<1>8. \A i \in 1 .. n + 3 :
         (payload \o metadata)[i] = IF i <= n THEN payload[i] ELSE metadata[i - n]
  <2>1. payload \in Seq(S) /\ metadata \in Seq(S)
    BY <1>7
  <2>2. \A i \in 1 .. Len(payload) + Len(metadata) :
           (payload \o metadata)[i] = IF i <= Len(payload) THEN payload[i]
                                       ELSE metadata[i - Len(payload)]
    BY <2>1, ConcatProperties
  <2>3. QED  BY <1>7, <2>2
<1>9. stream.count = n + 3 /\ stream.records = payload \o metadata
  <2>1. stream.count = Len(payload) + Len(metadata)
    BY <1>4
  <2>2. stream.records = payload \o metadata
    BY <1>4
  <2>3. QED  BY <1>7, <2>1, <2>2
<1>10. ASSUME NEW i \in 1 .. n PROVE stream.records[i] = payload[i]
  <2>1. i \in 1 .. n + 3 /\ i <= n
    OBVIOUS
  <2>2. QED  BY <1>8, <1>9, <2>1
<1>11. \A k \in 1 .. 3 : stream.records[n + k] = metadata[k]
  <2>1. ASSUME NEW k \in 1 .. 3 PROVE stream.records[n + k] = metadata[k]
    <3>1. n + k \in 1 .. n + 3 /\ ~(n + k <= n) /\ n + k - n = k
      OBVIOUS
    <3>2. PICK i \in 1 .. n + 3 : i = n + k
      BY <3>1
    <3>3. (payload \o metadata)[i] = metadata[i - n]
      BY <1>8, <3>1, <3>2
    <3>4. QED  BY <1>9, <3>1, <3>2, <3>3
  <2>2. QED  BY <2>1
<1>12. stream.count - Len(MetadataRecords) = n
  BY <1>2, <1>9
<1>13. PayloadOf(stream) = [i \in 1 .. n |-> [path |-> files[i].path,
                                              bytes |-> files[i].bytes]]
  <2>1. PayloadOf(stream) = [i \in 1 .. n |-> [path |-> stream.records[i].path,
                                               bytes |-> stream.records[i].content]]
    BY <1>12 DEF PayloadOf
  <2>2. \A i \in 1 .. n : /\ stream.records[i].path = files[i].path
                          /\ stream.records[i].content = files[i].bytes
    BY <1>5, <1>10
  <2>3. QED  BY <2>1, <2>2
<1>14. ASSUME NEW k \in 1 .. 3
       PROVE  MetadataOf(stream, MetadataRecords[k].kind).jcs
                 = candidate[MetadataRecords[k].kind]
  <2>1. MetadataOf(stream, MetadataRecords[k].kind) = stream.records[n + k].content
    BY <1>12, MetadataPositions DEF MetadataOf
  <2>2. QED  BY <1>6, <1>11, <2>1
<1>15. /\ MetadataRecords[1].kind = "manifest"
       /\ MetadataRecords[2].kind = "provenance"
       /\ MetadataRecords[3].kind = "sbom"
  BY MetadataPositions
<1>16. /\ MetadataOf(stream, "manifest").jcs = candidate["manifest"]
       /\ MetadataOf(stream, "provenance").jcs = candidate["provenance"]
       /\ MetadataOf(stream, "sbom").jcs = candidate["sbom"]
  <2>1. 1 \in 1 .. 3 /\ 2 \in 1 .. 3 /\ 3 \in 1 .. 3
    OBVIOUS
  <2>2. QED  BY <1>14, <1>15, <2>1
<1>17. QED  BY <1>9, <1>13, <1>16 DEF files

-----------------------------------------------------------------------------
(* The manifest of a build lists its site.                                 *)

SiteEntry(built, path) ==
    EntryOf([path |-> path, bytes |-> built.site[path].bytes])

Listing(built, paths) ==
    LET files == FileSequence([path \in paths |-> built.site[path].bytes])
    IN  [i \in DOMAIN files |-> EntryOf(files[i])]

LEMMA ListingOf ==
    ASSUME NEW built, NEW paths \in SUBSET Paths
    PROVE  \E n \in Nat :
              /\ DOMAIN Listing(built, paths) = 1 .. n
              /\ \A i \in 1 .. n : \E path \in paths :
                    Listing(built, paths)[i] = SiteEntry(built, path)
              /\ \A path \in paths : \E i \in 1 .. n :
                    Listing(built, paths)[i] = SiteEntry(built, path)
<1> DEFINE files == [path \in paths |-> built.site[path].bytes]
           rows == FileSequence(files)
           n == Cardinality(DOMAIN files)
<1>1. DOMAIN files = paths /\ DOMAIN files \subseteq Paths
  OBVIOUS
<1>2. /\ n \in Nat /\ DOMAIN rows = 1 .. n
      /\ \A i \in 1 .. n : /\ rows[i].path \in DOMAIN files
                           /\ rows[i] = [path |-> rows[i].path,
                                         bytes |-> files[rows[i].path]]
      /\ \A path \in DOMAIN files : \E i \in 1 .. n : rows[i].path = path
  <2> HIDE DEF files
  <2>1. QED  BY <1>1, FilesInSequence
<1>3. \A path \in paths : files[path] = built.site[path].bytes
  OBVIOUS
<1>4. Listing(built, paths) = [i \in DOMAIN rows |-> EntryOf(rows[i])]
  BY Zenon DEF Listing
<1> HIDE DEF files, rows, n
<1>5. ASSUME NEW i \in 1 .. n
      PROVE  rows[i].path \in paths /\ EntryOf(rows[i]) = SiteEntry(built, rows[i].path)
  <2>1. PICK path : path = rows[i].path
    OBVIOUS
  <2>2. path \in paths /\ rows[i] = [path |-> path, bytes |-> files[path]]
    BY <1>1, <1>2, <2>1
  <2>3. rows[i] = [path |-> path, bytes |-> built.site[path].bytes]
    BY <1>3, <2>2
  <2>4. QED  BY <2>1, <2>2, <2>3 DEF SiteEntry
<1>6. \A i \in 1 .. n : Listing(built, paths)[i] = EntryOf(rows[i])
  BY <1>2, <1>4
<1>7. DOMAIN Listing(built, paths) = 1 .. n
  BY <1>2, <1>4
<1>8. ASSUME NEW path \in paths
      PROVE  \E i \in 1 .. n : Listing(built, paths)[i] = SiteEntry(built, path)
  <2>1. PICK i \in 1 .. n : rows[i].path = path
    BY <1>1, <1>2
  <2>2. QED  BY <1>5, <1>6, <2>1
<1>9. ASSUME NEW i \in 1 .. n
      PROVE  \E path \in paths : Listing(built, paths)[i] = SiteEntry(built, path)
  BY <1>5, <1>6
<1>10. QED  BY <1>2, <1>7, <1>8, <1>9

LEMMA ManifestMembers ==
    ASSUME NEW sha, NEW built
    PROVE  /\ ManifestOf(sha, built).routes = Listing(built, Pages(built))
           /\ ManifestOf(sha, built).assets
                 = Listing(built, DOMAIN built.site \ Pages(built))
           /\ ManifestOf(sha, built).buildInputDigest = [buildInput |-> built.name]
<1> DEFINE counted ==
              [schemaId |-> "artifact-manifest",
               artifactId |-> "minted",
               routes |-> Listing(built, Pages(built)),
               assets |-> Listing(built, DOMAIN built.site \ Pages(built)),
               artifactFileCount |-> Cardinality(DOMAIN built.site),
               artifactByteCount |->
                  MapThenSumSet(LAMBDA path : built.site[path].bytes.byteLength,
                                DOMAIN built.site),
               buildInputDigest |-> [buildInput |-> built.name],
               generatedAt |-> sha,
               sourceCommit |-> sha,
               workflowIdentity |-> "publish-v2"]
           sealed == counted ++
              [artifactDigest |-> ArtifactDigestOf(ManifestInventory(counted))]
<1>1. ManifestOf(sha, built) = sealed ++ [manifestDigest |-> ManifestDigestOf(sealed)]
  BY DEF ManifestOf, Listing
<1>2. /\ {"routes", "assets", "buildInputDigest"} \subseteq DOMAIN counted
      /\ counted.routes = Listing(built, Pages(built))
      /\ counted.assets = Listing(built, DOMAIN built.site \ Pages(built))
      /\ counted.buildInputDigest = [buildInput |-> built.name]
  OBVIOUS
<1> HIDE DEF counted
<1>3. ASSUME NEW member \in {"routes", "assets", "buildInputDigest"}
      PROVE  ManifestOf(sha, built)[member] = counted[member]
  <2>1. member \in DOMAIN counted
    BY <1>2
  <2>2. member \in DOMAIN sealed /\ sealed[member] = counted[member]
    BY <2>1, MemberOfLeft
  <2> HIDE DEF sealed
  <2>3. QED  BY <1>1, <2>2, MemberOfLeft
<1>4. /\ ManifestOf(sha, built).routes = counted.routes
      /\ ManifestOf(sha, built).assets = counted.assets
      /\ ManifestOf(sha, built).buildInputDigest = counted.buildInputDigest
  BY <1>3
<1>5. QED  BY <1>2, <1>4

(* What ManifestEntries are, each entry a file's and each file in one. *)
LEMMA EntriesOfSite ==
    ASSUME NEW sha, NEW built, DOMAIN built.site \subseteq Paths,
           NEW entries, entries = ManifestEntries(ManifestOf(sha, built))
    PROVE  \E n \in Nat :
              /\ DOMAIN entries = 1 .. n
              /\ \A i \in 1 .. n : \E path \in DOMAIN built.site :
                    entries[i] = SiteEntry(built, path)
              /\ \A path \in DOMAIN built.site : \E i \in 1 .. n :
                    entries[i] = SiteEntry(built, path)
<1> DEFINE site == DOMAIN built.site
           pages == Pages(built)
           left == Listing(built, pages)
           right == Listing(built, site \ pages)
           S == {SiteEntry(built, path) : path \in site}
<1>1. pages \in SUBSET Paths /\ site \ pages \in SUBSET Paths /\ pages \subseteq site
  BY DEF Pages
<1>2. entries = left \o right
  BY ManifestMembers DEF ManifestEntries
<1> HIDE DEF pages
<1>3. PICK n \in Nat :
         /\ DOMAIN left = 1 .. n
         /\ \A i \in 1 .. n : \E path \in pages : left[i] = SiteEntry(built, path)
         /\ \A path \in pages : \E i \in 1 .. n : left[i] = SiteEntry(built, path)
  BY <1>1, ListingOf
<1>4. PICK m \in Nat :
         /\ DOMAIN right = 1 .. m
         /\ \A i \in 1 .. m : \E path \in site \ pages : right[i] = SiteEntry(built, path)
         /\ \A path \in site \ pages : \E i \in 1 .. m : right[i] = SiteEntry(built, path)
  BY <1>1, ListingOf
<1>5. left = [i \in 1 .. n |-> left[i]] /\ right = [i \in 1 .. m |-> right[i]]
  BY <1>3, <1>4 DEF Listing
<1>6. left \in [1 .. n -> S] /\ right \in [1 .. m -> S]
  <2>1. \A i \in 1 .. n : left[i] \in S
    BY <1>1, <1>3
  <2>2. \A i \in 1 .. m : right[i] \in S
    BY <1>4
  <2> HIDE DEF left, right, S
  <2>3. QED  BY <1>5, <2>1, <2>2
<1> HIDE DEF left, right
<1>7. /\ left \in Seq(S) /\ Len(left) = n /\ right \in Seq(S) /\ Len(right) = m
  <2> HIDE DEF S
  <2>1. left \in Seq(S) /\ Len(left) = n
    BY <1>6, FunctionIsSequence
  <2>2. right \in Seq(S) /\ Len(right) = m
    BY <1>6, FunctionIsSequence
  <2>3. QED  BY <2>1, <2>2
<1>8. /\ entries \in Seq(S) /\ Len(entries) = n + m
      /\ \A i \in 1 .. n + m : entries[i] = IF i <= n THEN left[i] ELSE right[i - n]
  <2> HIDE DEF S
  <2>1. /\ left \o right \in Seq(S) /\ Len(left \o right) = Len(left) + Len(right)
        /\ \A i \in 1 .. Len(left) + Len(right) :
              (left \o right)[i] = IF i <= Len(left) THEN left[i] ELSE right[i - Len(left)]
    BY <1>7, ConcatProperties
  <2>2. entries = left \o right
    BY <1>2
  <2>3. QED  BY <1>7, <2>1, <2>2
<1>9. DOMAIN entries = 1 .. n + m /\ \A i \in 1 .. n + m : entries[i] \in S
  <2> HIDE DEF S
  <2>1. DOMAIN entries = 1 .. n + m
    BY <1>8, LenProperties
  <2>2. \A i \in DOMAIN entries : entries[i] \in S
    BY <1>8, ElementOfSeq, LenProperties
  <2>3. QED  BY <2>1, <2>2
<1>10. ASSUME NEW path \in site
       PROVE  \E i \in 1 .. n + m : entries[i] = SiteEntry(built, path)
  <2>1. CASE path \in pages
    <3>1. PICK i \in 1 .. n : left[i] = SiteEntry(built, path)
      BY <1>3, <2>1
    <3>2. i \in 1 .. n + m /\ i <= n
      OBVIOUS
    <3>3. QED  BY <1>8, <3>1, <3>2
  <2>2. CASE path \notin pages
    <3>1. PICK i \in 1 .. m : right[i] = SiteEntry(built, path)
      BY <1>4, <2>2
    <3>2. n + i \in 1 .. n + m /\ ~(n + i <= n) /\ n + i - n = i
      OBVIOUS
    <3>3. entries[n + i] = right[i]
      BY <1>8, <3>2
    <3>4. QED  BY <3>1, <3>2, <3>3
  <2>3. QED  BY <2>1, <2>2
<1>11. n + m \in Nat
  OBVIOUS
<1>12. QED  BY <1>9, <1>10, <1>11

-----------------------------------------------------------------------------
(* A payload the manifest of a build agrees with is the site of the build. *)

LEMMA EntryNamesItsFile ==
    ASSUME NEW left, NEW right, EntryOf(left) = EntryOf(right)
    PROVE  left.path = right.path /\ left.bytes = right.bytes
<1>1. /\ EntryOf(left).path = left.path /\ EntryOf(right).path = right.path
      /\ EntryOf(left).sha256.sha256 = left.bytes
      /\ EntryOf(right).sha256.sha256 = right.bytes
  BY DEF EntryOf, TaggedSha256
<1>2. QED  BY <1>1

LEMMA InventoryOfSite ==
    ASSUME NEW sha, NEW built, DOMAIN built.site \subseteq Paths,
           ManifestInventoryIsValid(ManifestOf(sha, built)),
           NEW inventory, inventory = ManifestInventory(ManifestOf(sha, built))
    PROVE  \E n \in Nat :
              /\ DOMAIN ManifestEntries(ManifestOf(sha, built)) = 1 .. n
              /\ DOMAIN inventory = 1 .. n /\ Len(inventory) = n
              /\ \A i \in 1 .. n : \E path \in DOMAIN built.site :
                    inventory[i] = SiteEntry(built, path)
              /\ \A path \in DOMAIN built.site : \E i \in 1 .. n :
                    inventory[i] = SiteEntry(built, path)
<1> DEFINE entries == ManifestEntries(ManifestOf(sha, built))
<1>1. PICK n \in Nat :
         /\ DOMAIN entries = 1 .. n
         /\ \A i \in 1 .. n : \E path \in DOMAIN built.site :
               entries[i] = SiteEntry(built, path)
         /\ \A path \in DOMAIN built.site : \E i \in 1 .. n :
               entries[i] = SiteEntry(built, path)
  BY EntriesOfSite
<1>2. inventory = InByteOrder(entries)
  BY DEF ManifestInventory
<1>3. IsInjective([i \in DOMAIN entries |-> entries[i].path])
  BY DEF ManifestInventoryIsValid
<1> HIDE DEF entries
<1>4. ASSUME NEW i \in 1 .. n PROVE entries[i].path \in Paths
  <2>1. PICK path \in DOMAIN built.site : entries[i] = SiteEntry(built, path)
    BY <1>1
  <2>2. entries[i].path = path
    BY <2>1 DEF SiteEntry, EntryOf
  <2>3. QED  BY <2>2
<1>5. ASSUME NEW i \in 1 .. n, NEW j \in 1 .. n, entries[i].path = entries[j].path
      PROVE  i = j
  BY <1>1, <1>3, <1>5 DEF IsInjective
<1>6. /\ DOMAIN inventory = 1 .. n
      /\ \A place \in 1 .. n : \E i \in 1 .. n : inventory[place] = entries[i]
      /\ \A i \in 1 .. n : \E place \in 1 .. n : inventory[place] = entries[i]
  <2>1. \A i \in 1 .. n : entries[i].path \in Paths
    BY <1>4
  <2>2. \A i, j \in 1 .. n : entries[i].path = entries[j].path => i = j
    BY <1>5
  <2>3. DOMAIN entries = 1 .. n
    BY <1>1
  <2>4. /\ DOMAIN InByteOrder(entries) = 1 .. n
        /\ \A place \in 1 .. n : \E i \in 1 .. n : InByteOrder(entries)[place] = entries[i]
        /\ \A i \in 1 .. n : \E place \in 1 .. n : InByteOrder(entries)[place] = entries[i]
    BY <2>1, <2>2, <2>3, RowsInByteOrder
  <2>5. QED  BY <1>2, <2>4
<1>7. Len(inventory) = n
  <2>1. inventory = [i \in 1 .. n |-> inventory[i]]
    <3>1. inventory = [i \in DOMAIN entries |-> inventory[i]]
      BY <1>2 DEF InByteOrder
    <3>2. QED  BY <1>1, <3>1
  <2>2. inventory \in [1 .. n -> ToSet(inventory)]
    BY <1>6, <2>1 DEF ToSet
  <2>3. QED  BY <2>2, FunctionIsSequence
<1>8. ASSUME NEW place \in 1 .. n
      PROVE  \E path \in DOMAIN built.site : inventory[place] = SiteEntry(built, path)
  <2>1. PICK i \in 1 .. n : inventory[place] = entries[i]
    BY <1>6
  <2>2. QED  BY <1>1, <2>1
<1>9. ASSUME NEW path \in DOMAIN built.site
      PROVE  \E place \in 1 .. n : inventory[place] = SiteEntry(built, path)
  <2>1. PICK i \in 1 .. n : entries[i] = SiteEntry(built, path)
    BY <1>1
  <2>2. QED  BY <1>6, <2>1
<1>10. QED  BY <1>1, <1>6, <1>7, <1>8, <1>9 DEF entries

(* The payload of an envelope: every file in one record.                   *)
LEMMA PayloadOfFiles ==
    ASSUME NEW files, DOMAIN files \subseteq Paths,
           NEW candidate, candidate.files = FileSequence(files),
           NEW payload, payload = PayloadOf(StreamOf(candidate))
    PROVE  \E n \in Nat :
              /\ DOMAIN candidate.files = 1 .. n
              /\ DOMAIN payload = 1 .. n /\ Len(payload) = n
              /\ \A i \in 1 .. n : /\ payload[i].path \in DOMAIN files
                                   /\ payload[i].bytes = files[payload[i].path]
              /\ \A path \in DOMAIN files : \E i \in 1 .. n : payload[i].path = path
<1> DEFINE n == Cardinality(DOMAIN files)
           rows == FileSequence(files)
           sorted == InByteOrder(rows)
<1>1. /\ n \in Nat /\ DOMAIN rows = 1 .. n
      /\ \A i \in 1 .. n : /\ rows[i].path \in DOMAIN files
                           /\ rows[i] = [path |-> rows[i].path,
                                         bytes |-> files[rows[i].path]]
      /\ \A path \in DOMAIN files : \E i \in 1 .. n : rows[i].path = path
      /\ \A i, j \in 1 .. n : rows[i].path = rows[j].path => i = j
  BY FilesInSequence
<1> HIDE DEF n, rows
<1>2. /\ \A place \in 1 .. n : \E i \in 1 .. n : sorted[place] = rows[i]
      /\ \A i \in 1 .. n : \E place \in 1 .. n : sorted[place] = rows[i]
  <2>1. \A i \in 1 .. n : rows[i].path \in Paths
    BY <1>1
  <2>2. QED  BY <1>1, <2>1, RowsInByteOrder
<1>3. payload = [i \in 1 .. n |-> [path |-> sorted[i].path, bytes |-> sorted[i].bytes]]
  <2>1. DOMAIN candidate.files = 1 .. n /\ Sorted(candidate.files) = sorted
    BY <1>1 DEF Sorted, rows
  <2>2. QED  BY <1>1, <2>1, StreamContents
<1> HIDE DEF sorted
<1>4. ASSUME NEW i \in 1 .. n
      PROVE  /\ payload[i].path = sorted[i].path /\ payload[i].bytes = sorted[i].bytes
  BY <1>3
<1>5. ASSUME NEW i \in 1 .. n
      PROVE  /\ payload[i].path \in DOMAIN files
             /\ payload[i].bytes = files[payload[i].path]
  <2>1. PICK j \in 1 .. n : sorted[i] = rows[j]
    BY <1>2
  <2>2. PICK path : path = rows[j].path
    OBVIOUS
  <2>3. path \in DOMAIN files /\ rows[j] = [path |-> path, bytes |-> files[path]]
    BY <1>1, <2>2
  <2>4. payload[i].path = path /\ payload[i].bytes = files[path]
    BY <1>4, <2>1, <2>3
  <2>5. QED  BY <2>3, <2>4
<1>6. ASSUME NEW path \in DOMAIN files PROVE \E i \in 1 .. n : payload[i].path = path
  <2>1. PICK j \in 1 .. n : rows[j].path = path
    BY <1>1
  <2>2. PICK i \in 1 .. n : sorted[i] = rows[j]
    BY <1>2
  <2>3. QED  BY <1>4, <2>1, <2>2
<1>7. DOMAIN payload = 1 .. n
  BY <1>3
<1>8. Len(payload) = n
  <2>1. payload = [i \in 1 .. n |-> payload[i]]
    BY <1>3
  <2>2. payload \in [1 .. n -> ToSet(payload)]
    BY <1>7, <2>1 DEF ToSet
  <2>3. QED  BY <1>1, <2>2, FunctionIsSequence
<1>9. DOMAIN candidate.files = 1 .. n
  BY <1>1 DEF rows
<1>10. QED  BY <1>1, <1>5, <1>6, <1>7, <1>8, <1>9

LEMMA PayloadIsTheSite ==
    ASSUME NEW sha, NEW built, DOMAIN built.site \subseteq Paths,
           ManifestInventoryIsValid(ManifestOf(sha, built)),
           NEW files, DOMAIN files \subseteq Paths,
           NEW candidate, candidate.files = FileSequence(files),
           candidate["manifest"] = ManifestOf(sha, built),
           RecordsAgree(StreamOf(candidate))
    PROVE  /\ DOMAIN files = DOMAIN built.site
           /\ \A path \in DOMAIN files : files[path] = built.site[path].bytes
<1> DEFINE stream == StreamOf(candidate)
           payload == PayloadOf(stream)
           inventory == ManifestInventory(ManifestOf(sha, built))
<1>1. PICK n \in Nat :
         /\ DOMAIN candidate.files = 1 .. n
         /\ DOMAIN payload = 1 .. n /\ Len(payload) = n
         /\ \A i \in 1 .. n : /\ payload[i].path \in DOMAIN files
                              /\ payload[i].bytes = files[payload[i].path]
         /\ \A path \in DOMAIN files : \E i \in 1 .. n : payload[i].path = path
  BY PayloadOfFiles
<1>2. PICK m \in Nat :
         /\ DOMAIN inventory = 1 .. m /\ Len(inventory) = m
         /\ \A i \in 1 .. m : \E path \in DOMAIN built.site :
               inventory[i] = SiteEntry(built, path)
         /\ \A path \in DOMAIN built.site : \E i \in 1 .. m :
               inventory[i] = SiteEntry(built, path)
  BY InventoryOfSite
<1>3. MetadataOf(stream, "manifest").jcs = ManifestOf(sha, built)
  BY <1>1, StreamContents
<1>4. /\ Len(inventory) = Len(payload)
      /\ \A i \in DOMAIN payload : EntryOf(payload[i]) = inventory[i]
  BY <1>3 DEF RecordsAgree
<1> HIDE DEF payload, inventory, stream
<1>5. n = m
  BY <1>1, <1>2, <1>4
<1>6. ASSUME NEW i \in 1 .. n
      PROVE  \E path \in DOMAIN built.site :
                payload[i].path = path /\ payload[i].bytes = built.site[path].bytes
  <2>1. PICK path \in DOMAIN built.site : inventory[i] = SiteEntry(built, path)
    BY <1>2, <1>5
  <2>2. EntryOf(payload[i]) = EntryOf([path |-> path, bytes |-> built.site[path].bytes])
    BY <1>1, <1>4, <2>1 DEF SiteEntry
  <2>3. /\ payload[i].path = [path |-> path, bytes |-> built.site[path].bytes].path
        /\ payload[i].bytes = [path |-> path, bytes |-> built.site[path].bytes].bytes
    BY <2>2, EntryNamesItsFile
  <2>4. QED  BY <2>3
<1>7. ASSUME NEW path \in DOMAIN files
      PROVE  path \in DOMAIN built.site /\ files[path] = built.site[path].bytes
  BY <1>1, <1>6
<1>8. ASSUME NEW path \in DOMAIN built.site PROVE path \in DOMAIN files
  <2>1. PICK i \in 1 .. n : inventory[i] = SiteEntry(built, path)
    BY <1>2, <1>5
  <2>2. EntryOf(payload[i]) = EntryOf([path |-> path, bytes |-> built.site[path].bytes])
    BY <1>1, <1>4, <2>1 DEF SiteEntry
  <2>3. payload[i].path = [path |-> path, bytes |-> built.site[path].bytes].path
    BY <2>2, EntryNamesItsFile
  <2>4. payload[i].path = path
    BY <2>3
  <2>5. QED  BY <1>1, <2>4
<1>9. QED  BY <1>7, <1>8

-----------------------------------------------------------------------------
(* What a build may have left: each document in it is one build's.         *)

OutputsOf(checkout) ==
    {Rendered(Runner.sha, checkout)} \cup FaultyOutputs(Rendered(Runner.sha, checkout))

LEMMA MemberNames ==
    /\ UnfrozenMetadataMembers = {UnfrozenManifestMember, BuildInputMember, ThemeContractMember}
    /\ BuildDirectoryMarker \notin UnfrozenMetadataMembers
    /\ UnfrozenManifestMember # BuildInputMember
    /\ UnfrozenManifestMember # ThemeContractMember
    /\ BuildInputMember # ThemeContractMember
BY DEF UnfrozenMetadataMembers, UnfrozenManifestMember, BuildInputMember,
       ThemeContractMember, BuildDirectoryMarker

LEMMA RenderedMembers ==
    ASSUME NEW sha, NEW built, UnfrozenMetadataMembers \cap DOMAIN built.site = {}
    PROVE  /\ DOMAIN Rendered(sha, built) = UnfrozenMetadataMembers \cup DOMAIN built.site
           /\ Rendered(sha, built)[UnfrozenManifestMember] = [json |-> ManifestOf(sha, built)]
           /\ Rendered(sha, built)[BuildInputMember] = [json |-> BuildInputOf(built)]
           /\ Rendered(sha, built)[ThemeContractMember] = [json |-> ThemeContractOf(built)]
           /\ \A path \in DOMAIN built.site :
                 Rendered(sha, built)[path] = built.site[path].bytes
<1> DEFINE documents == [path \in UnfrozenMetadataMembers |->
              CASE path = UnfrozenManifestMember -> [json |-> ManifestOf(sha, built)]
                [] path = BuildInputMember -> [json |-> BuildInputOf(built)]
                [] path = ThemeContractMember -> [json |-> ThemeContractOf(built)]]
           site == [path \in DOMAIN built.site |-> built.site[path].bytes]
<1>1. Rendered(sha, built) = documents ++ site
  BY DEF Rendered
<1>2. DOMAIN documents = UnfrozenMetadataMembers /\ DOMAIN site = DOMAIN built.site
  OBVIOUS
<1>3. /\ documents[UnfrozenManifestMember] = [json |-> ManifestOf(sha, built)]
      /\ documents[BuildInputMember] = [json |-> BuildInputOf(built)]
      /\ documents[ThemeContractMember] = [json |-> ThemeContractOf(built)]
  BY MemberNames
<1>4. \A path \in DOMAIN built.site : site[path] = built.site[path].bytes
  OBVIOUS
<1> HIDE DEF documents, site
<1>5. ASSUME NEW member \in UnfrozenMetadataMembers
      PROVE  (documents ++ site)[member] = documents[member]
  <2>1. member \in DOMAIN documents
    BY <1>2
  <2>2. QED  BY <2>1, MemberOfLeft
<1>6. ASSUME NEW path \in DOMAIN built.site
      PROVE  (documents ++ site)[path] = site[path]
  <2>1. path \in DOMAIN site /\ path \notin DOMAIN documents
    BY <1>2
  <2>2. QED  BY <2>1, MemberOfRight
<1>7. DOMAIN (documents ++ site) = UnfrozenMetadataMembers \cup DOMAIN built.site
  BY <1>2, TogetherDomain
<1>8. QED  BY <1>1, <1>3, <1>4, <1>5, <1>6, <1>7, MemberNames

LEMMA SitesAreApart ==
    ASSUME SitesHaveOrdinaryPaths, NEW built \in Builds
    PROVE  /\ DOMAIN built.site \subseteq Paths
           /\ UnfrozenMetadataMembers \cap DOMAIN built.site = {}
           /\ BuildDirectoryMarker \notin DOMAIN built.site
BY DEF SitesHaveOrdinaryPaths, Paths

\* Files of which each document is one build's, on paths that are at most one too many.
IsMixture(files, checkout) ==
    /\ \E stray : DOMAIN files \subseteq UnfrozenMetadataMembers \cup Paths \cup {stray}
    /\ \A member \in UnfrozenMetadataMembers \cap DOMAIN files :
          \E built \in {checkout} \cup OtherBuilds :
             files[member] = Rendered(Runner.sha, built)[member]

LEMMA RenderedIsMixture ==
    ASSUME SitesHaveOrdinaryPaths, NEW checkout \in Checkouts,
           NEW built \in {checkout} \cup OtherBuilds
    PROVE  /\ DOMAIN Rendered(Runner.sha, built) \subseteq UnfrozenMetadataMembers \cup Paths
           /\ UnfrozenMetadataMembers \subseteq DOMAIN Rendered(Runner.sha, built)
           /\ IsMixture(Rendered(Runner.sha, built), checkout)
<1>1. built \in Builds
  BY DEF Builds
<1>2. DOMAIN Rendered(Runner.sha, built) = UnfrozenMetadataMembers \cup DOMAIN built.site
      /\ DOMAIN built.site \subseteq Paths
  BY <1>1, SitesAreApart, RenderedMembers
<1>3. QED  BY <1>2 DEF IsMixture

LEMMA OutputIsMixture ==
    ASSUME SitesHaveOrdinaryPaths, NEW checkout \in Checkouts,
           NEW files \in OutputsOf(checkout)
    PROVE  IsMixture(files, checkout)
<1> DEFINE own == Rendered(Runner.sha, checkout)
<1>1. /\ DOMAIN own \subseteq UnfrozenMetadataMembers \cup Paths
      /\ UnfrozenMetadataMembers \subseteq DOMAIN own
      /\ IsMixture(own, checkout)
  BY RenderedIsMixture
<1>2. \A other \in OtherBuilds :
         /\ DOMAIN Rendered(Runner.sha, other) \subseteq UnfrozenMetadataMembers \cup Paths
         /\ UnfrozenMetadataMembers \subseteq DOMAIN Rendered(Runner.sha, other)
         /\ IsMixture(Rendered(Runner.sha, other), checkout)
  BY RenderedIsMixture
<1>3. \/ files = own
      \/ \E other \in OtherBuilds : files = Rendered(Runner.sha, other)
      \/ \E other \in OtherBuilds, member \in UnfrozenMetadataMembers \cup {"site"} :
            files = WithMemberOf(own, Rendered(Runner.sha, other), member)
      \/ \E member \in DOMAIN own : files = Without(own, {member})
      \/ \E stray \in StrayPaths \ DOMAIN own :
            files = own ++ [path \in {stray} |-> StrayBytes]
  <2>1. files = own \/ files \in FaultyOutputs(own)
    BY DEF OutputsOf
  <2> HIDE DEF own
  <2>2. CASE files \in FaultyOutputs(own)
    <3> DEFINE One == {Rendered(Runner.sha, other) : other \in OtherBuilds}
               Two == {WithMemberOf(own, Rendered(Runner.sha, other), member) :
                           other \in OtherBuilds,
                           member \in UnfrozenMetadataMembers \cup {"site"}}
               Three == {Without(own, {member}) : member \in DOMAIN own}
               Four == {own ++ [path \in {stray} |-> StrayBytes] :
                           stray \in StrayPaths \ DOMAIN own}
    <3>0. FaultyOutputs(own) = One \cup Two \cup Three \cup Four
      BY DEF FaultyOutputs
    <3>1. files \in One \/ files \in Two \/ files \in Three \/ files \in Four
      <4> HIDE DEF One, Two, Three, Four
      <4> QED  BY <2>2, <3>0
    <3>2. CASE files \in One
      BY <3>2
    <3>3. CASE files \in Two
      BY <3>3
    <3>4. CASE files \in Three
      BY <3>4
    <3>5. CASE files \in Four
      BY <3>5
    <3> HIDE DEF One, Two, Three, Four
    <3>6. QED  BY <3>1, <3>2, <3>3, <3>4, <3>5
  <2>3. QED  BY <2>1, <2>2
<1> HIDE DEF own
<1>4. CASE files = own \/ \E other \in OtherBuilds : files = Rendered(Runner.sha, other)
  BY <1>1, <1>2, <1>4
<1>5. CASE \E other \in OtherBuilds, member \in UnfrozenMetadataMembers :
              files = WithMemberOf(own, Rendered(Runner.sha, other), member)
  <2>1. PICK other \in OtherBuilds, member \in UnfrozenMetadataMembers :
           files = WithMemberOf(own, Rendered(Runner.sha, other), member)
    BY <1>5
  <2>2. PICK theirs : theirs = Rendered(Runner.sha, other)
    OBVIOUS
  <2>3. files = [own EXCEPT ![member] = theirs[member]]
    BY <2>1, <2>2 DEF WithMemberOf
  <2>4. DOMAIN files = DOMAIN own
    BY <2>3
  <2>5. ASSUME NEW document \in UnfrozenMetadataMembers \cap DOMAIN files
        PROVE  \E built \in {checkout} \cup OtherBuilds :
                  files[document] = Rendered(Runner.sha, built)[document]
    <3>1. files[document] = IF document = member THEN theirs[document] ELSE own[document]
      BY <2>3, <2>4
    <3>2. QED  BY <2>2, <3>1 DEF own
  <2>6. QED  BY <1>1, <2>4, <2>5 DEF IsMixture
<1>6. CASE \E other \in OtherBuilds :
              files = WithMemberOf(own, Rendered(Runner.sha, other), "site")
  <2>1. PICK other \in OtherBuilds :
           files = WithMemberOf(own, Rendered(Runner.sha, other), "site")
    BY <1>6
  <2>2. PICK theirs : theirs = Rendered(Runner.sha, other)
    OBVIOUS
  <2>3. "site" \notin UnfrozenMetadataMembers
    BY DEF UnfrozenMetadataMembers, UnfrozenManifestMember, BuildInputMember,
           ThemeContractMember
  <2>4. files = Restrict(own, UnfrozenMetadataMembers)
                  ++ Without(theirs, UnfrozenMetadataMembers)
    BY <2>1, <2>2, <2>3 DEF WithMemberOf
  <2>5. /\ DOMAIN Restrict(own, UnfrozenMetadataMembers) = UnfrozenMetadataMembers
        /\ \A member \in UnfrozenMetadataMembers :
              Restrict(own, UnfrozenMetadataMembers)[member] = own[member]
    BY DEF Restrict
  <2>6. DOMAIN Without(theirs, UnfrozenMetadataMembers) \subseteq Paths
    <3>1. DOMAIN theirs \subseteq UnfrozenMetadataMembers \cup Paths
      BY <1>2, <2>2
    <3>2. DOMAIN Without(theirs, UnfrozenMetadataMembers)
             = DOMAIN theirs \ UnfrozenMetadataMembers
      BY WithoutDomain
    <3>3. QED  BY <3>1, <3>2
  <2>7. DOMAIN files \subseteq UnfrozenMetadataMembers \cup Paths
    BY <2>4, <2>5, <2>6, TogetherDomain
  <2>8. ASSUME NEW member \in UnfrozenMetadataMembers PROVE files[member] = own[member]
    BY <2>4, <2>5, MemberOfLeft
  <2>9. QED  BY <2>7, <2>8 DEF IsMixture, own
<1>7. CASE \E member \in DOMAIN own : files = Without(own, {member})
  <2>1. PICK member \in DOMAIN own : files = Without(own, {member})
    BY <1>7
  <2>2. DOMAIN files = DOMAIN own \ {member}
    BY <2>1, WithoutDomain
  <2>3. ASSUME NEW document \in DOMAIN files PROVE files[document] = own[document]
    <3>1. document \in DOMAIN own /\ document \notin {member}
      BY <2>2
    <3>2. QED  BY <2>1, <3>1, WithoutMember
  <2>4. QED  BY <1>1, <2>2, <2>3 DEF IsMixture, own
<1>8. CASE \E stray \in StrayPaths \ DOMAIN own :
              files = own ++ [path \in {stray} |-> StrayBytes]
  <2>1. PICK stray \in StrayPaths \ DOMAIN own :
           files = own ++ [path \in {stray} |-> StrayBytes]
    BY <1>8
  <2>2. DOMAIN files = DOMAIN own \cup {stray}
    BY <2>1, TogetherDomain
  <2>3. \A document \in DOMAIN own : files[document] = own[document]
    BY <2>1, MemberOfLeft
  <2>4. QED  BY <1>1, <2>2, <2>3 DEF IsMixture, own
<1>9. QED  BY <1>3, <1>4, <1>5, <1>6, <1>7, <1>8

LEMMA MixtureIsFinite ==
    ASSUME NEW files, NEW checkout, IsMixture(files, checkout)
    PROVE  IsFiniteSet(DOMAIN files)
<1>1. PICK stray : DOMAIN files \subseteq UnfrozenMetadataMembers \cup Paths \cup {stray}
  BY DEF IsMixture
<1>2. IsFiniteSet(Paths \cup {stray} \cup {UnfrozenManifestMember} \cup {BuildInputMember}
                  \cup {ThemeContractMember})
  BY PathsAreFinite, FS_AddElement
<1>3. DOMAIN files \in SUBSET (Paths \cup {stray} \cup {UnfrozenManifestMember}
                               \cup {BuildInputMember} \cup {ThemeContractMember})
  BY <1>1, MemberNames
<1>4. QED  BY <1>2, <1>3, FS_Subset

(* What freeze writes has the shape of a stream.                           *)
LEMMA FrozenIsShaped ==
    ASSUME NEW inp, NEW out, NEW checkout, IsMixture(out.files, checkout)
    PROVE  StreamIsShaped(BuildFrozenEnvelope(Runner, inp, out))
<1> DEFINE candidate == EnvelopeInput(Runner, inp, out)
           payload == PayloadFiles(out.files)
           n == Cardinality(DOMAIN payload)
<1>1. candidate.files = FileSequence(payload)
  BY DEF EnvelopeInput
<1>2. DOMAIN payload \in SUBSET DOMAIN out.files
  <2>1. PICK members : members = UnfrozenMetadataMembers \cup {BuildDirectoryMarker}
    OBVIOUS
  <2>2. payload = Without(out.files, members)
    BY <2>1 DEF PayloadFiles
  <2>3. DOMAIN payload = DOMAIN out.files \ members
    BY <2>2, WithoutDomain
  <2>4. QED  BY <2>3
<1>3. n \in Nat
  BY <1>2, MixtureIsFinite, FS_Subset, FS_CardinalityType
<1>4. DOMAIN candidate.files = 1 .. n
  BY <1>1 DEF FileSequence
<1> HIDE DEF candidate, n
<1>5. StreamIsShaped(StreamOf(candidate))
  BY <1>3, <1>4, EnvelopeIsShaped
<1>6. QED  BY <1>5 DEF BuildFrozenEnvelope, EncodeFrozenEnvelope, candidate

-----------------------------------------------------------------------------
(* What is frozen and derived is one build's.                              *)

LEMMA JsonOfDocument ==
    ASSUME NEW files, NEW path, NEW document, files[path] = [json |-> document]
    PROVE  JsonMember(files, path) = document
BY DEF JsonMember, Has

\* The documents of a build's own files, as the jobs read them.
LEMMA DocumentsOfBuild ==
    ASSUME SitesHaveOrdinaryPaths, NEW built \in Builds, NEW files
    PROVE  /\ files[UnfrozenManifestMember] = Rendered(Runner.sha, built)[UnfrozenManifestMember]
                 => JsonMember(files, UnfrozenManifestMember) = ManifestOf(Runner.sha, built)
           /\ files[BuildInputMember] = Rendered(Runner.sha, built)[BuildInputMember]
                 => JsonMember(files, BuildInputMember) = BuildInputOf(built)
           /\ files[ThemeContractMember] = Rendered(Runner.sha, built)[ThemeContractMember]
                 => JsonMember(files, ThemeContractMember) = ThemeContractOf(built)
<1>1. UnfrozenMetadataMembers \cap DOMAIN built.site = {}
  BY SitesAreApart
<1>2. /\ Rendered(Runner.sha, built)[UnfrozenManifestMember]
            = [json |-> ManifestOf(Runner.sha, built)]
      /\ Rendered(Runner.sha, built)[BuildInputMember] = [json |-> BuildInputOf(built)]
      /\ Rendered(Runner.sha, built)[ThemeContractMember] = [json |-> ThemeContractOf(built)]
  BY <1>1, RenderedMembers
<1>3. QED  BY <1>2, JsonOfDocument

LEMMA BuildInputMembers ==
    ASSUME NEW built, NEW lock, lock = LockOf(built)
    PROVE  /\ BuildInputOf(built).inputDigest = [buildInput |-> built.name]
           /\ BuildInputOf(built).baseUrl = JsonMember(built.files, PublicationPath).canonicalBase
           /\ BuildInputOf(built).packages["schemas"] = lock["schemas"]
           /\ BuildInputOf(built).packages["template"] = lock["template"]
           /\ BuildInputOf(built).packages["theme"] = lock["theme"]
BY DEF BuildInputOf, LockOf

LEMMA ThemeContractMembers ==
    ASSUME NEW built, NEW theme, theme = LockOf(built).theme
    PROVE  ThemeContractOf(built) = [package |-> theme.package, version |-> theme.version,
                                     stylingContractDigest |-> [styling |-> theme]]
BY DEF ThemeContractOf, LockOf

\* The manifest in an output is a build's, and says which files freeze may pack.
LEMMA ManifestIsABuilds ==
    ASSUME SitesHaveOrdinaryPaths, NEW checkout \in Checkouts, NEW files,
           IsMixture(files, checkout), SplitIsValid(files)
    PROVE  \E built \in {checkout} \cup OtherBuilds :
              /\ files[UnfrozenManifestMember]
                    = Rendered(Runner.sha, built)[UnfrozenManifestMember]
              /\ JsonMember(files, UnfrozenManifestMember) = ManifestOf(Runner.sha, built)
              /\ ManifestInventoryIsValid(ManifestOf(Runner.sha, built))
              /\ DOMAIN files \ (UnfrozenMetadataMembers \cup {BuildDirectoryMarker})
                    \subseteq DOMAIN built.site
<1>1. UnfrozenManifestMember \in UnfrozenMetadataMembers \cap DOMAIN files
  BY MemberNames DEF SplitIsValid, HasJson
<1>2. PICK built \in {checkout} \cup OtherBuilds :
         files[UnfrozenManifestMember] = Rendered(Runner.sha, built)[UnfrozenManifestMember]
  BY <1>1 DEF IsMixture
<1>3. built \in Builds
  BY DEF Builds
<1>4. JsonMember(files, UnfrozenManifestMember) = ManifestOf(Runner.sha, built)
  BY <1>2, <1>3, DocumentsOfBuild
<1> DEFINE manifest == JsonMember(files, UnfrozenManifestMember)
           named == {ManifestInventory(manifest)[i].path :
                        i \in DOMAIN ManifestEntries(manifest)}
<1>5. /\ ManifestInventoryIsValid(manifest)
      /\ DOMAIN files \ (UnfrozenMetadataMembers \cup {BuildDirectoryMarker}) \subseteq named
  BY DEF SplitIsValid
<1>6. ManifestInventoryIsValid(ManifestOf(Runner.sha, built))
  BY <1>4, <1>5
<1>7. DOMAIN built.site \subseteq Paths
  BY <1>3, SitesAreApart
<1> DEFINE inventory == ManifestInventory(ManifestOf(Runner.sha, built))
<1>8. PICK n \in Nat :
         /\ DOMAIN ManifestEntries(ManifestOf(Runner.sha, built)) = 1 .. n
         /\ \A i \in 1 .. n : \E path \in DOMAIN built.site :
               inventory[i] = SiteEntry(built, path)
  <2>1. PICK listed : listed = inventory
    OBVIOUS
  <2>2. \E n \in Nat :
           /\ DOMAIN ManifestEntries(ManifestOf(Runner.sha, built)) = 1 .. n
           /\ DOMAIN listed = 1 .. n /\ Len(listed) = n
           /\ \A i \in 1 .. n : \E path \in DOMAIN built.site :
                 listed[i] = SiteEntry(built, path)
           /\ \A path \in DOMAIN built.site : \E i \in 1 .. n :
                 listed[i] = SiteEntry(built, path)
    BY <1>6, <1>7, <2>1, InventoryOfSite
  <2>3. QED  BY <2>1, <2>2
<1>9. \A path : SiteEntry(built, path).path = path
  BY DEF SiteEntry, EntryOf
<1>10. named \subseteq DOMAIN built.site
  <2>1. named = {inventory[i].path : i \in 1 .. n}
    BY <1>4, <1>8
  <2> HIDE DEF named, inventory
  <2>2. QED  BY <1>8, <1>9, <2>1
<1> HIDE DEF named, manifest
<1>11. QED  BY <1>2, <1>4, <1>5, <1>6, <1>10 DEF manifest

\* The files freeze packed are that build's site, whole.
LEMMA PackedIsTheSite ==
    ASSUME SitesHaveOrdinaryPaths, NEW built \in Builds, NEW inp, NEW out,
           JsonMember(out.files, UnfrozenManifestMember) = ManifestOf(Runner.sha, built),
           ManifestInventoryIsValid(ManifestOf(Runner.sha, built)),
           DOMAIN out.files \ (UnfrozenMetadataMembers \cup {BuildDirectoryMarker})
              \subseteq DOMAIN built.site,
           Encodes(EnvelopeInput(Runner, inp, out))
    PROVE  /\ DOMAIN out.files \ (UnfrozenMetadataMembers \cup {BuildDirectoryMarker})
                 = DOMAIN built.site
           /\ \A path \in DOMAIN built.site : out.files[path] = built.site[path].bytes
           /\ DecodeFrozenEnvelope(BuildFrozenEnvelope(Runner, inp, out)).manifest
                 = ManifestOf(Runner.sha, built)
<1>1. PICK members : members = UnfrozenMetadataMembers \cup {BuildDirectoryMarker}
  OBVIOUS
<1>2. PICK packed : packed = PayloadFiles(out.files)
  OBVIOUS
<1>3. packed = Without(out.files, members)
  BY <1>1, <1>2 DEF PayloadFiles
<1>4. DOMAIN packed = DOMAIN out.files \ members
  BY <1>3, WithoutDomain
<1>5. \A path \in DOMAIN packed : packed[path] = out.files[path]
  BY <1>3, <1>4, WithoutMember
<1>6. DOMAIN built.site \subseteq Paths
  BY SitesAreApart
<1>7. DOMAIN packed \subseteq Paths
  BY <1>1, <1>4, <1>6
<1>8. PICK candidate : candidate = EnvelopeInput(Runner, inp, out)
  OBVIOUS
<1>9. candidate.files = FileSequence(packed)
  BY <1>2, <1>8 DEF EnvelopeInput
<1>10. candidate["manifest"] = ManifestOf(Runner.sha, built)
  <2>1. candidate["manifest"] = JsonMember(out.files, UnfrozenManifestMember)
    BY <1>8 DEF EnvelopeInput
  <2>2. QED  BY <2>1
<1>11. RecordsAgree(StreamOf(candidate))
  BY <1>8 DEF Encodes, Decodes
<1>12. /\ DOMAIN packed = DOMAIN built.site
       /\ \A path \in DOMAIN packed : packed[path] = built.site[path].bytes
  BY <1>6, <1>7, <1>9, <1>10, <1>11, PayloadIsTheSite
<1>13. DecodeFrozenEnvelope(BuildFrozenEnvelope(Runner, inp, out)).manifest
          = ManifestOf(Runner.sha, built)
  <2>1. PICK stream : stream = StreamOf(candidate)
    OBVIOUS
  <2>2. BuildFrozenEnvelope(Runner, inp, out) = stream
    BY <1>8, <2>1 DEF BuildFrozenEnvelope, EncodeFrozenEnvelope
  <2>3. PICK n \in Nat : DOMAIN candidate.files = 1 .. n
    BY <1>7, <1>9, FilesInSequence
  <2>4. MetadataOf(stream, "manifest").jcs = candidate["manifest"]
    BY <2>1, <2>3, StreamContents
  <2>5. DecodeFrozenEnvelope(stream).manifest = MetadataOf(stream, "manifest").jcs
    BY DEF DecodeFrozenEnvelope
  <2>6. QED  BY <1>10, <2>2, <2>4, <2>5
<1>14. QED  BY <1>1, <1>4, <1>5, <1>12, <1>13

-----------------------------------------------------------------------------
(* The inputs and the output a request may be derived of.                  *)
MayRequest(checkout, inp, out) ==
    /\ inp.files = checkout.files
    /\ IsMixture(out.files, checkout)
    /\ Freezes(Toolchain, Runner, inp, out)
    /\ AuthorizationInputIsDerived(Toolchain, Runner, inp, out,
                                   BuildFrozenEnvelope(Runner, inp, out))

\* The output is one build's, of the checkout's base and of its lock's packages.
IsOneBuilds(built, inp, out) ==
    /\ Without(out.files, {BuildDirectoryMarker}) = Rendered(Runner.sha, built)
    /\ DecodeFrozenEnvelope(BuildFrozenEnvelope(Runner, inp, out)).manifest
          = ManifestOf(Runner.sha, built)
    /\ JsonMember(inp.files, PublicationPath).canonicalBase
          = JsonMember(built.files, PublicationPath).canonicalBase
    /\ \A member \in {"schemas", "template", "theme"} :
          LockOf(built)[member] = JsonMember(inp.files, LockPath)[member]

LEMMA TogetherIsFunction ==
    ASSUME NEW left, NEW right, NEW both, both = left ++ right
    PROVE  both = [member \in DOMAIN both |-> both[member]]
BY DEF ++

LEMMA RenderedIsFunction ==
    ASSUME NEW sha, NEW built, NEW files, files = Rendered(sha, built)
    PROVE  files = [member \in DOMAIN files |-> files[member]]
<1> DEFINE documents == [path \in UnfrozenMetadataMembers |->
              CASE path = UnfrozenManifestMember -> [json |-> ManifestOf(sha, built)]
                [] path = BuildInputMember -> [json |-> BuildInputOf(built)]
                [] path = ThemeContractMember -> [json |-> ThemeContractOf(built)]]
           site == [path \in DOMAIN built.site |-> built.site[path].bytes]
<1>1. files = documents ++ site
  BY DEF Rendered
<1> HIDE DEF documents, site
<1>2. QED  BY <1>1, TogetherIsFunction

LEMMA RequestedOutputIsOneBuilds ==
    ASSUME SitesHaveOrdinaryPaths, BuildsAreNamed, PackagesAreReleases,
           NEW checkout \in Checkouts, NEW inp, NEW out, MayRequest(checkout, inp, out)
    PROVE  \E built \in Builds : IsOneBuilds(built, inp, out)
<1> DEFINE files == out.files
           lock == JsonMember(inp.files, LockPath)
<1>1. /\ IsMixture(files, checkout) /\ SplitIsValid(files)
      /\ Encodes(EnvelopeInput(Runner, inp, out))
      /\ BuildFactsAreValid(files, JsonMember(files, UnfrozenManifestMember))
      /\ BuildAgrees(Toolchain, inp, out)
      /\ BuildInputMember \in DOMAIN files /\ ThemeContractMember \in DOMAIN files
  BY DEF MayRequest, Freezes, AuthorizationInputIsDerived, NothingMissing
<1>2. PICK built \in {checkout} \cup OtherBuilds :
         /\ files[UnfrozenManifestMember] = Rendered(Runner.sha, built)[UnfrozenManifestMember]
         /\ JsonMember(files, UnfrozenManifestMember) = ManifestOf(Runner.sha, built)
         /\ ManifestInventoryIsValid(ManifestOf(Runner.sha, built))
         /\ DOMAIN files \ (UnfrozenMetadataMembers \cup {BuildDirectoryMarker})
               \subseteq DOMAIN built.site
  BY <1>1, ManifestIsABuilds
<1>3. built \in Builds /\ checkout \in Builds
  BY DEF Builds
<1>4. /\ DOMAIN files \ (UnfrozenMetadataMembers \cup {BuildDirectoryMarker})
            = DOMAIN built.site
      /\ \A path \in DOMAIN built.site : files[path] = built.site[path].bytes
      /\ DecodeFrozenEnvelope(BuildFrozenEnvelope(Runner, inp, out)).manifest
            = ManifestOf(Runner.sha, built)
  BY <1>1, <1>2, <1>3, PackedIsTheSite
<1>5. files[BuildInputMember] = Rendered(Runner.sha, built)[BuildInputMember]
  <2>1. PICK other \in {checkout} \cup OtherBuilds :
           files[BuildInputMember] = Rendered(Runner.sha, other)[BuildInputMember]
    BY <1>1, MemberNames DEF IsMixture
  <2>2. other \in Builds
    BY DEF Builds
  <2>3. JsonMember(files, BuildInputMember) = BuildInputOf(other)
    BY <2>1, <2>2, DocumentsOfBuild
  <2>4. BuildInputOf(other).inputDigest = ManifestOf(Runner.sha, built).buildInputDigest
    BY <1>1, <1>2, <2>3 DEF BuildFactsAreValid
  <2>5. /\ BuildInputOf(other).inputDigest = [buildInput |-> other.name]
        /\ ManifestOf(Runner.sha, built).buildInputDigest = [buildInput |-> built.name]
    BY BuildInputMembers, ManifestMembers
  <2>6. other.name = built.name
    <3>1. [buildInput |-> other.name] = [buildInput |-> built.name]
      BY <2>4, <2>5, Zenon
    <3>2. QED  BY <3>1
  <2>7. Rendered(Runner.sha, other) = Rendered(Runner.sha, built)
    <3>1. CASE other = built
      BY <3>1
    <3>2. CASE built \in OtherBuilds
      BY <2>2, <2>6, <3>2 DEF BuildsAreNamed
    <3>3. CASE other \in OtherBuilds
      BY <1>3, <2>6, <3>3 DEF BuildsAreNamed
    <3>4. QED  BY <3>1, <3>2, <3>3
  <2>8. QED  BY <2>1, <2>7
<1>6. PICK buildInput : buildInput = BuildInputOf(built)
  OBVIOUS
<1>7. JsonMember(files, BuildInputMember) = buildInput
  BY <1>3, <1>5, <1>6, DocumentsOfBuild
<1>8. PICK own : own = LockOf(built)
  OBVIOUS
<1>9. /\ buildInput.baseUrl = JsonMember(built.files, PublicationPath).canonicalBase
      /\ buildInput.packages["schemas"] = own["schemas"]
      /\ buildInput.packages["template"] = own["template"]
      /\ buildInput.packages["theme"] = own["theme"]
  BY <1>6, <1>8, BuildInputMembers
<1>10. /\ buildInput.baseUrl = JsonMember(inp.files, PublicationPath).canonicalBase
       /\ \A member \in {"schemas", "template", "theme"} :
             Identity(buildInput.packages[member]) = Identity(lock[member])
  BY <1>1, <1>7, Zenon DEF BuildAgrees
<1>11. lock = LockOf(checkout)
  BY DEF MayRequest, LockOf
<1>12. \A member \in {"schemas", "template", "theme"} : own[member] = lock[member]
  <2>1. \A member \in {"schemas", "template", "theme"} :
           Identity(own[member]) = Identity(lock[member]) => own[member] = lock[member]
    BY <1>3, <1>8, <1>11, Zenon DEF PackagesAreReleases
  <2>2. /\ Identity(own["schemas"]) = Identity(lock["schemas"])
        /\ Identity(own["template"]) = Identity(lock["template"])
        /\ Identity(own["theme"]) = Identity(lock["theme"])
    BY <1>9, <1>10
  <2>3. QED  BY <2>1, <2>2
<1>13. files[ThemeContractMember] = Rendered(Runner.sha, built)[ThemeContractMember]
  <2>1. PICK other \in {checkout} \cup OtherBuilds :
           files[ThemeContractMember] = Rendered(Runner.sha, other)[ThemeContractMember]
    BY <1>1, MemberNames DEF IsMixture
  <2>2. other \in Builds
    BY DEF Builds
  <2>3. PICK theme : theme = LockOf(other).theme
    OBVIOUS
  <2>4. PICK contract : contract = ThemeContractOf(other)
    OBVIOUS
  <2>5. JsonMember(files, ThemeContractMember) = contract
    BY <2>1, <2>2, <2>4, DocumentsOfBuild
  <2>6. contract = [package |-> theme.package, version |-> theme.version,
                    stylingContractDigest |-> [styling |-> theme]]
    BY <2>3, <2>4, ThemeContractMembers
  <2>7. contract.package = lock.theme.package /\ contract.version = lock.theme.version
    BY <1>1, <2>5, Zenon DEF BuildAgrees
  <2>8. theme.package = lock.theme.package /\ theme.version = lock.theme.version
    BY <2>6, <2>7
  <2>9. theme = lock.theme
    BY <1>3, <1>11, <2>2, <2>3, <2>8, Zenon DEF PackagesAreReleases
  <2>10. LockOf(built).theme = theme
    BY <1>8, <1>12, <2>9
  <2>11. ThemeContractOf(built) = contract
    BY <2>6, <2>10, ThemeContractMembers
  <2>12. /\ Rendered(Runner.sha, built)[ThemeContractMember]
               = [json |-> ThemeContractOf(built)]
         /\ Rendered(Runner.sha, other)[ThemeContractMember]
               = [json |-> ThemeContractOf(other)]
    BY <1>3, <2>2, SitesAreApart, RenderedMembers
  <2>13. QED  BY <2>1, <2>4, <2>11, <2>12
<1>14. Without(files, {BuildDirectoryMarker}) = Rendered(Runner.sha, built)
  <2>1. PICK left : left = Without(files, {BuildDirectoryMarker})
    OBVIOUS
  <2>2. PICK right : right = Rendered(Runner.sha, built)
    OBVIOUS
  <2>3. /\ DOMAIN left = DOMAIN files \ {BuildDirectoryMarker}
        /\ \A path \in DOMAIN left : left[path] = files[path]
    <3>1. DOMAIN left = DOMAIN files \ {BuildDirectoryMarker}
      BY <2>1, WithoutDomain
    <3>2. QED  BY <2>1, <3>1, WithoutMember
  <2>4. /\ UnfrozenMetadataMembers \cap DOMAIN built.site = {}
        /\ BuildDirectoryMarker \notin DOMAIN built.site
    BY <1>3, SitesAreApart
  <2>5. /\ DOMAIN right = UnfrozenMetadataMembers \cup DOMAIN built.site
        /\ \A path \in DOMAIN built.site : right[path] = built.site[path].bytes
    <3>1. /\ DOMAIN Rendered(Runner.sha, built)
                = UnfrozenMetadataMembers \cup DOMAIN built.site
          /\ \A path \in DOMAIN built.site :
                Rendered(Runner.sha, built)[path] = built.site[path].bytes
      BY <2>4, RenderedMembers
    <3>2. QED  BY <2>2, <3>1
  <2>6. UnfrozenMetadataMembers \subseteq DOMAIN files
    BY <1>1, MemberNames DEF SplitIsValid, HasJson
  <2>7. DOMAIN left = DOMAIN right
    BY <1>4, <2>3, <2>4, <2>5, <2>6, MemberNames
  <2>8. ASSUME NEW path \in DOMAIN left PROVE left[path] = right[path]
    <3>1. CASE path \in DOMAIN built.site
      BY <1>4, <2>3, <2>5, <3>1
    <3>2. CASE path \in UnfrozenMetadataMembers
      BY <1>2, <1>5, <1>13, <2>2, <2>3, <3>2, MemberNames
    <3>3. QED  BY <2>5, <2>7, <3>1, <3>2
  <2>9. /\ left = [path \in DOMAIN left |-> left[path]]
        /\ right = [path \in DOMAIN right |-> right[path]]
    <3>1. left = [path \in DOMAIN left |-> left[path]]
      BY <2>1 DEF Without, Restrict
    <3>2. right = [path \in DOMAIN right |-> right[path]]
      BY <2>2, RenderedIsFunction
    <3>3. QED  BY <3>1, <3>2
  <2>10. left = right
    BY <2>7, <2>8, <2>9
  <2>11. QED  BY <2>1, <2>2, <2>10
<1>15. IsOneBuilds(built, inp, out)
  <2>1. DecodeFrozenEnvelope(BuildFrozenEnvelope(Runner, inp, out)).manifest
           = ManifestOf(Runner.sha, built)
    BY <1>4
  <2>2. JsonMember(inp.files, PublicationPath).canonicalBase
           = JsonMember(built.files, PublicationPath).canonicalBase
    BY <1>9, <1>10, Zenon
  <2>3. \A member \in {"schemas", "template", "theme"} :
           LockOf(built)[member] = JsonMember(inp.files, LockPath)[member]
    BY <1>8, <1>12
  <2>4. QED  BY <1>14, <2>1, <2>2, <2>3, Zenon DEF IsOneBuilds
<1>16. QED  BY <1>3, <1>15

-----------------------------------------------------------------------------
(* What a request says of the build it is made for.                        *)

LEMMA RequestSaysTheRecord ==
    ASSUME NEW inp, NEW out, NEW stream, NEW handoff, NEW asked,
           asked = BuildDeploymentIntentRequest(
                      DeriveAuthorizationInput(Toolchain, Runner, inp, out, stream, handoff))
    PROVE  /\ asked.rebuildRecord.buildInputDigest
                 = DecodeFrozenEnvelope(stream).manifest.buildInputDigest
           /\ asked.destination.baseUrl
                 = JsonMember(inp.files, PublicationPath).canonicalBase
           /\ "purpose" \in DOMAIN asked
<1>1. PICK derived : derived = DeriveAuthorizationInput(Toolchain, Runner, inp, out, stream,
                                                        handoff)
  OBVIOUS
<1>2. PICK decoded : decoded = DecodeFrozenEnvelope(stream)
  OBVIOUS
<1>3. PICK destination :
         /\ destination = derived.destination
         /\ "destination" \in DOMAIN derived
         /\ destination.baseUrl = JsonMember(inp.files, PublicationPath).canonicalBase
         /\ "rebuildRecord" \in DOMAIN derived
         /\ derived.rebuildRecord
               = DeriveRebuildRecord(Toolchain, Runner, inp, out, decoded.manifest)
  <2> DEFINE lock == ReadLockFacts(Toolchain, inp.files)
             artifact == DeriveArtifactFacts(decoded.files, decoded.manifest)
             plain == [adapterId |-> lock.adapter.adapterId,
                       adapterVersion |-> lock.adapter.adapterVersion,
                       baseUrl |-> JsonMember(inp.files, PublicationPath).canonicalBase]
             target == IF lock.adapter.adapterId = "github-pages"
                       THEN plain ++ [providerBinding |->
                                        [owner |-> Runner.repository.owner,
                                         repository |-> Runner.repository.name]]
                       ELSE plain
             own == [operationId |-> Runner.ref.operationId,
                     repositoryId |-> Runner.repositoryId,
                     runId |-> Runner.runId,
                     runAttempt |-> Runner.runAttempt,
                     sourceCommit |-> inp.metadata.sourceCommit,
                     workflowTriggerCommit |-> inp.metadata.workflowTriggerCommit,
                     artifactDigest |->
                        ArtifactDigestUnder(lock.adapterPackage, ToSet(decoded.files)),
                     provenanceDigest |-> decoded.provenanceDigest,
                     sbomDigest |-> decoded.sbomDigest,
                     frozenEnvelopeDigest |-> TaggedSha256(stream),
                     frozenEnvelopeByteCount |-> EnvelopeByteCount(stream),
                     frozenHandoffArtifactId |-> handoff.artifactId,
                     frozenHandoffName |-> handoff.name,
                     requestedArtifactRetentionDays |-> handoff.retentionDays,
                     effectiveArtifactExpiresAt |-> handoff.expiresAt,
                     lockDigest |-> lock.lockDigest,
                     rebuildRecord |-> DeriveRebuildRecord(Toolchain, Runner, inp, out,
                                                           decoded.manifest),
                     publisher |-> lock.publisher,
                     adapter |-> lock.adapter,
                     destination |-> target]
  <2>1. derived = artifact ++ own
    BY <1>1, <1>2 DEF DeriveAuthorizationInput
  <2>2. DOMAIN artifact = {"manifestDigest", "artifactByteCount", "artifactFileCount",
                           "pageCount", "verificationSubmission"}
    BY DEF DeriveArtifactFacts
  <2>3. /\ own.destination = target /\ "destination" \in DOMAIN own
        /\ own.rebuildRecord = DeriveRebuildRecord(Toolchain, Runner, inp, out,
                                                   decoded.manifest)
        /\ "rebuildRecord" \in DOMAIN own
    OBVIOUS
  <2>4. target.baseUrl = plain.baseUrl
    <3>1. "baseUrl" \in DOMAIN plain
      OBVIOUS
    <3> HIDE DEF plain, lock
    <3>2. ASSUME NEW other PROVE (plain ++ other)["baseUrl"] = plain["baseUrl"]
      BY <3>1, MemberOfLeft
    <3>3. QED  BY <3>2
  <2>5. plain.baseUrl = JsonMember(inp.files, PublicationPath).canonicalBase
    OBVIOUS
  <2> HIDE DEF own, artifact, target, plain
  <2>6. (artifact ++ own)["destination"] = own["destination"]
    BY <2>2, <2>3, MemberOfRight
  <2>7. (artifact ++ own)["rebuildRecord"] = own["rebuildRecord"]
    BY <2>2, <2>3, MemberOfRight
  <2>8. DOMAIN (artifact ++ own) = DOMAIN artifact \cup DOMAIN own
    BY TogetherDomain
  <2>9. QED  BY <2>1, <2>3, <2>4, <2>5, <2>6, <2>7, <2>8
<1>4. PICK said, ids, binding :
         asked = (said ++ ids) ++ binding
         /\ said = Without(derived, {"operationId", "repositoryId", "runId", "runAttempt"})
         /\ "purpose" \in DOMAIN ids
  <2> DEFINE said == Without(derived, {"operationId", "repositoryId", "runId", "runAttempt"})
             ids == [purpose |-> "deployment-intent",
                     artifactId |-> DerivedIds(derived).artifactId]
             binding == Restrict(DerivedIds(derived),
                                 {"pagesBuildVersion", "spacesStagePrefix"}
                                    \cap DOMAIN DerivedIds(derived))
  <2>1. asked = (said ++ ids) ++ binding
    BY <1>1 DEF BuildDeploymentIntentRequest
  <2>2. "purpose" \in DOMAIN ids
    OBVIOUS
  <2> HIDE DEF ids, binding
  <2>3. QED  BY <2>1, <2>2
<1>5. DOMAIN said = DOMAIN derived \ {"operationId", "repositoryId", "runId", "runAttempt"}
  BY <1>4, WithoutDomain
<1>6. ASSUME NEW member \in {"destination", "rebuildRecord"}
      PROVE  asked[member] = derived[member]
  <2>1. /\ member \in DOMAIN derived
        /\ member \notin {"operationId", "repositoryId", "runId", "runAttempt"}
    BY <1>3
  <2>2. said[member] = derived[member]
    BY <1>4, <2>1, WithoutMember
  <2>3. member \in DOMAIN said
    BY <1>5, <2>1
  <2>4. /\ member \in DOMAIN (said ++ ids)
        /\ (said ++ ids)[member] = said[member]
    BY <2>3, MemberOfLeft
  <2>5. ((said ++ ids) ++ binding)[member] = (said ++ ids)[member]
    BY <2>4, MemberOfLeft
  <2>6. QED  BY <1>4, <2>2, <2>4, <2>5
<1>7. "purpose" \in DOMAIN asked
  <2>1. DOMAIN (said ++ ids) = DOMAIN said \cup DOMAIN ids
    BY TogetherDomain
  <2>2. DOMAIN ((said ++ ids) ++ binding) = DOMAIN (said ++ ids) \cup DOMAIN binding
    BY TogetherDomain
  <2>3. QED  BY <1>4, <2>1, <2>2
<1>8. DeriveRebuildRecord(Toolchain, Runner, inp, out, decoded.manifest).buildInputDigest
         = decoded.manifest.buildInputDigest
  BY DEF DeriveRebuildRecord
<1>9. asked.rebuildRecord = derived.rebuildRecord /\ asked.destination = derived.destination
  BY <1>6
<1>10. QED  BY <1>2, <1>3, <1>7, <1>8, <1>9

\* The first rows of a lock are those of its members.
LEMMA DirectRows ==
    ASSUME PackagesAreReleases, NEW checkout \in Checkouts, NEW lock,
           lock = LockOf(checkout)
    PROVE  /\ DirectPackageRows(lock)[1] = lock["schemas"]
           /\ DirectPackageRows(lock)[2] = lock["template"]
           /\ DirectPackageRows(lock)[3] = lock["theme"]
           /\ \A i \in DOMAIN DirectPackageRows(lock) : i <= 3 => i \in 1 .. 3
<1>1. checkout \in Builds
  BY DEF Builds
<1>2. lock.publisher \in Seq(ToSet(lock.publisher))
  BY <1>1 DEF PackagesAreReleases
<1> DEFINE head == <<lock["schemas"], lock["template"], lock["theme"]>>
           S == ToSet(lock.publisher) \cup {lock["schemas"], lock["template"], lock["theme"]}
<1>3. lock.publisher \in Seq(S) /\ head \in Seq(S)
  <2>1. head \in Seq(S)
    OBVIOUS
  <2>2. ToSet(lock.publisher) \subseteq S
    OBVIOUS
  <2> HIDE DEF S, head
  <2>3. QED  BY <1>2, <2>1, <2>2, SeqMonotonic
<1>4. /\ Len(head) = 3 /\ head[1] = lock["schemas"] /\ head[2] = lock["template"]
      /\ head[3] = lock["theme"]
  OBVIOUS
<1>5. DirectPackageRows(lock) = head \o lock.publisher
  BY DEF DirectPackageRows
<1> HIDE DEF head, S
<1>6. /\ head \o lock.publisher \in Seq(S)
      /\ Len(head \o lock.publisher) = Len(head) + Len(lock.publisher)
      /\ \A i \in 1 .. Len(head) + Len(lock.publisher) :
            (head \o lock.publisher)[i]
               = IF i <= Len(head) THEN head[i] ELSE lock.publisher[i - Len(head)]
  BY <1>3, ConcatProperties
<1>7. Len(lock.publisher) \in Nat
  BY <1>3, LenProperties
<1>8. DOMAIN (head \o lock.publisher) = 1 .. Len(head) + Len(lock.publisher)
  BY <1>6, LenProperties
<1>9. QED  BY <1>4, <1>5, <1>6, <1>7, <1>8

-----------------------------------------------------------------------------
(* The jobs, one after the other.                                          *)

InputsAreTheSources ==
    job \in {"build", "freeze", "frozen", "authorize"} =>
        inputs = VerifiedInputs(Runner, source.files)

OutputIsABuilds ==
    job \in {"freeze", "frozen", "authorize"} => IsMixture(output.files, source)

EnvelopeIsFrozen ==
    job \in {"frozen", "authorize"} =>
        /\ Freezes(Toolchain, Runner, inputs, output)
        /\ envelope = BuildFrozenEnvelope(Runner, inputs, output)
        /\ stored # None

InputIsDerived ==
    job = "authorize" =>
        /\ TaggedSha256(stored) = TaggedSha256(envelope)
        /\ AuthorizationInputIsDerived(Toolchain, Runner, inputs, output, stored)
        /\ \E handoff : input = DeriveAuthorizationInput(Toolchain, Runner, inputs,
                                   output, stored, handoff)

StoredIsShaped == stored # None => StreamIsShaped(stored)

CandidateInv ==
    /\ TypeOK
    /\ InputsAreTheSources
    /\ OutputIsABuilds
    /\ EnvelopeIsFrozen
    /\ InputIsDerived
    /\ StoredIsShaped

OrdinaryBuilds == BytesAreOfOneForm /\ SitesHaveOrdinaryPaths

LEMMA ShapedIsSomething ==
    ASSUME NEW stream, StreamIsShaped(stream)
    PROVE  stream # None
<1>1. "magic" \in DOMAIN stream
  BY DEF StreamIsShaped
<1>2. "magic" \notin DOMAIN None
  BY DEF None
<1>3. QED  BY <1>1, <1>2

LEMMA CandidateInitially == Init => CandidateInv
BY DEF Init, CandidateInv, TypeOK, Jobs, InputsAreTheSources, OutputIsABuilds,
       EnvelopeIsFrozen, InputIsDerived, StoredIsShaped

LEMMA CandidateKept ==
    ASSUME OrdinaryBuilds, CandidateInv, [Next]_vars
    PROVE  CandidateInv'
<1> USE DEF CandidateInv
<1>1. CASE UNCHANGED vars
  BY <1>1 DEF vars, TypeOK, InputsAreTheSources, OutputIsABuilds, EnvelopeIsFrozen,
              InputIsDerived, StoredIsShaped
<1>2. CASE Prep
  BY <1>2 DEF Prep, TypeOK, Jobs, InputsAreTheSources, OutputIsABuilds, EnvelopeIsFrozen,
              InputIsDerived, StoredIsShaped
<1>3. CASE Build \/ BuildFaulty
  <2>1. /\ job = "build" /\ job' = "freeze"
        /\ UNCHANGED <<source, inputs, envelope, stored, input, request>>
        /\ faults' \in {faults, faults \cup {"output"}}
    BY <1>3 DEF Build, BuildFaulty
  <2>2. PICK files \in OutputsOf(source) : output' = [files |-> files]
    BY <1>3 DEF Build, BuildFaulty, OutputsOf
  <2>3. IsMixture(files, source)
    BY <2>2, OutputIsMixture DEF OrdinaryBuilds, TypeOK
  <2>4. IsMixture(output'.files, source')
    BY <2>1, <2>2, <2>3
  <2>5. TypeOK'
    BY <2>1 DEF TypeOK, Jobs
  <2>6. QED
    BY <2>1, <2>4, <2>5 DEF InputsAreTheSources, OutputIsABuilds, EnvelopeIsFrozen,
                            InputIsDerived, StoredIsShaped
<1>4. CASE Freeze
  <2>1. job = "freeze" /\ UNCHANGED <<source, inputs, output, input, request, faults>>
    BY <1>4 DEF Freeze
  <2>2. CASE Freezes(Toolchain, Runner, inputs, output)
    <3>1. /\ job' = "frozen" /\ stored' = envelope'
          /\ envelope' = BuildFrozenEnvelope(Runner, inputs, output)
      BY <1>4, <2>2 DEF Freeze
    <3>2. StreamIsShaped(envelope')
      BY <2>1, <3>1, FrozenIsShaped DEF OutputIsABuilds
    <3>3. envelope' # None
      BY <3>2, ShapedIsSomething
    <3>4. TypeOK'
      BY <2>1, <3>1, <3>3 DEF TypeOK, Jobs
    <3>5. InputsAreTheSources' /\ OutputIsABuilds'
      BY <2>1, <3>1 DEF InputsAreTheSources, OutputIsABuilds
    <3>6. EnvelopeIsFrozen'
      BY <2>1, <2>2, <3>1, <3>3 DEF EnvelopeIsFrozen
    <3>7. StoredIsShaped'
      BY <3>1, <3>2 DEF StoredIsShaped
    <3>8. QED  BY <3>1, <3>4, <3>5, <3>6, <3>7 DEF InputIsDerived
  <2>3. CASE ~Freezes(Toolchain, Runner, inputs, output)
    <3>1. job' = "refused" /\ UNCHANGED <<envelope, stored>>
      BY <1>4, <2>3 DEF Freeze
    <3>2. QED
      BY <2>1, <3>1 DEF TypeOK, Jobs, InputsAreTheSources, OutputIsABuilds,
                        EnvelopeIsFrozen, InputIsDerived, StoredIsShaped
  <2>4. QED  BY <2>2, <2>3
<1>5. CASE DamageStored
  <2>1. /\ job = "frozen" /\ stored' \in Damaged(envelope)
        /\ faults' = faults \cup {"envelope"}
        /\ UNCHANGED <<job, source, inputs, output, envelope, input, request>>
    BY <1>5 DEF DamageStored
  <2>2. StreamIsShaped(envelope)
    BY <2>1, FrozenIsShaped DEF EnvelopeIsFrozen, OutputIsABuilds
  <2>3. StreamIsShaped(stored')
    BY <2>1, <2>2, DamageKeepsShape DEF OrdinaryBuilds
  <2>4. stored' # None
    BY <2>3, ShapedIsSomething
  <2>5. TypeOK'
    BY <2>1, <2>4 DEF TypeOK, Jobs
  <2>6. QED
    BY <2>1, <2>3, <2>4, <2>5 DEF InputsAreTheSources, OutputIsABuilds, EnvelopeIsFrozen,
                            InputIsDerived, StoredIsShaped
<1>6. CASE BuildAuthorizationInput
  <2>1. /\ job = "frozen"
        /\ UNCHANGED <<source, inputs, output, envelope, stored, request, faults>>
    BY <1>6 DEF BuildAuthorizationInput
  <2>2. \/ job' = "refused"
        \/ /\ job' = "authorize"
           /\ TaggedSha256(stored) = TaggedSha256(envelope)
           /\ AuthorizationInputIsDerived(Toolchain, Runner, inputs, output, stored)
           /\ \E handoff : input' = DeriveAuthorizationInput(Toolchain, Runner, inputs,
                                       output, stored, handoff)
    BY <1>6, Zenon DEF BuildAuthorizationInput
  <2>3. stored # None
    BY <2>1 DEF EnvelopeIsFrozen
  <2>4. TypeOK'
    BY <2>1, <2>2, <2>3 DEF TypeOK, Jobs
  <2>5. InputIsDerived'
    <3>1. CASE job' = "refused"
      BY <3>1 DEF InputIsDerived
    <3>2. CASE job' # "refused"
      BY <2>1, <2>2, <3>2, Zenon DEF InputIsDerived
    <3>3. QED  BY <3>1, <3>2
  <2>6. QED
    BY <2>1, <2>2, <2>4, <2>5 DEF InputsAreTheSources, OutputIsABuilds,
                            EnvelopeIsFrozen, StoredIsShaped
<1>7. CASE Authorize
  <2>1. /\ job = "authorize"
        /\ UNCHANGED <<source, inputs, output, envelope, stored, input, faults>>
    BY <1>7 DEF Authorize
  <2>2. \/ job' = "requested" /\ request' # None
        \/ job' = "refused" /\ request' = None
    <3>1. \/ job' = "refused" /\ UNCHANGED request
          \/ job' = "requested" /\ request' = BuildDeploymentIntentRequest(input)
      BY <1>7, Zenon DEF Authorize
    <3>2. request = None
      BY <2>1 DEF TypeOK
    <3>3. PICK handoff : input = DeriveAuthorizationInput(Toolchain, Runner, inputs,
                                    output, stored, handoff)
      BY <2>1 DEF InputIsDerived
    <3>4. "purpose" \in DOMAIN BuildDeploymentIntentRequest(input)
      BY <3>3, RequestSaysTheRecord
    <3>5. "purpose" \notin DOMAIN None
      BY DEF None
    <3>6. QED  BY <3>1, <3>2, <3>4, <3>5
  <2>3. stored # None
    BY <2>1 DEF EnvelopeIsFrozen
  <2>4. TypeOK'
    BY <2>1, <2>2, <2>3 DEF TypeOK, Jobs
  <2>5. QED
    BY <2>1, <2>2, <2>4 DEF InputsAreTheSources, OutputIsABuilds, EnvelopeIsFrozen,
                            InputIsDerived, StoredIsShaped
<1>8. QED  BY <1>1, <1>2, <1>3, <1>4, <1>5, <1>6, <1>7 DEF Next

(* The carriers, the build's output, the frozen envelope and the request   *)
(* that the jobs prep, build, freeze and authorize leave one another have  *)
(* their types, whatever a faulty build or a damaged storage made of them. *)
THEOREM CandidateTypes ==
    ASSUME BytesAreOfOneForm, SitesHaveOrdinaryPaths
    PROVE  Spec => []TypeOK
<1>1. OrdinaryBuilds
  BY DEF OrdinaryBuilds
<1>2. CandidateInv => TypeOK
  BY DEF CandidateInv
<1>3. CandidateInv /\ [Next]_vars => CandidateInv'
  BY <1>1, CandidateKept
<1>4. QED  BY <1>2, <1>3, CandidateInitially, PTL DEF Spec

(* What the decoder of frozen-candidate.mjs accepts it would also write:   *)
(* an envelope that storage has damaged is refused, or is, byte for byte,  *)
(* the encoding of the candidate that it is read as.                       *)
THEOREM AcceptedIsCanonicalHolds ==
    ASSUME BytesAreOfOneForm, SitesHaveOrdinaryPaths
    PROVE  Spec => []AcceptedIsCanonical
<1>1. OrdinaryBuilds
  BY DEF OrdinaryBuilds
<1>2. CandidateInv => AcceptedIsCanonical
  <2>1. ASSUME CandidateInv, stored # None, Decodes(stored),
               NEW answer, answer = DecodeFrozenEnvelope(stored)
        PROVE  Encodes(answer) /\ EncodeFrozenEnvelope(answer) = stored
    BY <2>1, EncodingIsCanonical DEF CandidateInv, StoredIsShaped
  <2>2. QED  BY <2>1 DEF AcceptedIsCanonical
<1>3. CandidateInv /\ [Next]_vars => CandidateInv'
  BY <1>1, CandidateKept
<1>4. QED  BY <1>2, <1>3, CandidateInitially, PTL DEF Spec

(* What a request that was made says of the output it is for.              *)
RequestIsFor(built, asked, inp, out) ==
    /\ Without(out.files, {BuildDirectoryMarker}) = Rendered(Runner.sha, built)
    /\ asked.rebuildRecord.buildInputDigest = [buildInput |-> built.name]
    /\ asked.destination.baseUrl = JsonMember(built.files, PublicationPath).canonicalBase
    /\ \A i \in DOMAIN DirectPackageRows(JsonMember(inp.files, LockPath)) :
          LET row == DirectPackageRows(JsonMember(inp.files, LockPath))[i]
              member == <<"schemas", "template", "theme", "publisher">>[i]
          IN  i <= 3 => JsonMember(built.files, LockPath)[member] = row

LEMMA AskedIsFor ==
    ASSUME SitesHaveOrdinaryPaths, BuildsAreNamed, PackagesAreReleases,
           NEW checkout \in Checkouts, NEW inp, NEW out, MayRequest(checkout, inp, out),
           NEW handoff, NEW asked,
           asked = BuildDeploymentIntentRequest(
                      DeriveAuthorizationInput(Toolchain, Runner, inp, out,
                         BuildFrozenEnvelope(Runner, inp, out), handoff))
    PROVE  \E built \in Builds : RequestIsFor(built, asked, inp, out)
<1>1. PICK built \in Builds : IsOneBuilds(built, inp, out)
  BY RequestedOutputIsOneBuilds
<1>2. PICK stream : stream = BuildFrozenEnvelope(Runner, inp, out)
  OBVIOUS
<1>3. /\ asked.rebuildRecord.buildInputDigest
            = DecodeFrozenEnvelope(stream).manifest.buildInputDigest
      /\ asked.destination.baseUrl = JsonMember(inp.files, PublicationPath).canonicalBase
  BY <1>2, RequestSaysTheRecord
<1>4. DecodeFrozenEnvelope(stream).manifest.buildInputDigest = [buildInput |-> built.name]
  <2>1. DecodeFrozenEnvelope(stream).manifest = ManifestOf(Runner.sha, built)
    BY <1>1, <1>2 DEF IsOneBuilds
  <2>2. ManifestOf(Runner.sha, built).buildInputDigest = [buildInput |-> built.name]
    BY ManifestMembers
  <2>3. QED  BY <2>1, <2>2
<1>5. PICK lock : lock = JsonMember(inp.files, LockPath)
  OBVIOUS
<1>6. lock = LockOf(checkout)
  BY <1>5 DEF MayRequest, LockOf
<1>7. ASSUME NEW i \in DOMAIN DirectPackageRows(lock), i <= 3
      PROVE  LockOf(built)[<<"schemas", "template", "theme", "publisher">>[i]]
                = DirectPackageRows(lock)[i]
  <2>1. i \in {1, 2, 3}
    BY <1>6, <1>7, DirectRows
  <2>2. /\ DirectPackageRows(lock)[1] = lock["schemas"]
        /\ DirectPackageRows(lock)[2] = lock["template"]
        /\ DirectPackageRows(lock)[3] = lock["theme"]
    BY <1>6, DirectRows
  <2>3. /\ LockOf(built)["schemas"] = lock["schemas"]
        /\ LockOf(built)["template"] = lock["template"]
        /\ LockOf(built)["theme"] = lock["theme"]
    BY <1>1, <1>5, Zenon DEF IsOneBuilds
  <2>4. /\ <<"schemas", "template", "theme", "publisher">>[1] = "schemas"
        /\ <<"schemas", "template", "theme", "publisher">>[2] = "template"
        /\ <<"schemas", "template", "theme", "publisher">>[3] = "theme"
    OBVIOUS
  <2>5. QED  BY <2>1, <2>2, <2>3, <2>4
<1>8. \A i \in DOMAIN DirectPackageRows(JsonMember(inp.files, LockPath)) :
          LET row == DirectPackageRows(JsonMember(inp.files, LockPath))[i]
              member == <<"schemas", "template", "theme", "publisher">>[i]
          IN  i <= 3 => JsonMember(built.files, LockPath)[member] = row
  BY <1>5, <1>7 DEF LockOf
<1>9. /\ Without(out.files, {BuildDirectoryMarker}) = Rendered(Runner.sha, built)
      /\ asked.destination.baseUrl = JsonMember(built.files, PublicationPath).canonicalBase
  BY <1>1, <1>3 DEF IsOneBuilds
<1>10. asked.rebuildRecord.buildInputDigest = [buildInput |-> built.name]
  BY <1>3, <1>4
<1>11. RequestIsFor(built, asked, inp, out)
  BY <1>8, <1>9, <1>10, Zenon DEF RequestIsFor
<1>12. QED  BY <1>11

LEMMA RequestKept ==
    ASSUME OrdinaryBuilds, BuildsAreNamed, PackagesAreReleases,
           CandidateInv, RequestIsOfOneBuild, [Next]_vars
    PROVE  RequestIsOfOneBuild'
<1>1. CASE UNCHANGED vars
  BY <1>1 DEF vars, RequestIsOfOneBuild
<1>2. CASE \/ Prep \/ Build \/ BuildFaulty \/ Freeze \/ DamageStored
           \/ BuildAuthorizationInput
  <2>1. job \in {"prep", "build", "freeze", "frozen"} /\ UNCHANGED request
    BY <1>2 DEF Prep, Build, BuildFaulty, Freeze, DamageStored, BuildAuthorizationInput
  <2>2. request = None
    BY <2>1 DEF CandidateInv, TypeOK
  <2>3. QED  BY <2>1, <2>2 DEF RequestIsOfOneBuild
<1>3. CASE Authorize
  <2>1. /\ job = "authorize"
        /\ UNCHANGED <<source, inputs, output, envelope, stored, input, faults>>
    BY <1>3 DEF Authorize
  <2>2. request = None
    BY <2>1 DEF CandidateInv, TypeOK
  <2>3. request' = None \/ request' = BuildDeploymentIntentRequest(input)
    BY <1>3, <2>2, Zenon DEF Authorize
  <2>4. CASE request' = None
    BY <2>4 DEF RequestIsOfOneBuild
  <2>5. CASE request' # None
    <3>1. PICK handoff :
             /\ TaggedSha256(stored) = TaggedSha256(envelope)
             /\ AuthorizationInputIsDerived(Toolchain, Runner, inputs, output, stored)
             /\ request' = BuildDeploymentIntentRequest(
                   DeriveAuthorizationInput(Toolchain, Runner, inputs, output, stored,
                                            handoff))
      BY <2>1, <2>3, <2>5 DEF CandidateInv, InputIsDerived
    <3>2. stored = envelope
      <4>1. TaggedSha256(stored).sha256 = TaggedSha256(envelope).sha256
        BY <3>1
      <4>2. QED  BY <4>1 DEF TaggedSha256
    <3>3. /\ Freezes(Toolchain, Runner, inputs, output)
          /\ envelope = BuildFrozenEnvelope(Runner, inputs, output)
      BY <2>1 DEF CandidateInv, EnvelopeIsFrozen
    <3>4. inputs.files = source.files
      BY <2>1 DEF CandidateInv, InputsAreTheSources, VerifiedInputs
    <3>5. IsMixture(output.files, source) /\ source \in Checkouts
      BY <2>1 DEF CandidateInv, OutputIsABuilds, TypeOK
    <3>6. MayRequest(source, inputs, output)
      BY <3>1, <3>2, <3>3, <3>4, <3>5 DEF MayRequest
    <3>7. PICK built \in Builds : RequestIsFor(built, request', inputs, output)
      BY <3>1, <3>2, <3>3, <3>5, <3>6, AskedIsFor DEF OrdinaryBuilds
    <3>8. RequestIsFor(built, request', inputs', output')
      BY <2>1, <3>7
    <3>9. QED  BY <3>8 DEF RequestIsOfOneBuild, RequestIsFor, Builds
  <2>6. QED  BY <2>4, <2>5
<1>4. QED  BY <1>1, <1>2, <1>3 DEF Next

(* The job authorize requests nothing for an output with members of two    *)
(* builds: the site, the build input's digest, the base and the packages   *)
(* that Gala is told about are those of one build.                         *)
THEOREM RequestIsOfOneBuildHolds ==
    ASSUME BytesAreOfOneForm, SitesHaveOrdinaryPaths, BuildsAreNamed, PackagesAreReleases
    PROVE  Spec => []RequestIsOfOneBuild
<1>1. OrdinaryBuilds
  BY DEF OrdinaryBuilds
<1>2. Init => CandidateInv /\ RequestIsOfOneBuild
  BY CandidateInitially DEF Init, RequestIsOfOneBuild
<1>3. CandidateInv /\ RequestIsOfOneBuild /\ [Next]_vars
         => CandidateInv' /\ RequestIsOfOneBuild'
  BY <1>1, CandidateKept, RequestKept
<1>4. QED  BY <1>2, <1>3, PTL DEF Spec
=============================================================================
