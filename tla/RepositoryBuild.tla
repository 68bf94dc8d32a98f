--------------------------- MODULE RepositoryBuild ---------------------------
(***************************************************************************)
(* The commands validate and build. Both read the author's repository in   *)
(* steps, between which the author may edit it; build then removes what is *)
(* in its two directories and renders into them. A command may die between *)
(* two steps, and the next one finds what it left.                         *)
(*                                                                         *)
(* The output holds rendered files and the work directory the records of   *)
(* the build; either may carry the marker that it may be removed. A file   *)
(* remembers the build input it was made of.                               *)
(*                                                                         *)
(* Source: packages/publish-action/src/commands/{build,validate}.js,       *)
(* build-directory-safety.js, error-findings.js, result.js, fs-util.js and *)
(* the order of normalize/repository-intake.js.                            *)
(***************************************************************************)
EXTENDS RepositoryIntake

CONSTANTS
    Beginnings,         \* the repositories and directories there may be to begin with
    Commands,           \* how validate and build are called
    Replacements,       \* nodes the author may put in the place of a file
    EditedText,         \* the text of a document the author rewrote
    OriginsOfEnvironment,   \* which origins of the environment are valid, run by run
    SharingDocuments,   \* what the platform answers when it does
    RevisionIsGit,      \* the repository is a commit, and its revision is that
    DirectoriesInside,  \* the directories are .gala/output and .gala/work
    RenderedFiles,      \* the files a rendering consists of
    MaximumBuilds, MaximumEdits, MaximumCrashes     \* bounds

ASSUME BoundsAssumption ==
    {MaximumBuilds, MaximumEdits, MaximumCrashes} \subseteq Nat

VARIABLES
    repository,     \* the author's files, now
    directories,    \* "output" and "work", each with its marker and its files
    step,           \* what the running command does next
    intake,         \* what it has read so far
    result,         \* what it answered, or <<>>
    began,          \* history: the directories and the edits when it began
    builds, edits, crashes

buildVars == <<repository, directories, step, intake, result, began, builds, edits, crashes>>

Empty == [marker |-> FALSE, files |-> {}]
BothEmpty == [directory \in {"output", "work"} |-> Empty]

BuildInit ==
    /\ \E beginning \in Beginnings :
           repository = beginning.repository /\ directories = beginning.directories
    /\ step = "idle"
    /\ intake = <<>> /\ result = <<>>
    /\ began = [directories |-> directories, edits |-> 0]
    /\ builds = 0 /\ edits = 0 /\ crashes = 0

-----------------------------------------------------------------------------
(* The order of the steps.                                                 *)

IntakeSteps ==
    <<"configuration", "list", "documents",
      "inspect-image", "read-image", "inspect-audio", "read-audio",
      "inspect-file", "read-file", "content",
      "modules", "sharing", "sharing-again", "pages", "root">>

\* Mutant: each directory is checked just before it is removed.
CheckedOneByOne ==
    IntakeSteps \o
    <<"theme", "distinct", "check-output", "remove-output", "check-work", "remove-work",
      "render", "mark-output", "mark-work", "manifest", "records", "done">>

Steps ==
    IntakeSteps \o
    <<"theme", "distinct", "check-output", "check-work", "remove-output", "remove-work",
      "render", "mark-output", "mark-work", "manifest", "records", "done">>

After(name) == Steps[SelectInSeq(Steps, LAMBDA s : s = name) + 1]

Go(name) == step' = name /\ UNCHANGED <<result, repository, began, builds, edits, crashes>>
Proceed == Go(After(step))

Start(command) ==
    /\ step \in {"idle", "ended"}
    /\ builds < MaximumBuilds
    /\ step' = Head(Steps)
    /\ intake' = [command |-> command]
    /\ result' = <<>>
    /\ began' = [directories |-> directories, edits |-> edits]
    /\ builds' = builds + 1
    /\ UNCHANGED <<repository, directories, edits, crashes>>

Envelope(resultCode, findings) == [resultCode |-> resultCode, findings |-> findings]

(* Every error becomes findings, and each of them blocks. *)
Fail(findings) ==
    /\ step' = "ended"
    /\ result' = Envelope("UNSAFE_INPUT", findings)
    /\ UNCHANGED <<repository, directories, intake, began, builds, edits, crashes>>

FindingOf(code) == <<[code |-> code]>>

Read(facts) ==
    /\ intake' = intake @@ facts
    /\ Proceed
    /\ UNCHANGED directories

(* A step that refuses the repository, or has read something of it. *)
ReadUnless(problem, facts) ==
    \/ problem # "none" /\ Fail(FindingOf(problem))
    \/ problem = "none" /\ Read(facts)

NothingRead == [command |-> intake.command]

-----------------------------------------------------------------------------
(* Intake.                                                                 *)

(* Everything but .git, node_modules and links. *)
ListRepositoryFiles ==
    [content |-> repository.content,
     files |-> [path \in {p \in DOMAIN repository.files : repository.files[p].kind = "file"} |->
                   repository.files[path].bytes],
     built |-> IF DirectoriesInside THEN directories ELSE <<>>]

ResolveSourceRevision == IF RevisionIsGit THEN "commit" ELSE ListRepositoryFiles

ReadConfiguration ==
    /\ step = "configuration"
    /\ ReadUnless(ConfigurationProblem(repository), NothingRead)

ListContent ==
    /\ step = "list"
    /\ ReadUnless(ContentProblem(repository),
                  [paths |-> DocumentPaths(repository), sourceRevision |-> ResolveSourceRevision])

PrepareDocuments(documents) ==
    LET editions == EvaluateEditions(InBuild(documents, intake.command.includeDrafts))
    IN  [built |-> editions.built, warnings |-> editions.warnings]

ReadAllDocuments ==
    /\ step = "documents"
    /\ \/ /\ DocumentsProblem(repository, intake.paths) # "none"
          /\ Fail(FindingOf(DocumentsProblem(repository, intake.paths)))
       \/ /\ DocumentsProblem(repository, intake.paths) = "none"
          /\ LET prepared == PrepareDocuments(ReadDocuments(repository, intake.paths))
             IN  ReadUnless(AuthorProblem(prepared.built, repository.publication.authors),
                            prepared)

Roots == NormalizeAssetRoots(repository.assetRoots)

ReferencesOf(kind) ==
    CASE kind = "image" -> MediaReferences(repository, intake.built)
      [] kind = "audio" -> AudioReferences(intake.built)
      [] kind = "file" -> FileReferences(intake.built)

(* How many images the media of each document has: none when they failed. *)
ImageCounts ==
    [document \in ToSet(intake.paths) |->
        IF intake.image.findings # <<>> THEN 0
        ELSE Cardinality(PathsIn(InBody(ReferencesOf("image")), document))]

Resolve(kind) ==
    LET tree == repository.files
        references == ReferencesOf(kind)
    IN  CASE kind = "image" -> ResolveMediaReferences(tree, Roots, references)
          [] kind = "audio" -> ResolveListenAudio(tree, Roots, references)
          [] kind = "file" -> ResolveContentFiles(tree, Roots, references, ImageCounts)

MediaKinds == {"image", "audio", "file"}

InspectMedia(kind) ==
    /\ step = [image |-> "inspect-image", audio |-> "inspect-audio", file |-> "inspect-file"][kind]
    /\ Read(kind :> Resolve(kind))

FilesName(kind) == [image |-> "images", audio |-> "audios", file |-> "pdfs"][kind]

ReadMedia(kind) ==
    LET inspected == intake[kind].inspected IN
    /\ step = [image |-> "read-image", audio |-> "read-audio", file |-> "read-file"][kind]
    /\ ReadUnless(Unless(\A path \in DOMAIN inspected : CanBeRead(repository.files, path),
                         "UNCLASSIFIED_FAILURE"),
                  FilesName(kind) :> FilesOf(repository.files, inspected))

MediaFindings ==
    intake.image.findings \o intake.audio.findings \o intake.file.findings

AssembleContent ==
    /\ step = "content"
    /\ \/ MediaFindings # <<>> /\ Fail(MediaFindings)
       \/ /\ MediaFindings = <<>>
          /\ Read([content |-> ContentOf(intake.built, ReferencesOf("image"), intake.images,
                                         intake.audios, ReferencesOf("file"), intake.pdfs)])

ReadModules ==
    /\ step = "modules"
    /\ \E validOrigins \in OriginsOfEnvironment :
           ReadUnless(InteractionsProblem(repository, validOrigins), NothingRead)

(* The platform is asked twice when it fails, once when it is not sensible. *)
Share(document) ==
    /\ intake' = [intake EXCEPT !.warnings =
                     IF document # <<>> THEN @
                     ELSE Append(@, [code |-> "SHARING_DEFAULTS_UNAVAILABLE"])]
                 @@ [sharing |-> SharingTargets(repository.publication.targets, document)]
    /\ Go("pages")
    /\ UNCHANGED directories

FetchSharing ==
    /\ step \in {"sharing", "sharing-again"}
    /\ \E document \in SharingDocuments : Share(<<document>>)

(* It failed again, or answered something else. *)
SharingIsUnavailable == step \in {"sharing", "sharing-again"} /\ Share(<<>>)

SharingFails == step = "sharing" /\ Proceed /\ UNCHANGED <<directories, intake>>

ReadPages ==
    LET tree == repository.files
        publication == repository.publication
        findings == PolicyFindings(tree, publication.policies)
        contactFindings == ContactFindings(tree, publication.contactForm)
    IN
    /\ step = "pages"
    /\ \/ AnalyticsProblem(repository) # "none" /\ Fail(FindingOf(AnalyticsProblem(repository)))
       \/ /\ AnalyticsProblem(repository) = "none"
          /\ \/ findings # <<>> /\ Fail(findings)
             \/ findings = <<>> /\ contactFindings # <<>> /\ Fail(contactFindings)
             \/ /\ findings = <<>> /\ contactFindings = <<>>
                /\ Read([policies |-> PolicyPages(tree, publication.policies),
                         contact |-> ContactIntro(tree, publication.contactForm)])

ReadRoot ==
    /\ step = "root"
    /\ ReadUnless(DestinationCapabilitiesProblem(repository.lock),
                  [rootDigest |-> ListRepositoryFiles])

(* The build input, as far as it depends on what was read. *)
BuildInput ==
    [member \in {"sourceRevision", "rootDigest", "content", "sharing", "policies",
                 "contact", "images"} |-> intake[member]]

-----------------------------------------------------------------------------
(* The directories.                                                        *)

FindTheme ==
    /\ step = "theme" /\ intake.command.name = "build"
    /\ ReadUnless(ThemeProblem(repository.themePlaces, repository.lock.theme), NothingRead)

AssertDistinctBuildDirectories ==
    /\ step = "distinct"
    /\ ReadUnless(Unless(intake.command.directoriesAreSafe, "UNSAFE_BUILD_DIRECTORY"), NothingRead)

IsWipeable(directory) == directory.marker \/ directory.files = {}

AssertWipeableBuildDirectory(name) ==
    /\ step = [output |-> "check-output", work |-> "check-work"][name]
    /\ ReadUnless(Unless(IsWipeable(directories[name]), "UNSAFE_BUILD_DIRECTORY"), NothingRead)

(* Entries go one by one, in the order the directory has them. *)
Change(name, directory) ==
    directories' = [directories EXCEPT ![name] = directory] /\ UNCHANGED intake

Removing(name) == step = [output |-> "remove-output", work |-> "remove-work"][name]

RemoveEntry(name) ==
    /\ Removing(name)
    /\ Go(step)
    /\ \/ \E file \in directories[name].files :
              Change(name, [directories[name] EXCEPT !.files = @ \ {file}])
       \/ directories[name].marker /\ Change(name, [directories[name] EXCEPT !.marker = FALSE])

\* Mutant: the work directory stays as it is.
OutputIsRemoved(name) ==
    /\ Removing(name)
    /\ name = "output" => directories[name] = Empty
    /\ Proceed
    /\ UNCHANGED <<directories, intake>>

Removed(name) ==
    /\ Removing(name)
    /\ directories[name] = Empty
    /\ Proceed
    /\ UNCHANGED <<directories, intake>>

File(name) == [name |-> name, of |-> BuildInput]
With(directory, names) == [directory EXCEPT !.files = @ \cup {File(name) : name \in names}]

(* The renderer writes file by file; it checks the images of the input     *)
(* against the repository, and may fail after it wrote some.               *)
RenderFile ==
    /\ step = "render"
    /\ \E name \in RenderedFiles :
           /\ File(name) \notin directories["output"].files
           /\ Change("output", With(directories["output"], {name}))
    /\ Go(step)

ImagesAreAsRead ==
    \A path \in DOMAIN intake.images :
        path \in DOMAIN repository.files
            /\ repository.files[path].bytes = intake.images[path].sourceDigest

RenderEnds ==
    /\ step = "render"
    /\ {File(name) : name \in RenderedFiles} \subseteq directories["output"].files
    /\ ImagesAreAsRead
    /\ Proceed
    /\ UNCHANGED <<directories, intake>>

RenderFails == step = "render" /\ Fail(FindingOf("RENDER_DIAGNOSTIC"))

WriteBuildDirectoryMarker(name) ==
    /\ step = [output |-> "mark-output", work |-> "mark-work"][name]
    /\ Change(name, [directories[name] EXCEPT !.marker = TRUE])
    /\ Proceed

WriteManifest ==
    /\ step = "manifest"
    /\ Change("work", With(directories["work"], {"manifest"}))
    /\ Proceed

WriteRecords ==
    /\ step = "records"
    /\ Change("work", With(directories["work"], {"build-input"}))
    /\ Proceed

(* The warnings of the intake go with the success of either command. *)
Succeed ==
    /\ step = "done" \/ (step = "theme" /\ intake.command.name = "validate")
    /\ step' = "ended"
    /\ result' = Envelope("SUCCESS", intake.warnings)
    /\ UNCHANGED <<repository, directories, intake, began, builds, edits, crashes>>

(* A command that dies before it has changed anything might as well not    *)
(* have been given.                                                        *)
Crash ==
    /\ step \notin {"idle", "ended"} /\ directories # began.directories
    /\ crashes < MaximumCrashes
    /\ crashes' = crashes + 1
    /\ step' = "idle" /\ intake' = <<>>
    /\ UNCHANGED <<repository, directories, result, began, builds, edits>>

-----------------------------------------------------------------------------
(* The author, who has written the beginning.                              *)

Edit(edited) ==
    /\ edits < MaximumEdits /\ builds > 0
    /\ repository' = edited
    /\ edits' = edits + 1
    /\ UNCHANGED <<directories, step, intake, result, began, builds, crashes>>

ReplaceFile(path) ==
    \E node \in Replacements : Edit([repository EXCEPT !.files[path] = node])

RemoveFile(path) ==
    Edit([repository EXCEPT !.files = Restrict(@, DOMAIN @ \ {path})])

RewriteDocument(path) == Edit([repository EXCEPT !.content[path].text = EditedText])

RemoveDocument(path) ==
    Edit([repository EXCEPT !.content = Restrict(@, DOMAIN @ \ {path})])

AuthorEdits ==
    \/ \E path \in DOMAIN repository.files : ReplaceFile(path) \/ RemoveFile(path)
    \/ \E path \in DOMAIN repository.content : RewriteDocument(path) \/ RemoveDocument(path)

-----------------------------------------------------------------------------
Intake ==
    \/ ReadConfiguration \/ ListContent \/ ReadAllDocuments
    \/ \E kind \in MediaKinds : InspectMedia(kind) \/ ReadMedia(kind)
    \/ AssembleContent \/ ReadModules
    \/ FetchSharing \/ SharingFails \/ SharingIsUnavailable
    \/ ReadPages \/ ReadRoot

Write ==
    \/ FindTheme \/ AssertDistinctBuildDirectories
    \/ \E name \in {"output", "work"} :
           \/ AssertWipeableBuildDirectory(name)
           \/ RemoveEntry(name) \/ Removed(name)
           \/ WriteBuildDirectoryMarker(name)
    \/ RenderFile \/ RenderEnds \/ RenderFails
    \/ WriteManifest \/ WriteRecords

BuildNext ==
    \/ \E command \in Commands : Start(command)
    \/ Intake \/ Write \/ Succeed \/ Crash \/ AuthorEdits

BuildSpec == BuildInit /\ [][BuildNext]_buildVars

-----------------------------------------------------------------------------
(* Properties.                                                             *)

Undisturbed == began.edits = edits
Succeeded == result # <<>> /\ result.resultCode = "SUCCESS"
Code(finding) == finding.code
Codes == {Code(result.findings[i]) : i \in DOMAIN result.findings}

SourcesIn(sources) == {sources[i].path : i \in DOMAIN sources}

(* The entry describes the file that is there: a regular file under a      *)
(* declared root that may be published.                                    *)
IsTheFile(entry) ==
    /\ entry.path.root \in repository.assetRoots
    /\ entry.path \in DOMAIN repository.files
    /\ LET node == repository.files[entry.path] IN
       /\ node.kind = "file" /\ node.within
       /\ entry.sourceDigest = node.bytes /\ entry.byteLength = node.bytes.size
       /\ entry.mediaType \notin {"svg", "none"}
       /\ entry.mediaType = "audio/mp4" \/ entry.mediaType = node.bytes.head

ListsExactly(entries, paths) ==
    /\ {entries[i].path : i \in DOMAIN entries} = paths
    /\ \A i, j \in DOMAIN entries : i < j => entries[i].path.rank < entries[j].path.rank
    /\ \A i \in DOMAIN entries : IsTheFile(entries[i])

HasExactly(entries, sources) ==
    SourcesIn(entries) = SourcesIn(sources) /\ \A i \in DOMAIN entries : IsTheFile(entries[i])

(* When a command succeeds and nobody edited meanwhile, the input it made  *)
(* lists for each document exactly the images of its body and its files,   *)
(* once each and in the byte order of their paths; it has its hero, social *)
(* image and audio; and everything listed is, byte for byte, a regular     *)
(* file under a declared asset root that is no SVG.                        *)
InventoryIsExact ==
    Succeeded /\ Undisturbed =>
        \A i \in DOMAIN intake.content :
            LET entry == intake.content[i]
                document == repository.content[entry.sourcePath]
            IN  /\ ListsExactly(entry.media,
                                SourcesIn(document.images) \cup SourcesIn(document.files))
                /\ HasExactly(entry.hero, document.hero)
                /\ HasExactly(entry.socialImage, document.socialImage)
                /\ HasExactly(entry.listen, document.listen)

IsUsable(reference) ==
    LET path == reference.source.path IN
    /\ reference.source.spelling \in
           IF reference.origin = "body" THEN BodySpellings ELSE {"plain"}
    /\ path.root \in repository.assetRoots
    /\ path \in DOMAIN repository.files
    /\ LET node == repository.files[path] IN
       node.kind = "file" /\ node.within
           /\ node.bytes.head \in {"image/png", "image/jpeg", "image/webp", "image/avif", "image/gif"}

DistinctImages ==
    Cardinality(PathsOf(SelectSeq(ReferencesOf("image"), LAMBDA reference :
        LocationProblem("image", reference, Roots) = "none")))

(* An image reference that cannot be used makes the command fail, and the  *)
(* author reads of all of them at once, in the order of the documents, of  *)
(* the first ones by name and of the others by their number. Only when the *)
(* publication has too many images to look at is a part of the list enough.*)
BrokenReferencesAreAllNamed ==
    result # <<>> /\ Undisturbed /\ "image" \in DOMAIN intake =>
        LET broken == SelectSeq(ReferencesOf("image"), LAMBDA reference : ~IsUsable(reference))
            findings == intake.image.findings
            named == SelectSeq(findings, LAMBDA finding : "reference" \in DOMAIN finding)
            counted == SelectSeq(findings, LAMBDA finding : "omitted" \in DOMAIN finding)
        IN  broken # <<>> /\ DistinctImages <= Limits.distinctImages =>
                /\ ~Succeeded
                /\ [i \in DOMAIN named |-> named[i].reference]
                       = SubSeq(broken, 1, Len(named))
                /\ Len(broken) = Len(named)
                       + (IF counted = <<>> THEN 0 ELSE Head(counted).omitted)
                /\ Len(named) >= 1

MayBeBuilt(document) ==
    document.status \notin (IF intake.command.includeDrafts THEN {"archived"}
                            ELSE {"archived", "draft"})

(* The articles an edition may be of, and the only one of them it is of. *)
ArticlesOf(edition) ==
    {path \in DOMAIN repository.content :
        LET article == repository.content[path] IN
        article.kind = "article" /\ MayBeBuilt(article) /\ article.slug = edition.edition.of}

IsTheArticleOf(path, edition) ==
    LET article == repository.content[path]
        sameLanguage == {other \in ArticlesOf(edition) :
                            repository.content[other].language = edition.language}
    IN  /\ path \in ArticlesOf(edition)
        /\ ArticlesOf(edition) = {path} \/ sameLanguage = {path}
        /\ article.text = edition.edition.sourceDigest

(* When a command succeeds and nobody edited meanwhile, its input has the  *)
(* documents that are published (and the drafts, as unlisted, when it was  *)
(* asked for them), and of the editions only those whose article is in it, *)
(* is the only one it may be, and reads as it did when the edition was     *)
(* made; every other edition is named in a warning.                        *)
OnlyWhatIsPublishedIsBuilt ==
    Succeeded /\ Undisturbed =>
        LET document(path) == repository.content[path]
            isEdition(path) == document(path).kind = "edition"
            candidates == {path \in DOMAIN repository.content : MayBeBuilt(document(path))}
            current == {path \in candidates : isEdition(path) =>
                           \E article \in candidates : IsTheArticleOf(article, document(path))}
            warned == SelectSeq(result.findings,
                                LAMBDA finding : finding.code \in {"EDITION_SOURCE_MISSING", "EDITION_STALE"})
        IN  /\ {intake.content[i].sourcePath : i \in DOMAIN intake.content} = current
            /\ {warned[i].document : i \in DOMAIN warned} = candidates \ current
            /\ \A i \in DOMAIN intake.content : intake.content[i].status # "draft"

(* A build that is refused before it renders leaves both directories as    *)
(* it found them: nothing is removed until everything has been checked.    *)
RefusalTouchesNothing ==
    result # <<>> /\ ~Succeeded /\ Codes # {"RENDER_DIAGNOSTIC"} =>
        directories = began.directories

(* Whatever died in between, a manifest in the work directory and what is  *)
(* in the output directory come of one build input: deploy and freeze read *)
(* the one to describe the other.                                          *)
WorkDescribesTheOutput ==
    \A record \in directories["work"].files, file \in directories["output"].files :
        record.name = "manifest" => record.of = file.of

(* Hypothesis: what lies in the directories to begin with is what builds  *)
(* left there, or files of the author that are no manifest.                *)
BeginningsAreOfBuilds ==
    \A beginning \in Beginnings :
        /\ beginning.directories =
               [name \in {"output", "work"} |->
                   [marker |-> beginning.directories[name].marker,
                    files |-> beginning.directories[name].files]]
        /\ \A record \in beginning.directories["work"].files,
              file \in beginning.directories["output"].files :
               record.name = "manifest" => record.of = file.of

(* A root digest that is of the author's files and not of what an earlier  *)
(* build left: the walk of the repository is to make it reproducible.      *)
RootDigestIsOfTheSource ==
    Succeeded /\ Undisturbed =>
        intake.rootDigest =
            [ListRepositoryFiles EXCEPT !.built = IF DirectoriesInside THEN BothEmpty ELSE <<>>]

(* A build may be repeated against the paths of an earlier one, whatever   *)
(* became of that: it is not refused for what that left there.             *)
BuildIsSafeToRepeat ==
    result # <<>> /\ intake.command.directoriesAreSafe =>
        "UNSAFE_BUILD_DIRECTORY" \notin Codes
=============================================================================
