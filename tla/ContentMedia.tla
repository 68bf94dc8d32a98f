----------------------------- MODULE ContentMedia -----------------------------
(***************************************************************************)
(* The images, audio files and PDFs the documents of a build name: where a *)
(* reference points, whether the file there may be published, and the      *)
(* inventory of the ones that may.                                         *)
(*                                                                         *)
(* A path is a record: its top folder, its ending and its rank in the byte *)
(* order of paths. A reference carries its source as it is written: the    *)
(* spelling and the path it spells. A tree maps the paths that exist to    *)
(* nodes: the kind of the node, whether its real directory is within its   *)
(* asset root, and its bytes, of which head is what they start like.       *)
(*                                                                         *)
(* Source: packages/publish-action/src/normalize/content-media.js.         *)
(***************************************************************************)
EXTENDS SequencesExt, FiniteSetsExt, Naturals

CONSTANT Limits     \* MEDIA_LIMITS, LISTEN_AUDIO_LIMITS, CONTENT_FILE_LIMITS

ASSUME LimitsAssumption == \A limit \in DOMAIN Limits : Limits[limit] \in Nat

(* An order of inspection, and the first use of each of some values. *)
ByRank(paths) == SetToSortSeq(paths, LAMBDA left, right : left.rank < right.rank)

FirstUses(values) ==
    FoldLeft(LAMBDA seen, value : IF Contains(seen, value) THEN seen
                                  ELSE Append(seen, value),
             <<>>, values)

-----------------------------------------------------------------------------
(* Where a reference points.                                               *)

FirstProblem(problems) ==
    LET found == SelectSeq(problems, LAMBDA problem : problem # "none")
    IN  IF found = <<>> THEN "none" ELSE Head(found)

Unless(admitted, problem) == IF admitted THEN "none" ELSE problem

(* A source in a body is an address: it may be rooted, dotted or escaped,  *)
(* and it is decoded and composed.                                         *)
BodySpellings == {"plain", "rooted", "here", "percent", "decomposed"}

ResolveImageSource(source) ==
    FirstProblem(<<Unless(source.spelling # "external", "EXTERNAL_ADDRESS"),
                   Unless(source.spelling \in BodySpellings, "NOT_A_REPOSITORY_PATH")>>)

(* A source in front matter or configuration is the path, letter by letter. *)
RepositoryPathProblem(source) ==
    FirstProblem(<<Unless(source.spelling # "external", "EXTERNAL_ADDRESS"),
                   Unless(source.spelling = "plain", "NOT_A_REPOSITORY_PATH")>>)

NormalizeAssetRoots(assetRoots) == assetRoots \ {""}

UnderAssetRoot(path, roots) == Unless(path.root \in roots, "OUTSIDE_ASSET_ROOTS")

Locate(reference, roots) ==
    LET source == reference.source IN
    FirstProblem(<<
        Unless(source.spelling # "empty", "NO_SOURCE"),
        IF reference.origin = "body" THEN ResolveImageSource(source)
        ELSE RepositoryPathProblem(source),
        UnderAssetRoot(source.path, roots)>>)

AudioMediaTypeOfName(path) ==
    CASE path.ending = ".mp3" -> "audio/mpeg"
      [] path.ending = ".m4a" -> "audio/mp4"
      [] OTHER -> "none"

LocateAudio(reference, roots) ==
    LET source == reference.source IN
    FirstProblem(<<
        RepositoryPathProblem(source),
        UnderAssetRoot(source.path, roots),
        Unless(AudioMediaTypeOfName(source.path) # "none", "UNSUPPORTED_FORMAT")>>)

LocateFile(reference, roots) ==
    LET source == reference.source IN
    FirstProblem(<<
        ResolveImageSource(source),
        Unless(source.path.ending = ".pdf", "UNSUPPORTED_FORMAT"),
        UnderAssetRoot(source.path, roots)>>)

-----------------------------------------------------------------------------
(* What is at a path. A link is not followed, here.                        *)

ReadAssetHead(tree, path) ==
    IF path \notin DOMAIN tree THEN "FILE_MISSING"
    ELSE FirstProblem(<<Unless(tree[path].kind = "file", "NOT_A_REGULAR_FILE"),
                        Unless(tree[path].within, "OUTSIDE_ASSET_ROOTS")>>)

SniffImageMediaType(head) ==
    IF head \in {"image/png", "image/jpeg", "image/webp", "image/avif", "image/gif", "svg"}
    THEN head ELSE "none"

(* An AVIF image starts like an M4A file. *)
SniffAudioMediaType(head) ==
    CASE head = "audio/mpeg" -> "audio/mpeg"
      [] head \in {"audio/mp4", "image/avif"} -> "audio/mp4"
      [] OTHER -> "none"

MediaTypeOf(kind, head) ==
    CASE kind = "image" -> SniffImageMediaType(head)
      [] kind = "audio" -> SniffAudioMediaType(head)
      [] kind = "file" -> IF head = "application/pdf" THEN head ELSE "none"

InspectAsset(type) == Unless(type \notin {"svg", "none"}, "UNSUPPORTED_FORMAT")

InspectAudioAsset(type, path) ==
    FirstProblem(<<Unless(type # "none", "UNSUPPORTED_FORMAT"),
                   Unless(type = AudioMediaTypeOfName(path), "EXTENSION_MISMATCH")>>)

InspectPdfAsset(type) == Unless(type # "none", "UNSUPPORTED_FORMAT")

Inspect(kind, tree, path) ==
    LET type == MediaTypeOf(kind, tree[path].bytes.head) IN
    IF ReadAssetHead(tree, path) # "none" THEN ReadAssetHead(tree, path)
    ELSE CASE kind = "image" -> InspectAsset(type)
           [] kind = "audio" -> InspectAudioAsset(type, path)
           [] kind = "file" -> InspectPdfAsset(type)

LocationProblem(kind, reference, roots) ==
    CASE kind = "image" -> Locate(reference, roots)
      [] kind = "audio" -> LocateAudio(reference, roots)
      [] kind = "file" -> LocateFile(reference, roots)

-----------------------------------------------------------------------------
(* Findings.                                                               *)

SingleFileOrigins == {"defaultImage", "brandMark", "wordmark", "socialImage"}

UnresolvedCode(origin, reason) ==
    IF origin \notin SingleFileOrigins THEN "MEDIA_REFERENCE_UNRESOLVED"
    ELSE CASE reason = "FILE_MISSING" -> "SINGLE_FILE_MISSING"
           [] reason = "UNSUPPORTED_FORMAT" -> "SINGLE_FILE_UNSUPPORTED_TYPE"
           [] OTHER -> "SINGLE_FILE_UNRESOLVED"

UnresolvedFinding(reference, reason) ==
    [code |-> UnresolvedCode(reference.origin, reason), reference |-> reference,
     reason |-> reason]

LimitFinding(limit, subject) ==
    [code |-> "MEDIA_LIMIT_EXCEEDED", limit |-> limit, subject |-> subject]

(* Past the first ones, findings are only counted. *)
CapFindings(findings) ==
    IF Len(findings) <= Limits.findings THEN findings
    ELSE Append(SubSeq(findings, 1, Limits.findings),
                [code |-> Head(findings).code,
                 omitted |-> Len(findings) - Limits.findings])

\* Mutant: the references of a path are listed where the path was first met.
InOrderOfPaths(problems) ==
    LET paths == FirstUses([i \in DOMAIN problems |-> problems[i].reference.source.path])
    IN  CapFindings(FlattenSeq([i \in DOMAIN paths |->
            SelectSeq(problems, LAMBDA p : p.reference.source.path = paths[i])]))

(* The references that have a problem, in the order they were read. *)
InReadingOrder(problems) == CapFindings(problems)

ProblemsOf(references, problem) ==
    LET broken == SelectSeq(references, LAMBDA reference : problem[reference] # "none")
    IN  [i \in DOMAIN broken |-> UnresolvedFinding(broken[i], problem[broken[i]])]

(* Every usable reference, grouped by its path. *)
ReferencesByPath(kind, references, roots) ==
    LET usable == SelectSeq(references, LAMBDA reference :
                      LocationProblem(kind, reference, roots) = "none")
        paths == FirstUses([i \in DOMAIN usable |-> usable[i].source.path])
    IN  FlattenSeq([i \in DOMAIN paths |->
            SelectSeq(usable, LAMBDA reference : reference.source.path = paths[i])])

PathsOf(references) == {reference.source.path : reference \in ToSet(references)}
Uses(references, path) ==
    SelectSeq(references, LAMBDA reference : reference.source.path = path)
DocumentOf(references, path) == Head(Uses(references, path)).document

(* The paths of each document, documents in the order of byPath. *)
DocumentsOf(references) ==
    FirstUses([i \in DOMAIN references |-> references[i].document])
PathsIn(references, document) ==
    PathsOf(SelectSeq(references, LAMBDA reference : reference.document = document))

SizeOf(tree, path) == tree[path].bytes.size
TotalOf(tree, paths) == MapThenSumSet(LAMBDA path : SizeOf(tree, path), paths)

OneFinding(exceeded, limit, subject) ==
    IF exceeded THEN <<LimitFinding(limit, subject)>> ELSE <<>>

InBody(references) ==
    SelectSeq(references, LAMBDA reference : reference.origin = "body")

ImageLimitFinding(tree, byPath, path) ==
    LET inBody == InBody(Uses(byPath, path)) IN
    IF SizeOf(tree, path) > Limits.sourceBytes
    THEN OneFinding(TRUE, "IMAGE_BYTES", DocumentOf(byPath, path))
    ELSE IF inBody = <<>> THEN <<>>
    ELSE OneFinding(SizeOf(tree, path) > Limits.bodyImageBytes, "BODY_IMAGE_BYTES",
                    Head(inBody).document)

LimitFindings(tree, byPath) ==
    LET paths == ByRank(PathsOf(byPath)) IN
    FlattenSeq([i \in DOMAIN paths |-> ImageLimitFinding(tree, byPath, paths[i])])
    \o OneFinding(TotalOf(tree, PathsOf(byPath)) > Limits.totalBytes, "TOTAL_BYTES", "all")

DocumentCountFindings(byPath) ==
    LET documents == DocumentsOf(InBody(byPath)) IN
    FlattenSeq([i \in DOMAIN documents |->
        OneFinding(Cardinality(PathsIn(InBody(byPath), documents[i]))
                       > Limits.imagesPerDocument,
                   "DOCUMENT_IMAGES", documents[i])])

AudioLimitFindings(tree, byPath) ==
    LET paths == ByRank(PathsOf(byPath)) IN
    FlattenSeq([i \in DOMAIN paths |->
        OneFinding(SizeOf(tree, paths[i]) > Limits.audioBytes, "AUDIO_BYTES",
                   DocumentOf(byPath, paths[i]))])
    \o OneFinding(TotalOf(tree, PathsOf(byPath)) > Limits.audioTotalBytes,
                  "AUDIO_TOTAL_BYTES", "all")

(* Images and files share one bound of a document. *)
FileLimitFindings(tree, byPath, imageCount) ==
    LET paths == ByRank(PathsOf(byPath))
        grouped == FlattenSeq([i \in DOMAIN paths |-> Uses(byPath, paths[i])])
        documents == DocumentsOf(grouped)
        count(document) == Cardinality(PathsIn(byPath, document)) + imageCount[document]
    IN  FlattenSeq([i \in DOMAIN paths |->
            OneFinding(SizeOf(tree, paths[i]) > Limits.fileBytes, "FILE_BYTES",
                       DocumentOf(byPath, paths[i]))])
        \o FlattenSeq([i \in DOMAIN documents |->
            OneFinding(count(documents[i]) > Limits.entriesPerDocument,
                       "DOCUMENT_IMAGES", documents[i])])

-----------------------------------------------------------------------------
(* The three resolutions. Each first inspects what its references name...  *)

Inspection(findings, inspected) == [findings |-> findings, inspected |-> inspected]

UsableOr(kind, tree, roots, references, limitFindings) ==
    LET problem == [reference \in ToSet(references) |->
            IF LocationProblem(kind, reference, roots) # "none"
            THEN LocationProblem(kind, reference, roots)
            ELSE Inspect(kind, tree, reference.source.path)]
        problems == ProblemsOf(references, problem)
        paths == PathsOf(references)
    IN  IF problems # <<>> THEN Inspection(InReadingOrder(problems), <<>>)
        ELSE IF limitFindings # <<>> THEN Inspection(CapFindings(limitFindings), <<>>)
        ELSE Inspection(<<>>, [path \in paths |-> MediaTypeOf(kind, tree[path].bytes.head)])

(* Too many images, and none of them is inspected. *)
ResolveMediaReferences(tree, roots, references) ==
    LET byPath == ReferencesByPath("image", references, roots)
        misplaced == ProblemsOf(references,
            [reference \in ToSet(references) |-> Locate(reference, roots)])
        usable == \A path \in PathsOf(byPath) : Inspect("image", tree, path) = "none"
    IN  IF Cardinality(PathsOf(byPath)) > Limits.distinctImages
        THEN Inspection(IF misplaced # <<>> THEN InReadingOrder(misplaced)
                        ELSE <<LimitFinding("IMAGE_COUNT", "all")>>, <<>>)
        ELSE UsableOr("image", tree, roots, references,
                      IF usable
                      THEN LimitFindings(tree, byPath) \o DocumentCountFindings(byPath)
                      ELSE <<>>)

ResolveListenAudio(tree, roots, references) ==
    LET byPath == ReferencesByPath("audio", references, roots)
        usable == \A path \in PathsOf(byPath) : Inspect("audio", tree, path) = "none"
    IN  UsableOr("audio", tree, roots, references,
                 IF usable THEN AudioLimitFindings(tree, byPath) ELSE <<>>)

ResolveContentFiles(tree, roots, references, imageCount) ==
    LET byPath == ReferencesByPath("file", references, roots)
        usable == \A path \in PathsOf(byPath) : Inspect("file", tree, path) = "none"
    IN  UsableOr("file", tree, roots, references,
                 IF usable THEN FileLimitFindings(tree, byPath, imageCount) ELSE <<>>)

(* ... and then reads the files it inspected, which may be others by now.  *)
CanBeRead(tree, path) == path \in DOMAIN tree /\ tree[path].kind \in {"file", "link"}

FilesOf(tree, inspected) ==
    [path \in DOMAIN inspected |->
        [path |-> path, sourceDigest |-> tree[path].bytes, mediaType |-> inspected[path],
         byteLength |-> tree[path].bytes.size]]

(* The entries of a document, by the bytes of their path. *)
\* Mutant: a document lists a file as often as it names it.
EntriesPerReference(references, document, files) ==
    LET own == SelectSeq(references, LAMBDA reference : reference.document = document)
    IN  [i \in DOMAIN own |-> files[own[i].source.path]]

EntriesOf(references, document, files) ==
    LET paths == ByRank(PathsIn(references, document))
    IN  [i \in DOMAIN paths |-> files[paths[i]]]

MergeMediaEntries(images, files) ==
    SortSeq(images \o files, LAMBDA left, right : left.path.rank < right.path.rank)
=============================================================================
