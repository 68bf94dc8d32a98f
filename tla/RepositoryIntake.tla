--------------------------- MODULE RepositoryIntake ---------------------------
(***************************************************************************)
(* What a build reads of an author's repository and what it refuses there: *)
(* the configuration and the lock, the documents, the editions and the     *)
(* references among them, the policy pages, and the build input made of    *)
(* it all. What files are named is modelled; how they are parsed is not.   *)
(*                                                                         *)
(* A repository is a record: its configuration documents; its content, a   *)
(* function from the paths of content documents; and its files, the tree   *)
(* of ContentMedia for everything the documents name. A digest is what it  *)
(* is taken over.                                                          *)
(*                                                                         *)
(* Source: packages/publish-action/src/normalize/{repository-intake,       *)
(* content-editions,sharing,source-revision,destination-capabilities}.js   *)
(* and packages/publish-action/src/{theme-catalog,theme-bridge}.js.        *)
(***************************************************************************)
EXTENDS ContentMedia, AdapterCatalog

CONSTANTS
    InstalledToolchain, \* the adapter and theme catalogs of the installed action
    About               \* gala/theme-pages/about.md, the content document that must exist

-----------------------------------------------------------------------------
(* Configuration: the first check that fails refuses the build.            *)

ReadValidatedJson(repository, name) ==
    Unless(name \notin repository.invalid, "REPOSITORY_FILE_INVALID")

DigestOfCompleteLock(lock) == [theme |-> lock.theme, publisher |-> lock.publisher]

AdmitsThemeRow(row) == row \in InstalledToolchain.themes

ConfigurationProblem(repository) ==
    LET lock == repository.lock
        publication == repository.publication
        appearance == repository.appearance
    IN  FirstProblem(<<
            ReadValidatedJson(repository, "repository"),
            ReadValidatedJson(repository, "lock"),
            Unless(lock.lockDigest = DigestOfCompleteLock(lock), "LOCK_DIGEST_MISMATCH"),
            Unless(AdmitsThemeRow(lock.theme), "LOCK_THEME_IDENTITY_INVALID"),
            ReadValidatedJson(repository, "publication"),
            ReadValidatedJson(repository, "navigation"),
            ReadValidatedJson(repository, "appearance"),
            Unless(repository.hasNavigation /\ repository.hasAppearance,
                   "REPOSITORY_NAVIGATION_OR_APPEARANCE_MISSING"),
            Unless("profile" \notin publication.unsupported,
                   "PUBLICATION_PROFILE_OR_FOOTER_CARD_UNSUPPORTED"),
            ReadValidatedJson(repository, "author"),
            Unless(\A author \in publication.authors : ~author.hasAvatar,
                   "AUTHOR_AVATAR_UNSUPPORTED"),
            Unless("contactRef" \notin publication.unsupported,
                   "PUBLICATION_CONTACT_UNSUPPORTED"),
            Unless(publication.id = repository.publicationId,
                   "REPOSITORY_PUBLICATION_ID_MISMATCH"),
            Unless(appearance.theme = lock.theme.package, "THEME_SELECTION_MISMATCH"),
            Unless(~appearance.hasFonts, "APPEARANCE_MEDIA_UNSUPPORTED")>>)

(* The documents of a build: content/*.md in order, then the About page.   *)
ContentFileNames(repository) == DOMAIN repository.content \ {About}

ContentProblem(repository) ==
    FirstProblem(<<Unless(ContentFileNames(repository) # {}, "REPOSITORY_CONTENT_EMPTY"),
                   Unless(About \in DOMAIN repository.content, "THEME_PAGE_MISSING")>>)

DocumentPaths(repository) == Append(ByRank(ContentFileNames(repository)), About)

(* A document that disappeared since it was listed is an error of its own. *)
DocumentProblem(repository, path) ==
    IF path \notin DOMAIN repository.content THEN "UNCLASSIFIED_FAILURE"
    ELSE repository.content[path].malformed

DocumentsProblem(repository, paths) ==
    FirstProblem([i \in DOMAIN paths |-> DocumentProblem(repository, paths[i])])

ReadDocuments(repository, paths) ==
    [i \in DOMAIN paths |-> repository.content[paths[i]] @@ [relativePath |-> paths[i]]]

-----------------------------------------------------------------------------
(* Which documents are built.                                              *)

\* Mutant: an archived document is built when drafts are.
WithArchived(documents, includeDraftsAsUnlisted) ==
    SelectSeq(documents, LAMBDA document :
        \/ document.status \notin {"draft", "archived"}
        \/ includeDraftsAsUnlisted)

InBuild(documents, includeDraftsAsUnlisted) ==
    SelectSeq(documents, LAMBDA document :
        /\ document.status # "archived"
        /\ document.status = "draft" => includeDraftsAsUnlisted)

EditionSourceDigest(document) == document.text

(* The article an edition is of: the one with its slug or, when there are  *)
(* several, the one of them in its language. Empty, or one document.       *)
FindSourceArticle(documents, slug, language) ==
    LET bySlug == SelectSeq(documents, LAMBDA document :
                      document.kind = "article" /\ document.slug = slug)
        byLanguage == SelectSeq(bySlug, LAMBDA article : article.language = language)
    IN  IF Len(bySlug) <= 1 THEN bySlug
        ELSE IF Len(byLanguage) = 1 THEN byLanguage ELSE <<>>

(* The warning on an edition, or "none" when it is built. *)
EditionWarning(documents, document) ==
    LET source == FindSourceArticle(documents, document.edition.of, document.language)
    IN  CASE document.kind # "edition" -> "none"
          [] document.kind = "edition" /\ source = <<>> -> "EDITION_SOURCE_MISSING"
          [] OTHER -> Unless(EditionSourceDigest(Head(source)) = document.edition.sourceDigest,
                             "EDITION_STALE")

EvaluateEditions(documents) ==
    LET dropped == SelectSeq(documents, LAMBDA document :
                       EditionWarning(documents, document) # "none")
    IN  [built |-> SelectSeq(documents, LAMBDA document :
                       EditionWarning(documents, document) = "none"),
         warnings |-> [i \in DOMAIN dropped |->
                          [code |-> EditionWarning(documents, dropped[i]),
                           document |-> dropped[i].relativePath]]]

AuthorProblem(built, authors) ==
    Unless(\A i \in DOMAIN built :
               built[i].authors \subseteq {author.id : author \in authors},
           "CONTENT_AUTHOR_UNKNOWN")

-----------------------------------------------------------------------------
(* What the documents and the configuration name, in reading order.        *)

Reference(document, origin, source) ==
    [document |-> document, origin |-> origin, source |-> source]

Named(document, origin, sources) ==
    [i \in DOMAIN sources |-> Reference(document, origin, sources[i])]

(* An optional member is a sequence of at most one source. *)
MediaReferences(configuration, built) ==
    Named("publication", "defaultImage", configuration.publication.defaultImage)
    \o Named("appearance", "brandMark", configuration.appearance.brandMark)
    \o Named("appearance", "wordmark", configuration.appearance.wordmark)
    \o FlattenSeq([i \in DOMAIN built |->
           Named(built[i].relativePath, "body", built[i].images)
           \o Named(built[i].relativePath, "hero", built[i].hero)
           \o Named(built[i].relativePath, "socialImage", built[i].socialImage)])

AudioReferences(built) ==
    FlattenSeq([i \in DOMAIN built |->
        Named(built[i].relativePath, "listen", built[i].listen)])

FileReferences(built) ==
    FlattenSeq([i \in DOMAIN built |->
        Named(built[i].relativePath, "file", built[i].files)])

(* The media of a document: its body images and its files. *)
MediaOf(document, mediaReferences, images, fileReferences, files) ==
    MergeMediaEntries(EntriesOf(InBody(mediaReferences), document, images),
                      EntriesOf(fileReferences, document, files))

(* A file a single member names is looked up by its path. *)
ResolvedFileOf(files, sources) ==
    [i \in DOMAIN sources |-> files[sources[i].path]]

ContentOf(built, mediaReferences, images, audio, fileReferences, files) ==
    [i \in DOMAIN built |->
        [sourcePath |-> built[i].relativePath,
         kind |-> built[i].kind,
         status |-> IF built[i].status = "draft" THEN "unlisted" ELSE built[i].status,
         text |-> built[i].text,
         hero |-> ResolvedFileOf(images, built[i].hero),
         socialImage |-> ResolvedFileOf(images, built[i].socialImage),
         listen |-> ResolvedFileOf(audio, built[i].listen),
         media |-> MediaOf(built[i].relativePath, mediaReferences, images,
                           fileReferences, files)]]

-----------------------------------------------------------------------------
(* Modules, sharing and pages.                                             *)

(* A module is optional. The origins of the interactions come from the     *)
(* environment of the build, and sharing asks the first of them even when  *)
(* there is no such module.                                                *)
InteractionsProblem(repository, validOrigins) ==
    IF repository.interactions = "absent"
    THEN Unless("api" \in validOrigins, "INTERACTIONS_ORIGIN_INVALID")
    ELSE FirstProblem(<<
            ReadValidatedJson(repository, "interactions"),
            Unless(repository.interactions # "duplicate", "INTERACTIONS_REACTION_DUPLICATE"),
            Unless({"api", "app"} \subseteq validOrigins, "INTERACTIONS_ORIGIN_INVALID")>>)

AnalyticsProblem(repository) ==
    IF repository.hasAnalytics THEN ReadValidatedJson(repository, "analytics") ELSE "none"

(* The platform's sharing list; none when it could not be used. *)
FallbackTargets == {"copy-link"}

SharingTargets(siteTargets, document) ==
    CASE document = <<>> /\ siteTargets = <<>> -> FallbackTargets
      [] document = <<>> /\ siteTargets # <<>> -> Head(siteTargets)
      [] document # <<>> /\ siteTargets = <<>> -> Head(document).defaults
      [] OTHER -> Head(siteTargets) \cap Head(document).networks

(* A Markdown page of the publication: in the repository, not long, not    *)
(* empty and without images.                                               *)
ReadPolicyBodyFile(tree, path) ==
    FirstProblem(<<
        Unless(path.ending = ".md", "UNSUPPORTED_TYPE"),
        Unless(path \in DOMAIN tree /\ tree[path].kind # "loop", "MISSING"),
        Unless(path \in DOMAIN tree => tree[path].within, "UNSUPPORTED_TYPE"),
        Unless(path \in DOMAIN tree => tree[path].kind = "file", "MISSING")>>)

PageProblem(tree, path) ==
    IF ReadPolicyBodyFile(tree, path) # "none" THEN ReadPolicyBodyFile(tree, path)
    ELSE LET bytes == tree[path].bytes
         IN  FirstProblem(<<Unless(bytes.size <= Limits.policyBytes, "TOO_LARGE"),
                            Unless(bytes.head # "blank", "EMPTY"),
                            Unless(bytes.head # "text with an image", "IMAGE_UNSUPPORTED")>>)

(* Both pages are read, and their problems are reported together. *)
PolicyFindings(tree, policies) ==
    LET broken == SelectSeq(policies, LAMBDA path : PageProblem(tree, path) # "none")
    IN  [i \in DOMAIN broken |->
            [code |-> "POLICY_BODY", path |-> broken[i],
             reason |-> PageProblem(tree, broken[i])]]

PageOf(tree, path) == [path |-> path, sourceDigest |-> tree[path].bytes]
PolicyPages(tree, policies) == [i \in DOMAIN policies |-> PageOf(tree, policies[i])]

(* The introduction of the contact form: absent or empty, and there is none. *)
ContactFindings(tree, contactForm) ==
    IF contactForm = <<>> \/ Head(contactForm) \notin DOMAIN tree
       \/ PageProblem(tree, Head(contactForm)) \in {"none", "EMPTY"}
    THEN <<>>
    ELSE <<[code |-> "CONTACT_INTRO", path |-> Head(contactForm),
            reason |-> PageProblem(tree, Head(contactForm))]>>

ContactIntro(tree, contactForm) ==
    IF contactForm = <<>> \/ Head(contactForm) \notin DOMAIN tree
       \/ PageProblem(tree, Head(contactForm)) # "none"
    THEN <<>> ELSE <<PageOf(tree, Head(contactForm))>>

-----------------------------------------------------------------------------
(* The packages of the lock.                                               *)

SelectLockedAdapterRow(lock) ==
    {row \in lock.publisher : row.package \in AdapterPackages(InstalledToolchain)}

DestinationCapabilitiesProblem(lock) ==
    LET rows == SelectLockedAdapterRow(lock)
    IN  Unless(Cardinality(rows) = 1
                  /\ \A row \in rows : AdmitsAdapterRow(InstalledToolchain, row),
               "UNCLASSIFIED_FAILURE")

(* The theme's directory: the first place that is one, whose package and   *)
(* contract are then the lock's, or the build is refused.                  *)
ThemeProblem(places, theme) ==
    LET present == SelectSeq(places, LAMBDA place : place # <<>>)
    IN  IF present = <<>> THEN "THEME_PACKAGE_NOT_FOUND"
        ELSE Unless(Head(present) = <<theme>>, "THEME_IDENTITY_MISMATCH")
=============================================================================
