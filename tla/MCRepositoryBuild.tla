-------------------------- MODULE MCRepositoryBuild --------------------------
(* One valid repository and what may be different in it: a configuration   *)
(* document, the status of a document, an edition, the references of a     *)
(* body or of a single member, a page, a size.                             *)
EXTENDS RepositoryBuild

MCLimits ==
    [sourceBytes |-> 4, bodyImageBytes |-> 3, distinctImages |-> 3, imagesPerDocument |-> 2,
     totalBytes |-> 5, audioBytes |-> 3, audioTotalBytes |-> 4, fileBytes |-> 3,
     entriesPerDocument |-> 2, findings |-> 2, policyBytes |-> 2]

Row(package, version) ==
    [package |-> package, version |-> version,
     integrity |-> [package |-> package, version |-> version],
     registry |-> "npm", contractVersion |-> "2.0.0", compatibleWith |-> "^2.0.0"]

MCToolchain ==
    [catalog |-> {Row("pages", "2") @@ [adapterId |-> "pages"]}, previous |-> {},
     themes |-> {Row("theme-a", "1")}]

-----------------------------------------------------------------------------
(* Files. *)

Path(root, ending, rank) == [root |-> root, ending |-> ending, rank |-> rank]
Bytes(head, size) == [head |-> head, size |-> size, id |-> "first"]
Node(head, size) == [kind |-> "file", within |-> TRUE, bytes |-> Bytes(head, size)]

MCAbout == Path("gala", ".md", 20)
Post == Path("content", ".md", 21)
Older == Path("content", ".md", 22)
Edition == Path("content", ".md", 23)
Terms == Path("policies", ".md", 24)
Contact == Path("gala", ".md", 25)

Png == Path("assets", ".png", 3)
Jpeg == Path("assets", ".jpg", 2)
Gif == Path("assets", ".gif", 1)
Webp == Path("assets", ".webp", 4)
Svg == Path("assets", ".png", 5)
Link == Path("assets", ".png", 6)
Outside == Path("private", ".png", 7)
Escaping == Path("assets", ".png", 8)
Large == Path("assets", ".png", 9)
Missing == Path("assets", ".png", 10)
Mp3 == Path("assets", ".mp3", 11)
M4a == Path("assets", ".m4a", 12)
Pdf == Path("assets", ".pdf", 0)
NoPdf == Path("assets", ".pdf", 13)

Tree ==
    (Png :> Node("image/png", 1)) @@ (Jpeg :> Node("image/jpeg", 1))
    @@ (Gif :> Node("image/gif", 1)) @@ (Webp :> Node("image/webp", 1))
    @@ (Svg :> Node("svg", 1)) @@ (Outside :> Node("image/png", 1))
    @@ (Link :> [Node("image/png", 1) EXCEPT !.kind = "link"])
    @@ (Escaping :> [Node("image/png", 1) EXCEPT !.within = FALSE])
    @@ (Large :> Node("image/png", 4))
    @@ (Mp3 :> Node("audio/mpeg", 1)) @@ (M4a :> Node("image/avif", 1))
    @@ (Pdf :> Node("application/pdf", 1)) @@ (NoPdf :> Node("text", 1))

MCReplacements == {Node("svg", 1)}

Plain(path) == [spelling |-> "plain", path |-> path]
Rooted(path) == [spelling |-> "rooted", path |-> path]
External == [spelling |-> "external", path |-> Missing]

-----------------------------------------------------------------------------
(* Documents and configuration. *)

Document(kind, slug) ==
    [malformed |-> "none", kind |-> kind, status |-> "published", slug |-> slug,
     language |-> "en", authors |-> {"ann"}, text |-> slug,
     edition |-> [of |-> "post", sourceDigest |-> "post"],
     images |-> <<>>, files |-> <<>>, hero |-> <<>>, socialImage |-> <<>>, listen |-> <<>>]

Lock(theme, publisher) ==
    [theme |-> theme, publisher |-> publisher,
     lockDigest |-> [theme |-> theme, publisher |-> publisher]]

ValidLock == Lock(Row("theme-a", "1"), {Row("pages", "2"), Row("kernel", "1")})

Base ==
    [invalid |-> {}, lock |-> ValidLock, publicationId |-> "id", assetRoots |-> {"assets"},
     hasNavigation |-> TRUE, hasAppearance |-> TRUE, hasAnalytics |-> FALSE,
     publication |-> [id |-> "id", unsupported |-> {}, authors |-> {[id |-> "ann", hasAvatar |-> FALSE]},
                      defaultImage |-> <<>>, policies |-> <<>>, contactForm |-> <<>>,
                      targets |-> <<>>],
     appearance |-> [theme |-> "theme-a", hasFonts |-> FALSE, brandMark |-> <<>>, wordmark |-> <<>>],
     content |-> (MCAbout :> Document("page", "about")) @@ (Post :> Document("article", "post")),
     files |-> <<>>, interactions |-> "absent",
     themePlaces |-> <<<<>>, <<Row("theme-a", "1")>>>>]

Configurations ==
    {[Base EXCEPT !.invalid = {name}] :
        name \in {"repository", "lock", "publication", "navigation", "appearance", "author"}}
    \cup {[Base EXCEPT !.lock.theme = Row("theme-a", "2")],
          [Base EXCEPT !.lock = Lock(Row("theme-a", "2"), {Row("pages", "2")})],
          [Base EXCEPT !.lock = Lock(Row("theme-a", "1"), {Row("kernel", "1")})],
          [Base EXCEPT !.lock = Lock(Row("theme-a", "1"), {Row("pages", "1")})],
          [Base EXCEPT !.hasAppearance = FALSE],
          [Base EXCEPT !.publication.unsupported = {"profile"}],
          [Base EXCEPT !.publication.unsupported = {"contactRef"}],
          [Base EXCEPT !.publication.authors = {[id |-> "ann", hasAvatar |-> TRUE]}],
          [Base EXCEPT !.publication.authors = {[id |-> "bob", hasAvatar |-> FALSE]}],
          [Base EXCEPT !.publicationId = "other"],
          [Base EXCEPT !.appearance.theme = "theme-b"],
          [Base EXCEPT !.appearance.hasFonts = TRUE],
          [Base EXCEPT !.content = MCAbout :> Document("page", "about")],
          [Base EXCEPT !.content = Post :> Document("article", "post")],
          [Base EXCEPT !.content[Post].malformed = "CONTENT_FRONTMATTER_PARSE_FAILED"],
          [Base EXCEPT !.themePlaces = <<<<>>, <<>>>>],
          [Base EXCEPT !.themePlaces = <<<<Row("theme-a", "2")>>, <<Row("theme-a", "1")>>>>]}

(* An edition of a post, and an older article that may share its slug. *)
Editions ==
    {[Base EXCEPT !.content = @
        @@ (Older :> [Document("article", slug) EXCEPT !.text = "older", !.language = language])
        @@ (Edition :> [Document("edition", "short") EXCEPT !.edition.sourceDigest = digest]),
        !.content[Post].status = status] :
        <<slug, language>> \in {<<"post", "en">>, <<"post", "fr">>, <<"older", "en">>}, digest \in {"post", "older"},
        status \in {"published", "draft", "archived"}}

-----------------------------------------------------------------------------
(* References. *)

OnlyNamed(site) ==
    LET named == UNION {SourcesIn(d.images) \cup SourcesIn(d.files) \cup SourcesIn(d.hero)
                        \cup SourcesIn(d.socialImage) \cup SourcesIn(d.listen) :
                        d \in Range(site.content)}
                 \cup SourcesIn(site.publication.defaultImage)
                 \cup SourcesIn(site.appearance.brandMark)
                 \cup SourcesIn(site.appearance.wordmark)
    IN  [site EXCEPT !.files = Restrict(Tree, named \cap DOMAIN Tree)]

WithImages(images) == OnlyNamed([Base EXCEPT !.content[Post].images = images])

Usable == {Plain(Png), Rooted(Jpeg)}
Broken == {Plain(Svg), Plain(Link), Plain(Outside), External}

Images ==
    {WithImages(<<left, right>>) : left \in Usable, right \in Usable \cup Broken}
    \cup {WithImages(<<left, right, left>>) : left \in {Plain(Svg), Plain(Missing)},
                                              right \in {Plain(Svg), Plain(Missing), External}}
    \cup {WithImages(<<Plain(Escaping)>>), WithImages(<<Rooted(Png), Plain(Png)>>), WithImages(<<Plain(Large)>>),
          WithImages(<<Plain(Png), Plain(Jpeg), Plain(Gif)>>),
          WithImages(<<Plain(Png), Plain(Jpeg), Plain(Gif), Plain(Webp)>>),
          OnlyNamed([Base EXCEPT !.content[Post].images = <<Plain(Png), Plain(Jpeg)>>,
                                 !.content[MCAbout].images = <<Plain(Gif), Plain(Png)>>,
                                 !.content[MCAbout].hero = <<Plain(Large)>>]),
          OnlyNamed([Base EXCEPT !.content[Post].hero = <<Plain(Large)>>,
                                 !.content[Post].images = <<Rooted(Gif)>>,
                                 !.publication.defaultImage = <<Plain(Png)>>])}

Members ==
    UNION {{OnlyNamed([Base EXCEPT !.content[Post].hero = <<source>>]),
            OnlyNamed([Base EXCEPT !.content[Post].socialImage = <<source>>]),
            OnlyNamed([Base EXCEPT !.appearance.brandMark = <<source>>,
                                   !.appearance.wordmark = <<Plain(Png)>>])} :
           source \in {Plain(Png), Rooted(Png), Plain(Svg)}}
    \cup {OnlyNamed([Base EXCEPT !.content[Post].listen = <<source>>]) :
             source \in {Plain(Mp3), Plain(M4a), Rooted(Mp3), Plain(Png)}}
    \cup {OnlyNamed([Base EXCEPT !.content[Post].files = files, !.content[Post].images = images]) :
             files \in {<<Plain(Pdf)>>, <<Rooted(Pdf), Plain(Pdf)>>, <<Plain(NoPdf)>>},
             images \in {<<>>, <<Plain(Png), Plain(Jpeg)>>}}

-----------------------------------------------------------------------------
(* Modules and pages. *)

WithPage(name, node) ==
    {[Base EXCEPT !.publication.policies = <<Terms>>, !.files = Terms :> node],
     [Base EXCEPT !.publication.contactForm = <<Contact>>, !.files = Contact :> node]}

Pages ==
    UNION {WithPage("terms", node) : node \in {
        Node("text", 1), Node("text", 3), Node("blank", 1), Node("text with an image", 1),
        [Node("text", 1) EXCEPT !.kind = "directory"], [Node("text", 1) EXCEPT !.within = FALSE]}}
    \cup {[Base EXCEPT !.publication.policies = <<Terms, Post>>],
          [Base EXCEPT !.publication.contactForm = <<Contact>>],
          [Base EXCEPT !.publication.targets = <<{"x", "email"}>>],
          [Base EXCEPT !.hasAnalytics = TRUE, !.invalid = {"analytics"}],
          [Base EXCEPT !.hasAnalytics = TRUE, !.interactions = "present"],
          [Base EXCEPT !.interactions = "duplicate"]}

(* An earlier output, to be built again with the author's notes for a work *)
(* directory.                                                              *)
Notes ==
    [output |-> [marker |-> TRUE, files |-> {[name |-> "page", of |-> <<>>]}],
     work |-> [marker |-> FALSE, files |-> {[name |-> "notes", of |-> <<>>]}]]

(* What a build of another input left, to be built again.                  *)
Earlier ==
    [output |-> [marker |-> TRUE, files |-> {[name |-> "page", of |-> <<>>]}],
     work |-> [marker |-> TRUE, files |-> {[name |-> "manifest", of |-> <<>>]}]]

MCBeginnings ==
    {[repository |-> site, directories |-> BothEmpty] :
        site \in Configurations \cup Editions \cup Images \cup Members \cup Pages}
    \cup {[repository |-> Base, directories |-> earlier] : earlier \in {Notes, Earlier}}

Command(name, includeDrafts, safe) ==
    [name |-> name, includeDrafts |-> includeDrafts, directoriesAreSafe |-> safe]
MCCommands ==
    {Command("build", FALSE, TRUE), Command("build", TRUE, TRUE), Command("build", FALSE, FALSE),
     Command("validate", FALSE, TRUE)}

MCOriginsOfEnvironment == {{"api", "app"}, {"app"}}
MCSharingDocuments == {[networks |-> {"x", "copy-link"}, defaults |-> {"copy-link"}]}

ASSUME BeginningsAreOfBuilds
=============================================================================
