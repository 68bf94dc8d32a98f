--------------------------- MODULE MCCandidateJobs ---------------------------
(* Candidates of one, two and three files under a limit of two entries, of *)
(* each adapter, with well-formed and malformed locks.                     *)
EXTENDS CandidateJobs

MCPathOrder ==
    <<".gala-build-directory", "a.css", "about.html", "feed.xml",
      "gala-generation.json", "../up.html", "zz.txt">>
MCIllFormedPaths == {"../up.html"}

Row(package, version) ==
    [package |-> package, version |-> version,
     integrity |-> [package |-> package, version |-> version],
     registry |-> "npm", contractVersion |-> "2.0.0", compatibleWith |-> "^2.0.0"]

AdapterRow(adapterId, version) ==
    Row(adapterId, version) @@ [adapterId |-> adapterId]

MCThemeCatalog == {Row("theme-a", "1"), Row("theme-b", "1")}
MCToolchain ==
    [catalog |-> {AdapterRow("github-pages", "2"), AdapterRow("do-spaces", "1"),
                  AdapterRow("local-directory", "1")},
     previous |-> {AdapterRow("github-pages", "1")}]

MCRunner ==
    [ref |-> [kind |-> "publish", operationId |-> "op"], sha |-> "sha1",
     repository |-> [owner |-> "owner", name |-> "site"], repositoryId |-> 1,
     runId |-> 7, runAttempt |-> 1, eventName |-> "workflow_dispatch"]

Lock(theme, publisher) ==
    LET body == [schemaId |-> "lock", schemas |-> Row("schemas", "1"),
                 template |-> Row("template", "1"), theme |-> theme,
                 publisher |-> publisher]
    IN  body @@ [lockDigest |-> LockDigestOf(body)]

Publisher(adapter) ==
    <<Row("publish-action", "1"), Row("publish-kernel", "1"),
      Row("adapter-protocol", "1"), adapter>>

Bytes(text) == [text |-> text, byteLength |-> 2]
Html(text) == [type |-> "html", bytes |-> Bytes(text)]
Css == [type |-> "css", bytes |-> Bytes("css")]

Site(n, text) ==
    CASE n = 1 -> [p \in {"about.html"} |-> Html(text)]
      [] n = 2 -> [p \in {"about.html", "a.css"} |->
                      IF p = "a.css" THEN Css ELSE Html(text)]
      [] n = 3 -> [p \in {"about.html", "a.css", "feed.xml"} |->
                      IF p = "about.html" THEN Html(text) ELSE Css]

Source(lock, base, site, policies, honest) ==
    [name |-> <<lock.lockDigest, base, site>>,
     files |-> [p \in {LockPath, PublicationPath} |->
                   IF p = LockPath THEN [json |-> lock]
                   ELSE [json |-> [canonicalBase |-> base]]],
     site |-> site, renderPolicies |-> policies, honest |-> honest,
     retentionDays |-> 7]

Base(host) ==
    [scheme |-> "https", host |-> host, extras |-> {}, endsInSlash |-> TRUE]
ThemeA == Row("theme-a", "1")
PagesLock == Lock(ThemeA, Publisher(Row("github-pages", "2")))

MCHonest ==
    {Source(PagesLock, Base("here"), Site(n, "hi"), {"policy"}, TRUE) : n \in 1 .. 3}
    \cup {Source(Lock(ThemeA, Publisher(row)), Base("here"), Site(1, "hi"),
                 {"policy"}, TRUE) :
             row \in {Row("github-pages", "1"), Row("do-spaces", "1")}}
    \cup {Source(PagesLock, [Base("here") EXCEPT !.extras = {"port"}], Site(1, "hi"),
                 {"policy"}, TRUE)}

MalformedLocks ==
    {[PagesLock EXCEPT !.template = Row("template", "2")],          \* its digest is another lock's
     Lock(Row("theme-c", "1"), Publisher(Row("github-pages", "2"))),
     Lock(ThemeA, Publisher(Row("github-pages", "3"))),
     Lock(ThemeA, Publisher([Row("github-pages", "2") EXCEPT !.registry = "other"])),
     Lock(ThemeA, Publisher(Row("local-directory", "1"))),
     Lock(ThemeA, Append(Publisher(Row("github-pages", "2")), Row("do-spaces", "1"))),
     Lock(ThemeA, Tail(Publisher(Row("github-pages", "2")))),
     Lock(ThemeA, Reverse(Publisher(Row("github-pages", "2"))))}

MCCheckouts ==
    MCHonest
    \cup {Source(lock, Base("here"), Site(1, "hi"), {"policy"}, FALSE) :
             lock \in MalformedLocks}
    \cup {Source(PagesLock, [Base("here") EXCEPT !.extras = {"query"}], Site(1, "hi"),
                 {"policy"}, FALSE),
          Source(PagesLock, [Base("here") EXCEPT !.endsInSlash = FALSE], Site(1, "hi"),
                 {"policy"}, FALSE),
          Source(PagesLock, Base("here"), Site(1, "hi"), {"policy", "other"}, FALSE),
          [Source(PagesLock, Base("here"), Site(1, "hi"), {"policy"}, FALSE)
              EXCEPT !.retentionDays = 8],
          Source(PagesLock, Base("here"), Site(3, "hi") @@ [p \in {"zz.txt"} |-> Css], {"policy"}, FALSE)}

(* Another build differs in its text, in its theme or in its base. *)
MCOtherBuilds ==
    {Source(PagesLock, Base("here"), Site(1, "ho"), {"policy"}, TRUE),
     Source(Lock(Row("theme-b", "1"), Publisher(Row("github-pages", "2"))),
            Base("here"), Site(1, "hi"), {"policy"}, TRUE),
     Source(PagesLock, Base("there"), Site(1, "hi"), {"policy"}, TRUE)}

MCStrayPaths == {".gala-build-directory", "gala-generation.json", "../up.html", "zz.txt"}
MCStrayBytes == Bytes("stray")

-----------------------------------------------------------------------------
(* What the theorems assume of an instance holds of this one.              *)

ASSUME BytesAreOfOneForm
ASSUME SitesHaveOrdinaryPaths
ASSUME BuildsAreNamed
ASSUME PackagesAreReleases
=============================================================================
