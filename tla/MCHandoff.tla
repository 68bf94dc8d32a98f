------------------------------- MODULE MCHandoff -------------------------------
(* Two attempts of one run, on a toolchain that admits what it catalogs    *)
(* and on one that does not; sites within and beyond the limits of a fit   *)
(* request; locks of the present and of the previous adapter version.      *)
EXTENDS Handoff

MCPathOrder == <<"a.css", "about.html", "feed.xml">>

Row(package, version) ==
    [package |-> package, version |-> version,
     integrity |-> [package |-> package, version |-> version],
     registry |-> "npm", contractVersion |-> "2.0.0", compatibleWith |-> "^2.0.0"]

AdapterRow(adapterId, version) == Row(adapterId, version) @@ [adapterId |-> adapterId]

MCThemeCatalog == {Row("theme-a", "1")}

Admission(rows) ==
    {[adapterId |-> row[1], adapterVersion |-> row[2], superseded |-> row[3]] : row \in rows}

Toolchain(rows) ==
    [catalog |-> {AdapterRow("github-pages", "2"), AdapterRow("do-spaces", "1")},
     previous |-> {AdapterRow("github-pages", "1")},
     admission |-> Admission(rows)]

MCToolchains ==
    {Toolchain({<<"github-pages", "2", FALSE>>, <<"github-pages", "1", FALSE>>,
                <<"do-spaces", "1", FALSE>>}),
     Toolchain({<<"github-pages", "2", FALSE>>, <<"github-pages", "1", TRUE>>,
                <<"do-spaces", "1", FALSE>>})}

MCRunner ==
    [ref |-> [kind |-> "publish", operationId |-> "op"], sha |-> "sha1",
     repository |-> [owner |-> "owner", name |-> "site"], repositoryId |-> 1,
     runId |-> 7, runAttempt |-> 1, eventName |-> "workflow_dispatch"]

Lock(adapter) ==
    LET body == [schemaId |-> "lock", schemas |-> Row("schemas", "1"),
                 template |-> Row("template", "1"), theme |-> Row("theme-a", "1"),
                 publisher |-> <<Row("publish-action", "1"), Row("publish-kernel", "1"),
                                 Row("adapter-protocol", "1"), adapter>>]
    IN  body @@ [lockDigest |-> LockDigestOf(body)]

Page(text) == [type |-> "html", bytes |-> [text |-> text, byteLength |-> 2]]
Site(paths, text) == [path \in paths |-> Page(text)]
Small == {"about.html"}
Large == {"a.css", "about.html", "feed.xml"}

Checkout(adapter, site) ==
    [name |-> <<adapter, site>>,
     files |-> [p \in {LockPath, PublicationPath} |->
                   IF p = LockPath THEN [json |-> Lock(adapter)]
                   ELSE [json |-> [canonicalBase |->
                            [scheme |-> "https", host |-> "here", extras |-> {},
                             endsInSlash |-> TRUE]]]],
     site |-> site, renderPolicies |-> {"policy"}]

MCCheckouts ==
    {Checkout(Row("github-pages", "2"), Site(Small, "hi")),
     Checkout(Row("github-pages", "1"), Site(Large, "hi")),
     Checkout(Row("do-spaces", "1"), Site(Small, "hi"))}

(* A run of this repository before, and one of another repository. *)
MCOtherRuns ==
    {[runner |-> [MCRunner EXCEPT !.ref.operationId = "op0", !.runId = 6, !.sha = "sha0"],
      checkout |-> Checkout(Row("github-pages", "2"), Site(Small, "ho"))],
     [runner |-> [MCRunner EXCEPT !.ref.operationId = "op1", !.runId = 9,
                     !.repositoryId = 2, !.repository.name = "other"],
      checkout |-> Checkout(Row("github-pages", "2"), Site(Small, "hi"))]}

Attempt(stage, outcome) == [stage |-> stage, outcome |-> outcome]
Ending(attempts) ==
    [attempts |-> attempts, observations |-> attempts, observedRoutes |-> 1]

MCEndings ==
    {Ending(<<Attempt("staging", "succeeded"), Attempt("activation", "succeeded")>>)
        @@ [decision |-> "activate", destinationGenerationId |-> "generation"],
     Ending(<<Attempt("staging", "skipped")>>) @@ [decision |-> "reconcile"],
     Ending(<<Attempt("staging", "succeeded"), Attempt("activation", "unknown")>>)
        @@ [decision |-> "reconcile",
            failure |-> [code |-> "KERNEL_ACTIVATE_FAILED", stage |-> "activate"]]}

MCServedGenerations == {None, <<"served">>}
ASSUME /\ CandidatesAreRequested /\ EndingsAreJournals
       /\ PagesIsInstalled /\ AdaptersHaveOnePackage
=============================================================================
