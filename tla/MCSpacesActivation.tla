------------------------- MODULE MCSpacesActivation -------------------------
(***************************************************************************)
(* SpacesActivation with two or three runs and artifacts that differ in one*)
(* object, share the bytes of another, and lack it in the last.            *)
(***************************************************************************)
EXTENDS SpacesActivation, TLC

CONSTANTS one, two, three, g0, g1, g2, page, asset, b0, b1, b2

MCRuns == {one, two}
MCGenerations == {g0, g1, g2}
MCObjects == {page, asset}
MCBytes == {b0, b1, b2}
\* The page of the first publication goes up in parts.
MCLargeBytes == {b1}
MCFilesOf ==
    (g0 :> ((page :> b0) @@ (asset :> b0))) @@
    (g1 :> ((page :> b1) @@ (asset :> b0))) @@
    (g2 :> ((page :> b2) @@ (asset :> NoObject)))
MCGenerationOf == (one :> g1) @@ (two :> g2)

\* Both intents state the generation served when they were authorized.
RivalExpected == (one :> g0) @@ (two :> g0)
\* Two publications over g0, and one that follows the first of them.
ChainRuns == {one, two, three}
ChainGenerationOf == (one :> g1) @@ (two :> g2) @@ (three :> g2)
ChainExpected == (one :> g0) @@ (two :> g0) @@ (three :> g1)
\* A first publication, and one that follows it.
FirstExpected == (one :> ExpectNothing) @@ (two :> g1)
=============================================================================
