--------------------------- MODULE MCAdapterRelease ---------------------------
(* The protocol and one adapter that depends on it, each with one file *)
(* besides its package.json.                                           *)
EXTENDS AdapterRelease

MCReleaseOrder == <<"adapter-protocol", "adapter-github-pages">>
MCProtocol == "adapter-protocol"
MCFiles == {"types/index.d.ts"}
MCDeletable == {<<"adapter-github-pages", "types/index.d.ts">>}
=============================================================================
