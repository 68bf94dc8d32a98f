---------------------------- MODULE MCKernelRun -----------------------------
(***************************************************************************)
(* KernelRun with two runs against one destination: two operations that    *)
(* were authorized while it served generation g0.                          *)
(***************************************************************************)
EXTENDS KernelPublication

CONSTANTS r1, r2, g0, g1, g2

MCRuns == {r1, r2}
MCGenerations == {g0, g1, g2}

\* Two operations authorized against the same served generation.
RivalProposed == (r1 :> g1) @@ (r2 :> g2)
RivalExpected == (r1 :> g0) @@ (r2 :> g0)
=============================================================================
