-------------------------- MODULE MCLocalDirectory --------------------------
(***************************************************************************)
(* LocalDirectory with a first deployment and its retry, a second          *)
(* deployment and a rollback to the first generation; and with two         *)
(* deployments of different bytes that start from the same destination.    *)
(***************************************************************************)
EXTENDS LocalDirectory

CONSTANTS first, retry, second, back, a1, a2, g1, g2, g3

MCRuns == {first, retry, second, back}
MCArtifacts == {a1, a2}
MCGenerations == {g1, g2, g3}
MCGenerationOf ==
    (first :> g1) @@ (retry :> g1) @@ (second :> g2) @@ (back :> g3)
\* The retry may have been built from other bytes.
MCArtifactsOf ==
    (first :> {a1}) @@ (retry :> {a1, a2}) @@ (second :> {a2}) @@ (back :> {a1})
MCKeyOf ==
    (first :> 1) @@ (retry :> 1) @@ (second :> 2) @@ (back :> 3)
MCTokenOf ==
    (first :> 1) @@ (retry :> 1) @@ (second :> 2) @@ (back :> 3)
MCTargetOf ==
    (first :> Nothing) @@ (retry :> Nothing) @@ (second :> Nothing)
        @@ (back :> g1)

\* Two deployments that start from the same destination.
RivalRuns == {first, second}
RivalGenerationOf == (first :> g1) @@ (second :> g2)
RivalArtifactsOf == (first :> {a1}) @@ (second :> {a2})
RivalKeyOf == (first :> 1) @@ (second :> 2)
RivalTokenOf == (first :> 1) @@ (second :> 2)
RivalTargetOf == (first :> Nothing) @@ (second :> Nothing)

ASSUME IdentitiesGoTogether /\ RollbacksAreNotRetried
=============================================================================
