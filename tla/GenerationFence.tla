-------------------------- MODULE GenerationFence --------------------------
(***************************************************************************)
(* The activation fence of the adapter protocol: what a publication states *)
(* about the generation it expects a destination to serve, compared with   *)
(* the generation the destination is observed to serve.                    *)
(*                                                                         *)
(* Source: packages/adapter-protocol/src/generation-fence.js and           *)
(* packages/publish-kernel/src/operation-fencing.js.                       *)
(***************************************************************************)

CONSTANTS
    Generations,    \* identities of generations (lowercase UUIDv7 strings)
    Nothing,        \* null: the destination serves no generation
    ExpectNothing   \* EXPECT_NOTHING_SERVED, the explicit first-publish fence

ASSUME FenceAssumption ==
    /\ Nothing \notin Generations
    /\ ExpectNothing \notin Generations

Served == Generations \cup {Nothing}
Fences == Generations \cup {ExpectNothing}

\* Mutant: a destination that could not be read agrees with every fence.
FenceDisagreesUnlessUnknown(fence, observed) ==
    observed # Nothing /\ observed # fence

\* An observed generation that contradicts the fence.
FenceDisagrees(fence, observed) ==
    IF fence = ExpectNothing THEN observed # Nothing ELSE observed # fence

\* The fence to pass for an observed state, as a rollback does.
FenceFor(observed) == IF observed = Nothing THEN ExpectNothing ELSE observed
=============================================================================
