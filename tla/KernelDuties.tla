---------------------------- MODULE KernelDuties ----------------------------
(***************************************************************************)
(* Pure decisions of the publish kernel that carry no destination state:   *)
(* what a mutating call's end says about its effect, and when a further    *)
(* mutation is forbidden.                                                  *)
(*                                                                         *)
(* Source: packages/publish-kernel/src/ambiguous-outcome.js.               *)
(***************************************************************************)

Dispositions == {"not-attempted-retryable", "succeeded", "unknown-reconciling"}

\* What is known of a mutating call from how it ended.
ClassifyMutationOutcome(attempted, providerResponded) ==
    IF ~attempted THEN "not-attempted-retryable"
    ELSE IF providerResponded THEN "succeeded"
    ELSE "unknown-reconciling"

\* A mutation is blocked while an earlier one is unresolved.
BlindRetry(priorDisposition) == priorDisposition = "unknown-reconciling"
=============================================================================
