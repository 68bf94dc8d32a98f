---------------------------- MODULE Publication -----------------------------
(***************************************************************************)
(* What a publication promises, whatever adapter carries it out: the       *)
(* destination changes only under a run that has not reported yet, and a   *)
(* report is never better than what happened. A run may say that it does   *)
(* not know; it says "unchanged" only of a destination it left alone, and  *)
(* "published" only of a generation that was served.                       *)
(*                                                                         *)
(* Source: the header of scripts/workflow/kernel-run.mjs.                  *)
(***************************************************************************)
CONSTANTS Runs, Proposed, Served

VARIABLES
    served,    \* what the destination serves
    touched,   \* the run changed what is served
    landed,    \* the run's generation was served while it ran
    report     \* what the run reported

vars == <<served, touched, landed, report>>

Reports == {"none", "unchanged", "unknown", "published", "lost"}

Init ==
    /\ served \in Served
    /\ touched = [r \in Runs |-> FALSE]
    /\ landed = [r \in Runs |-> FALSE]
    /\ report = [r \in Runs |-> "none"]

Publish(r) ==
    /\ report[r] = "none"
    /\ served' = Proposed[r]
    /\ touched' = [touched EXCEPT ![r] = TRUE]
    /\ landed' = [landed EXCEPT ![r] = TRUE]
    /\ UNCHANGED report

\* Objects change and the pointer to them does not.
Disturb(r) ==
    /\ report[r] = "none"
    /\ touched' = [touched EXCEPT ![r] = TRUE]
    /\ UNCHANGED <<served, landed, report>>

\* The run's generation is served already.
Find(r) ==
    /\ report[r] = "none"
    /\ served = Proposed[r]
    /\ landed' = [landed EXCEPT ![r] = TRUE]
    /\ UNCHANGED <<served, touched, report>>

Report(r) ==
    /\ report[r] = "none"
    /\ \E verdict \in Reports \ {"none"} :
          /\ verdict = "unchanged" => ~touched[r]
          /\ verdict = "published" => landed[r]
          /\ report' = [report EXCEPT ![r] = verdict]
    /\ UNCHANGED <<served, touched, landed>>

Next == \E r \in Runs : Publish(r) \/ Disturb(r) \/ Find(r) \/ Report(r)

Spec == Init /\ [][Next]_vars
=============================================================================
