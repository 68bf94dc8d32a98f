------------------------- MODULE KernelPublication --------------------------
(***************************************************************************)
(* The kernel run carries out Publication: its report is read off its      *)
(* outcome and its journal.                                                *)
(***************************************************************************)
EXTENDS KernelRun

\* Mutant: the outcome alone is read, and any activation is a publication.
ReportOfDecision(r) ==
    CASE pc[r] = "killed" -> "lost"
      [] pc[r] \in Running -> "none"
      [] pc[r] = "done" /\ outcome[r].decision = "activate" -> "published"
      [] OTHER -> "unchanged"

\* What the submission of a run's journal tells its reader: a verified
\* activation, an activation that may have changed what is served, or none.
ReportOf(r) ==
    CASE pc[r] = "killed" -> "lost"
      [] pc[r] \in Running -> "none"
      [] pc[r] = "done" /\ outcome[r].decision = "activate"
                        /\ outcome[r].verified -> "published"
      [] OTHER -> IF AdmitsChange(r) THEN "unknown" ELSE "unchanged"

P == INSTANCE Publication WITH report <- [r \in Runs |-> ReportOf(r)]

\* A run never reports better than what happened, and nothing changes after
\* its report.
Publishes == P!Spec
=============================================================================
