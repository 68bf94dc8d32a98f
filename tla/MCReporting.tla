---------------------------- MODULE MCReporting ----------------------------
(***************************************************************************)
(* Reporting with a workflow that is run at most twice and calls that are  *)
(* sent at most twice or three times.                                      *)
(***************************************************************************)
EXTENDS Reporting
=============================================================================
