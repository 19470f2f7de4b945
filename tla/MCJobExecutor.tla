--------------------------- MODULE MCJobExecutor ---------------------------
(* The instance of JobExecutor for TLC. *)
EXTENDS JobExecutor
=============================================================================
