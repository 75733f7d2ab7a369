---------------------------- MODULE MCJobManager ----------------------------
(***************************************************************************)
(* TLC instance of JobManager: a small set of jobs.  Every job that is     *)
(* done stays done, so the system stops when all of them have ended.       *)
(***************************************************************************)
EXTENDS JobManager
=============================================================================
