----------------------------- MODULE MCJobQueue -----------------------------
(* Constants for model checking JobQueue. *)
EXTENDS JobQueue

MCJobs2 == 1..2
MCJobs4 == 1..4
MCJobs5 == 1..5
=============================================================================
