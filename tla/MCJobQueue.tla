---------------------------- MODULE MCJobQueue -----------------------------
(* Two workers, as JOB_WORKER_COUNT, or three. *)
EXTENDS JobQueue, TLC
=============================================================================
