----------------------------- MODULE MCJobQueue -----------------------------
(* The instance of JobQueue for TLC is MCJobQueue.cfg. *)
EXTENDS JobQueue
=============================================================================
