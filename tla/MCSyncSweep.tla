---------------------------- MODULE MCSyncSweep ----------------------------
(***************************************************************************)
(* The smallest instance of SyncSweep in which an uninstallation overtakes *)
(* a job: one tenant, one replica, no crash, no second attempt.            *)
(***************************************************************************)
EXTENDS SyncSweep
=============================================================================
