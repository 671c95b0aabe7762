---------------------------- MODULE MCSupervisor ----------------------------
(* Small instances of a supervised task for TLC.                            *)
EXTENDS Supervisor
=============================================================================
