---------------------------- MODULE MCSupervisor ----------------------------
(* Supervisor for TLC.  The constants are numbers, given in the .cfg files. *)
EXTENDS Supervisor
=============================================================================
