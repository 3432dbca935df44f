--------------------------- MODULE MCShellRuntime ---------------------------
(* ShellRuntime for TLC.  The constants are given in the .cfg files. *)
EXTENDS ShellRuntime
=============================================================================
