------------------------------ MODULE MCDaemon ------------------------------
(* Clients of which some never leave.                                      *)
EXTENDS Daemon
=============================================================================
