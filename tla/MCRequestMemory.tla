-------------------------- MODULE MCRequestMemory --------------------------
(***************************************************************************)
(* A small pool: the read buffer takes half of it, so a few bytes of lines *)
(* and records fill it.                                                    *)
(***************************************************************************)
EXTENDS RequestMemory

AllVersions == {"1.1", "1.0", ""}
AllWishes == {"none", "close", "keep-alive"}
AllGiven == {"close", "keep-alive"}
============================================================================
