------------------------- MODULE RequestLifecycle -------------------------
(***************************************************************************)
(* What the HTTP library promises the REST server about the access handler *)
(* and the completion callback of one connection (microhttpd.h, the        *)
(* MHD_AccessHandlerCallback and MHD_RequestCompletedCallback): one        *)
(* request object is created, it is handled at most once, it is deleted    *)
(* exactly once, and nothing is left behind when the connection ends.      *)
(***************************************************************************)
VARIABLES
  phase,   \* of the connection's request object
  ended    \* the connection has been moved to the cleanup list

vars == <<phase, ended>>

Phases == {"none", "open", "handled", "released"}

Init == phase = "none" /\ ended = FALSE

Create  == ~ended /\ phase = "none" /\ phase' = "open" /\ UNCHANGED ended
Handle  == ~ended /\ phase = "open" /\ phase' = "handled" /\ UNCHANGED ended
Release == ~ended /\ phase \in {"open", "handled"} /\ phase' = "released" /\ UNCHANGED ended
End     == ~ended /\ phase \in {"none", "released"} /\ ended' = TRUE /\ UNCHANGED phase

Next == Create \/ Handle \/ Release \/ End

Spec == Init /\ [][Next]_vars
=============================================================================
