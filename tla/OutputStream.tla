--------------------------- MODULE OutputStream ---------------------------
(***************************************************************************)
(* What a response made by a response_generator is for the client and the  *)
(* service: the bytes the generator makes are sent in order, each of them  *)
(* once, and the response is closed only when the generator has said that  *)
(* there are no more and every byte of it has been sent.                   *)
(***************************************************************************)
EXTENDS Naturals

VARIABLES
  made,       \* bytes the generator has made
  finished,   \* generate() has returned false
  sent,       \* bytes passed to the socket
  closed      \* the response was reported as complete

vars == <<made, finished, sent, closed>>

Init == made \in Nat /\ finished = FALSE /\ sent = 0 /\ closed = FALSE

Make ==
  /\ ~finished /\ ~closed
  /\ made' \in Nat /\ made' >= made
  /\ finished' \in BOOLEAN
  /\ UNCHANGED <<sent, closed>>

Send ==
  /\ ~closed
  /\ sent' \in sent + 1 .. made
  /\ UNCHANGED <<made, finished, closed>>

Close ==
  /\ ~closed /\ finished /\ sent = made
  /\ closed' = TRUE
  /\ UNCHANGED <<made, finished, sent>>

Next == Make \/ Send \/ Close

Spec == Init /\ [][Next]_vars
=============================================================================
