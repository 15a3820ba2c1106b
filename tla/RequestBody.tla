--------------------------- MODULE RequestBody ---------------------------
(***************************************************************************)
(* The body of one request as the REST server receives it: the access      *)
(* handler passes every piece of it to process_request_body, which counts  *)
(* it against the limit of the server and keeps it or gives it to the post *)
(* processor; handle() then refuses the request or calls the service.      *)
(* The contents of the body are left out, its length is counted.           *)
(***************************************************************************)
EXTENDS Integers

CONSTANTS
  W,         \* an unsigned is a number modulo W (2^32 in the code)
  MaxBody,   \* max_request_body_size, 0 for no limit
  MaxTotal   \* bound: the bytes a client sends

ASSUME RequestBodyAssumption ==
  /\ W \in Nat \ {0, 1}
  /\ MaxBody \in 0 .. W - 1
  /\ MaxTotal \in Nat

VARIABLES
  form,         \* need_post_processor, and how far the form is understood
  remaining,    \* remaining_request_body_size
  received,     \* bytes of the body the client has sent so far
  kept,         \* bytes appended to body or given to the post processor
  outcome       \* what has become of the request

vars == <<form, remaining, received, kept, outcome>>

Limited == MaxBody # 0

(* A form is "unsupported" once a part of it has an encoding the server    *)
(* does not know, and "broken" when there is no post processor for it.     *)
Forms == {"none", "form", "unsupported", "broken"}

MutFirstRemaining == MaxBody   \* bug: no room left for "too large"

FirstRemaining == (MaxBody + 1) % W

Init ==
  /\ form \in {"none", "form", "broken"}
  /\ remaining = FirstRemaining
  /\ received = 0 /\ kept = 0
  /\ outcome = "open"

Fits(n) == remaining > n

(* process_request_body returns false: the connection is closed.           *)
Drop ==
  /\ outcome' = "closed"
  /\ UNCHANGED <<form, remaining, kept>>

MutRefuse ==   \* bug: the counter is not cleared when a piece is refused
  UNCHANGED <<form, remaining, kept, outcome>>

(* A piece that is too long: it is dropped and so are all that follow.     *)
Refuse ==
  /\ remaining' = 0
  /\ UNCHANGED <<form, kept, outcome>>

Keep(n) ==
  /\ kept' = kept + n
  /\ remaining' = IF Limited THEN (remaining + W - n) % W ELSE remaining
  /\ form' \in IF form = "form" THEN {"form", "unsupported"} ELSE {form}
  /\ UNCHANGED outcome

Receive(n) ==
  /\ outcome = "open"
  /\ received + n <= MaxTotal
  /\ received' = received + n
  /\ IF ~Limited \/ Fits(n)
       THEN \/ form # "broken" /\ Keep(n)
            \/ form # "none" /\ Drop
       ELSE Refuse

(* handle(): the checks in the order the code makes them.  The service     *)
(* itself, and what it answers, is left out.                               *)
Handle ==
  /\ outcome = "open"
  /\ \E method, utf8 \in BOOLEAN :
       outcome' = CASE ~method                    -> "METHOD_NOT_ALLOWED"
                    [] method /\ form = "unsupported" -> "UNSUPPORTED_MEDIA_TYPE"
                    [] method /\ form # "unsupported" /\ Limited /\ remaining = 0
                                                  -> "REQUEST_ENTITY_TOO_LARGE"
                    [] OTHER -> IF utf8 THEN "service" ELSE "UNSUPPORTED_MEDIA_TYPE"
  /\ UNCHANGED <<form, remaining, received, kept>>

Done == outcome # "open" /\ UNCHANGED vars

Next == (\E n \in 1 .. MaxTotal : Receive(n)) \/ Handle \/ Done

Spec == Init /\ [][Next]_vars

-----------------------------------------------------------------------------
(* The type invariant.                                                     *)
TypeOK ==
  /\ form \in Forms
  /\ remaining \in 0 .. W - 1
  /\ received \in 0 .. MaxTotal /\ kept \in 0 .. MaxTotal
  /\ outcome \in {"open", "closed", "METHOD_NOT_ALLOWED", "UNSUPPORTED_MEDIA_TYPE",
                  "REQUEST_ENTITY_TOO_LARGE", "service"}

Fitting == ~Limited \/ received <= MaxBody

(* Whatever pieces the body arrives in, the service is given all of it,    *)
(* never more than the limit, and nothing of a body that is over it.       *)
ServedWhole == outcome = "service" => Fitting /\ kept = received

(* "Limit the maximum request body size": a request is refused as too      *)
(* large only when its body is larger than the limit.                      *)
RefusedTooLarge == outcome = "REQUEST_ENTITY_TOO_LARGE" => ~Fitting

(* What the counter says, unless the limit is the largest unsigned: this   *)
(* is the inductive invariant behind the two properties.                   *)
Counted ==
  Limited /\ MaxBody # W - 1 /\ outcome # "closed" =>
    IF remaining = 0 THEN received > MaxBody /\ kept <= MaxBody
                     ELSE received = kept /\ remaining = MaxBody + 1 - received
=============================================================================
