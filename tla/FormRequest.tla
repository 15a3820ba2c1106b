---------------------------- MODULE FormRequest ----------------------------
(***************************************************************************)
(* A request with a body, from the first piece of it to handle(): every    *)
(* piece is counted as in the module RequestBody, which this one           *)
(* implements, and given to the post processor if the body is a form.      *)
(***************************************************************************)
EXTENDS RequestBody, PostProcessor

CONSTANTS
  MaxPiece,   \* bound: a piece is at most so long, or all that is left
  SentForms   \* the bodies: their encoding and text, the GET arguments, and the
          \* params a service is to see

ASSUME SentAssumption == \A f \in SentForms : f.text \in Seq(STRING)

VARIABLES
  sent,        \* the body of the client
  text,        \* the part that has not arrived yet
  piece,             \* length of the piece that is being processed
  post_processor   \* is not deleted yet

form_vars == <<sent, text, piece, post_processor>>
formVars == <<postVars, form_vars, vars>>

Pieces == {n \in 1 .. Len(text) : n <= MaxPiece \/ n = Len(text)}

FormInit ==
  /\ PostInit /\ Init
  /\ sent \in SentForms
  /\ encoding = sent.encoding /\ params = sent.get
  /\ text = sent.text
  /\ form = (IF encoding = "none" THEN "none" ELSE "form")
  /\ piece = 0 /\ post_processor = (form = "form")

(* process_request_body: a piece for the post processor.                   *)
ProcessForm(n) ==
  /\ outcome = "open" /\ form # "none" /\ n <= Len(text) /\ (~Limited \/ Fits(n))
  /\ Process(Take(text, n))
  /\ piece' = n /\ text' = Rest(text, n)
  /\ UNCHANGED <<sent, post_processor, vars>>

MutProcessed ==   \* bug: a piece for the post processor is not counted
  /\ post_processor /\ call \in {"yes", "no"}
  /\ received' = received + piece /\ kept' = kept + piece
  /\ form' = (IF unsupported_multipart_encoding THEN "unsupported" ELSE "form")
  /\ outcome' = (IF call = "no" THEN "closed" ELSE "open")
  /\ call' = "idle" /\ piece' = 0
  /\ UNCHANGED <<encoding, pp, post_data, changed, request, sent, text, post_processor, remaining>>

(* MHD_post_process has returned.                                          *)
Processed ==
  /\ post_processor /\ call \in {"yes", "no"}
  /\ Receive(piece)
  /\ form' = (IF unsupported_multipart_encoding THEN "unsupported" ELSE "form")
  /\ outcome' = (IF call = "no" THEN "closed" ELSE "open")
  /\ call' = "idle" /\ piece' = 0
  /\ UNCHANGED <<encoding, pp, post_data, changed, request, sent, text, post_processor>>

(* A piece of another body, or one that does not fit.                      *)
ReceiveOther(n) ==
  /\ form = "none" \/ (Limited /\ ~Fits(n))
  /\ call = "idle" /\ n <= Len(text)
  /\ Receive(n)
  /\ outcome' = "open"
  /\ text' = Rest(text, n)
  /\ UNCHANGED <<postVars, sent, piece, post_processor>>

(* handle() deletes the post processor first, then makes its checks.       *)
Delete ==
  /\ outcome = "open" /\ text = <<>> /\ post_processor
  /\ Destroy
  /\ post_processor' = FALSE
  /\ UNCHANGED <<sent, text, piece, vars>>

HandleForm ==
  /\ text = <<>> /\ ~post_processor /\ call # "runs"
  /\ Handle
  /\ form # "none" => outcome' # "METHOD_NOT_ALLOWED"
  /\ UNCHANGED <<postVars, sent, text, piece, post_processor>>

Served == outcome # "open" /\ UNCHANGED formVars

Run == PostStep /\ UNCHANGED <<form_vars, vars>>

FormNext ==
  \/ \E n \in Pieces : ProcessForm(n)
  \/ Processed
  \/ \E n \in Pieces : ReceiveOther(n)
  \/ Delete \/ HandleForm \/ Served
  \/ Run

(* A call to the post processor runs until it returns.                     *)
FormSpec == FormInit /\ [][FormNext]_formVars /\ WF_formVars(Run)

-----------------------------------------------------------------------------
(* However its body was cut into pieces, a form that is given to the       *)
(* service has exactly the values that were encoded in it, each under its  *)
(* own name, beside the arguments of the URL.                              *)
ServedParams ==
  outcome = "service" /\ form # "none" => params = sent.params

(* The loops of the post processor end for every piece they are given.     *)
CallsReturn == call = "runs" ~> call # "runs"

(* With the post processor at work, the body is counted and the request    *)
(* refused or handled as RequestBody describes it.                         *)
ImplementsBody == Spec
=============================================================================
