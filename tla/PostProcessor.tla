--------------------------- MODULE PostProcessor ---------------------------
(***************************************************************************)
(* The post processor of one request: MHD_post_process is called with the  *)
(* body of a form in the pieces it arrives in and calls post_iterator with *)
(* the pieces of the values, which go to params.  One iteration of the     *)
(* loops of post_process_urlencoded and post_process_multipart is a step.  *)
(*                                                                         *)
(* A text is a sequence of symbols: "r" and "n" are the ends of lines, "4" *)
(* is a hexadecimal digit and "%44" the letter "D", and what a header of a *)
(* part says is one symbol of its line.  post_iterator never refuses a     *)
(* value, and malloc() never fails.                                        *)
(***************************************************************************)
EXTENDS Naturals, Sequences, SequencesExt

CONSTANTS
  XBUF_SIZE,         \* of the buffer for values (512)
  buffer_size,       \* of the buffer for keys and parts (32 KB)
  Boundary,          \* boundary of a multipart form
  Disposition,       \* the names that Content-disposition headers give
  ContentType,       \* whether Content-type headers say multipart/mixed, and with which
                     \* boundary, which is Null where they give none
  TransferEncoding   \* "binary" or "base64" for Content-Transfer-Encoding

ASSUME PostProcessorAssumption ==
  /\ XBUF_SIZE \in Nat /\ XBUF_SIZE >= 3
  /\ Boundary \in Seq(STRING) /\ Boundary # <<>>
  /\ \A h \in DOMAIN ContentType :
       /\ ContentType[h].kind \in {"mixed", "other"}
       /\ ContentType[h].boundary \in Seq(STRING)
  /\ buffer_size \in Nat /\ buffer_size >= 2 * Len(Boundary) + 2

VARIABLES
  encoding,      \* "urlencoded" or "multipart"
  pp,            \* the fields of struct MHD_PostProcessor
  call,          \* MHD_post_process is idle, runs, or has returned
  post_data,     \* what the call has not consumed yet
  changed,       \* state_changed of the multipart loop
  params, unsupported_multipart_encoding   \* of the request

request == <<params, unsupported_multipart_encoding>>
postVars == <<encoding, pp, call, post_data, changed, request>>

Null == <<>>
NoType == [kind |-> "none", boundary |-> Null]

PostInit ==
  /\ pp = [state |-> "Init", buf |-> <<>>, xbuf |-> <<>>, key |-> <<>>, value_offset |-> 0,
           skip_rn |-> "Inactive", dash_state |-> "Error", must_ikvi |-> FALSE,
           have |-> {}, name |-> Null, type |-> NoType, transfer |-> "none", nested |-> Null]
  /\ call = "idle" /\ post_data = <<>> /\ changed = FALSE
  /\ unsupported_multipart_encoding = FALSE

Take(s, n) == SubSeq(s, 1, n)
Rest(s, n) == SubSeq(s, n + 1, Len(s))
StartsAt(s, k, text) == k + Len(text) - 1 <= Len(s) /\ SubSeq(s, k, k + Len(text) - 1) = text
Least(S) == CHOOSE k \in S : \A l \in S : k <= l

(* How many symbols of s come before the first one of a set.               *)
Before(s, symbols) ==
  LET at == {k \in DOMAIN s : s[k] \in symbols}
  IN  IF at = {} THEN Len(s) ELSE Least(at) - 1

-----------------------------------------------------------------------------
(* MHD_post_process is called, and MHD_destroy_post_processor, which fakes *)
(* the end of a last value.                                                *)
Process(text) ==
  /\ call = "idle"
  /\ call' = "runs" /\ post_data' = text /\ changed' = TRUE
  /\ UNCHANGED <<encoding, pp, request>>

Destroy ==
  IF pp.state = "ProcessValue"
    THEN Process(<<"n">>)
    ELSE call = "idle" /\ call' = "yes" /\ UNCHANGED <<encoding, pp, post_data, changed, request>>

Return(answer) == call' = answer /\ post_data' = <<>> /\ changed' = FALSE

(* The state is PP_Error, and MHD_NO is returned.                          *)
Fail ==
  /\ pp' = [pp EXCEPT !.state = "Error"]
  /\ Return("no") /\ UNCHANGED request

(* post_iterator: a value that starts again replaces what there was.       *)
Iterator(key, transfer, off, text) ==
  IF unsupported_multipart_encoding THEN UNCHANGED request
  ELSE /\ unsupported_multipart_encoding' = (transfer = "base64")
       /\ params' =
            IF transfer = "base64" THEN params
            ELSE [k \in DOMAIN params \cup {key} |->
                    IF k # key THEN params[k]
                    ELSE IF off = 0 THEN text ELSE params[k] \o text]

-----------------------------------------------------------------------------
(***************************************************************************)
(* post_process_urlencoded                                                 *)
(***************************************************************************)
(* MHD_unescape_plus and MHD_http_unescape: a "%" that is not an escape is *)
(* kept, one of the last two symbols ends the text.                        *)
Unescape(text) ==
  LET f[k \in 1 .. Len(text) + 1] ==
        IF k > Len(text) \/ (text[k] = "%" /\ k + 2 > Len(text)) THEN <<>>
        ELSE CASE StartsAt(text, k, <<"%", "4", "4">>) -> <<"D">> \o f[k + 3]
               [] text[k] = "+"                        -> <<" ">> \o f[k + 1]
               [] OTHER                                -> <<text[k]>> \o f[k + 1]
  IN  f[1]

UrlEncoded(state) ==
  /\ call = "runs" /\ encoding = "urlencoded" /\ post_data # <<>> /\ pp.state = state
  /\ UNCHANGED encoding

FitsBuffer(key) == Len(key) <= buffer_size

ReadKey ==
  /\ UrlEncoded("Init")
  /\ LET equals == Before(post_data, {"="})
         key    == pp.buf \o Take(post_data, equals)
     IN  IF ~FitsBuffer(key) THEN Fail
         ELSE /\ UNCHANGED <<request, call, changed>>
              /\ post_data' = Rest(post_data, equals + 1)
              /\ pp' = IF equals = Len(post_data) THEN [pp EXCEPT !.buf = key]
                       ELSE [pp EXCEPT !.buf = <<>>, !.key = Unescape(key),
                                       !.state = "ProcessValue", !.value_offset = 0]

MutIncomplete(text) ==   \* bug: only a "%" at the very end is kept for later
  IF text # <<>> /\ Last(text) = "%" THEN 1 ELSE 0

(* The length of an incomplete escape at the end of a text.                *)
Incomplete(text) ==
  CASE Len(text) > 0 /\ text[Len(text)] = "%"     -> 1
    [] Len(text) > 1 /\ text[Len(text) - 1] = "%" /\ text[Len(text)] # "%" -> 2
    [] OTHER -> 0

Separators == {"&", "n", "r"}

ReadValue ==
  /\ UrlEncoded("ProcessValue")
  /\ LET amper == Min({XBUF_SIZE, Before(post_data, Separators)})
         delta == Min({amper, XBUF_SIZE - Len(pp.xbuf)})
         text  == pp.xbuf \o Take(post_data, delta)
         xoff  == Len(text) - Incomplete(text)
         rest  == Rest(post_data, delta)
         value == Unescape(Take(text, xoff))
         ended == rest # <<>> /\ rest[1] \in Separators
         after == IF ~ended THEN "ProcessValue" ELSE IF rest[1] = "&" THEN "Init" ELSE "ExpectNewLine"
         q     == [pp EXCEPT !.xbuf = Rest(text, xoff)]
     IN  IF xoff = 0 /\ rest = <<>>
           THEN pp' = q /\ post_data' = <<>> /\ UNCHANGED request
           ELSE /\ Iterator(pp.key, "binary", pp.value_offset, value)
                /\ pp' = [q EXCEPT !.state = after, !.value_offset = @ + Len(value),
                                   !.must_ikvi = FALSE]
                /\ post_data' = IF after = "Init" THEN Rest(rest, 1) ELSE rest
  /\ UNCHANGED <<call, changed>>

(* One end of a line is skipped, and with it all that comes in the call.   *)
ExpectNewLine ==
  /\ UrlEncoded("ExpectNewLine")
  /\ IF post_data[1] \in {"n", "r"}
       THEN pp' = [pp EXCEPT !.state = "Done"] /\ Return("yes")
       ELSE UNCHANGED pp /\ Return("no")
  /\ UNCHANGED request

UrlEncodedDone == UrlEncoded("Done") /\ Fail

UrlEncodedEnds ==
  /\ call = "runs" /\ encoding = "urlencoded" /\ post_data = <<>>
  /\ Return("yes")
  /\ UNCHANGED <<encoding, pp, request>>

-----------------------------------------------------------------------------
(***************************************************************************)
(* post_process_multipart                                                  *)
(***************************************************************************)
Moved == Min({buffer_size - Len(pp.buf), Len(post_data)})
Buf == pp.buf \o Take(post_data, Moved)

MutConsume(q, n, again) ==   \* bug: goes around once more, whatever has happened
  /\ pp' = [q EXCEPT !.buf = Rest(Buf, n)]
  /\ post_data' = Rest(post_data, Moved)
  /\ changed' = TRUE
  /\ UNCHANGED call

(* The end of an iteration: n symbols of the buffer are consumed.          *)
Consume(q, n, again) ==
  /\ pp' = [q EXCEPT !.buf = Rest(Buf, n)]
  /\ post_data' = Rest(post_data, Moved)
  /\ changed' = (again \/ n > 0)
  /\ UNCHANGED call

(* "goto END": to wait for more data; what is left over is an error.       *)
Wait(q) ==
  IF Moved < Len(post_data) THEN Fail
  ELSE pp' = [q EXCEPT !.buf = Buf] /\ Return("yes") /\ UNCHANGED request

(* An iteration of the loop, which no lack of memory prevents.             *)
Multipart ==
  /\ call = "runs" /\ encoding = "multipart"
  /\ post_data # <<>> \/ (pp.buf # <<>> /\ changed)
  /\ ~(Moved = 0 /\ ~changed)
  /\ UNCHANGED encoding

State(state) == Multipart /\ pp.skip_rn = "Inactive" /\ pp.state = state

(* The machine for the ends of lines and the dashes after a boundary.      *)
SkipRN ==
  /\ Multipart /\ pp.skip_rn # "Inactive"
  /\ LET b == Buf[1]
         dash2 == pp.skip_rn = "Dash2"
         To(skip, n) == Consume([pp EXCEPT !.skip_rn = skip], n, FALSE) /\ UNCHANGED request
     IN  CASE b = "-" /\ pp.skip_rn \in {"OptN", "Dash"} -> To("Dash2", 1)
           [] b = "-" /\ dash2 ->
                /\ Consume([pp EXCEPT !.skip_rn = "Full", !.state = pp.dash_state], 1, FALSE)
                /\ UNCHANGED request
           [] b = "n" /\ ~dash2 -> To("Inactive", 1)
           [] b = "r" /\ ~dash2 ->
                IF StartsAt(Buf, 1, <<"r", "n">>) THEN To("Inactive", 2) ELSE To("OptN", 1)
           [] OTHER -> Fail

(* find_boundary succeeds.                                                 *)
AtBoundary(boundary) == StartsAt(Buf, 1, <<"-", "-">> \o boundary)

Found(boundary, next, dash) ==
  /\ Consume([pp EXCEPT !.skip_rn = "Dash", !.state = next, !.dash_state = dash],
             2 + Len(boundary), FALSE)
  /\ UNCHANGED request

TooShort(boundary) == Len(Buf) < 2 + Len(boundary)

(* PP_Init skips whatever comes before the first boundary.                 *)
FirstBoundary ==
  /\ State("Init")
  /\ CASE AtBoundary(Boundary) -> Found(Boundary, "ProcessEntryHeaders", "Done")
       [] ~AtBoundary(Boundary) /\ TooShort(Boundary) ->
            Consume(pp, 0, FALSE) /\ UNCHANGED request
       [] OTHER -> /\ Consume(pp, IF Buf[1] = "-" THEN 1 ELSE Before(Buf, {"-"}), FALSE)
                   /\ UNCHANGED request

(* PP_NextBoundary and PP_Nested_Init: garbage is not allowed.             *)
FindBoundary(state, boundary, next, dash) ==
  /\ State(state)
  /\ CASE AtBoundary(boundary) -> Found(boundary, next, dash)
       [] ~AtBoundary(boundary) /\ TooShort(boundary) /\ Len(Buf) < buffer_size -> Wait(pp)
       [] OTHER -> Fail

NextBoundary == FindBoundary("NextBoundary", Boundary, "ProcessEntryHeaders", "Done")
NestedInit == FindBoundary("Nested_Init", pp.nested, "Nested_PerformMarking", "NextBoundary")

(* process_multipart_headers: a line of the headers, or the empty one; a   *)
(* header that was given before is not changed.                            *)
Given(field, headers, line, null) ==
  LET h == {k \in DOMAIN line : line[k] \in DOMAIN headers}
  IN  IF field # null \/ h = {} THEN field ELSE headers[line[Least(h)]]

Headers(q, next) ==
  LET newline == Before(Buf, {"r", "n"})
      line    == Take(Buf, newline)
  IN  CASE newline = buffer_size -> Fail
        [] newline # buffer_size /\ newline = Len(Buf) -> Wait(q)
        [] newline # Len(Buf) /\ newline = 0 ->
             /\ Consume([q EXCEPT !.skip_rn = "Full", !.state = next], 0, TRUE)
             /\ UNCHANGED request
        [] OTHER ->
             /\ Consume([q EXCEPT
                   !.skip_rn = IF Buf[newline + 1] = "r" THEN "OptN" ELSE @,
                   !.name     = Given(@, Disposition, line, Null),
                   !.type     = Given(@, ContentType, line, NoType),
                   !.transfer = Given(@, TransferEncoding, line, "none")], newline + 1, TRUE)
             /\ UNCHANGED request

ProcessEntryHeaders ==
  State("ProcessEntryHeaders") /\ Headers([pp EXCEPT !.must_ikvi = TRUE], "PerformCheckMultipart")

NestedEntryHeaders ==
  State("Nested_ProcessEntryHeaders")
    /\ Headers([pp EXCEPT !.value_offset = 0], "Nested_ProcessValueToBoundary")

PerformCheckMultipart ==
  /\ State("PerformCheckMultipart")
  /\ CASE pp.type.kind # "mixed" ->
            /\ Consume([pp EXCEPT !.state = "ProcessValueToBoundary", !.value_offset = 0], 0, TRUE)
            /\ UNCHANGED request
       [] pp.type.kind = "mixed" /\ pp.type.boundary # Null ->
            /\ Consume([pp EXCEPT !.nested = pp.type.boundary, !.type = NoType,
                                  !.state = "Nested_Init"], 0, TRUE)
            /\ UNCHANGED request
       [] OTHER -> Fail

(***************************************************************************)
(* process_value_to_boundary: where the value ends that the buffer holds,  *)
(* or what may be its delimiter begins.  The length of the form's boundary *)
(* is used for the nested one, too.                                        *)
(***************************************************************************)
Matches(boundary, k) ==
  /\ Len(boundary) >= Len(Boundary)
  /\ StartsAt(Buf, k + 5, Take(boundary, Len(Boundary)))

Checkable(k) == k + 4 + Len(Boundary) <= Len(Buf)

(* A delimiter of another boundary belongs to the value.  "\r\n--" cannot  *)
(* overlap itself, so that going on behind one misses none.                *)
Dashes == {k \in 0 .. Len(Buf) - 5 : StartsAt(Buf, k + 1, <<"r", "n", "-", "-">>)}

ValueEnd(boundary) ==
  LET ends == {k \in Dashes : ~Checkable(k) \/ Matches(boundary, k)}
  IN  IF ends # {} THEN Least(ends) ELSE Max({0, Len(Buf) - 4} \cup {k + 4 : k \in Dashes})

Value(boundary, next, dash) ==
  LET newline == ValueEnd(boundary)
      found   == /\ StartsAt(Buf, newline + 1, <<"r", "n", "-", "-">>)
                 /\ Checkable(newline) /\ Matches(boundary, newline)
      q       == [pp EXCEPT !.must_ikvi = FALSE, !.value_offset = @ + newline]
  IN  IF ~found /\ newline = 0 /\ Len(Buf) = buffer_size THEN Fail
      ELSE /\ IF pp.name # Null /\ (pp.must_ikvi \/ newline # 0)
                THEN Iterator(pp.name, pp.transfer, pp.value_offset, Take(Buf, newline))
                ELSE UNCHANGED request
           /\ IF found
                THEN Consume([q EXCEPT !.skip_rn = "Dash", !.state = next, !.dash_state = dash],
                             newline + 4 + Len(Boundary), FALSE)
                ELSE Consume(q, newline, FALSE)

ProcessValueToBoundary ==
  State("ProcessValueToBoundary") /\ Value(Boundary, "PerformCleanup", "Done")

NestedValueToBoundary ==
  State("Nested_ProcessValueToBoundary") /\ Value(pp.nested, "Nested_PerformCleanup", "NextBoundary")

(* free_unmarked                                                           *)
FreeUnmarked(q, have) ==
  [q EXCEPT !.have = have,
            !.name = IF "name" \in have THEN @ ELSE Null,
            !.type = NoType,
            !.transfer = IF "transfer" \in have THEN @ ELSE "none"]

PerformCleanup ==
  /\ State("PerformCleanup")
  /\ Consume([FreeUnmarked(pp, {}) EXCEPT !.nested = Null, !.state = "ProcessEntryHeaders"], 0, TRUE)
  /\ UNCHANGED request

(* The headers before the nested parts hold for all of them.               *)
NestedPerformMarking ==
  /\ State("Nested_PerformMarking")
  /\ LET have == {field \in {"name", "transfer"} :
                    IF field = "name" THEN pp.name # Null ELSE pp.transfer # "none"}
     IN  Consume([pp EXCEPT !.have = have, !.state = "Nested_ProcessEntryHeaders"], 0, TRUE)
  /\ UNCHANGED request

NestedPerformCleanup ==
  /\ State("Nested_PerformCleanup")
  /\ Consume([FreeUnmarked(pp, pp.have) EXCEPT !.state = "Nested_ProcessEntryHeaders"], 0, TRUE)
  /\ UNCHANGED request

MultipartDone == State("Done") /\ Fail

MultipartEnds ==
  /\ call = "runs" /\ encoding = "multipart"
  /\ post_data = <<>> /\ (pp.buf = <<>> \/ ~changed)
  /\ Return("yes")
  /\ UNCHANGED <<encoding, pp, request>>

PostStep ==
  \/ ReadKey \/ ReadValue \/ ExpectNewLine \/ UrlEncodedDone \/ UrlEncodedEnds
  \/ SkipRN \/ FirstBoundary \/ NextBoundary \/ NestedInit
  \/ ProcessEntryHeaders \/ NestedEntryHeaders \/ PerformCheckMultipart
  \/ ProcessValueToBoundary \/ NestedValueToBoundary
  \/ PerformCleanup \/ NestedPerformMarking \/ NestedPerformCleanup
  \/ MultipartDone \/ MultipartEnds
=============================================================================
