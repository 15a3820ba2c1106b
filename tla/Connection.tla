---------------------------- MODULE Connection ----------------------------
(***************************************************************************)
(* One HTTP connection of the server, run by a thread of its own           *)
(* (set_threads(0)): the thread's poll loop (MHD_handle_connection), the   *)
(* read and write handlers, the state machine MHD_connection_handle_idle   *)
(* and the microhttpd_request the REST server hangs on it.                 *)
(*                                                                         *)
(* The client is the environment.  The bytes it sends are counted in units *)
(* (a complete line in the header part, a byte in the body) whose contents *)
(* are chosen when they are parsed.  A request is of HTTP/1.0 or 1.1.      *)
(***************************************************************************)
EXTENDS Integers

CONSTANTS
  Methods,      \* the request methods a client uses
  Malformed,    \* may a client send a header line without a colon?
  PoolFull,     \* may the memory pool of the connection run out?
  Uploads,      \* the Content-Length values a client announces
  Chunked,      \* may a client use a transfer encoding, chunked or another?
  Continues,    \* may a client ask for "100 Continue"?
  W,            \* remaining_upload_size is a number modulo W (2^64 in the code)
  BodySizes,    \* the sizes of the responses of the service
  Prefilled,    \* may a generator have data before generate() is called?
  HasTimeout,   \* is an inactivity timeout set?
  Shutdowns,    \* may the daemon be stopped while the connection runs?
  MaxUnits,     \* bound: units a client sends
  MaxRead       \* bound: units one read returns

ASSUME ConnectionAssumption ==
  /\ {Malformed, PoolFull, Chunked, Continues, Prefilled, HasTimeout, Shutdowns}
       \subseteq BOOLEAN
  /\ W \in Nat \ {0, 1}
  /\ Uploads \subseteq 0 .. W - 2
  /\ BodySizes \subseteq Nat
  /\ MaxUnits \in Nat /\ MaxRead \in Nat

VARIABLES
  pc,               \* where the thread is in its loop
  events,           \* revents of the last poll that are still to be handled
  stale,            \* last_activity lies more than the timeout in the past
  shutdown,         \* daemon->shutdown
  state,            \* connection->state
  event_loop_info,
  read_closed,
  sock,             \* what of the socket has been shut down by this side
  budget,           \* units the client may still send
  buffered,         \* read_buffer_offset, in units
  upload,           \* what the request line and headers said, and the body so far
  request,          \* the microhttpd_request and the connection's pointer to it
  reply             \* the queued response and how much of it has been sent

Events == {"in", "out", "hup"}   \* POLLIN, POLLOUT, POLLHUP or POLLERR

looping == <<pc, events, stale, shutdown>>
closing == <<state, event_loop_info, read_closed, sock, request>>
input   == <<budget, buffered>>
vars == <<looping, closing, input, upload, reply>>

MHD_SIZE_UNKNOWN == W - 1

HeaderStates  == {"INIT", "URL_RECEIVED", "HEADER_PART_RECEIVED"}
FooterStates  == {"BODY_RECEIVED", "FOOTER_PART_RECEIVED"}
ReceiveStates == HeaderStates \cup FooterStates \cup
                 {"HEADERS_RECEIVED", "HEADERS_PROCESSED", "CONTINUE_SENDING", "CONTINUE_SENT"}
SendStates    == {"HEADERS_SENDING", "NORMAL_BODY_READY"}
States == ReceiveStates \cup SendStates \cup
          {"FOOTERS_RECEIVED", "HEADERS_SENT", "NORMAL_BODY_UNREADY", "BODY_SENT",
           "FOOTERS_SENT", "CLOSED", "IN_CLEANUP"}

(***************************************************************************)
(* Responses.  Those of the service all carry "Connection: close".         *)
(***************************************************************************)
NoResponse == [kind |-> "none", size |-> 0, close |-> FALSE, prefilled |-> FALSE]
StaticResponse(n) == [kind |-> "static", size |-> n, close |-> TRUE, prefilled |-> FALSE]
GeneratorResponse(n, p) == [kind |-> "generator", size |-> n, close |-> TRUE, prefilled |-> p]
ErrorResponse == [kind |-> "error", size |-> 1, close |-> FALSE, prefilled |-> FALSE]

ServiceResponses ==
  UNION {{StaticResponse(n), GeneratorResponse(n, FALSE), GeneratorResponse(n, Prefilled)}
           : n \in BodySizes}

NoUpload == [method |-> "NULL", headers |-> FALSE, keepalive |-> FALSE, expect |-> FALSE,
             remaining |-> 0, chunked |-> FALSE, chunk |-> 0, declared |-> 0, body |-> 0]
NoReply == [response |-> NoResponse, left |-> 0, unmade |-> 0, delivered |-> 0]
NoRequest == [context |-> "NULL", aware |-> FALSE, created |-> 0, handled |-> 0,
              deleted |-> 0, fault |-> FALSE, toe |-> "none"]

Init ==
  /\ pc = "poll" /\ events = {} /\ stale = FALSE /\ shutdown = FALSE
  /\ state = "INIT" /\ event_loop_info = "READ" /\ read_closed = FALSE
  /\ sock = "open" /\ request = NoRequest
  /\ budget = MaxUnits /\ buffered = 0
  /\ upload = NoUpload /\ reply = NoReply

(***************************************************************************)
(* The microhttpd_request behind the connection's client_context.  The     *)
(* pointer is not cleared when request_completed deletes the object, so    *)
(* any later use of it is a fault.                                         *)
(***************************************************************************)
RequestCompleted(r) ==
  CASE r.context = "NULL"  -> r
    [] r.context = "live"  -> [r EXCEPT !.context = "freed", !.deleted = @ + 1]
    [] r.context = "freed" -> [r EXCEPT !.fault = TRUE]

MutNotifyCompleted(r, code) ==   \* bug: client_aware is not reset
  LET done == IF r.aware THEN RequestCompleted(r) ELSE r
  IN  [done EXCEPT !.toe = IF r.aware THEN code ELSE @]

NotifyCompleted(r, code) ==
  LET done == IF r.aware THEN RequestCompleted(r) ELSE r
  IN  [done EXCEPT !.aware = FALSE, !.toe = IF r.aware THEN code ELSE @]

MutUseRequest(r) ==   \* bug: client_aware is not set by the call
  [r EXCEPT !.fault = @ \/ r.context = "freed"]

UseRequest(r) ==
  [r EXCEPT !.aware = TRUE, !.fault = @ \/ r.context = "freed"]

FirstCall(r) ==
  IF r.context = "NULL"
    THEN [UseRequest(r) EXCEPT !.context = "live", !.created = @ + 1]
    ELSE UseRequest(r)

GeneratorCall(r) == [r EXCEPT !.fault = @ \/ r.context # "live"]

FinalCall(r) == [UseRequest(r) EXCEPT !.handled = @ + 1]

(***************************************************************************)
(* MHD_queue_response: refused when a response is queued already.  For a   *)
(* HEAD request the write position starts at the end of the body.          *)
(***************************************************************************)
Queued == reply.response.kind # "none"

QueueResponse(p, response) ==
  IF p.response.kind # "none"
    THEN p
    ELSE [p EXCEPT !.response = response,
                   !.left = IF response.kind = "generator" \/ upload.method = "HEAD"
                              THEN 0 ELSE response.size,
                   !.unmade = IF response.kind = "generator" THEN response.size ELSE 0]

(***************************************************************************)
(* MHD_connection_close: shut the socket down, tell the application.       *)
(***************************************************************************)
ShutSocket(s, readClosed) == IF readClosed THEN IF s = "open" THEN "wr" ELSE s ELSE "rdwr"

CloseWith(r, code) ==
  /\ sock' = ShutSocket(sock, read_closed')
  /\ state' = "CLOSED"
  /\ event_loop_info' = "CLEANUP"
  /\ request' = NotifyCompleted(r, code)

Close(code) == CloseWith(request, code)

(* transmit_error_response, ok is the outcome of build_header_response.    *)
TransmitError(ok) ==
  /\ read_closed' = TRUE
  /\ reply' = QueueResponse(reply, ErrorResponse)
  /\ IF ok
       THEN state' = "HEADERS_SENDING" /\ UNCHANGED <<event_loop_info, sock, request>>
       ELSE Close("WITH_ERROR")

(* A header line without a colon: process_header_line closes the           *)
(* connection, then its caller transmits an error response on it.          *)
CloseAndTransmitError(ok) ==
  /\ read_closed' = TRUE
  /\ reply' = QueueResponse(reply, ErrorResponse)
  /\ sock' = ShutSocket(sock, read_closed)
  /\ event_loop_info' = "CLEANUP"
  /\ request' = NotifyCompleted(request, "WITH_ERROR")
  /\ state' = IF ok THEN "HEADERS_SENDING" ELSE "CLOSED"

(* build_header_response fails only when the pool is exhausted.            *)
HeaderBuilt == {TRUE, ~PoolFull}

-----------------------------------------------------------------------------
(***************************************************************************)
(* The loop of the connection's thread: test, poll, handlers, idle.        *)
(***************************************************************************)
Room == buffered < MaxRead

(* What poll() waits for, by event_loop_info; "hup" needs no asking.       *)
Awaited ==
  CASE event_loop_info = "READ"  -> {"in", "hup"}
    [] event_loop_info = "WRITE" -> {"out", "hup"} \cup (IF Room THEN {"in"} ELSE {})
    [] event_loop_info = "BLOCK" -> {"hup"} \cup (IF Room THEN {"in"} ELSE {})
    [] OTHER -> {}

LoopTest ==
  /\ pc = "poll"
  /\ pc' = CASE shutdown \/ state = "CLOSED"   -> "exit"
             [] event_loop_info = "CLEANUP"     -> "abandoned"
             [] OTHER                           -> "wait"
  /\ UNCHANGED <<events, stale, shutdown, closing, input, upload, reply>>

(* poll() returns at once in state BLOCK, at the deadline if there is one, *)
(* and otherwise when something has happened.                              *)
Poll(ready) ==
  /\ pc = "wait"
  /\ ready \subseteq Awaited
  /\ ready # {} \/ event_loop_info = "BLOCK" \/ (HasTimeout /\ stale)
  /\ events' = ready
  /\ pc' = IF ready = {} THEN "idle" ELSE "handlers"
  /\ UNCHANGED <<stale, shutdown, closing, input, upload, reply>>

(* The next handler that poll() asked for, or the idle handler.            *)
Handled(event) ==
  /\ events' = events \ {event}
  /\ pc' = IF events = {event} THEN "idle" ELSE "handlers"
  /\ UNCHANGED shutdown

-----------------------------------------------------------------------------
(***************************************************************************)
(* MHD_connection_handle_read.                                             *)
(***************************************************************************)
Reading == pc = "handlers" /\ "in" \in events

ReadData ==
  /\ Reading /\ state # "CLOSED" /\ sock # "rdwr"
  /\ Handled("in") /\ stale' = FALSE
  /\ \E n \in 1 .. MaxRead :
       /\ n <= budget /\ buffered + n <= MaxRead
       /\ budget' = budget - n
       /\ buffered' = buffered + n
  /\ UNCHANGED read_closed
  /\ IF read_closed /\ state \in ReceiveStates
       THEN Close("READ_ERROR")
       ELSE UNCHANGED <<state, event_loop_info, sock, request>>
  /\ UNCHANGED <<upload, reply>>

(* EINTR or EAGAIN, or the connection is closed already.                   *)
ReadNothing ==
  /\ Reading
  /\ Handled("in") /\ stale' = FALSE
  /\ UNCHANGED <<closing, input, upload, reply>>

ReadEnd ==
  /\ Reading /\ state # "CLOSED"
  /\ Handled("in") /\ stale' = FALSE
  /\ read_closed' = TRUE
  /\ Close("CLIENT_ABORT")
  /\ UNCHANGED <<input, upload, reply>>

ReadError ==
  /\ Reading /\ state # "CLOSED"
  /\ Handled("in") /\ stale' = FALSE
  /\ UNCHANGED read_closed
  /\ Close("WITH_ERROR")
  /\ UNCHANGED <<input, upload, reply>>

-----------------------------------------------------------------------------
(***************************************************************************)
(* MHD_connection_handle_write.                                            *)
(***************************************************************************)
IsGenerator == reply.response.kind = "generator"
NeedsMore == state = "NORMAL_BODY_READY" /\ IsGenerator /\ reply.left = 0

Writing == pc = "handlers" /\ "in" \notin events /\ "out" \in events

WriteError ==
  /\ Writing /\ state \in SendStates \cup {"CONTINUE_SENDING"} /\ ~NeedsMore
  /\ Handled("out") /\ stale' = FALSE
  /\ UNCHANGED read_closed
  /\ Close("WITH_ERROR")
  /\ UNCHANGED <<input, upload, reply>>

(* EAGAIN, a part of a line only, or the read handler closed.              *)
WriteNothing ==
  /\ Writing /\ ~NeedsMore
  /\ sock = "open" \/ state = "CLOSED"
  /\ Handled("out") /\ stale' = FALSE
  /\ UNCHANGED <<closing, input, upload, reply>>

WriteContinue ==
  /\ Writing /\ state = "CONTINUE_SENDING" /\ sock = "open"
  /\ Handled("out") /\ stale' = FALSE
  /\ upload' = [upload EXCEPT !.expect = FALSE]
  /\ UNCHANGED <<closing, input, reply>>

WriteHeaders ==
  /\ Writing /\ state = "HEADERS_SENDING" /\ sock = "open"
  /\ Handled("out") /\ stale' = FALSE
  /\ state' = "HEADERS_SENT"
  /\ UNCHANGED <<event_loop_info, read_closed, sock, request, input, upload, reply>>

(* try_ready_normal_body has bytes at hand: they are sent.                 *)
WriteBody ==
  /\ Writing /\ state = "NORMAL_BODY_READY" /\ sock = "open"
  /\ IsGenerator => reply.left > 0
  /\ Handled("out") /\ stale' = FALSE
  /\ \E n \in {reply.left, 1} :
       /\ n <= reply.left
       /\ reply' = [reply EXCEPT !.left = @ - n, !.delivered = @ + n]
       /\ state' = IF ~IsGenerator /\ reply.left = n THEN "FOOTERS_SENT" ELSE state
  /\ UNCHANGED <<event_loop_info, read_closed, sock, request, input, upload>>

(***************************************************************************)
(* The generator_callback, called with no byte of the response at hand.    *)
(* A HEAD request has its write position at the end of a body of unknown   *)
(* size: the callback gets no room, returns 0 when the generator holds     *)
(* data and ends the stream otherwise.                                     *)
(***************************************************************************)
MutCallbackEnds ==   \* bug: off by one at the end of the generated data
  IF upload.method = "HEAD" THEN ~reply.response.prefilled \/ reply.unmade = 0
                            ELSE reply.unmade <= 1

CallbackEnds ==
  IF upload.method = "HEAD" THEN ~reply.response.prefilled \/ reply.unmade = 0
                            ELSE reply.unmade = 0

CallbackStalls == upload.method = "HEAD" /\ ~CallbackEnds

Generated ==
  \E n \in {1, reply.unmade} :
     reply' = [reply EXCEPT !.left = n, !.unmade = @ - n]

(* try_ready_normal_body within the write handler.                         *)
WriteNeedsMore ==
  /\ Writing /\ NeedsMore
  /\ UNCHANGED read_closed
  /\ IF CallbackEnds
       THEN /\ Handled("out") /\ stale' = FALSE
            /\ CloseWith(GeneratorCall(request), "COMPLETED_OK")
            /\ UNCHANGED reply
       ELSE /\ Generated
            /\ request' = GeneratorCall(request)
            /\ UNCHANGED <<looping, state, event_loop_info, sock>>
  /\ UNCHANGED <<input, upload>>

(* POLLERR or POLLHUP.                                                     *)
HangUp ==
  /\ pc = "handlers" /\ events = {"hup"}
  /\ Handled("hup") /\ UNCHANGED <<stale, read_closed>>
  /\ Close("WITH_ERROR")
  /\ UNCHANGED <<input, upload, reply>>

-----------------------------------------------------------------------------
(***************************************************************************)
(* MHD_connection_handle_idle: one action per case of its loop.  A case    *)
(* that ends in "continue" leaves pc at "idle", one that ends in "break"   *)
(* goes on to "settle".                                                    *)
(***************************************************************************)
Idle(s) == pc = "idle" /\ state \in s

Continue == UNCHANGED looping
Break == pc' = "settle" /\ UNCHANGED <<events, stale, shutdown>>

(* get_next_header_line finds a line. *)
TakeLine == buffered > 0 /\ buffered' = buffered - 1 /\ UNCHANGED budget

RequestLine ==
  /\ Idle({"INIT"}) /\ TakeLine /\ Continue
  /\ state' = "URL_RECEIVED"
  /\ \E m \in Methods : upload' = [upload EXCEPT !.method = m]
  /\ UNCHANGED <<event_loop_info, read_closed, sock, request, reply>>

(* The arguments do not fit the pool: parse_arguments transmits an error   *)
(* response, but the caller goes on to URL_RECEIVED.                       *)
RequestLineTooLong ==
  /\ PoolFull
  /\ Idle({"INIT"}) /\ TakeLine /\ Continue
  /\ state' = "URL_RECEIVED"
  /\ read_closed' = TRUE
  /\ \E m \in Methods : upload' = [upload EXCEPT !.method = m]
  /\ reply' = [QueueResponse(reply, ErrorResponse) EXCEPT
                 !.left = IF upload'.method = "HEAD" THEN 0 ELSE @]
  /\ \E ok \in HeaderBuilt : sock' = IF ok THEN sock ELSE ShutSocket(sock, TRUE)
  /\ UNCHANGED <<event_loop_info, request>>

(* No space in the request line. *)
BadRequestLine ==
  /\ Idle({"INIT"}) /\ TakeLine /\ Continue
  /\ UNCHANGED read_closed /\ Close("WITH_ERROR")
  /\ UNCHANGED <<upload, reply>>

(* A header or footer line, or the continuation of the line before.        *)
HeaderLine ==
  /\ Idle({"URL_RECEIVED", "HEADER_PART_RECEIVED"} \cup FooterStates)
  /\ TakeLine /\ Continue
  /\ state' = IF state \in FooterStates THEN "FOOTER_PART_RECEIVED" ELSE "HEADER_PART_RECEIVED"
  /\ upload' = [upload EXCEPT !.headers = TRUE]
  /\ UNCHANGED <<event_loop_info, read_closed, sock, request, reply>>

(* The line before it does not fit the pool (process_broken_line).         *)
HeaderLineTooLong ==
  /\ PoolFull
  /\ Idle({"HEADER_PART_RECEIVED", "FOOTER_PART_RECEIVED"})
  /\ TakeLine /\ Continue
  /\ \E ok \in HeaderBuilt : TransmitError(ok)
  /\ UNCHANGED upload

MalformedHeaderLine ==
  /\ Malformed
  /\ Idle({"URL_RECEIVED", "HEADER_PART_RECEIVED"} \cup FooterStates)
  /\ TakeLine
  /\ IF state \in {"URL_RECEIVED", "BODY_RECEIVED"} THEN Break ELSE Continue
  /\ \E ok \in HeaderBuilt : CloseAndTransmitError(ok)
  /\ UNCHANGED upload

EmptyLine ==
  /\ Idle({"URL_RECEIVED", "HEADER_PART_RECEIVED"} \cup FooterStates)
  /\ TakeLine /\ Continue
  /\ state' = IF state \in FooterStates THEN "FOOTERS_RECEIVED" ELSE "HEADERS_RECEIVED"
  /\ UNCHANGED <<event_loop_info, read_closed, sock, request, upload, reply>>

(* No complete line: wait for more input, or give up when there is none.   *)
NoLine ==
  /\ Idle(HeaderStates \cup FooterStates) /\ buffered = 0
  /\ UNCHANGED read_closed
  /\ IF read_closed
       THEN Continue /\ Close("WITH_ERROR")
       ELSE Break /\ UNCHANGED <<state, event_loop_info, sock, request>>
  /\ UNCHANGED <<input, upload, reply>>

(* parse_connection_headers: the headers that say how the body is sent.    *)
BodyHeaders ==
  {[upload EXCEPT !.remaining = n, !.declared = n] : n \in Uploads \cup {0}} \cup
  (IF Chunked
     THEN {[upload EXCEPT !.remaining = MHD_SIZE_UNKNOWN, !.declared = MHD_SIZE_UNKNOWN,
                          !.chunked = chunked] : chunked \in BOOLEAN}
     ELSE {})

ParseHeaders ==
  /\ Idle({"HEADERS_RECEIVED"}) /\ Continue
  /\ state' = "HEADERS_PROCESSED"
  /\ \E u \in BodyHeaders, e \in {FALSE, Continues}, k \in BOOLEAN :
       /\ upload.headers \/ (u = [upload EXCEPT !.remaining = 0, !.declared = 0] /\ ~e)
       /\ upload' = [u EXCEPT !.expect = e, !.keepalive = k]
  /\ UNCHANGED <<event_loop_info, read_closed, sock, request, input, reply>>

(* Cookies that do not fit the pool: the state the error response put the  *)
(* connection in is overwritten.                                           *)
ParseHeadersTooLong ==
  /\ PoolFull /\ upload.headers
  /\ Idle({"HEADERS_RECEIVED"}) /\ Continue
  /\ read_closed' = TRUE
  /\ \E u \in BodyHeaders : upload' = u
  /\ reply' = QueueResponse(reply, ErrorResponse)
  /\ \/ state' = "HEADERS_PROCESSED" /\ UNCHANGED <<event_loop_info, sock, request>>
     \/ Close("WITH_ERROR")
  /\ UNCHANGED input

(* A Content-Length that is not a number. *)
BadContentLength ==
  /\ Idle({"HEADERS_RECEIVED"}) /\ upload.headers /\ Continue
  /\ UNCHANGED read_closed /\ Close("WITH_ERROR")
  /\ UNCHANGED <<input, upload, reply>>

(* The first call of the access handler creates the microhttpd_request.    *)
CallHandlerFirst ==
  LET wait100 == ~Queued /\ upload.expect
      refused == Queued /\ upload.method \in {"POST", "PUT"}
      left    == IF refused /\ ~wait100 THEN 0 ELSE upload.remaining
  IN  /\ Idle({"HEADERS_PROCESSED"})
      /\ request' = IF ~Queued THEN FirstCall(request) ELSE request
      /\ upload' = [upload EXCEPT !.remaining = left]
      /\ read_closed' = (read_closed \/ refused)
      /\ state' = CASE wait100  -> "CONTINUE_SENDING"
                    [] left = 0 -> "FOOTERS_RECEIVED"
                    [] OTHER    -> "CONTINUE_SENT"
      /\ IF wait100 THEN Break ELSE Continue
      /\ UNCHANGED <<event_loop_info, sock, input, reply>>

ContinueSent ==
  /\ Idle({"CONTINUE_SENDING"}) /\ ~upload.expect /\ Continue
  /\ state' = "CONTINUE_SENT"
  /\ UNCHANGED <<event_loop_info, read_closed, sock, request, input, upload, reply>>

-----------------------------------------------------------------------------
(***************************************************************************)
(* The body (process_request_body and the end of case CONTINUE_SENT).  The *)
(* access handler takes all n bytes it is given.                           *)
(***************************************************************************)

BodyCall(u, n) ==
  [u EXCEPT !.body = @ + n,
            !.remaining = IF @ = MHD_SIZE_UNKNOWN THEN @ ELSE (@ + W - n) % W]

MutBodyState(u) ==   \* bug: off by one in the test for a complete body
  IF u.remaining > 1 THEN "CONTINUE_SENT"
  ELSE IF u.chunked /\ ~read_closed THEN "BODY_RECEIVED" ELSE "FOOTERS_RECEIVED"

BodyState(u) ==
  IF u.remaining # 0 THEN "CONTINUE_SENT"
  ELSE IF u.chunked /\ ~read_closed THEN "BODY_RECEIVED" ELSE "FOOTERS_RECEIVED"

BodyOpen == Idle({"CONTINUE_SENT"}) /\ buffered > 0 /\ ~Queued

PlainBody ==
  /\ BodyOpen /\ ~upload.chunked
  /\ LET n == IF upload.remaining \notin {0, MHD_SIZE_UNKNOWN} /\ upload.remaining < buffered
                THEN upload.remaining ELSE buffered
     IN  /\ upload' = BodyCall(upload, n)
         /\ buffered' = buffered - n
         /\ request' = UseRequest(request)
         /\ state' = BodyState(upload')
         /\ IF upload'.remaining = 0 THEN Continue ELSE Break
  /\ UNCHANGED <<event_loop_info, read_closed, sock, budget, reply>>

(* A line with the size of the next chunk, 0 for the last one.             *)
ChunkSize ==
  /\ BodyOpen /\ upload.chunked /\ upload.chunk = 0
  /\ TakeLine
  /\ \E n \in 0 .. MaxRead :
       /\ upload' = [upload EXCEPT !.chunk = n, !.remaining = IF n = 0 THEN 0 ELSE @]
       /\ state' = BodyState(upload')
       /\ IF n > 0 /\ buffered' = 0 THEN Break ELSE Continue
  /\ UNCHANGED <<event_loop_info, read_closed, sock, request, reply>>

ChunkData ==
  /\ BodyOpen /\ upload.chunked /\ upload.chunk > 0
  /\ LET n == IF upload.chunk > buffered THEN buffered ELSE upload.chunk
     IN  /\ upload' = [BodyCall(upload, n) EXCEPT !.chunk = @ - n]
         /\ buffered' = buffered - n
         /\ request' = UseRequest(request)
         /\ IF n = buffered THEN Break ELSE Continue
  /\ UNCHANGED <<event_loop_info, state, read_closed, sock, budget, reply>>

(* A chunk size that is not a number, or a body part that the post         *)
(* processor refuses.                                                      *)
BadBody ==
  /\ BodyOpen
  /\ (upload.chunked /\ upload.chunk = 0) \/ upload.method = "POST"
  /\ UNCHANGED read_closed /\ Continue
  /\ CloseWith(UseRequest(request), "WITH_ERROR")
  /\ UNCHANGED <<input, upload, reply>>

(* Nothing to give to the handler: the body may be complete.               *)
NoBody ==
  /\ Idle({"CONTINUE_SENT"})
  /\ buffered = 0 \/ Queued
  /\ LET complete == \/ upload.remaining = 0
                     \/ upload.remaining = MHD_SIZE_UNKNOWN /\ buffered = 0 /\ read_closed
     IN  /\ IF complete THEN Continue ELSE Break
         /\ state' = IF ~complete THEN state
                     ELSE IF upload.chunked /\ ~read_closed THEN "BODY_RECEIVED"
                     ELSE "FOOTERS_RECEIVED"
  /\ UNCHANGED <<event_loop_info, read_closed, sock, request, input, upload, reply>>

-----------------------------------------------------------------------------
(***************************************************************************)
(* The complete request: the access handler logs and handles it, and the   *)
(* service responds (Respond) or fails (Refuse).                           *)
(***************************************************************************)
Respond ==
  /\ Idle({"FOOTERS_RECEIVED"}) /\ ~Queued
  /\ request' = FinalCall(request)
  /\ \E r \in ServiceResponses : reply' = QueueResponse(reply, r)
  /\ UNCHANGED <<looping, state, event_loop_info, read_closed, sock, input, upload>>

Refuse ==
  /\ Idle({"FOOTERS_RECEIVED"}) /\ ~Queued /\ Continue
  /\ UNCHANGED read_closed
  /\ CloseWith(FinalCall(request), "WITH_ERROR")
  /\ UNCHANGED <<input, upload, reply>>

BuildHeaders ==
  /\ Idle({"FOOTERS_RECEIVED"}) /\ Queued
  /\ UNCHANGED read_closed
  /\ \/ /\ state' = "HEADERS_SENDING" /\ Break
        /\ upload' = [upload EXCEPT !.chunked = FALSE]
        /\ UNCHANGED <<event_loop_info, sock, request>>
     \/ /\ PoolFull
        /\ Close("WITH_ERROR") /\ Continue
        /\ UNCHANGED upload
  /\ UNCHANGED <<input, reply>>

HeadersSent ==
  /\ Idle({"HEADERS_SENT"}) /\ Continue
  /\ state' = "NORMAL_BODY_UNREADY"
  /\ UNCHANGED <<event_loop_info, read_closed, sock, request, input, upload, reply>>

(* Case NORMAL_BODY_UNREADY with try_ready_normal_body.                    *)
EmptyBody ==
  /\ Idle({"NORMAL_BODY_UNREADY"}) /\ ~IsGenerator /\ reply.response.size = 0 /\ Continue
  /\ state' = "BODY_SENT"
  /\ UNCHANGED <<event_loop_info, read_closed, sock, request, input, upload, reply>>

BodyReady ==
  /\ Idle({"NORMAL_BODY_UNREADY"})
  /\ ~IsGenerator /\ reply.response.size > 0
  /\ Break
  /\ state' = "NORMAL_BODY_READY"
  /\ UNCHANGED <<event_loop_info, read_closed, sock, request, input, upload, reply>>

GenerateFirst ==
  /\ Idle({"NORMAL_BODY_UNREADY"}) /\ IsGenerator
  /\ UNCHANGED read_closed /\ Break
  /\ CASE CallbackEnds   -> CloseWith(GeneratorCall(request), "COMPLETED_OK") /\ UNCHANGED reply
       [] CallbackStalls -> /\ request' = GeneratorCall(request)
                            /\ UNCHANGED <<state, event_loop_info, sock, reply>>
       [] OTHER          -> /\ Generated
                            /\ request' = GeneratorCall(request)
                            /\ state' = "NORMAL_BODY_READY"
                            /\ UNCHANGED <<event_loop_info, sock>>
  /\ UNCHANGED <<input, upload>>

BodySent ==
  /\ Idle({"BODY_SENT"}) /\ Continue
  /\ UNCHANGED read_closed
  /\ \/ state' = "FOOTERS_SENT" /\ UNCHANGED <<event_loop_info, sock, request>>
     \/ PoolFull /\ Close("WITH_ERROR")
  /\ UNCHANGED <<input, upload, reply>>

(***************************************************************************)
(* Case FOOTERS_SENT: drop the response, tell the application, then close  *)
(* the connection or make it ready for another request.                    *)
(***************************************************************************)
Finish ==
  LET told  == NotifyCompleted(request, "COMPLETED_OK")
      again == ~read_closed /\ ~reply.response.close /\ upload.keepalive
  IN  /\ Idle({"FOOTERS_SENT"}) /\ Continue
      /\ reply' = [NoReply EXCEPT !.delivered = reply.delivered]
      /\ upload' = NoUpload
      /\ request' = [told EXCEPT !.context = "NULL"]
      /\ IF again
           THEN /\ state' = "INIT"
                /\ UNCHANGED <<event_loop_info, read_closed, sock, buffered>>
           ELSE /\ read_closed' = (read_closed \/ reply.response.close)
                /\ sock' = ShutSocket(sock, read_closed')
                /\ state' = "CLOSED" /\ event_loop_info' = "CLEANUP"
                /\ buffered' = 0
      /\ UNCHANGED budget

(* A case that only waits for the write handler.                           *)
IdleSending ==
  /\ Idle(SendStates) \/ (Idle({"CONTINUE_SENDING"}) /\ upload.expect)
  /\ Break
  /\ UNCHANGED <<closing, input, upload, reply>>

(* Case CLOSED: cleanup_connection, and the thread ends.                   *)
Cleanup ==
  /\ Idle({"CLOSED"})
  /\ pc' = "done"
  /\ state' = "IN_CLEANUP"
  /\ reply' = [reply EXCEPT !.response = NoResponse]
  /\ UNCHANGED <<events, stale, shutdown, event_loop_info, read_closed, sock, request,
                 input, upload>>

(***************************************************************************)
(* The end of MHD_connection_handle_idle: the timeout, and what to poll    *)
(* for next (MHD_connection_update_event_loop_info).                       *)
(***************************************************************************)
MutLoopInfo(s, readClosed) ==   \* bug: NORMAL_BODY_READY does not ask for POLLOUT
  CASE s \in {"HEADERS_SENDING", "CONTINUE_SENDING"}               -> "WRITE"
    [] s \in HeaderStates \cup FooterStates \cup {"CONTINUE_SENT"}
         /\ ~readClosed                                         -> "READ"
    [] s \in {"CLOSED"}                                         -> "CLEANUP"
    [] OTHER                                                    -> "BLOCK"

LoopInfo(s, readClosed) ==
  CASE s \in SendStates \cup {"CONTINUE_SENDING"}                -> "WRITE"
    [] s \in HeaderStates \cup FooterStates \cup {"CONTINUE_SENT"}
         /\ ~readClosed                                         -> "READ"
    [] s \in {"CLOSED"}                                         -> "CLEANUP"
    [] OTHER                                                    -> "BLOCK"

Settle ==
  /\ pc = "settle" /\ ~(HasTimeout /\ stale)
  /\ pc' = "poll"
  /\ event_loop_info' = LoopInfo(state, read_closed)
  /\ UNCHANGED <<events, stale, shutdown, state, read_closed, sock, request,
                 input, upload, reply>>

TimedOut ==
  /\ pc = "settle" /\ HasTimeout /\ stale
  /\ pc' = "poll"
  /\ UNCHANGED read_closed /\ Close("TIMEOUT_REACHED")
  /\ UNCHANGED <<events, stale, shutdown, input, upload, reply>>

(* The read buffer is full and cannot grow.                                *)
TooBig ==
  /\ pc = "settle" /\ ~(HasTimeout /\ stale)
  /\ PoolFull /\ state \in HeaderStates \cup FooterStates \cup {"CONTINUE_SENT"}
  /\ \E ok \in HeaderBuilt : TransmitError(ok)
  /\ UNCHANGED <<looping, input, upload>>

MutExit ==   \* bug: the idle handler is not called for a closed connection
  /\ pc = "exit" /\ UNCHANGED read_closed
  /\ IF state = "CLOSED"
       THEN pc' = "done" /\ UNCHANGED <<state, event_loop_info, sock, request>>
       ELSE pc' = "idle" /\ Close("DAEMON_SHUTDOWN")
  /\ UNCHANGED <<events, stale, shutdown, input, upload, reply>>

(* The thread has left its loop.                                           *)
Exit ==
  /\ pc = "exit" /\ UNCHANGED read_closed
  /\ IF state = "CLOSED"
       THEN UNCHANGED <<state, event_loop_info, sock, request>>
       ELSE Close("DAEMON_SHUTDOWN")
  /\ pc' = "idle"
  /\ UNCHANGED <<events, stale, shutdown, input, upload, reply>>

(***************************************************************************)
(* The environment: time passes, the daemon is stopped.                    *)
(***************************************************************************)
Elapse ==
  /\ HasTimeout /\ ~stale /\ pc # "done"
  /\ stale' = TRUE
  /\ UNCHANGED <<pc, events, shutdown, closing, input, upload, reply>>

StopDaemon ==
  /\ Shutdowns /\ ~shutdown /\ pc # "done"
  /\ shutdown' = TRUE
  /\ UNCHANGED <<pc, events, stale, closing, input, upload, reply>>

(* close_all_connections shuts the socket of every listed connection down. *)
ShutConnections ==
  /\ shutdown /\ sock = "open" /\ pc # "done"
  /\ sock' = ShutSocket(sock, read_closed)
  /\ UNCHANGED <<looping, state, event_loop_info, read_closed, request, input, upload, reply>>

Done == pc = "done" /\ UNCHANGED vars

Read  == ReadData \/ ReadNothing \/ ReadEnd \/ ReadError
Write == WriteError \/ WriteNothing \/ WriteContinue \/ WriteHeaders \/ WriteBody \/ WriteNeedsMore
Parse == \/ RequestLine \/ RequestLineTooLong \/ BadRequestLine \/ HeaderLine
         \/ HeaderLineTooLong \/ MalformedHeaderLine \/ EmptyLine \/ NoLine
         \/ ParseHeaders \/ ParseHeadersTooLong \/ BadContentLength
Body  == \/ CallHandlerFirst \/ ContinueSent \/ PlainBody \/ ChunkSize \/ ChunkData
         \/ BadBody \/ NoBody
Answer == \/ Respond \/ Refuse \/ BuildHeaders \/ HeadersSent \/ EmptyBody \/ BodyReady
          \/ GenerateFirst \/ BodySent \/ Finish \/ IdleSending \/ Cleanup
Loop  == \/ LoopTest \/ HangUp \/ Settle \/ TimedOut \/ TooBig \/ Exit
         \/ \E ready \in SUBSET Events : Poll(ready)

Thread == Read \/ Write \/ Parse \/ Body \/ Answer \/ Loop

Next == Thread \/ Elapse \/ StopDaemon \/ ShutConnections \/ Done

Spec == Init /\ [][Next]_vars

(***************************************************************************)
(* Fairness.  The thread runs whenever it is not blocked in poll(), and    *)
(* poll() returns when it need not wait; the daemon goes on to shut the    *)
(* sockets down.  A client that has sent its request keeps reading: poll() *)
(* reports the socket writable again and again.  A ready recv() or send()  *)
(* is not interrupted for ever.  Nothing is assumed of the timeout.        *)
(***************************************************************************)
PollReturns  == (event_loop_info = "BLOCK" \/ stale \/ sock # "open")
                  /\ \E ready \in SUBSET Events : Poll(ready)
PollWritable == \E ready \in SUBSET Events : "out" \in ready /\ Poll(ready)
Runs == Read \/ Write \/ Parse \/ Body \/ Answer \/ LoopTest \/ HangUp \/ Settle
          \/ TimedOut \/ TooBig \/ Exit \/ PollReturns
ReadProgress  == ReadData \/ ReadEnd \/ ReadError
WriteProgress == WriteContinue \/ WriteHeaders \/ WriteBody

Fairness ==
  /\ WF_vars(Runs) /\ WF_vars(ShutConnections)
  /\ SF_vars(PollWritable) /\ SF_vars(ReadProgress) /\ SF_vars(WriteProgress)

FairSpec == Spec /\ Fairness

-----------------------------------------------------------------------------
Codes == {"COMPLETED_OK", "WITH_ERROR", "TIMEOUT_REACHED", "DAEMON_SHUTDOWN",
          "READ_ERROR", "CLIENT_ABORT"}

UploadType ==
  [method: Methods \cup {"NULL"}, headers: BOOLEAN, keepalive: BOOLEAN, expect: BOOLEAN,
   remaining: 0 .. W - 1, chunked: BOOLEAN, chunk: Nat, declared: 0 .. W - 1, body: Nat]
RequestType ==
  [context: {"NULL", "live", "freed"}, aware: BOOLEAN, created: Nat, handled: Nat,
   deleted: Nat, fault: BOOLEAN, toe: Codes \cup {"none"}]
ResponseType ==
  [kind: {"none", "static", "generator", "error"}, size: Nat, close: BOOLEAN,
   prefilled: BOOLEAN]
ReplyType == [response: ResponseType, left: Nat, unmade: Nat, delivered: Nat]

(* The type invariant.                                                     *)
TypeOK ==
  /\ pc \in {"poll", "wait", "handlers", "idle", "settle", "exit", "done", "abandoned"}
  /\ events \subseteq Events
  /\ stale \in BOOLEAN /\ shutdown \in BOOLEAN /\ read_closed \in BOOLEAN
  /\ state \in States
  /\ event_loop_info \in {"READ", "WRITE", "BLOCK", "CLEANUP"}
  /\ sock \in {"open", "wr", "rdwr"}
  /\ budget \in Nat /\ buffered \in Nat
  /\ upload \in UploadType /\ request \in RequestType /\ reply \in ReplyType

(* A microhttpd_request is never used once request_completed has deleted   *)
(* it: not by the access handler, not by generator_callback and not by a   *)
(* second completion callback, although client_context keeps pointing at it.*)
NoUseAfterDelete == ~request.fault

(* When the thread of a connection ends, every microhttpd_request created  *)
(* for the connection has been deleted exactly once, whatever closed it.   *)
RequestReleased == pc = "done" => request.created = request.deleted

(***************************************************************************)
(* Why the request is safe: the flag client_aware says exactly when there  *)
(* is a live request, and the state of the connection says whether the     *)
(* handler may still be called.  This is the inductive invariant that the  *)
(* theorems about the request rest on.                                     *)
(***************************************************************************)
Early   == HeaderStates \cup {"HEADERS_RECEIVED", "HEADERS_PROCESSED"}
Serving == FooterStates \cup {"CONTINUE_SENDING", "CONTINUE_SENT", "FOOTERS_RECEIVED"}
Late    == SendStates \cup
           {"HEADERS_SENT", "NORMAL_BODY_UNREADY", "BODY_SENT", "FOOTERS_SENT"}

Owned(r) ==
  /\ ~r.fault
  /\ r.created <= 1 /\ r.handled <= r.created
  /\ r.created = r.deleted + (IF r.context = "live" THEN 1 ELSE 0)
  /\ r.aware <=> r.context = "live"

ServiceKinds == {"static", "generator"}

RequestOwned ==
  /\ Owned(request)
  /\ state \in Early => request.context = "NULL" /\ request.created = 0
  /\ state \in Serving /\ ~Queued => request.context = "live" /\ request.handled = 0
  /\ state \in Late => Queued
  /\ reply.response.kind = "error" => read_closed
  /\ reply.response.kind \in ServiceKinds =>
       /\ reply.response.close
       /\ state \in Late \cup {"FOOTERS_RECEIVED", "CLOSED", "IN_CLEANUP"}
       /\ state \in Late \cup {"FOOTERS_RECEIVED"} => request.context = "live"
  /\ state \in {"CLOSED", "IN_CLEANUP"} => ~request.aware
  /\ pc = "done" => state = "IN_CLEANUP"

(* A connection serves one request only: every response asks to close.     *)
OneRequest == request.created <= 1 /\ request.handled <= 1

(* A request is reported as completed only when every byte of its response *)
(* has been passed to the socket (no byte of the body for HEAD).           *)
CompletedIsDelivered ==
  [][request.toe # "COMPLETED_OK" /\ request'.toe = "COMPLETED_OK"
       => reply.delivered =
            (IF upload.method = "HEAD" THEN 0 ELSE reply.response.size)]_vars

(* The service handles a request with a Content-Length only when exactly   *)
(* that many bytes of the body have been given to the request.             *)
WholeBody ==
  [][request'.handled > request.handled
       => upload.declared \in {upload.body, MHD_SIZE_UNKNOWN}]_vars

(* remaining_upload_size is "How many more bytes of the body do we expect  *)
(* to read".  The code breaks this for Expect: 100-continue with a length  *)
(* of 0: it takes 0 for no limit, and the counter wraps around.            *)
RemainingIsExact ==
  state = "CONTINUE_SENT" /\ upload.declared # MHD_SIZE_UNKNOWN
    => upload.body + upload.remaining = upload.declared

(* Once the service has been called, the connection is answered or closed, *)
(* and reaches the cleanup list.                                           *)
Answered == request.handled > 0 ~> state = "IN_CLEANUP"

(* MHD_stop_daemon ends every connection: its thread ends, having put it on *)
(* the cleanup list, which is what the joining loop of                     *)
(* close_all_connections waits for.                                        *)
StopEnds == shutdown ~> state = "IN_CLEANUP"

(* A connection that is inactive for longer than the timeout again and     *)
(* again, however its client spreads its bytes, ends.                      *)
TimeoutEnds == []<>stale => <>(state = "IN_CLEANUP")

(***************************************************************************)
(* The request as RequestLifecycle promises it.                            *)
(***************************************************************************)
PhaseOf(r) ==
  CASE r.fault \/ r.handled > 1 -> "broken"
    [] r.context = "live"       -> IF r.handled = 0 THEN "open" ELSE "handled"
    [] OTHER                    -> IF r.created = 0 THEN "none" ELSE "released"

Lifecycle == INSTANCE RequestLifecycle
               WITH phase <- PhaseOf(request), ended <- (pc = "done")

(* The connection's state machine keeps the promises of RequestLifecycle.  *)
ImplementsLifecycle == Lifecycle!Spec
=============================================================================
