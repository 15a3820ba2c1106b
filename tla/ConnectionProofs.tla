------------------------- MODULE ConnectionProofs -------------------------
(***************************************************************************)
(* Proofs about Connection, for every value of its constants: the type     *)
(* invariant, the life of the microhttpd_request of a connection, and what *)
(* its counters say of the body it reads and of the response it sends.     *)
(***************************************************************************)
EXTENDS Connection, TLAPS

(* remaining_upload_size stays a number of its width.                      *)
LEMMA ModRange == \A k \in Int : k % W \in 0 .. W - 1
  BY ConnectionAssumption

(* The completion callback leaves a request of the right shape.            *)
LEMMA NotifyType ==
  ASSUME NEW r \in RequestType, NEW code \in Codes
  PROVE  NotifyCompleted(r, code) \in RequestType
<1> DEFINE done == IF r.aware THEN RequestCompleted(r) ELSE r
<1>1. RequestCompleted(r) \in RequestType
  <2>1. CASE r.context = "NULL"
    BY <2>1 DEF RequestCompleted
  <2>2. CASE r.context = "live"
    <3>1. RequestCompleted(r) = [r EXCEPT !.context = "freed", !.deleted = @ + 1]
      BY <2>2 DEF RequestCompleted
    <3>2. r.deleted + 1 \in Nat
      BY DEF RequestType
    <3> QED BY <3>1, <3>2 DEF RequestType
  <2>3. CASE r.context = "freed"
    BY <2>3 DEF RequestCompleted, RequestType
  <2>4. r.context \in {"NULL", "live", "freed"}
    BY DEF RequestType
  <2> QED BY <2>1, <2>2, <2>3, <2>4
<1>2. done \in RequestType
  BY <1>1
<1>3. (IF r.aware THEN code ELSE done.toe) \in Codes \cup {"none"}
  BY <1>2 DEF RequestType, Codes
<1> HIDE DEF done
<1> QED BY <1>2, <1>3 DEF RequestType, Codes, NotifyCompleted, done

(* So do the calls of the access handler and of generator_callback.        *)
LEMMA CallType ==
  ASSUME NEW r \in RequestType
  PROVE  /\ UseRequest(r) \in RequestType
         /\ FirstCall(r) \in RequestType
         /\ FinalCall(r) \in RequestType
         /\ GeneratorCall(r) \in RequestType
<1>1. UseRequest(r) \in RequestType
  BY DEF RequestType, UseRequest
<1>2. FirstCall(r) \in RequestType
  <2>1. r.created + 1 \in Nat
    BY DEF RequestType
  <2>2. [r EXCEPT !.aware = TRUE, !.fault = @ \/ r.context = "freed",
                  !.context = "live", !.created = @ + 1] \in RequestType
    BY <2>1 DEF RequestType
  <2> QED BY <1>1, <2>1, <2>2 DEF FirstCall, UseRequest
<1>3. FinalCall(r) \in RequestType
  BY <1>1 DEF RequestType, FinalCall
<1>4. GeneratorCall(r) \in RequestType
  BY DEF RequestType, GeneratorCall
<1> QED BY <1>1, <1>2, <1>3, <1>4

(* The responses a connection can be given.                                *)
LEMMA ResponseTypes ==
  /\ NoResponse \in ResponseType /\ ErrorResponse \in ResponseType
  /\ ServiceResponses \subseteq ResponseType
  /\ NoReply \in ReplyType /\ NoUpload \in UploadType /\ NoRequest \in RequestType
<1>1. NoResponse \in ResponseType /\ ErrorResponse \in ResponseType
  BY DEF NoResponse, ErrorResponse, ResponseType
<1>2. \A n \in BodySizes : StaticResponse(n) \in ResponseType
  BY ConnectionAssumption DEF ConnectionAssumption, StaticResponse, ResponseType
<1>3. \A n \in BodySizes, p \in {FALSE, Prefilled} : GeneratorResponse(n, p) \in ResponseType
  BY ConnectionAssumption DEF ConnectionAssumption, GeneratorResponse, ResponseType
<1>4. ServiceResponses \subseteq ResponseType
  BY <1>2, <1>3 DEF ServiceResponses
<1>5. NoReply \in ReplyType
  BY <1>1 DEF NoReply, ReplyType
<1>6. NoUpload \in UploadType
  <2>1. 0 \in 0 .. W - 1
    BY ConnectionAssumption DEF ConnectionAssumption
  <2> QED BY <2>1 DEF NoUpload, UploadType
<1>7. NoRequest \in RequestType
  BY DEF NoRequest, RequestType
<1> QED BY <1>1, <1>4, <1>5, <1>6, <1>7

(* MHD_queue_response keeps the shape of the reply.                        *)
LEMMA QueueType ==
  ASSUME NEW p \in ReplyType, NEW r \in ResponseType
  PROVE  QueueResponse(p, r) \in ReplyType
<1>1. r.size \in Nat
  BY DEF ResponseType
<1> DEFINE left == IF r.kind = "generator" \/ upload.method = "HEAD" THEN 0 ELSE r.size
           unmade == IF r.kind = "generator" THEN r.size ELSE 0
<1>2. left \in Nat /\ unmade \in Nat
  BY <1>1
<1>3. QueueResponse(p, r) =
        IF p.response.kind # "none"
          THEN p ELSE [p EXCEPT !.response = r, !.left = left, !.unmade = unmade]
  BY DEF QueueResponse
<1> HIDE DEF left, unmade
<1> QED BY <1>2, <1>3 DEF ReplyType

(* A closed connection, and one that transmits an error, is well typed.    *)
LEMMA CloseType ==
  ASSUME TypeOK, NEW r \in RequestType, NEW code \in Codes, CloseWith(r, code)
  PROVE  /\ state' \in States /\ event_loop_info' \in {"READ", "WRITE", "BLOCK", "CLEANUP"}
         /\ sock' \in {"open", "wr", "rdwr"} /\ request' \in RequestType
<1>1. ShutSocket(sock, read_closed') \in {"open", "wr", "rdwr"}
  BY DEF ShutSocket, TypeOK
<1> QED BY <1>1, NotifyType DEF CloseWith, States

LEMMA TransmitType ==
  ASSUME TypeOK, NEW ok, TransmitError(ok) \/ CloseAndTransmitError(ok)
  PROVE  /\ state' \in States /\ event_loop_info' \in {"READ", "WRITE", "BLOCK", "CLEANUP"}
         /\ sock' \in {"open", "wr", "rdwr"} /\ request' \in RequestType
         /\ read_closed' \in BOOLEAN /\ reply' \in ReplyType
<1>1. request \in RequestType /\ "WITH_ERROR" \in Codes
  BY DEF TypeOK, Codes
<1>2. QueueResponse(reply, ErrorResponse) \in ReplyType
  BY ResponseTypes, QueueType DEF TypeOK
<1>3. CASE TransmitError(ok)
  <2>1. CASE ok
    BY <1>2, <1>3, <2>1 DEF TransmitError, TypeOK, States, SendStates
  <2>2. CASE ~ok
    BY <1>1, <1>2, <1>3, <2>2, CloseType DEF TransmitError, Close
  <2> QED BY <2>1, <2>2
<1>4. CASE CloseAndTransmitError(ok)
  <2>1. ShutSocket(sock, read_closed) \in {"open", "wr", "rdwr"}
    BY DEF ShutSocket, TypeOK
  <2>2. NotifyCompleted(request, "WITH_ERROR") \in RequestType
    BY <1>1, NotifyType
  <2> QED BY <1>2, <1>4, <2>1, <2>2 DEF CloseAndTransmitError, States, SendStates
<1> QED BY <1>3, <1>4

(* Parsed headers and a part of the body leave the upload well typed.      *)
LEMMA BodyCallType ==
  ASSUME NEW u \in UploadType, NEW n \in Nat
  PROVE  BodyCall(u, n) \in UploadType
<1>1. W \in Nat /\ u.remaining \in Int /\ u.body + n \in Nat
  BY ConnectionAssumption DEF ConnectionAssumption, UploadType
<1> DEFINE left == IF u.remaining = MHD_SIZE_UNKNOWN THEN u.remaining
                     ELSE (u.remaining + W - n) % W
<1>2. left \in 0 .. W - 1
  BY <1>1, ModRange DEF UploadType
<1>3. BodyCall(u, n) = [u EXCEPT !.body = u.body + n, !.remaining = left]
  BY DEF BodyCall
<1> HIDE DEF left
<1> QED BY <1>1, <1>2, <1>3 DEF UploadType

LEMMA BodyHeadersType ==
  ASSUME TypeOK
  PROVE  /\ BodyHeaders \subseteq UploadType
         /\ \A u \in BodyHeaders, e, k \in BOOLEAN :
              [u EXCEPT !.expect = e, !.keepalive = k] \in UploadType
<1>1. \A n \in Uploads \cup {0} : n \in 0 .. W - 1
  BY ConnectionAssumption DEF ConnectionAssumption
<1>2. MHD_SIZE_UNKNOWN \in 0 .. W - 1
  BY ConnectionAssumption DEF ConnectionAssumption, MHD_SIZE_UNKNOWN
<1>3. \A n \in 0 .. W - 1 : [upload EXCEPT !.remaining = n, !.declared = n] \in UploadType
  BY DEF TypeOK, UploadType
<1>4. \A chunked \in BOOLEAN :
        [upload EXCEPT !.remaining = MHD_SIZE_UNKNOWN, !.declared = MHD_SIZE_UNKNOWN,
                       !.chunked = chunked] \in UploadType
  BY <1>2 DEF TypeOK, UploadType
<1>5. BodyHeaders \subseteq UploadType
  BY <1>1, <1>3, <1>4 DEF BodyHeaders
<1>6. \A u \in UploadType, e, k \in BOOLEAN :
        [u EXCEPT !.expect = e, !.keepalive = k] \in UploadType
  BY DEF UploadType
<1> QED BY <1>5, <1>6

(* What a generator produces leaves the reply well typed.                  *)
LEMMA GeneratedType ==
  ASSUME TypeOK, Generated, ~CallbackEnds
  PROVE  reply' \in ReplyType
<1>1. PICK n \in {1, reply.unmade} : reply' = [reply EXCEPT !.left = n, !.unmade = @ - n]
  BY DEF Generated
<1>2. reply.unmade \in Nat /\ reply.unmade # 0
  BY DEF TypeOK, ReplyType, CallbackEnds
<1>3. n \in Nat /\ reply.unmade - n \in Nat
  BY <1>1, <1>2
<1> QED BY <1>1, <1>3 DEF TypeOK, ReplyType

(* Every step of the connection keeps its variables in their types.        *)
LEMMA TypeStep ==
  ASSUME TypeOK, [Next]_vars
  PROVE  TypeOK'
<1>1. CASE Read
  <2>1. CASE ReadData
    <3>1. buffered' \in Nat /\ budget' \in Nat
      BY <2>1, ConnectionAssumption DEF ConnectionAssumption, ReadData, TypeOK
    <3>2. /\ state' \in States /\ event_loop_info' \in {"READ", "WRITE", "BLOCK", "CLEANUP"}
          /\ sock' \in {"open", "wr", "rdwr"} /\ request' \in RequestType
      BY <2>1, CloseType DEF ReadData, Close, TypeOK, Codes
    <3> QED BY <2>1, <3>1, <3>2 DEF ReadData, Reading, Handled, TypeOK
  <2>2. CASE ReadNothing
    BY <2>2 DEF ReadNothing, Reading, Handled, closing, input, TypeOK, States,
       ReceiveStates, SendStates, HeaderStates, FooterStates, Codes, looping
  <2>3. CASE ReadEnd
    BY <2>3, CloseType DEF ReadEnd, Reading, Handled, Close, input, TypeOK, States,
       ReceiveStates, SendStates, HeaderStates, FooterStates, Codes, closing, looping
  <2>4. CASE ReadError
    BY <2>4, CloseType DEF ReadError, Reading, Handled, Close, input, TypeOK, States,
       ReceiveStates, SendStates, HeaderStates, FooterStates, Codes, closing, looping
  <2> QED BY <1>1, <2>1, <2>2, <2>3, <2>4 DEF Read
<1>2. CASE Write
  <2>1. CASE WriteError
    BY <2>1, CloseType DEF WriteError, Writing, SendStates, Handled, Close, input, TypeOK,
       States, ReceiveStates, HeaderStates, FooterStates, Codes, closing, looping
  <2>2. CASE WriteNothing
    BY <2>2 DEF WriteNothing, Writing, Handled, closing, input, TypeOK, States,
       ReceiveStates, SendStates, HeaderStates, FooterStates, Codes, looping
  <2>3. CASE WriteContinue
    BY <2>3 DEF WriteContinue, Writing, Handled, closing, input, TypeOK, States,
       ReceiveStates, SendStates, HeaderStates, FooterStates, Codes, looping, UploadType
  <2>4. CASE WriteHeaders
    BY <2>4 DEF WriteHeaders, Writing, Handled, input, TypeOK, States, ReceiveStates,
       SendStates, HeaderStates, FooterStates, Codes, closing, looping
  <2>5. CASE WriteBody
    <3>1. PICK n \in {reply.left, 1} :
             /\ n <= reply.left
             /\ reply' = [reply EXCEPT !.left = @ - n, !.delivered = @ + n]
             /\ state' = IF ~IsGenerator /\ reply.left = n THEN "FOOTERS_SENT" ELSE state
      BY <2>5 DEF WriteBody
    <3>2. reply.left \in Nat /\ reply.delivered \in Nat
      BY DEF TypeOK, ReplyType
    <3>3. reply.left - n \in Nat /\ reply.delivered + n \in Nat
      BY <3>1, <3>2
    <3>4. reply' \in ReplyType
      BY <3>1, <3>3 DEF TypeOK, ReplyType
    <3>5. state' \in States
      BY <3>1 DEF TypeOK, States
    <3> QED BY <2>5, <3>4, <3>5 DEF WriteBody, Handled, TypeOK, input
  <2>6. CASE WriteNeedsMore
    <3>1. GeneratorCall(request) \in RequestType /\ "COMPLETED_OK" \in Codes
      BY CallType DEF TypeOK, Codes
    <3>2. CASE CallbackEnds
      BY <2>6, <3>1, <3>2, CloseType DEF WriteNeedsMore, Handled, input, TypeOK
    <3>3. CASE ~CallbackEnds
      BY <2>6, <3>1, <3>3, GeneratedType DEF WriteNeedsMore, looping, input, TypeOK
    <3> QED BY <3>2, <3>3
  <2> QED BY <1>2, <2>1, <2>2, <2>3, <2>4, <2>5, <2>6 DEF Write
<1>3. CASE Parse
  <2>1. CASE RequestLine
    BY <2>1 DEF RequestLine, Idle, TakeLine, Continue, looping, TypeOK, States,
       ReceiveStates, SendStates, HeaderStates, FooterStates, Codes, closing, input,
       UploadType
  <2>2. CASE RequestLineTooLong
    <3>1. upload' \in UploadType
      BY <2>2 DEF RequestLineTooLong, TypeOK, UploadType
    <3>2. QueueResponse(reply, ErrorResponse) \in ReplyType
      BY ResponseTypes, QueueType DEF TypeOK
    <3>3. reply' \in ReplyType
      BY <2>2, <3>2 DEF RequestLineTooLong, ReplyType
    <3>4. sock' \in {"open", "wr", "rdwr"}
      BY <2>2 DEF RequestLineTooLong, ShutSocket, TypeOK
    <3>5. state' \in States /\ read_closed' \in BOOLEAN /\ UNCHANGED <<event_loop_info, request>>
      BY <2>2 DEF RequestLineTooLong, States, ReceiveStates, HeaderStates
    <3>6. UNCHANGED <<pc, events, stale, shutdown, budget>> /\ buffered' \in Nat
      BY <2>2 DEF RequestLineTooLong, TakeLine, Continue, looping, TypeOK
    <3> QED BY <3>1, <3>3, <3>4, <3>5, <3>6 DEF TypeOK
  <2>3. CASE BadRequestLine
    BY <2>3, CloseType DEF BadRequestLine, Idle, TakeLine, Continue, looping, Close, TypeOK,
       States, ReceiveStates, SendStates, HeaderStates, FooterStates, Codes, closing, input
  <2>4. CASE HeaderLine
    <3>1. upload' \in UploadType
      BY <2>4 DEF HeaderLine, TypeOK, UploadType
    <3>2. state' \in States
      BY <2>4 DEF HeaderLine, States, ReceiveStates, HeaderStates, FooterStates
    <3> QED BY <2>4, <3>1, <3>2 DEF HeaderLine, TakeLine, Continue, looping, TypeOK
  <2>5. CASE HeaderLineTooLong
    BY <2>5, TransmitType DEF HeaderLineTooLong, Idle, TakeLine, Continue, looping, TypeOK,
       States, ReceiveStates, SendStates, HeaderStates, FooterStates, Codes, closing, input
  <2>6. CASE MalformedHeaderLine
    BY <2>6, TransmitType DEF MalformedHeaderLine, Idle, FooterStates, TakeLine, Break,
       Continue, looping, TypeOK, States, ReceiveStates, SendStates, HeaderStates, Codes,
       closing, input
  <2>7. CASE EmptyLine
    BY <2>7 DEF EmptyLine, Idle, FooterStates, TakeLine, Continue, looping, TypeOK, States,
       ReceiveStates, SendStates, HeaderStates, Codes, closing, input
  <2>8. CASE NoLine
    BY <2>8, CloseType DEF NoLine, Idle, HeaderStates, FooterStates, Continue, looping,
       Close, Break, input, TypeOK, States, ReceiveStates, SendStates, Codes, closing
  <2>9. CASE ParseHeaders
    <3>1. upload' \in UploadType
      <4>1. PICK u \in BodyHeaders, e \in {FALSE, Continues}, k \in BOOLEAN :
              upload' = [u EXCEPT !.expect = e, !.keepalive = k]
        BY <2>9 DEF ParseHeaders
      <4>2. e \in BOOLEAN
        BY ConnectionAssumption DEF ConnectionAssumption
      <4> QED BY <4>1, <4>2, BodyHeadersType
    <3>2. state' \in States
      BY <2>9 DEF ParseHeaders, States, ReceiveStates
    <3> QED BY <2>9, <3>1, <3>2 DEF ParseHeaders, Continue, looping, input, TypeOK
  <2>10. CASE ParseHeadersTooLong
    BY <2>10, CloseType, ResponseTypes, QueueType, BodyHeadersType DEF ParseHeadersTooLong,
       Idle, Continue, looping, Close, input, TypeOK, States, ReceiveStates, SendStates,
       HeaderStates, FooterStates, Codes, closing
  <2>11. CASE BadContentLength
    BY <2>11, CloseType DEF BadContentLength, Idle, Continue, looping, Close, input, TypeOK,
       States, ReceiveStates, SendStates, HeaderStates, FooterStates, Codes, closing
  <2> QED BY <1>3, <2>1, <2>2, <2>3, <2>4, <2>5, <2>6, <2>7, <2>8, <2>9, <2>10, <2>11 DEF
           Parse
<1>4. CASE Body
  <2>1. CASE CallHandlerFirst
    <3>1. state' \in States /\ read_closed' \in BOOLEAN
      BY <2>1 DEF CallHandlerFirst, TypeOK, States, ReceiveStates
    <3>2. request' \in RequestType
      BY <2>1, CallType DEF CallHandlerFirst, TypeOK
    <3>3. upload' \in UploadType
      <4>1. PICK n \in {0, upload.remaining} : upload' = [upload EXCEPT !.remaining = n]
        BY <2>1 DEF CallHandlerFirst
      <4>2. n \in 0 .. W - 1
        BY <4>1, ConnectionAssumption DEF ConnectionAssumption, TypeOK, UploadType
      <4> QED BY <4>1, <4>2 DEF TypeOK, UploadType
    <3>4. pc' \in {pc, "settle"} /\ UNCHANGED <<events, stale, shutdown>>
      BY <2>1 DEF CallHandlerFirst, Break, Continue, looping
    <3> QED BY <2>1, <3>1, <3>2, <3>3, <3>4 DEF CallHandlerFirst, input, TypeOK
  <2>2. CASE ContinueSent
    BY <2>2 DEF ContinueSent, Idle, Continue, looping, input, TypeOK, States, ReceiveStates,
       SendStates, HeaderStates, FooterStates, Codes, closing
  <2>3. CASE PlainBody
    <3>1. PICK n \in {upload.remaining, buffered} :
             /\ n <= buffered
             /\ upload' = BodyCall(upload, n) /\ buffered' = buffered - n
      BY <2>3 DEF PlainBody, TypeOK, UploadType
    <3>2. n \in Nat /\ buffered' \in Nat
      BY <3>1, ConnectionAssumption DEF ConnectionAssumption, TypeOK, UploadType
    <3>3. upload' \in UploadType
      BY <3>1, <3>2, BodyCallType DEF TypeOK
    <3>4. request' \in RequestType
      BY <2>3, CallType DEF PlainBody, TypeOK
    <3>5. state' \in States
      BY <2>3 DEF PlainBody, BodyState, States, ReceiveStates, FooterStates
    <3>6. pc' \in {pc, "settle"} /\ UNCHANGED <<events, stale, shutdown>>
      BY <2>3 DEF PlainBody, Break, Continue, looping
    <3> QED BY <2>3, <3>2, <3>3, <3>4, <3>5, <3>6 DEF PlainBody, TypeOK
  <2>4. CASE ChunkSize
    <3>1. PICK n \in 0 .. MaxRead :
             upload' = [upload EXCEPT !.chunk = n, !.remaining = IF n = 0 THEN 0 ELSE @]
      BY <2>4 DEF ChunkSize
    <3>2. n \in Nat /\ (IF n = 0 THEN 0 ELSE upload.remaining) \in 0 .. W - 1
      BY ConnectionAssumption DEF ConnectionAssumption, TypeOK, UploadType
    <3>3. upload' \in UploadType
      BY <3>1, <3>2 DEF TypeOK, UploadType
    <3>4. state' \in States
      BY <2>4 DEF ChunkSize, BodyState, States, ReceiveStates, FooterStates
    <3>5. pc' \in {pc, "settle"} /\ UNCHANGED <<events, stale, shutdown>>
      BY <2>4 DEF ChunkSize, Break, Continue, looping
    <3> QED BY <2>4, <3>3, <3>4, <3>5 DEF ChunkSize, TakeLine, TypeOK
  <2>5. CASE ChunkData
    <3>1. PICK n \in {upload.chunk, buffered} :
             /\ n <= buffered /\ n <= upload.chunk
             /\ upload' = [BodyCall(upload, n) EXCEPT !.chunk = @ - n]
             /\ buffered' = buffered - n
      BY <2>5 DEF ChunkData, TypeOK, UploadType
    <3>2. n \in Nat /\ buffered' \in Nat /\ upload.chunk - n \in Nat
      BY <3>1 DEF TypeOK, UploadType
    <3>3. BodyCall(upload, n) \in UploadType
      BY <3>2, BodyCallType DEF TypeOK
    <3>4. BodyCall(upload, n).chunk = upload.chunk
      BY DEF BodyCall, TypeOK, UploadType
    <3>5. upload' = [BodyCall(upload, n) EXCEPT !.chunk = upload.chunk - n]
      BY <3>1, <3>4
    <3>6. upload' \in UploadType
      BY <3>2, <3>3, <3>5 DEF UploadType
    <3>7. request' \in RequestType
      BY <2>5, CallType DEF ChunkData, TypeOK
    <3>8. pc' \in {pc, "settle"} /\ UNCHANGED <<events, stale, shutdown>>
      BY <2>5 DEF ChunkData, Break, Continue, looping
    <3> QED BY <2>5, <3>2, <3>6, <3>7, <3>8 DEF ChunkData, TypeOK
  <2>6. CASE BadBody
    BY <2>6, CloseType, CallType DEF BadBody, BodyOpen, Idle, Continue, looping, input,
       TypeOK, States, ReceiveStates, SendStates, HeaderStates, FooterStates, Codes, closing
  <2>7. CASE NoBody
    BY <2>7 DEF NoBody, Idle, Continue, looping, Break, input, TypeOK, States,
       ReceiveStates, SendStates, HeaderStates, FooterStates, Codes, closing
  <2> QED BY <1>4, <2>1, <2>2, <2>3, <2>4, <2>5, <2>6, <2>7 DEF Body
<1>5. CASE Answer
  <2>1. CASE Respond
    BY <2>1, ResponseTypes, QueueType, CallType DEF Respond, Idle, looping, input, TypeOK,
       States, ReceiveStates, SendStates, HeaderStates, FooterStates, Codes, closing
  <2>2. CASE Refuse
    BY <2>2, CloseType, CallType DEF Refuse, Idle, Continue, looping, input, TypeOK, States,
       ReceiveStates, SendStates, HeaderStates, FooterStates, Codes, closing
  <2>3. CASE BuildHeaders
    BY <2>3, CloseType DEF BuildHeaders, Idle, Break, Close, Continue, looping, input,
       TypeOK, States, ReceiveStates, SendStates, HeaderStates, FooterStates, Codes,
       closing, UploadType
  <2>4. CASE HeadersSent
    BY <2>4 DEF HeadersSent, Idle, Continue, looping, input, TypeOK, States, ReceiveStates,
       SendStates, HeaderStates, FooterStates, Codes, closing
  <2>5. CASE EmptyBody
    BY <2>5 DEF EmptyBody, Idle, Continue, looping, input, TypeOK, States, ReceiveStates,
       SendStates, HeaderStates, FooterStates, Codes, closing
  <2>6. CASE BodyReady
    BY <2>6 DEF BodyReady, Idle, Break, input, TypeOK, States, ReceiveStates, SendStates,
       HeaderStates, FooterStates, Codes, closing, looping
  <2>7. CASE GenerateFirst
    BY <2>7, CloseType, CallType, GeneratedType DEF GenerateFirst, Idle, Break, input,
       TypeOK, States, ReceiveStates, SendStates, HeaderStates, FooterStates, Codes,
       closing, looping
  <2>8. CASE BodySent
    BY <2>8, CloseType DEF BodySent, Idle, Continue, looping, Close, input, TypeOK, States,
       ReceiveStates, SendStates, HeaderStates, FooterStates, Codes, closing
  <2>9. CASE Finish
    <3>1. NotifyCompleted(request, "COMPLETED_OK") \in RequestType
      BY NotifyType DEF TypeOK, Codes
    <3>2. request' \in RequestType
      BY <2>9, <3>1 DEF Finish, RequestType
    <3>3. reply' \in ReplyType
      BY <2>9, ResponseTypes DEF Finish, TypeOK, ReplyType
    <3>4. reply.response.close \in BOOLEAN
      BY DEF TypeOK, ReplyType, ResponseType
    <3>5. /\ state' \in States /\ event_loop_info' \in {"READ", "WRITE", "BLOCK", "CLEANUP"}
          /\ sock' \in {"open", "wr", "rdwr"} /\ read_closed' \in BOOLEAN /\ buffered' \in Nat
      BY <2>9, <3>4 DEF Finish, ShutSocket, TypeOK, States, ReceiveStates, HeaderStates
    <3> QED BY <2>9, <3>2, <3>3, <3>5, ResponseTypes DEF Finish, Continue, looping, TypeOK
  <2>10. CASE IdleSending
    BY <2>10 DEF IdleSending, Idle, SendStates, Break, closing, input, TypeOK, States,
       ReceiveStates, HeaderStates, FooterStates, Codes, looping
  <2>11. CASE Cleanup
    BY <2>11, ResponseTypes DEF Cleanup, Idle, input, TypeOK, States, ReceiveStates,
       SendStates, HeaderStates, FooterStates, Codes, closing, looping, ReplyType
  <2> QED BY <1>5, <2>1, <2>2, <2>3, <2>4, <2>5, <2>6, <2>7, <2>8, <2>9, <2>10, <2>11 DEF
           Answer
<1>6. CASE Loop
  <2>1. CASE LoopTest
    BY <2>1 DEF LoopTest, closing, input, TypeOK, States, ReceiveStates, SendStates,
       HeaderStates, FooterStates, Codes, looping
  <2>2. CASE HangUp
    BY <2>2, CloseType DEF HangUp, Handled, Close, input, TypeOK, States, ReceiveStates,
       SendStates, HeaderStates, FooterStates, Codes, closing, looping
  <2>3. CASE Settle
    BY <2>3 DEF Settle, LoopInfo, SendStates, HeaderStates, FooterStates, input, TypeOK,
       States, ReceiveStates, Codes, closing, looping
  <2>4. CASE TimedOut
    BY <2>4, CloseType DEF TimedOut, Close, input, TypeOK, States, ReceiveStates,
       SendStates, HeaderStates, FooterStates, Codes, closing, looping
  <2>5. CASE TooBig
    BY <2>5, TransmitType DEF TooBig, HeaderStates, FooterStates, looping, input, TypeOK,
       States, ReceiveStates, SendStates, Codes, closing
  <2>6. CASE Exit
    BY <2>6, CloseType DEF Exit, Close, input, TypeOK, States, ReceiveStates, SendStates,
       HeaderStates, FooterStates, Codes, closing, looping
  <2>7. CASE \E ready \in SUBSET Events : Poll(ready)
    BY <2>7 DEF Poll, closing, input, TypeOK, Awaited, Events
  <2> QED BY <1>6, <2>1, <2>2, <2>3, <2>4, <2>5, <2>6, <2>7 DEF Loop
<1>7. CASE Elapse
  BY <1>7 DEF Elapse, closing, input, TypeOK, States, ReceiveStates, SendStates,
     HeaderStates, FooterStates, Codes, looping
<1>8. CASE StopDaemon
  BY <1>8 DEF StopDaemon, closing, input, TypeOK, States, ReceiveStates, SendStates,
     HeaderStates, FooterStates, Codes, looping
<1>9. CASE ShutConnections
  BY <1>9 DEF ShutConnections, ShutSocket, looping, input, TypeOK, States, ReceiveStates,
     SendStates, HeaderStates, FooterStates, Codes, closing
<1>10. CASE Done \/ UNCHANGED vars
  BY <1>10 DEF Done, vars, looping, closing, input, TypeOK
<1> QED BY <1>1, <1>2, <1>3, <1>4, <1>5, <1>6, <1>7, <1>8, <1>9, <1>10 DEF Next, Thread

(* The variables of a connection keep their types.                         *)
THEOREM TypeCorrect == Spec => []TypeOK
<1>1. Init => TypeOK
  <2>1. MaxUnits \in Nat
    BY ConnectionAssumption DEF ConnectionAssumption
  <2>2. "INIT" \in States
    BY DEF States, ReceiveStates, HeaderStates
  <2>3. SUFFICES ASSUME Init PROVE TypeOK
    OBVIOUS
  <2>4. upload \in UploadType /\ request \in RequestType /\ reply \in ReplyType
    BY <2>3, ResponseTypes DEF Init
  <2> QED BY <2>1, <2>2, <2>3, <2>4 DEF Init, TypeOK
<1> QED BY <1>1, TypeStep, PTL DEF Spec

-----------------------------------------------------------------------------
(***************************************************************************)
(* RequestOwned is inductive, so a request is never used after it has been *)
(* deleted, is handled at most once and is released before the thread      *)
(* ends; and the connection implements RequestLifecycle.                   *)
(***************************************************************************)
(* The completion callback on an owned request deletes it if there is one. *)
LEMMA NotifyOwned ==
  ASSUME NEW r \in RequestType, NEW code \in Codes, Owned(r)
  PROVE  /\ Owned(NotifyCompleted(r, code))
         /\ ~NotifyCompleted(r, code).aware
         /\ NotifyCompleted(r, code).context = (IF r.context = "live" THEN "freed" ELSE r.context)
         /\ NotifyCompleted(r, code).created = r.created
         /\ NotifyCompleted(r, code).handled = r.handled
<1> DEFINE n == NotifyCompleted(r, code)
<1>1. CASE r.context = "live"
  <2>1. r.aware /\ ~r.fault
    BY <1>1 DEF Owned
  <2>2. RequestCompleted(r) = [r EXCEPT !.context = "freed", !.deleted = r.deleted + 1]
    BY <1>1 DEF RequestCompleted
  <2>3. n = [r EXCEPT !.context = "freed", !.deleted = r.deleted + 1,
                      !.aware = FALSE, !.toe = code]
    BY <2>1, <2>2 DEF NotifyCompleted, RequestType
  <2>4. /\ n.context = "freed" /\ n.deleted = r.deleted + 1 /\ ~n.aware /\ ~n.fault
        /\ n.created = r.created /\ n.handled = r.handled
    BY <2>1, <2>3 DEF RequestType
  <2> QED BY <1>1, <2>4 DEF Owned, RequestType
<1>2. CASE r.context # "live"
  <2>1. ~r.aware /\ ~r.fault
    BY <1>2 DEF Owned
  <2>2. n = [r EXCEPT !.aware = FALSE, !.toe = r.toe]
    BY <2>1 DEF NotifyCompleted
  <2>3. n = r
    BY <2>1, <2>2 DEF RequestType
  <2> QED BY <1>2, <2>1, <2>3
<1> QED BY <1>1, <1>2

(* Calls on a live request change nothing but the number of times the      *)
(* service has handled it; the first call makes the request live.          *)
LEMMA UseOwned ==
  ASSUME NEW r \in RequestType, Owned(r), r.context = "live"
  PROVE  UseRequest(r) = r /\ GeneratorCall(r) = r
<1>1. r.aware /\ ~r.fault /\ r.aware \in BOOLEAN /\ r.fault \in BOOLEAN
  BY DEF Owned, RequestType
<1>2. UseRequest(r) = [r EXCEPT !.aware = TRUE, !.fault = FALSE]
  BY <1>1 DEF UseRequest
<1>3. GeneratorCall(r) = [r EXCEPT !.fault = FALSE]
  BY <1>1 DEF GeneratorCall
<1>4. UseRequest(r) = r
  BY <1>1, <1>2 DEF RequestType
<1>5. GeneratorCall(r) = r
  BY <1>1, <1>3 DEF RequestType
<1> QED BY <1>4, <1>5

LEMMA FinalOwned ==
  ASSUME NEW r \in RequestType, Owned(r), r.context = "live", r.handled = 0
  PROVE  /\ Owned(FinalCall(r)) /\ FinalCall(r).context = "live"
         /\ FinalCall(r).handled = 1 /\ FinalCall(r).created = r.created
<1>1. FinalCall(r) = [r EXCEPT !.handled = 1]
  BY UseOwned DEF FinalCall
<1>2. r.created = 1
  BY DEF Owned, RequestType
<1> QED BY <1>1, <1>2 DEF Owned, RequestType

LEMMA FirstOwned ==
  ASSUME NEW r \in RequestType, Owned(r), r.context = "NULL", r.created = 0
  PROVE  /\ Owned(FirstCall(r)) /\ FirstCall(r).context = "live"
         /\ FirstCall(r).handled = 0
<1>1. UseRequest(r) = [r EXCEPT !.aware = TRUE, !.fault = FALSE]
  BY DEF UseRequest, Owned
<1>2. FirstCall(r) = [UseRequest(r) EXCEPT !.context = "live", !.created = @ + 1]
  BY DEF FirstCall
<1>3. /\ FirstCall(r).context = "live" /\ FirstCall(r).aware /\ ~FirstCall(r).fault
      /\ FirstCall(r).created = 1 /\ FirstCall(r).handled = r.handled
      /\ FirstCall(r).deleted = r.deleted
  BY <1>1, <1>2 DEF RequestType
<1>4. r.handled = 0 /\ r.deleted = 0
  BY DEF Owned, RequestType
<1> QED BY <1>3, <1>4 DEF Owned

(* A connection that is being closed owns no request any more.             *)
LEMMA CloseOwned ==
  ASSUME TypeOK, TypeOK', RequestOwned, NEW r \in RequestType, Owned(r), NEW code \in Codes,
         CloseWith(r, code), pc' # "done", read_closed => read_closed',
         reply'.response = reply.response
  PROVE  RequestOwned'
<1>1. Owned(request') /\ ~request'.aware /\ state' = "CLOSED"
  BY NotifyOwned DEF CloseWith
<1>2. Owned(request)' = Owned(request')
  BY DEF Owned
<1>3. state' \notin Early /\ state' \notin Serving /\ state' \notin Late
  BY <1>1 DEF Early, Serving, Late, HeaderStates, FooterStates, SendStates
<1> QED BY <1>1, <1>2, <1>3 DEF RequestOwned, Queued

(* The error response a connection queues while it reads a request.        *)
LEMMA ErrorQueued ==
  ASSUME TypeOK, RequestOwned, state \in (Early \cup Serving) \ {"FOOTERS_RECEIVED"}
  PROVE  QueueResponse(reply, ErrorResponse).response.kind = "error"
<1>1. reply.response.kind \in {"none", "error"}
  BY DEF TypeOK, ReplyType, ResponseType, RequestOwned, ServiceKinds, Early, Serving, Late,
         HeaderStates, FooterStates, SendStates
<1>2. ErrorResponse.kind = "error"
  BY DEF ErrorResponse
<1> QED BY <1>1, <1>2 DEF QueueResponse, TypeOK, ReplyType

(* It owns none or the one it had while it sends an error response.        *)
LEMMA TransmitOwned ==
  ASSUME TypeOK, TypeOK', RequestOwned,
         state \in Early \cup Serving, state # "FOOTERS_RECEIVED",
         NEW ok, TransmitError(ok) \/ CloseAndTransmitError(ok), pc' # "done"
  PROVE  RequestOwned'
<1>1. reply'.response.kind = "error" /\ read_closed'
  BY ErrorQueued DEF TransmitError, CloseAndTransmitError
<1>2. Owned(request')
  BY NotifyOwned DEF TransmitError, CloseAndTransmitError, Close, CloseWith, RequestOwned,
                     TypeOK, Codes
<1>3. \/ state' = "HEADERS_SENDING"
      \/ state' = "CLOSED" /\ ~request'.aware
  BY NotifyOwned DEF TransmitError, CloseAndTransmitError, Close, CloseWith, RequestOwned,
                     TypeOK, Codes
<1>4. state' \notin Early /\ state' \notin Serving
  BY <1>3 DEF Early, Serving, HeaderStates, FooterStates
<1>5. Owned(request)' = Owned(request')
  BY DEF Owned
<1> QED BY <1>1, <1>2, <1>3, <1>4, <1>5 DEF RequestOwned, Queued, ServiceKinds

(* A response that has been queued, or generated further, is the same.     *)
LEMMA SameResponse ==
  ASSUME TypeOK, Generated
  PROVE  reply'.response = reply.response
BY DEF Generated, TypeOK, ReplyType

(* The calls with a part of the body.                                      *)
LEMMA BodyOwned ==
  ASSUME TypeOK, RequestOwned, state = "CONTINUE_SENT", ~Queued,
         UNCHANGED <<reply, read_closed>>, pc' # "done", request' = UseRequest(request),
         state' \in {"CONTINUE_SENT", "BODY_RECEIVED", "FOOTERS_RECEIVED"}
  PROVE  RequestOwned'
<1>1. /\ Owned(request) /\ request \in RequestType
      /\ request.context = "live" /\ request.handled = 0
  BY DEF RequestOwned, TypeOK, Serving
<1>2. UNCHANGED request
  BY <1>1, UseOwned
<1>3. state' \notin Early /\ state' \notin Late
  BY DEF Early, Late, HeaderStates, SendStates
<1> QED BY <1>1, <1>2, <1>3 DEF RequestOwned, Owned, Queued, ServiceKinds

(* Every step of the connection keeps its request owned.                   *)
LEMMA OwnedStep ==
  ASSUME TypeOK, TypeOK', RequestOwned, [Next]_vars
  PROVE  RequestOwned'
<1>1. CASE Read
  <2>1. CASE ReadData
    BY <2>1, CloseOwned DEF ReadData, Reading, Handled, ReceiveStates, HeaderStates,
       FooterStates, Close, RequestOwned, Owned, Queued, Early, Serving, Late, ServiceKinds,
       SendStates, TypeOK, Codes, looping
  <2>2. CASE ReadNothing
    BY <2>2 DEF ReadNothing, Reading, Handled, closing, input, RequestOwned, Owned, Queued,
       Early, Serving, Late, ServiceKinds, HeaderStates, FooterStates, SendStates, looping
  <2>3. CASE ReadEnd
    BY <2>3, CloseOwned DEF ReadEnd, Reading, Handled, Close, input, RequestOwned, Owned,
       Queued, Early, Serving, Late, ServiceKinds, HeaderStates, FooterStates, SendStates,
       TypeOK, Codes, looping
  <2>4. CASE ReadError
    BY <2>4, CloseOwned DEF ReadError, Reading, Handled, Close, input, RequestOwned, Owned,
       Queued, Early, Serving, Late, ServiceKinds, HeaderStates, FooterStates, SendStates,
       TypeOK, Codes, looping
  <2> QED BY <1>1, <2>1, <2>2, <2>3, <2>4 DEF Read
<1>2. CASE Write
  <2>1. CASE WriteError
    BY <2>1, CloseOwned DEF WriteError, Writing, SendStates, Handled, Close, input,
       RequestOwned, Owned, Queued, Early, Serving, Late, ServiceKinds, HeaderStates,
       FooterStates, TypeOK, Codes, looping
  <2>2. CASE WriteNothing
    BY <2>2 DEF WriteNothing, Writing, Handled, closing, input, RequestOwned, Owned, Queued,
       Early, Serving, Late, ServiceKinds, HeaderStates, FooterStates, SendStates, looping
  <2>3. CASE WriteContinue
    BY <2>3 DEF WriteContinue, Writing, Handled, closing, input, RequestOwned, Owned,
       Queued, Early, Serving, Late, ServiceKinds, HeaderStates, FooterStates, SendStates,
       looping
  <2>4. CASE WriteHeaders
    BY <2>4 DEF WriteHeaders, Writing, Handled, input, RequestOwned, Owned, Queued, Early,
       Serving, Late, ServiceKinds, HeaderStates, FooterStates, SendStates, looping
  <2>5. CASE WriteBody
    BY <2>5 DEF WriteBody, Writing, IsGenerator, Handled, input, RequestOwned, Owned,
       Queued, Early, Serving, Late, ServiceKinds, HeaderStates, FooterStates, SendStates,
       looping
  <2>6. CASE WriteNeedsMore
    <3>1. request.context = "live" /\ state = "NORMAL_BODY_READY" /\ request \in RequestType
      BY <2>6 DEF WriteNeedsMore, NeedsMore, IsGenerator, RequestOwned, ServiceKinds, Late,
                  SendStates, TypeOK
    <3>2. Owned(request) /\ GeneratorCall(request) = request
      BY <3>1, UseOwned DEF RequestOwned
    <3>3. CASE CallbackEnds
      <4>1. /\ CloseWith(request, "COMPLETED_OK") /\ pc' # "done"
            /\ UNCHANGED <<read_closed, reply>>
        BY <2>6, <3>2, <3>3 DEF WriteNeedsMore, Handled
      <4> QED BY <3>1, <3>2, <4>1, CloseOwned DEF Codes
    <3>4. CASE ~CallbackEnds
      <4>1. UNCHANGED <<pc, state, read_closed, request>> /\ Generated
        BY <2>6, <3>2, <3>4 DEF WriteNeedsMore, looping
      <4> QED BY <4>1, SameResponse DEF RequestOwned, Owned, Queued
    <3> QED BY <3>3, <3>4
  <2> QED BY <1>2, <2>1, <2>2, <2>3, <2>4, <2>5, <2>6 DEF Write
<1>3. CASE Parse
  <2>1. CASE RequestLine
    BY <2>1 DEF RequestLine, Idle, Continue, RequestOwned, Owned, Queued, Early, Serving,
       Late, ServiceKinds, HeaderStates, FooterStates, SendStates, looping
  <2>2. CASE RequestLineTooLong
    <3>1. /\ state \in Early /\ state' \in Early /\ state' = "URL_RECEIVED"
          /\ UNCHANGED <<pc, request>> /\ read_closed'
          /\ reply'.response = QueueResponse(reply, ErrorResponse).response
      <4>1. QueueResponse(reply, ErrorResponse) \in ReplyType
        BY QueueType, ResponseTypes DEF TypeOK
      <4> QED BY <2>2, <4>1 DEF RequestLineTooLong, Idle, Continue, looping, Early,
                                HeaderStates, ReplyType
    <3>2. reply'.response.kind = "error"
      BY <2>2, <3>1, ErrorQueued DEF RequestLineTooLong, Idle
    <3>3. state' \notin Serving /\ state' \notin Late
      BY <3>1 DEF Serving, Late, FooterStates, SendStates
    <3> QED BY <2>2, <3>1, <3>2, <3>3 DEF RequestLineTooLong, Idle, RequestOwned, Owned, Queued,
                                          ServiceKinds
  <2>3. CASE BadRequestLine
    BY <2>3, CloseOwned DEF BadRequestLine, Idle, Continue, Close, RequestOwned, Owned,
       Queued, Early, Serving, Late, ServiceKinds, HeaderStates, FooterStates, SendStates,
       TypeOK, Codes, looping
  <2>4. CASE HeaderLine
    BY <2>4 DEF HeaderLine, Idle, FooterStates, Continue, RequestOwned, Owned, Queued,
       Early, Serving, Late, ServiceKinds, HeaderStates, SendStates, looping
  <2>5. CASE HeaderLineTooLong
    <3>1. /\ state \in Early \cup Serving /\ state # "FOOTERS_RECEIVED" /\ pc' # "done"
          /\ \E ok \in HeaderBuilt : TransmitError(ok)
      BY <2>5 DEF HeaderLineTooLong, Idle, Continue, looping, Early, Serving, HeaderStates,
                  FooterStates
    <3> QED BY <3>1, TransmitOwned
  <2>6. CASE MalformedHeaderLine
    <3>1. /\ state \in Early \cup Serving /\ state # "FOOTERS_RECEIVED" /\ pc' # "done"
          /\ \E ok \in HeaderBuilt : CloseAndTransmitError(ok)
      BY <2>6 DEF MalformedHeaderLine, Idle, Continue, Break, looping, Early, Serving,
                  HeaderStates, FooterStates
    <3> QED BY <3>1, TransmitOwned
  <2>7. CASE EmptyLine
    BY <2>7 DEF EmptyLine, Idle, FooterStates, Continue, RequestOwned, Owned, Queued, Early,
       Serving, Late, ServiceKinds, HeaderStates, SendStates, looping
  <2>8. CASE NoLine
    BY <2>8, CloseOwned DEF NoLine, Idle, HeaderStates, FooterStates, Continue, Close,
       Break, input, RequestOwned, Owned, Queued, Early, Serving, Late, ServiceKinds,
       SendStates, TypeOK, Codes, looping
  <2>9. CASE ParseHeaders
    BY <2>9 DEF ParseHeaders, Idle, Continue, input, RequestOwned, Owned, Queued, Early,
       Serving, Late, ServiceKinds, HeaderStates, FooterStates, SendStates, looping
  <2>10. CASE ParseHeadersTooLong
    <3>1. /\ state \in Early /\ state = "HEADERS_RECEIVED" /\ pc' # "done" /\ read_closed'
          /\ reply' = QueueResponse(reply, ErrorResponse)
      BY <2>10 DEF ParseHeadersTooLong, Idle, Continue, looping, Early
    <3>2. reply'.response.kind = "error"
      BY <3>1, ErrorQueued
    <3>3. Owned(request')
      BY <2>10, NotifyOwned DEF ParseHeadersTooLong, Close, CloseWith, RequestOwned, TypeOK, Codes
    <3>4. Owned(request)' = Owned(request')
      BY DEF Owned
    <3>5. CASE state' = "HEADERS_PROCESSED" /\ UNCHANGED request
      <4>1. state' \notin Serving /\ state' \notin Late
        BY <3>5 DEF Serving, Late, FooterStates, SendStates
      <4> QED BY <3>1, <3>2, <3>3, <3>4, <3>5, <4>1 DEF RequestOwned, Queued, ServiceKinds
    <3>6. CASE Close("WITH_ERROR")
      <4>1. state' = "CLOSED" /\ ~request'.aware
        BY <3>6, NotifyOwned DEF Close, CloseWith, RequestOwned, TypeOK, Codes
      <4>2. state' \notin Early /\ state' \notin Serving /\ state' \notin Late
        BY <4>1 DEF Early, Serving, Late, HeaderStates, FooterStates, SendStates
      <4> QED BY <3>1, <3>2, <3>3, <3>4, <4>1, <4>2 DEF RequestOwned, Queued, ServiceKinds
    <3> QED BY <2>10, <3>5, <3>6 DEF ParseHeadersTooLong
  <2>11. CASE BadContentLength
    BY <2>11, CloseOwned DEF BadContentLength, Idle, Continue, Close, input, RequestOwned,
       Owned, Queued, Early, Serving, Late, ServiceKinds, HeaderStates, FooterStates,
       SendStates, TypeOK, Codes, looping
  <2> QED BY <1>3, <2>1, <2>2, <2>3, <2>4, <2>5, <2>6, <2>7, <2>8, <2>9, <2>10, <2>11 DEF
           Parse
<1>4. CASE Body
  <2>1. CASE CallHandlerFirst
    <3>1. /\ state = "HEADERS_PROCESSED" /\ UNCHANGED reply /\ pc' # "done"
          /\ read_closed => read_closed'
          /\ state' \in {"CONTINUE_SENDING", "CONTINUE_SENT", "FOOTERS_RECEIVED"}
      BY <2>1 DEF CallHandlerFirst, Idle, Break, Continue, looping
    <3>2. state \in Early /\ state' \notin Early /\ state' \notin Late
      BY <3>1 DEF Early, Late, HeaderStates, SendStates
    <3>3. Owned(request) /\ request \in RequestType /\ request.context = "NULL"
          /\ request.created = 0
      BY <3>2 DEF RequestOwned, TypeOK
    <3>4. Owned(request)' = Owned(request')
      BY DEF Owned
    <3>5. CASE ~Queued
      <4>1. Owned(request') /\ request'.context = "live" /\ request'.handled = 0
        BY <2>1, <3>3, <3>5, FirstOwned DEF CallHandlerFirst
      <4>2. reply'.response.kind = "none"
        BY <3>1, <3>5 DEF Queued
      <4> QED BY <3>1, <3>2, <3>4, <4>1, <4>2 DEF RequestOwned, Queued, ServiceKinds
    <3>6. CASE Queued
      <4>1. UNCHANGED request
        BY <2>1, <3>6 DEF CallHandlerFirst
      <4>2. reply.response.kind \notin ServiceKinds
        BY <3>1 DEF RequestOwned, Late, SendStates
      <4> QED BY <3>1, <3>2, <3>3, <3>4, <3>6, <4>1, <4>2 DEF RequestOwned, Queued
    <3> QED BY <3>5, <3>6
  <2>2. CASE ContinueSent
    BY <2>2 DEF ContinueSent, Idle, Continue, input, RequestOwned, Owned, Queued, Early,
       Serving, Late, ServiceKinds, HeaderStates, FooterStates, SendStates, looping
  <2>3. CASE PlainBody
    <3>1. /\ state = "CONTINUE_SENT" /\ ~Queued /\ UNCHANGED <<reply, read_closed>>
          /\ pc' # "done" /\ request' = UseRequest(request)
          /\ state' \in {"CONTINUE_SENT", "BODY_RECEIVED", "FOOTERS_RECEIVED"}
      BY <2>3 DEF PlainBody, BodyOpen, Idle, BodyState, Break, Continue, looping
    <3> QED BY <3>1, BodyOwned
  <2>4. CASE ChunkSize
    BY <2>4 DEF ChunkSize, BodyOpen, Idle, Queued, BodyState, Break, Continue, RequestOwned,
       Owned, Early, Serving, Late, ServiceKinds, HeaderStates, FooterStates, SendStates,
       looping
  <2>5. CASE ChunkData
    <3>1. /\ state = "CONTINUE_SENT" /\ ~Queued /\ UNCHANGED <<reply, read_closed>>
          /\ pc' # "done" /\ request' = UseRequest(request)
          /\ state' \in {"CONTINUE_SENT", "BODY_RECEIVED", "FOOTERS_RECEIVED"}
      BY <2>5 DEF ChunkData, BodyOpen, Idle, Break, Continue, looping
    <3> QED BY <3>1, BodyOwned
  <2>6. CASE BadBody
    <3>1. /\ state = "CONTINUE_SENT" /\ ~Queued /\ UNCHANGED <<reply, read_closed>>
          /\ pc' # "done" /\ CloseWith(UseRequest(request), "WITH_ERROR")
      BY <2>6 DEF BadBody, BodyOpen, Idle, Continue, looping
    <3>2. Owned(request) /\ request \in RequestType /\ request.context = "live"
      BY <3>1 DEF RequestOwned, TypeOK, Serving
    <3>3. UseRequest(request) = request
      BY <3>2, UseOwned
    <3> QED BY <3>1, <3>2, <3>3, CloseOwned DEF Codes
  <2>7. CASE NoBody
    BY <2>7 DEF NoBody, Idle, Queued, Continue, Break, input, RequestOwned, Owned, Early,
       Serving, Late, ServiceKinds, HeaderStates, FooterStates, SendStates, looping
  <2> QED BY <1>4, <2>1, <2>2, <2>3, <2>4, <2>5, <2>6, <2>7 DEF Body
<1>5. CASE Answer
  <2>1. CASE Respond
    <3>1. /\ state = "FOOTERS_RECEIVED" /\ ~Queued /\ UNCHANGED <<pc, state, read_closed>>
          /\ request' = FinalCall(request)
          /\ \E r \in ServiceResponses : reply' = QueueResponse(reply, r)
      BY <2>1 DEF Respond, Idle, looping
    <3>2. Owned(request) /\ request \in RequestType /\ request.context = "live"
          /\ request.handled = 0
      BY <3>1 DEF RequestOwned, TypeOK, Serving
    <3>3. Owned(request') /\ request'.context = "live"
      BY <3>1, <3>2, FinalOwned
    <3>4. Owned(request)' = Owned(request')
      BY DEF Owned
    <3>5. PICK r \in ServiceResponses : reply' = QueueResponse(reply, r)
      BY <3>1
    <3>6. r.kind \in ServiceKinds /\ r.close
      BY DEF ServiceResponses, StaticResponse, GeneratorResponse, ServiceKinds
    <3>7. reply'.response = r
      BY <3>1, <3>5 DEF QueueResponse, Queued, TypeOK, ReplyType
    <3>8. state \notin Early /\ state \notin Late /\ pc # "done"
      BY <2>1, <3>1 DEF Respond, Idle, Early, Late, HeaderStates, SendStates
    <3> QED BY <3>1, <3>3, <3>4, <3>6, <3>7, <3>8 DEF RequestOwned, Queued, ServiceKinds
  <2>2. CASE Refuse
    <3>1. /\ state = "FOOTERS_RECEIVED" /\ ~Queued /\ UNCHANGED <<read_closed, reply>>
          /\ pc' # "done" /\ CloseWith(FinalCall(request), "WITH_ERROR")
      BY <2>2 DEF Refuse, Idle, Continue, looping
    <3>2. Owned(request) /\ request \in RequestType /\ request.context = "live"
          /\ request.handled = 0
      BY <3>1 DEF RequestOwned, TypeOK, Serving
    <3>3. Owned(FinalCall(request)) /\ FinalCall(request) \in RequestType
      BY <3>2, FinalOwned, CallType
    <3> QED BY <3>1, <3>3, CloseOwned DEF Codes
  <2>3. CASE BuildHeaders
    BY <2>3, CloseOwned DEF BuildHeaders, Idle, Queued, Break, Close, Continue, input,
       RequestOwned, Owned, Early, Serving, Late, ServiceKinds, HeaderStates, FooterStates,
       SendStates, TypeOK, Codes, looping
  <2>4. CASE HeadersSent
    BY <2>4 DEF HeadersSent, Idle, Continue, input, RequestOwned, Owned, Queued, Early,
       Serving, Late, ServiceKinds, HeaderStates, FooterStates, SendStates, looping
  <2>5. CASE EmptyBody
    BY <2>5 DEF EmptyBody, Idle, IsGenerator, Continue, input, RequestOwned, Owned, Queued,
       Early, Serving, Late, ServiceKinds, HeaderStates, FooterStates, SendStates, looping
  <2>6. CASE BodyReady
    BY <2>6 DEF BodyReady, Idle, IsGenerator, Break, input, RequestOwned, Owned, Queued,
       Early, Serving, Late, ServiceKinds, HeaderStates, FooterStates, SendStates, looping
  <2>7. CASE GenerateFirst
    <3>1. request.context = "live" /\ state = "NORMAL_BODY_UNREADY" /\ request \in RequestType
      BY <2>7 DEF GenerateFirst, Idle, IsGenerator, RequestOwned, ServiceKinds, Late, TypeOK
    <3>2. Owned(request) /\ GeneratorCall(request) = request
      BY <3>1, UseOwned DEF RequestOwned
    <3>3. pc' # "done" /\ UNCHANGED read_closed
      BY <2>7 DEF GenerateFirst, Break
    <3>4. CASE CallbackEnds
      <4>1. CloseWith(request, "COMPLETED_OK") /\ UNCHANGED reply
        BY <2>7, <3>2, <3>4 DEF GenerateFirst, CallbackStalls
      <4> QED BY <3>1, <3>2, <3>3, <4>1, CloseOwned DEF Codes
    <3>5. CASE ~CallbackEnds
      <4>1. /\ UNCHANGED request
            /\ \/ UNCHANGED <<state, reply>>
               \/ state' = "NORMAL_BODY_READY" /\ Generated
        BY <2>7, <3>2, <3>5 DEF GenerateFirst
      <4>2. reply'.response = reply.response
        BY <4>1, SameResponse
      <4>3. state' \in Late /\ state \in Late /\ state' \notin Early /\ state' \notin Serving
            /\ state' \notin {"CLOSED", "IN_CLEANUP"}
        BY <3>1, <4>1 DEF Late, SendStates, Early, Serving, HeaderStates, FooterStates
      <4> QED BY <3>3, <4>1, <4>2, <4>3 DEF RequestOwned, Owned, Queued
    <3> QED BY <3>4, <3>5
  <2>8. CASE BodySent
    BY <2>8, CloseOwned DEF BodySent, Idle, Continue, Close, input, RequestOwned, Owned,
       Queued, Early, Serving, Late, ServiceKinds, HeaderStates, FooterStates, SendStates,
       TypeOK, Codes, looping
  <2>9. CASE Finish
    <3> DEFINE told == NotifyCompleted(request, "COMPLETED_OK")
    <3>1. /\ state = "FOOTERS_SENT" /\ pc' # "done" /\ reply'.response.kind = "none"
          /\ request' = [told EXCEPT !.context = "NULL"]
      BY <2>9 DEF Finish, Idle, Continue, looping, NoReply, NoResponse
    <3>2. request \in RequestType /\ Owned(request) /\ "COMPLETED_OK" \in Codes
      BY DEF TypeOK, RequestOwned, Codes
    <3>3. told \in RequestType /\ Owned(told) /\ ~told.aware /\ told.context # "live"
      BY <3>2, NotifyType, NotifyOwned
    <3> HIDE DEF told
    <3>4. Owned(request') /\ ~request'.aware
      BY <3>1, <3>3 DEF Owned, RequestType
    <3>5. Owned(request)' = Owned(request')
      BY DEF Owned
    <3>6. read_closed \/ reply.response.close
      BY <3>1 DEF RequestOwned, Queued, ServiceKinds, Late, TypeOK, ReplyType, ResponseType
    <3>7. state' = "CLOSED"
      BY <2>9, <3>6 DEF Finish
    <3>8. state' \notin Early /\ state' \notin Serving /\ state' \notin Late
      BY <3>7 DEF Early, Serving, Late, HeaderStates, FooterStates, SendStates
    <3> QED BY <3>1, <3>4, <3>5, <3>7, <3>8 DEF RequestOwned, ServiceKinds
  <2>10. CASE IdleSending
    BY <2>10 DEF IdleSending, Idle, SendStates, Break, closing, input, RequestOwned, Owned,
       Queued, Early, Serving, Late, ServiceKinds, HeaderStates, FooterStates, looping
  <2>11. CASE Cleanup
    <3>1. /\ state = "CLOSED" /\ state' = "IN_CLEANUP" /\ UNCHANGED <<request, read_closed>>
      BY <2>11 DEF Cleanup, Idle
    <3>2. reply'.response.kind = "none"
      BY <2>11 DEF Cleanup, NoResponse, TypeOK, ReplyType
    <3>3. state' \notin Early /\ state' \notin Serving /\ state' \notin Late
      BY <3>1 DEF Early, Serving, Late, HeaderStates, FooterStates, SendStates
    <3> QED BY <3>1, <3>2, <3>3 DEF RequestOwned, Owned, ServiceKinds
  <2> QED BY <1>5, <2>1, <2>2, <2>3, <2>4, <2>5, <2>6, <2>7, <2>8, <2>9, <2>10, <2>11 DEF
           Answer
<1>6. CASE Loop
  <2>1. CASE LoopTest
    BY <2>1 DEF LoopTest, closing, input, RequestOwned, Owned, Queued, Early, Serving, Late,
       ServiceKinds, HeaderStates, FooterStates, SendStates
  <2>2. CASE HangUp
    BY <2>2, CloseOwned DEF HangUp, Handled, Close, input, RequestOwned, Owned, Queued,
       Early, Serving, Late, ServiceKinds, HeaderStates, FooterStates, SendStates, TypeOK,
       Codes, looping
  <2>3. CASE Settle
    BY <2>3 DEF Settle, LoopInfo, SendStates, HeaderStates, FooterStates, input,
       RequestOwned, Owned, Queued, Early, Serving, Late, ServiceKinds
  <2>4. CASE TimedOut
    BY <2>4, CloseOwned DEF TimedOut, Close, input, RequestOwned, Owned, Queued, Early,
       Serving, Late, ServiceKinds, HeaderStates, FooterStates, SendStates, TypeOK, Codes
  <2>5. CASE TooBig
    <3>1. /\ state \in Early \cup Serving /\ state # "FOOTERS_RECEIVED" /\ pc' # "done"
          /\ \E ok \in HeaderBuilt : TransmitError(ok)
      BY <2>5 DEF TooBig, looping, Early, Serving, HeaderStates, FooterStates
    <3> QED BY <3>1, TransmitOwned
  <2>6. CASE Exit
    BY <2>6, CloseOwned DEF Exit, Close, input, RequestOwned, Owned, Queued, Early, Serving,
       Late, ServiceKinds, HeaderStates, FooterStates, SendStates, TypeOK, Codes
  <2>7. CASE \E ready \in SUBSET Events : Poll(ready)
    BY <2>7 DEF Poll, closing, input, RequestOwned, Owned, Queued, Early, Serving, Late,
       ServiceKinds, HeaderStates, FooterStates, SendStates
  <2> QED BY <1>6, <2>1, <2>2, <2>3, <2>4, <2>5, <2>6, <2>7 DEF Loop
<1>7. CASE Elapse
  BY <1>7 DEF Elapse, closing, input, RequestOwned, Owned, Queued, Early, Serving, Late,
     ServiceKinds, HeaderStates, FooterStates, SendStates
<1>8. CASE StopDaemon
  BY <1>8 DEF StopDaemon, closing, input, RequestOwned, Owned, Queued, Early, Serving,
     Late, ServiceKinds, HeaderStates, FooterStates, SendStates
<1>9. CASE ShutConnections
  <2>1. UNCHANGED <<pc, state, read_closed, request, reply>>
    BY <1>9 DEF ShutConnections, looping
  <2> QED BY <2>1 DEF RequestOwned, Owned, Queued
<1>10. CASE Done \/ UNCHANGED vars
  BY <1>10 DEF Done, vars, looping, closing, RequestOwned, Owned, Queued
<1> QED BY <1>1, <1>2, <1>3, <1>4, <1>5, <1>6, <1>7, <1>8, <1>9, <1>10 DEF Next, Thread

(* client_aware says when there is a live request, and the state of the    *)
(* connection whether the access handler may be called.                    *)
THEOREM Ownership == Spec => []RequestOwned
<1>1. Init => RequestOwned
  <2>1. SUFFICES ASSUME Init PROVE RequestOwned
    OBVIOUS
  <2>2. "INIT" \notin Serving /\ "INIT" \notin Late
    BY DEF Serving, Late, FooterStates, SendStates
  <2> QED BY <2>1, <2>2 DEF Init, RequestOwned, Owned, NoRequest, NoReply, NoResponse,
                            ServiceKinds
<1>2. TypeOK /\ TypeOK' /\ RequestOwned /\ [Next]_vars => RequestOwned'
  BY OwnedStep
<1> QED BY <1>1, <1>2, TypeCorrect, PTL DEF Spec

(* request_completed, generator_callback and the access handler never use  *)
(* a microhttpd_request that has been deleted.                             *)
THEOREM NeverUsedAfterDelete == Spec => []NoUseAfterDelete
<1>1. RequestOwned => NoUseAfterDelete
  BY DEF RequestOwned, Owned, NoUseAfterDelete
<1> QED BY <1>1, Ownership, PTL

(* The thread of a connection ends with every microhttpd_request deleted   *)
(* exactly once.                                                           *)
THEOREM AlwaysReleased == Spec => []RequestReleased
<1>1. TypeOK /\ RequestOwned => RequestReleased
  BY DEF RequestOwned, Owned, RequestReleased, TypeOK, RequestType
<1> QED BY <1>1, TypeCorrect, Ownership, PTL

(* At most one request is created for a connection and it is handled at    *)
(* most once.                                                              *)
THEOREM OnlyOneRequest == Spec => []OneRequest
<1>1. TypeOK /\ RequestOwned => OneRequest
  BY DEF RequestOwned, Owned, OneRequest, TypeOK, RequestType
<1> QED BY <1>1, TypeCorrect, Ownership, PTL

-----------------------------------------------------------------------------
(* What a step may do to the phase of a request.                           *)
PhaseStep(p, q) ==
  \/ q = p
  \/ p = "none" /\ q = "open"
  \/ p = "open" /\ q = "handled"
  \/ p \in {"open", "handled"} /\ q = "released"

(* The phase of an owned request, and what the calls do to it.             *)
LEMMA PhaseOwned ==
  ASSUME NEW r \in RequestType, Owned(r)
  PROVE  PhaseOf(r) = IF r.created = 0 THEN "none"
                      ELSE IF r.context = "live"
                        THEN IF r.handled = 0 THEN "open" ELSE "handled"
                        ELSE "released"
<1>1. ~r.fault /\ r.handled <= 1 /\ (r.created = 0 => r.context # "live")
  BY DEF Owned, RequestType
<1> QED BY <1>1 DEF PhaseOf, RequestType

LEMMA PhaseNotify ==
  ASSUME NEW r \in RequestType, Owned(r), NEW code \in Codes
  PROVE  PhaseOf(NotifyCompleted(r, code)) = IF r.created = 0 THEN "none" ELSE "released"
<1>1. NotifyCompleted(r, code) \in RequestType
  BY NotifyType
<1>2. /\ Owned(NotifyCompleted(r, code))
      /\ NotifyCompleted(r, code).context # "live"
      /\ NotifyCompleted(r, code).created = r.created
  BY NotifyOwned
<1> QED BY <1>1, <1>2, PhaseOwned

(* The steps that leave the request alone.                                 *)
Quiet ==
  \/ ReadNothing \/ WriteNothing \/ WriteContinue \/ WriteHeaders \/ WriteBody
  \/ RequestLine \/ RequestLineTooLong \/ HeaderLine \/ EmptyLine \/ ParseHeaders
  \/ ContinueSent \/ ChunkSize \/ NoBody \/ HeadersSent \/ EmptyBody \/ BodyReady
  \/ IdleSending \/ Cleanup \/ LoopTest \/ Settle \/ \E ready \in SUBSET Events : Poll(ready)

LEMMA QuietStep == Quiet => UNCHANGED request
<1>1. ReadNothing \/ WriteNothing \/ WriteContinue \/ WriteHeaders \/ WriteBody
        => UNCHANGED request
  BY DEF ReadNothing, WriteNothing, WriteContinue, WriteHeaders, WriteBody, closing
<1>2. RequestLine \/ RequestLineTooLong \/ HeaderLine \/ EmptyLine \/ ParseHeaders
        => UNCHANGED request
  BY DEF RequestLine, RequestLineTooLong, HeaderLine, EmptyLine, ParseHeaders
<1>3. ContinueSent \/ ChunkSize \/ NoBody \/ HeadersSent \/ EmptyBody \/ BodyReady
        => UNCHANGED request
  BY DEF ContinueSent, ChunkSize, NoBody, HeadersSent, EmptyBody, BodyReady
<1>4. IdleSending \/ Cleanup \/ LoopTest \/ Settle \/ (\E ready \in SUBSET Events : Poll(ready))
        => UNCHANGED request
  BY DEF IdleSending, Cleanup, LoopTest, Settle, Poll, closing
<1> QED BY <1>1, <1>2, <1>3, <1>4 DEF Quiet

(* The steps that may report the request as completed.                     *)
Closes ==
  \/ ReadData \/ ReadEnd \/ ReadError \/ WriteError \/ WriteNeedsMore
  \/ BadRequestLine \/ HeaderLineTooLong \/ MalformedHeaderLine \/ NoLine
  \/ ParseHeadersTooLong \/ BadContentLength \/ BadBody
  \/ BuildHeaders \/ GenerateFirst \/ BodySent \/ HangUp \/ TimedOut \/ TooBig \/ Exit

Completes == \E code \in Codes : request' \in {request, NotifyCompleted(request, code)}

LEMMA ClosesStep ==
  ASSUME TypeOK, RequestOwned, Closes
  PROVE  Completes
<1>1. ReadData \/ ReadEnd \/ ReadError \/ WriteError => Completes
  BY DEF ReadData, ReadEnd, ReadError, WriteError, Close, CloseWith, Completes, Codes
<1>2. BadRequestLine \/ HeaderLineTooLong \/ MalformedHeaderLine \/ NoLine => Completes
  BY DEF BadRequestLine, HeaderLineTooLong, MalformedHeaderLine, NoLine, TransmitError,
         CloseAndTransmitError, Close, CloseWith, Completes, Codes
<1>3. ParseHeadersTooLong \/ BadContentLength \/ BuildHeaders \/ BodySent => Completes
  BY DEF ParseHeadersTooLong, BadContentLength, BuildHeaders, BodySent, Close, CloseWith,
         Completes, Codes
<1>4. HangUp \/ TimedOut \/ TooBig \/ Exit => Completes
  BY DEF HangUp, TimedOut, TooBig, Exit, TransmitError, Close, CloseWith, Completes, Codes
<1>5. ASSUME BadBody PROVE Completes
  <2>1. request.context = "live" /\ Owned(request) /\ request \in RequestType
    BY <1>5 DEF BadBody, BodyOpen, Idle, RequestOwned, Serving, TypeOK
  <2>2. UseRequest(request) = request
    BY <2>1, UseOwned
  <2> QED BY <1>5, <2>2 DEF BadBody, CloseWith, Completes, Codes
<1>6. ASSUME WriteNeedsMore \/ GenerateFirst PROVE Completes
  <2>1. request.context = "live" /\ Owned(request) /\ request \in RequestType
    BY <1>6 DEF WriteNeedsMore, GenerateFirst, NeedsMore, Idle, IsGenerator, RequestOwned,
                ServiceKinds, Late, SendStates, TypeOK
  <2>2. GeneratorCall(request) = request
    BY <2>1, UseOwned
  <2> QED BY <1>6, <2>2 DEF WriteNeedsMore, GenerateFirst, CloseWith, Completes, Codes
<1> QED BY <1>1, <1>2, <1>3, <1>4, <1>5, <1>6 DEF Closes

(* Every step of the thread moves the request as RequestLifecycle allows.  *)
LEMMA ThreadPhase ==
  ASSUME TypeOK, RequestOwned, Thread
  PROVE  PhaseStep(PhaseOf(request), PhaseOf(request'))
<1>1. request \in RequestType /\ Owned(request)
  BY DEF TypeOK, RequestOwned
<1>2. CASE Quiet
  BY <1>2, QuietStep DEF PhaseStep
<1>3. CASE Closes
  <2>1. PICK code \in Codes : request' \in {request, NotifyCompleted(request, code)}
    BY <1>3, ClosesStep DEF Completes
  <2> QED BY <1>1, <2>1, PhaseNotify, PhaseOwned DEF PhaseStep
<1>4. CASE CallHandlerFirst
  <2>1. request.context = "NULL" /\ request.created = 0
    BY <1>4 DEF CallHandlerFirst, Idle, RequestOwned, Early
  <2>2. PhaseOf(FirstCall(request)) = "open" /\ PhaseOf(request) = "none"
    <3>1. /\ FirstCall(request) \in RequestType /\ Owned(FirstCall(request))
          /\ FirstCall(request).context = "live" /\ FirstCall(request).handled = 0
      BY <1>1, <2>1, CallType, FirstOwned
    <3>2. FirstCall(request).created # 0
      BY <3>1 DEF Owned, RequestType
    <3> QED BY <1>1, <2>1, <3>1, <3>2, PhaseOwned
  <2> QED BY <1>4, <2>2 DEF CallHandlerFirst, PhaseStep
<1>5. CASE PlainBody \/ ChunkData
  <2>1. request.context = "live" /\ request' = UseRequest(request)
    BY <1>5 DEF PlainBody, ChunkData, BodyOpen, Idle, RequestOwned, Serving
  <2> QED BY <1>1, <2>1, UseOwned DEF PhaseStep
<1>6. CASE Respond \/ Refuse
  <2>1. request.context = "live" /\ request.handled = 0
    BY <1>6 DEF Respond, Refuse, Idle, RequestOwned, Serving
  <2>2. request.created = 1
    BY <1>1, <2>1 DEF Owned, RequestType
  <2>3. /\ FinalCall(request) \in RequestType /\ Owned(FinalCall(request))
        /\ FinalCall(request).context = "live" /\ FinalCall(request).handled = 1
        /\ FinalCall(request).created = 1
    BY <1>1, <2>1, <2>2, CallType, FinalOwned
  <2>4. PhaseOf(request) = "open" /\ PhaseOf(FinalCall(request)) = "handled"
    BY <1>1, <2>1, <2>2, <2>3, PhaseOwned
  <2>5. CASE request' = FinalCall(request)
    BY <2>4, <2>5 DEF PhaseStep
  <2>6. CASE request' = NotifyCompleted(FinalCall(request), "WITH_ERROR")
    BY <2>3, <2>4, <2>6, PhaseNotify DEF PhaseStep, Codes
  <2> QED BY <1>6, <2>5, <2>6 DEF Respond, Refuse, CloseWith
<1>7. CASE Finish
  <2> DEFINE told == NotifyCompleted(request, "COMPLETED_OK")
  <2>1. /\ told \in RequestType /\ Owned(told) /\ told.context # "live" /\ ~told.aware
        /\ told.created = request.created
    <3>1. "COMPLETED_OK" \in Codes
      BY DEF Codes
    <3>2. told \in RequestType
      BY <1>1, <3>1, NotifyType
    <3>3. /\ Owned(told) /\ ~told.aware /\ told.created = request.created
          /\ told.context = (IF request.context = "live" THEN "freed" ELSE request.context)
      BY <1>1, <3>1, NotifyOwned
    <3> HIDE DEF told
    <3> QED  BY <3>2, <3>3
  <2>2. request' = [told EXCEPT !.context = "NULL"]
    BY <1>7 DEF Finish
  <2>3. PhaseOf(told) = IF request.created = 0 THEN "none" ELSE "released"
    BY <1>1, PhaseNotify DEF Codes
  <2> HIDE DEF told
  <2>4. /\ request' \in RequestType /\ Owned(request') /\ request'.context = "NULL"
        /\ request'.created = request.created
    BY <2>1, <2>2 DEF Owned, RequestType
  <2> QED BY <1>1, <2>4, PhaseOwned DEF PhaseStep
<1> QED BY <1>2, <1>3, <1>4, <1>5, <1>6, <1>7
        DEF Thread, Read, Write, Parse, Body, Answer, Loop, Quiet, Closes

(* Only Cleanup ends the thread, and nothing runs after it.                *)
LEMMA ThreadEnds ==
  ASSUME Thread
  PROVE  pc # "done" /\ (pc' = "done" => Cleanup)
<1>1. ASSUME Read \/ Write PROVE pc # "done" /\ pc' # "done"
  BY <1>1 DEF Read, Write, ReadData, ReadNothing, ReadEnd, ReadError, WriteError,
     WriteNothing, WriteContinue, WriteHeaders, WriteBody, WriteNeedsMore, Reading, Writing,
     Handled, looping
<1>2. ASSUME Parse PROVE pc # "done" /\ pc' # "done"
  BY <1>2 DEF Parse, RequestLine, RequestLineTooLong, BadRequestLine, HeaderLine,
     HeaderLineTooLong, MalformedHeaderLine, EmptyLine, NoLine, ParseHeaders,
     ParseHeadersTooLong, BadContentLength, Idle, Continue, Break, looping
<1>3. ASSUME Body PROVE pc # "done" /\ pc' # "done"
  BY <1>3 DEF Body, CallHandlerFirst, ContinueSent, PlainBody, ChunkSize, ChunkData, BadBody,
     NoBody, BodyOpen, Idle, Continue, Break, looping
<1>4. ASSUME Answer PROVE pc # "done" /\ (pc' = "done" => Cleanup)
  BY <1>4 DEF Answer, Respond, Refuse, BuildHeaders, HeadersSent, EmptyBody, BodyReady,
     GenerateFirst, BodySent, Finish, IdleSending, Idle, Continue, Break, looping, Cleanup
<1>5. ASSUME Loop PROVE pc # "done" /\ pc' # "done"
  <2>1. ASSUME LoopTest \/ HangUp \/ Settle \/ TimedOut \/ TooBig \/ Exit
        PROVE pc # "done" /\ pc' # "done"
    BY <2>1 DEF LoopTest, HangUp, Settle, TimedOut, TooBig, Exit, Handled, looping
  <2>2. ASSUME NEW ready \in SUBSET Events, Poll(ready)
        PROVE pc # "done" /\ pc' # "done"
    BY <2>2 DEF Poll
  <2> QED BY <1>5, <2>1, <2>2 DEF Loop
<1> QED BY <1>1, <1>2, <1>3, <1>4, <1>5 DEF Thread

(* A thread ends without a live request.                                   *)
LEMMA EndReleased ==
  ASSUME TypeOK, RequestOwned, Cleanup
  PROVE  PhaseOf(request) \in {"none", "released"} /\ UNCHANGED request
<1>1. /\ request \in RequestType /\ Owned(request) /\ request.context # "live"
      /\ UNCHANGED request
  BY DEF Cleanup, Idle, RequestOwned, Owned, TypeOK
<1> QED BY <1>1, PhaseOwned

(* The connection keeps the promises of RequestLifecycle: one object is    *)
(* created, handled at most once and deleted exactly once, before the end. *)
THEOREM LifecycleImplemented == Spec => ImplementsLifecycle
<1>1. Init => Lifecycle!Init
  BY DEF Init, Lifecycle!Init, PhaseOf, NoRequest
<1>2. ASSUME TypeOK, RequestOwned, [Next]_vars
      PROVE  [Lifecycle!Next]_(Lifecycle!vars)
  <2>1. CASE Thread
    <3>1. PhaseStep(PhaseOf(request), PhaseOf(request'))
      BY <1>2, <2>1, ThreadPhase
    <3>2. pc # "done" /\ (pc' = "done" => Cleanup)
      BY <2>1, ThreadEnds
    <3>3. PhaseOf(request)' = PhaseOf(request')
      BY DEF PhaseOf
    <3>4. CASE pc' = "done"
      <4>1. PhaseOf(request) \in {"none", "released"} /\ UNCHANGED request
        BY <1>2, <3>2, <3>4, EndReleased
      <4> QED BY <3>2, <3>3, <3>4, <4>1 DEF Lifecycle!Next, Lifecycle!End
    <3>5. CASE pc' # "done"
      BY <3>1, <3>2, <3>3, <3>5
         DEF PhaseStep, Lifecycle!Next, Lifecycle!Create, Lifecycle!Handle,
             Lifecycle!Release, Lifecycle!vars
    <3> QED BY <3>4, <3>5
  <2>2. CASE Elapse \/ StopDaemon \/ ShutConnections \/ Done \/ UNCHANGED vars
    <3>1. UNCHANGED <<pc, request>>
      BY <2>2 DEF Elapse, StopDaemon, ShutConnections, Done, vars, looping, closing
    <3> QED BY <3>1 DEF Lifecycle!vars, PhaseOf
  <2> QED BY <1>2, <2>1, <2>2 DEF Next
<1> QED BY <1>1, <1>2, TypeCorrect, Ownership, PTL
        DEF Spec, ImplementsLifecycle, Lifecycle!Spec

-----------------------------------------------------------------------------
(***************************************************************************)
(* What the counters of the body say in every state.  A length is counted  *)
(* down to 0.  The one length that is not, 0 with Expect: 100-continue,    *)
(* wraps around and could only come back to 0 after W bytes of a body.     *)
(***************************************************************************)
Exact   == upload.body + upload.remaining = upload.declared
Pending == Exact /\ (upload.remaining = 0 => upload.body = 0)
Wrapped == /\ upload.declared = 0 /\ upload.body > 0
           /\ upload.remaining = MHD_SIZE_UNKNOWN \/ upload.body + upload.remaining = W
Known   == upload.declared # MHD_SIZE_UNKNOWN
Whole   == upload.declared \in {upload.body, MHD_SIZE_UNKNOWN}

BodyCounted ==
  /\ upload.body + buffered + budget <= MaxUnits
  /\ upload.chunked => ~Known
  /\ state \in HeaderStates \cup {"HEADERS_RECEIVED"} => ~upload.chunked
  /\ state \in Early \cup {"CONTINUE_SENDING"} => upload.body = 0
  /\ state \in {"HEADERS_PROCESSED", "CONTINUE_SENDING"} /\ Known => Exact
  /\ state \in Early \cup Serving /\ read_closed => Queued
  /\ state = "CONTINUE_SENT" /\ ~Queued /\ Known => Pending \/ Wrapped
  /\ state \in FooterStates \cup {"FOOTERS_RECEIVED"} /\ ~Queued => Whole

(* The counter of a width, where it does not wrap around.                  *)
LEMMA ModSmall == \A k \in 0 .. W - 1 : k % W = k /\ (k + W) % W = k
  BY ConnectionAssumption DEF ConnectionAssumption

(* What a call with a part of the body does to the counters.               *)
LEMMA BodyCallCounts ==
  ASSUME NEW u \in UploadType, NEW n \in 0 .. W - 1
  PROVE  /\ BodyCall(u, n).body = u.body + n
         /\ BodyCall(u, n).declared = u.declared /\ BodyCall(u, n).chunked = u.chunked
         /\ u.remaining = MHD_SIZE_UNKNOWN => BodyCall(u, n).remaining = u.remaining
         /\ u.remaining # MHD_SIZE_UNKNOWN /\ n <= u.remaining
              => BodyCall(u, n).remaining = u.remaining - n
         /\ u.remaining # MHD_SIZE_UNKNOWN /\ n > u.remaining
              => BodyCall(u, n).remaining = u.remaining + W - n
<1> DEFINE left == IF u.remaining = MHD_SIZE_UNKNOWN THEN u.remaining
                     ELSE (u.remaining + W - n) % W
<1>1. u.remaining \in 0 .. W - 1 /\ u.body \in Nat /\ W \in Nat
  BY ConnectionAssumption DEF ConnectionAssumption, UploadType
<1>2. BodyCall(u, n) = [u EXCEPT !.body = u.body + n, !.remaining = left]
  BY DEF BodyCall
<1>3. ASSUME n <= u.remaining PROVE (u.remaining + W - n) % W = u.remaining - n
  <2>1. u.remaining - n \in 0 .. W - 1 /\ u.remaining + W - n = (u.remaining - n) + W
    BY <1>1, <1>3
  <2> QED BY <2>1, ModSmall
<1>4. ASSUME n > u.remaining PROVE (u.remaining + W - n) % W = u.remaining + W - n
  <2>1. u.remaining + W - n \in 0 .. W - 1
    BY <1>1, <1>4
  <2> QED BY <2>1, ModSmall
<1>5. /\ BodyCall(u, n).body = u.body + n /\ BodyCall(u, n).remaining = left
      /\ BodyCall(u, n).declared = u.declared /\ BodyCall(u, n).chunked = u.chunked
  <2> HIDE DEF left
  <2> QED BY <1>2 DEF UploadType
<1> QED BY <1>1, <1>3, <1>4, <1>5

(* What is read is not read again.                                         *)
LEMMA StillFits ==
  \A a, b, c, d, e, m \in Nat : a + b + c <= m /\ d + e <= b + c => a + d + e <= m
OBVIOUS

(* The steps that end the reading of the request.                          *)
Over ==
  /\ state' \in Late \cup {"CLOSED", "IN_CLEANUP"}
  /\ upload' \in {upload, NoUpload, [upload EXCEPT !.chunked = FALSE]}
  /\ buffered' + budget' <= buffered + budget

LEMMA OverCounted ==
  ASSUME TypeOK, TypeOK', BodyCounted, Over
  PROVE  BodyCounted'
<1>1. /\ state' \notin Early /\ state' \notin Serving
      /\ state' \notin HeaderStates \cup FooterStates
      /\ state' \notin {"HEADERS_RECEIVED", "HEADERS_PROCESSED", "CONTINUE_SENDING",
                        "CONTINUE_SENT", "FOOTERS_RECEIVED"}
  BY DEF Over, Early, Serving, Late, HeaderStates, FooterStates, SendStates
<1>2. upload'.body + buffered' + budget' <= MaxUnits
  <2>1. upload'.body \in {0, upload.body}
    BY DEF Over, NoUpload, TypeOK, UploadType
  <2> QED BY <2>1, ConnectionAssumption
          DEF ConnectionAssumption, Over, BodyCounted, TypeOK, UploadType
<1>3. upload'.chunked => upload'.declared = MHD_SIZE_UNKNOWN
  BY DEF Over, BodyCounted, Known, NoUpload, TypeOK, UploadType
<1> QED BY <1>1, <1>2, <1>3 DEF BodyCounted, Known

(* The steps that have nothing to do with the body.                        *)
Aside ==
  /\ UNCHANGED <<state, upload, read_closed>> /\ reply'.response = reply.response
  /\ buffered' + budget' <= buffered + budget

LEMMA AsideCounted ==
  ASSUME TypeOK, TypeOK', BodyCounted, Aside
  PROVE  BodyCounted'
<1>1. upload.body + buffered' + budget' <= MaxUnits
  <2>1. upload.body + buffered + budget <= MaxUnits
    BY DEF BodyCounted
  <2>2. /\ upload.body \in Nat /\ buffered \in Nat /\ budget \in Nat
        /\ buffered' \in Nat /\ budget' \in Nat /\ MaxUnits \in Nat
    BY ConnectionAssumption DEF ConnectionAssumption, TypeOK, UploadType
  <2>3. buffered' + budget' <= buffered + budget
    BY DEF Aside
  <2> QED BY <2>1, <2>2, <2>3, StillFits
<1> QED BY <1>1 DEF Aside, BodyCounted, Known, Exact, Pending, Wrapped, Whole, Queued

LEMMA CloseOver ==
  ASSUME NEW r, NEW code, CloseWith(r, code), UNCHANGED upload,
         buffered' + budget' <= buffered + budget
  PROVE  Over
BY DEF CloseWith, Over

LEMMA TransmitOver ==
  ASSUME NEW ok, TransmitError(ok) \/ CloseAndTransmitError(ok), UNCHANGED upload,
         buffered' + budget' <= buffered + budget
  PROVE  Over
BY DEF TransmitError, CloseAndTransmitError, Close, CloseWith, Over, Late, SendStates

(* The steps that end the reading of the request, and those aside.         *)
LEMMA OverSteps ==
  ASSUME TypeOK, TypeOK', RequestOwned, RequestOwned'
  PROVE  /\ ReadEnd \/ ReadError => Over
         /\ WriteError \/ WriteHeaders \/ WriteBody => Over
         /\ WriteNeedsMore => Over
         /\ BadRequestLine \/ HeaderLineTooLong \/ MalformedHeaderLine \/ BadContentLength
              => Over
         /\ BadBody \/ Refuse \/ BuildHeaders => Over
         /\ HeadersSent \/ EmptyBody \/ BodyReady \/ GenerateFirst \/ BodySent => Over
         /\ Finish \/ Cleanup => Over
         /\ HangUp \/ TimedOut \/ TooBig => Over
<1>1. buffered \in Nat /\ budget \in Nat
  BY DEF TypeOK
<1>2. ReadEnd \/ ReadError => Over
  BY <1>1, CloseOver DEF ReadEnd, ReadError, Close, input
<1>3. WriteError => Over
  BY <1>1, CloseOver DEF WriteError, Close, input
<1>4. WriteHeaders \/ WriteBody => Over
  BY <1>1 DEF WriteHeaders, WriteBody, Over, Late, SendStates, input
<1>5. WriteNeedsMore => Over
  <2>1. WriteNeedsMore => state = "NORMAL_BODY_READY" /\ state' \in {state, "CLOSED"}
    BY DEF WriteNeedsMore, NeedsMore, CloseWith
  <2>2. WriteNeedsMore => UNCHANGED <<buffered, budget, upload>>
    BY DEF WriteNeedsMore, input
  <2> QED BY <1>1, <2>1, <2>2 DEF Over, Late, SendStates
<1>6. BadRequestLine => Over
  BY <1>1, CloseOver DEF BadRequestLine, TakeLine, Close
<1>7. HeaderLineTooLong \/ MalformedHeaderLine => Over
  BY <1>1, TransmitOver DEF HeaderLineTooLong, MalformedHeaderLine, TakeLine
<1>8. BadContentLength \/ BadBody \/ Refuse => Over
  BY <1>1, CloseOver DEF BadContentLength, BadBody, Refuse, Close, input
<1>9. BuildHeaders => Over
  BY <1>1 DEF BuildHeaders, Close, CloseWith, Over, Late, SendStates, input
<1>10. HeadersSent \/ EmptyBody \/ BodyReady => Over
  BY <1>1 DEF HeadersSent, EmptyBody, BodyReady, Over, Late, SendStates, input
<1>11. GenerateFirst => Over
  <2>1. GenerateFirst => state' \in {"NORMAL_BODY_UNREADY", "NORMAL_BODY_READY", "CLOSED"}
    BY DEF GenerateFirst, Idle, CloseWith
  <2>2. GenerateFirst => UNCHANGED <<buffered, budget, upload>>
    BY DEF GenerateFirst, input
  <2> QED BY <1>1, <2>1, <2>2 DEF Over, Late, SendStates
<1>12. BodySent => Over
  BY <1>1 DEF BodySent, Close, CloseWith, Over, Late, SendStates, input
<1>13. Finish => Over
  <2>1. Finish => state' = "CLOSED"
    <3>1. Finish => read_closed \/ reply.response.close
      BY DEF Finish, Idle, RequestOwned, Queued, ServiceKinds, Late, TypeOK, ReplyType,
             ResponseType
    <3> QED BY <3>1 DEF Finish
  <2>2. Finish => upload' = NoUpload /\ buffered' \in {buffered, 0} /\ UNCHANGED budget
    BY DEF Finish
  <2> QED BY <1>1, <2>1, <2>2 DEF Over
<1>14. Cleanup => Over
  BY <1>1 DEF Cleanup, Over, input
<1>15. HangUp \/ TimedOut => Over
  BY <1>1, CloseOver DEF HangUp, TimedOut, Close, input
<1>16. TooBig => Over
  BY <1>1, TransmitOver DEF TooBig, input
<1> QED BY <1>2, <1>3, <1>4, <1>5, <1>6, <1>7, <1>8, <1>9, <1>10, <1>11, <1>12, <1>13,
           <1>14, <1>15, <1>16

LEMMA AsideSteps ==
  ASSUME TypeOK, TypeOK'
  PROVE  /\ ReadNothing \/ WriteNothing => Aside
         /\ IdleSending \/ LoopTest \/ Settle => Aside
         /\ (\E ready \in SUBSET Events : Poll(ready)) => Aside
         /\ Elapse \/ StopDaemon \/ ShutConnections \/ Done \/ UNCHANGED vars => Aside
         /\ ReadData \/ Exit => Aside \/ Over
<1>1. buffered \in Nat /\ budget \in Nat
  BY DEF TypeOK
<1>2. ReadNothing \/ WriteNothing => Aside
  BY <1>1 DEF ReadNothing, WriteNothing, Aside, closing, input
<1>3. IdleSending \/ LoopTest \/ Settle => Aside
  BY <1>1 DEF IdleSending, LoopTest, Settle, Aside, closing, input
<1>4. (\E ready \in SUBSET Events : Poll(ready)) => Aside
  BY <1>1 DEF Poll, Aside, closing, input
<1>5. Elapse \/ StopDaemon \/ ShutConnections \/ Done \/ UNCHANGED vars => Aside
  BY <1>1 DEF Elapse, StopDaemon, ShutConnections, Done, vars, Aside, closing, input
<1>6. ReadData => Aside \/ Over
  <2>1. ASSUME ReadData PROVE buffered' + budget' <= buffered + budget
    BY <1>1, <2>1, ConnectionAssumption DEF ConnectionAssumption, ReadData
  <2> QED BY <2>1, CloseOver DEF ReadData, Close, Aside
<1>7. Exit => Aside \/ Over
  BY <1>1, CloseOver DEF Exit, Close, Aside, input
<1> QED BY <1>2, <1>3, <1>4, <1>5, <1>6, <1>7

(* What the headers say of the body.                                       *)
LEMMA HeadersAgree ==
  ASSUME TypeOK, ~upload.chunked, NEW u \in BodyHeaders
  PROVE  /\ u \in UploadType /\ u.body = upload.body
         /\ u.declared = u.remaining
         /\ u.chunked => u.declared = MHD_SIZE_UNKNOWN
<1>1. upload \in UploadType /\ u \in UploadType
  BY BodyHeadersType DEF TypeOK
<1>2. CASE \E n \in Uploads \cup {0} : u = [upload EXCEPT !.remaining = n, !.declared = n]
  BY <1>1, <1>2 DEF UploadType
<1>3. CASE \E chunked \in BOOLEAN :
             u = [upload EXCEPT !.remaining = MHD_SIZE_UNKNOWN,
                                !.declared = MHD_SIZE_UNKNOWN, !.chunked = chunked]
  BY <1>1, <1>3 DEF UploadType
<1> QED BY <1>1, <1>2, <1>3 DEF BodyHeaders

(* The steps that read the request line, the headers and the footers.      *)
LEMMA HeaderCounted ==
  ASSUME TypeOK, TypeOK', RequestOwned, BodyCounted,
         \/ WriteContinue \/ RequestLine \/ RequestLineTooLong \/ HeaderLine \/ EmptyLine
         \/ ParseHeaders \/ ParseHeadersTooLong \/ ContinueSent
  PROVE  BodyCounted'
<1>1. /\ upload.body + buffered + budget <= MaxUnits
      /\ upload.body \in Nat /\ buffered \in Nat /\ budget \in Nat
      /\ buffered' \in Nat /\ budget' \in Nat /\ MaxUnits \in Nat
  BY ConnectionAssumption DEF ConnectionAssumption, BodyCounted, TypeOK, UploadType
<1> DEFINE SameUpload ==
      /\ upload'.body = upload.body /\ upload'.remaining = upload.remaining
      /\ upload'.declared = upload.declared /\ upload'.chunked = upload.chunked
<1>2. CASE WriteContinue
  <2>1. UNCHANGED <<state, read_closed, reply, buffered, budget>> /\ SameUpload
    BY <1>2 DEF WriteContinue, closing, input, TypeOK, UploadType
  <2> QED BY <2>1 DEF BodyCounted, Known, Exact, Pending, Wrapped, Whole, Queued
<1>3. CASE RequestLine \/ RequestLineTooLong
  <2>1. state = "INIT" /\ state' = "URL_RECEIVED" /\ SameUpload
    BY <1>3 DEF RequestLine, RequestLineTooLong, Idle, TypeOK, UploadType
  <2>2. read_closed' => Queued'
    <3>1. CASE RequestLine
      BY <2>1, <3>1 DEF RequestLine, BodyCounted, Early, HeaderStates, Queued
    <3>2. CASE RequestLineTooLong
      <4>1. QueueResponse(reply, ErrorResponse) \in ReplyType
        BY QueueType, ResponseTypes DEF TypeOK
      <4>2. reply'.response = QueueResponse(reply, ErrorResponse).response
        BY <3>2, <4>1 DEF RequestLineTooLong, ReplyType
      <4>3. reply'.response.kind = "error"
        BY <2>1, <4>2, ErrorQueued DEF Early, HeaderStates
      <4> QED BY <4>3 DEF Queued
    <3> QED BY <1>3, <3>1, <3>2
  <2>3. upload'.body + buffered' + budget' <= MaxUnits
    <3>1. buffered' + budget' <= buffered + budget
      <4>1. buffered' = buffered - 1 /\ budget' = budget
        BY <1>3 DEF RequestLine, RequestLineTooLong, TakeLine
      <4> QED BY <1>1, <4>1
    <3> QED BY <1>1, <2>1, <3>1, StillFits
  <2>4. state' \in HeaderStates /\ state' \in Early /\ state' \notin FooterStates
        /\ state \in HeaderStates /\ state \in Early
    BY <2>1 DEF HeaderStates, FooterStates, Early
  <2> QED BY <2>1, <2>2, <2>3, <2>4 DEF BodyCounted, Known
<1>4. CASE HeaderLine
  <2>1. /\ state \in {"URL_RECEIVED", "HEADER_PART_RECEIVED"} \cup FooterStates
        /\ state' = IF state \in FooterStates THEN "FOOTER_PART_RECEIVED"
                                             ELSE "HEADER_PART_RECEIVED"
        /\ UNCHANGED <<read_closed, reply>> /\ SameUpload
    BY <1>4 DEF HeaderLine, Idle, TypeOK, UploadType
  <2>2. upload'.body + buffered' + budget' <= MaxUnits
    <3>1. buffered' + budget' <= buffered + budget
      BY <1>1, <1>4 DEF HeaderLine, TakeLine
    <3> QED BY <1>1, <2>1, <3>1, StillFits
  <2> QED BY <2>1, <2>2
          DEF BodyCounted, Known, Whole, Queued, HeaderStates, FooterStates, Early, Serving
<1>5. CASE EmptyLine
  <2>1. /\ state \in {"URL_RECEIVED", "HEADER_PART_RECEIVED"} \cup FooterStates
        /\ state' = IF state \in FooterStates THEN "FOOTERS_RECEIVED" ELSE "HEADERS_RECEIVED"
        /\ UNCHANGED <<read_closed, reply, upload>>
    BY <1>5 DEF EmptyLine, Idle
  <2>2. upload'.body + buffered' + budget' <= MaxUnits
    <3>1. buffered' + budget' <= buffered + budget
      BY <1>1, <1>5 DEF EmptyLine, TakeLine
    <3> QED BY <1>1, <2>1, <3>1, StillFits
  <2> QED BY <2>1, <2>2
          DEF BodyCounted, Known, Whole, Queued, HeaderStates, FooterStates, Early, Serving
<1>6. CASE ParseHeaders \/ ParseHeadersTooLong
  <2>1. state = "HEADERS_RECEIVED" /\ state' \in {"HEADERS_PROCESSED", "CLOSED"}
        /\ UNCHANGED <<buffered, budget>>
    BY <1>6 DEF ParseHeaders, ParseHeadersTooLong, Close, CloseWith, Idle, input
  <2>2. ~upload.chunked /\ upload.body = 0
    BY <2>1 DEF BodyCounted, Early
  <2>3. /\ upload'.body = 0 /\ upload'.declared = upload'.remaining
        /\ upload'.chunked => upload'.declared = MHD_SIZE_UNKNOWN
    <3>1. PICK u \in BodyHeaders :
            upload' = u \/ \E e, k \in BOOLEAN : upload' = [u EXCEPT !.expect = e, !.keepalive = k]
      <4>1. {FALSE, Continues} \subseteq BOOLEAN
        BY ConnectionAssumption DEF ConnectionAssumption
      <4> QED BY <1>6, <4>1 DEF ParseHeaders, ParseHeadersTooLong
    <3>2. /\ u \in UploadType /\ u.body = upload.body /\ u.declared = u.remaining
          /\ u.chunked => u.declared = MHD_SIZE_UNKNOWN
      BY <2>2, HeadersAgree
    <3> QED BY <2>2, <3>1, <3>2 DEF UploadType
  <2>4. read_closed' => Queued'
    <3>1. CASE ParseHeaders
      BY <2>1, <3>1 DEF ParseHeaders, BodyCounted, Early, Queued
    <3>2. CASE ParseHeadersTooLong
      <4>1. reply'.response.kind = "error"
        BY <2>1, <3>2, ErrorQueued DEF ParseHeadersTooLong, Early
      <4> QED BY <4>1 DEF Queued
    <3> QED BY <1>6, <3>1, <3>2
  <2>5. 0 + buffered' + budget' <= MaxUnits
    BY <1>1, <2>1, <2>2
  <2>6. upload'.declared \in Nat
    BY ConnectionAssumption DEF ConnectionAssumption, TypeOK, UploadType
  <2> QED BY <2>1, <2>3, <2>4, <2>5, <2>6
          DEF BodyCounted, Known, Exact, HeaderStates, FooterStates, Early, Serving
<1>7. CASE ContinueSent
  <2>1. /\ state = "CONTINUE_SENDING" /\ state' = "CONTINUE_SENT"
        /\ UNCHANGED <<read_closed, reply, upload, buffered, budget>>
    BY <1>7 DEF ContinueSent, Idle, input
  <2> QED BY <2>1 DEF BodyCounted, Known, Exact, Pending, Queued, HeaderStates, FooterStates,
                      Early, Serving
<1> QED BY <1>2, <1>3, <1>4, <1>5, <1>6, <1>7

(* The steps of the body.                                                  *)
LEMMA PlainCounted ==
  ASSUME TypeOK, TypeOK', RequestOwned, BodyCounted, MaxUnits < W, PlainBody
  PROVE  BodyCounted'
<1>1. /\ upload.body + buffered + budget <= MaxUnits
      /\ upload.body \in Nat /\ buffered \in Nat /\ budget \in Nat
      /\ upload.remaining \in 0 .. W - 1 /\ upload.declared \in 0 .. W - 1
      /\ W \in Nat \ {0, 1} /\ MaxUnits \in Nat
  BY ConnectionAssumption DEF ConnectionAssumption, BodyCounted, TypeOK, UploadType
<1> DEFINE n == IF upload.remaining \notin {0, MHD_SIZE_UNKNOWN} /\ upload.remaining < buffered
                  THEN upload.remaining ELSE buffered
<1>2. /\ state = "CONTINUE_SENT" /\ buffered > 0 /\ ~Queued /\ ~upload.chunked
      /\ upload' = BodyCall(upload, n) /\ buffered' = buffered - n
      /\ UNCHANGED <<read_closed, budget, reply>> /\ state' = BodyState(upload')
  BY DEF PlainBody, BodyOpen, Idle
<1>3. /\ n \in 1 .. W - 1 /\ n <= buffered
      /\ n = upload.remaining
           \/ (n = buffered /\ (upload.remaining \in {0, MHD_SIZE_UNKNOWN} \/ n <= upload.remaining))
  BY <1>1, <1>2
<1> HIDE DEF n
<1>4. /\ upload'.body = upload.body + n
      /\ upload'.declared = upload.declared /\ ~upload'.chunked
      /\ upload.remaining = MHD_SIZE_UNKNOWN => upload'.remaining = upload.remaining
      /\ upload.remaining # MHD_SIZE_UNKNOWN /\ n <= upload.remaining
           => upload'.remaining = upload.remaining - n
      /\ upload.remaining # MHD_SIZE_UNKNOWN /\ n > upload.remaining
           => upload'.remaining = upload.remaining + W - n
  BY <1>2, <1>3, BodyCallCounts DEF TypeOK
<1>5. upload'.body + buffered' + budget' <= MaxUnits
  BY <1>1, <1>2, <1>3, <1>4
<1>6. upload'.body < W
  BY <1>1, <1>3, <1>4
<1>7. Known => Pending \/ Wrapped
  BY <1>2 DEF BodyCounted
<1>8. ASSUME Known, Pending
      PROVE  \/ upload'.body + upload'.remaining = upload'.declared
             \/ /\ upload'.declared = 0
                /\ upload'.body + upload'.remaining = W /\ upload'.body > 0
  <2>1. upload.body + upload.remaining = upload.declared /\ upload.remaining # W - 1
    BY <1>1, <1>8 DEF Known, Pending, Exact, MHD_SIZE_UNKNOWN
  <2>2. CASE upload.remaining = 0
    <3>1. upload.body = 0 /\ upload.declared = 0
      BY <1>1, <1>8, <2>1, <2>2 DEF Pending
    <3>2. upload'.remaining = W - n /\ upload'.body = n
      BY <1>1, <1>3, <1>4, <2>1, <2>2, <3>1 DEF MHD_SIZE_UNKNOWN
    <3> QED BY <1>1, <1>3, <1>4, <3>1, <3>2
  <2>3. CASE upload.remaining # 0
    BY <1>1, <1>3, <1>4, <2>1, <2>3 DEF MHD_SIZE_UNKNOWN
  <2> QED BY <2>2, <2>3
<1>9. ASSUME Known, Wrapped
      PROVE  /\ upload'.declared = 0 /\ upload'.body > 0
             /\ upload'.remaining = MHD_SIZE_UNKNOWN \/ upload'.body + upload'.remaining = W
  BY <1>1, <1>3, <1>4, <1>9 DEF Wrapped, MHD_SIZE_UNKNOWN
<1>10. ~read_closed
  BY <1>2 DEF BodyCounted, Serving
<1>11. \/ upload'.remaining # 0 /\ state' = "CONTINUE_SENT"
       \/ upload'.remaining = 0 /\ state' = "FOOTERS_RECEIVED"
  BY <1>2, <1>4 DEF BodyState
<1>12. CASE upload'.remaining # 0
  <2>1. upload'.declared # MHD_SIZE_UNKNOWN => Pending' \/ Wrapped'
    BY <1>1, <1>4, <1>7, <1>8, <1>9, <1>12 DEF Known, Pending, Exact, Wrapped, MHD_SIZE_UNKNOWN
  <2> QED BY <1>2, <1>4, <1>5, <1>10, <1>11, <1>12, <2>1
          DEF BodyCounted, Known, HeaderStates, FooterStates, Early, Serving
<1>13. CASE upload'.remaining = 0
  <2>1. upload'.declared \in {upload'.body, MHD_SIZE_UNKNOWN}
    BY <1>1, <1>3, <1>4, <1>6, <1>7, <1>8, <1>9, <1>13 DEF Known, MHD_SIZE_UNKNOWN
  <2> QED BY <1>2, <1>4, <1>5, <1>10, <1>11, <1>13, <2>1
          DEF BodyCounted, Known, Whole, HeaderStates, FooterStates, Early, Serving
<1> QED BY <1>12, <1>13

LEMMA ChunkCounted ==
  ASSUME TypeOK, TypeOK', BodyCounted, MaxUnits < W, ChunkSize \/ ChunkData
  PROVE  BodyCounted'
<1>1. /\ upload.body + buffered + budget <= MaxUnits
      /\ upload.body \in Nat /\ buffered \in Nat /\ budget \in Nat /\ upload.chunk \in Nat
      /\ W \in Nat \ {0, 1} /\ MaxUnits \in Nat
  BY ConnectionAssumption DEF ConnectionAssumption, BodyCounted, TypeOK, UploadType
<1>2. /\ state = "CONTINUE_SENT" /\ ~Queued /\ upload.chunked
      /\ UNCHANGED <<read_closed, reply, budget>>
  BY DEF ChunkSize, ChunkData, BodyOpen, Idle, TakeLine
<1>3. upload.declared = MHD_SIZE_UNKNOWN /\ ~read_closed
  BY <1>2 DEF BodyCounted, Known, Serving
<1>4. /\ state' \in {"CONTINUE_SENT", "BODY_RECEIVED", "FOOTERS_RECEIVED"}
      /\ upload'.declared = MHD_SIZE_UNKNOWN
      /\ upload'.body + buffered' + budget' <= MaxUnits
  <2>1. CASE ChunkSize
    <3>1. PICK n \in 0 .. MaxRead :
            upload' = [upload EXCEPT !.chunk = n, !.remaining = IF n = 0 THEN 0 ELSE @]
      BY <2>1 DEF ChunkSize
    <3>2. upload'.declared = upload.declared /\ upload'.body = upload.body
      BY <3>1 DEF TypeOK, UploadType
    <3>3. buffered' = buffered - 1
      BY <2>1 DEF ChunkSize, TakeLine
    <3>4. state' \in {"CONTINUE_SENT", "BODY_RECEIVED", "FOOTERS_RECEIVED"}
      BY <2>1 DEF ChunkSize, BodyState
    <3> QED BY <1>1, <1>2, <1>3, <3>2, <3>3, <3>4
  <2>2. CASE ChunkData
    <3>1. PICK n \in 0 .. W - 1 :
             /\ n <= buffered
             /\ upload' = [BodyCall(upload, n) EXCEPT !.chunk = @ - n]
             /\ buffered' = buffered - n
      BY <1>1, <2>2 DEF ChunkData
    <3>2. /\ BodyCall(upload, n) \in UploadType
          /\ BodyCall(upload, n).body = upload.body + n
          /\ BodyCall(upload, n).declared = upload.declared
      BY BodyCallCounts, BodyCallType DEF TypeOK
    <3>3. upload'.declared = upload.declared /\ upload'.body = upload.body + n
      BY <3>1, <3>2 DEF UploadType
    <3>4. UNCHANGED state
      BY <2>2 DEF ChunkData
    <3> QED BY <1>1, <1>2, <1>3, <3>1, <3>3, <3>4
  <2> QED BY <2>1, <2>2
<1> QED BY <1>2, <1>3, <1>4
        DEF BodyCounted, Known, Whole, Queued, HeaderStates, FooterStates, Early, Serving

LEMMA CallCounted ==
  ASSUME TypeOK, TypeOK', BodyCounted, CallHandlerFirst
  PROVE  BodyCounted'
<1> DEFINE wait100 == ~Queued /\ upload.expect
           refused == Queued /\ upload.method \in {"POST", "PUT"}
           left    == IF refused /\ ~wait100 THEN 0 ELSE upload.remaining
<1>1. /\ state = "HEADERS_PROCESSED" /\ UNCHANGED <<reply, buffered, budget>>
      /\ upload' = [upload EXCEPT !.remaining = left]
      /\ read_closed' = (read_closed \/ refused)
      /\ state' = CASE wait100  -> "CONTINUE_SENDING"
                    [] left = 0 -> "FOOTERS_RECEIVED"
                    [] OTHER    -> "CONTINUE_SENT"
  BY DEF CallHandlerFirst, Idle, input
<1>2. /\ upload'.body = upload.body /\ upload'.remaining = left
      /\ upload'.declared = upload.declared /\ upload'.chunked = upload.chunked
  BY <1>1 DEF TypeOK, UploadType
<1>3. state' \in {"CONTINUE_SENDING", "CONTINUE_SENT", "FOOTERS_RECEIVED"}
      /\ state' \notin HeaderStates \cup FooterStates
  BY <1>1 DEF HeaderStates, FooterStates
<1>4. /\ upload.body = 0 /\ (Known => Exact) /\ (read_closed => Queued)
      /\ upload.body + buffered + budget <= MaxUnits /\ (upload.chunked => ~Known)
  BY <1>1 DEF BodyCounted, Early
<1>5. read_closed' => Queued
  BY <1>1, <1>4
<1>6. CASE Queued
  BY <1>1, <1>2, <1>3, <1>4, <1>5, <1>6 DEF BodyCounted, Known, Queued, Early
<1>7. CASE ~Queued
  <2>1. left = upload.remaining
    BY <1>7
  <2>2. /\ state' # "CONTINUE_SENDING" /\ left = 0 => state' = "FOOTERS_RECEIVED"
        /\ left # 0 => state' # "FOOTERS_RECEIVED"
    BY <1>1
  <2> HIDE DEF left
  <2>3. upload.remaining \in Nat /\ upload.declared \in Nat
    BY ConnectionAssumption DEF ConnectionAssumption, TypeOK, UploadType
  <2> QED BY <1>1, <1>2, <1>3, <1>4, <1>5, <1>7, <2>1, <2>2, <2>3
          DEF BodyCounted, Known, Exact, Pending, Whole, Early, HeaderStates, FooterStates
<1> QED BY <1>6, <1>7

LEMMA RestCounted ==
  ASSUME TypeOK, TypeOK', BodyCounted, MaxUnits < W, NoLine \/ NoBody \/ Respond
  PROVE  BodyCounted'
<1>1. buffered \in Nat /\ budget \in Nat
  BY DEF TypeOK
<1>2. CASE NoLine
  <2>1. Over \/ Aside
    BY <1>1, <1>2, CloseOver DEF NoLine, Close, Aside, input
  <2> QED BY <2>1, OverCounted, AsideCounted
<1>3. CASE NoBody
  <2>1. /\ state = "CONTINUE_SENT" /\ UNCHANGED <<read_closed, reply, upload, buffered, budget>>
        /\ \/ state' = state
           \/ /\ state' \in {"BODY_RECEIVED", "FOOTERS_RECEIVED"}
              /\ upload.remaining = 0 \/ (upload.remaining = MHD_SIZE_UNKNOWN /\ read_closed)
    BY <1>3 DEF NoBody, Idle, input
  <2>2. CASE state' = state
    <3>1. Aside
      BY <1>1, <2>1, <2>2 DEF Aside
    <3> QED BY <3>1, AsideCounted
  <2>3. CASE state' # state
    <3>1. ~Queued => upload.remaining = 0
      BY <2>1, <2>3 DEF BodyCounted, Serving
    <3>2. /\ upload.remaining \in Nat /\ upload.declared \in Nat /\ upload.body \in Nat
          /\ upload.body + buffered + budget <= MaxUnits /\ MaxUnits \in Nat /\ W \in Nat \ {0, 1}
      BY ConnectionAssumption DEF ConnectionAssumption, BodyCounted, TypeOK, UploadType
    <3>3. ~Queued => Whole
      <4>1. SUFFICES ASSUME ~Queued, Known PROVE upload.declared = upload.body
        BY DEF Whole, Known
      <4>2. Pending \/ Wrapped
        BY <2>1, <4>1 DEF BodyCounted
      <4>3. ~Wrapped
        BY <1>1, <3>1, <3>2, <4>1 DEF Wrapped, MHD_SIZE_UNKNOWN
      <4> QED BY <3>1, <3>2, <4>1, <4>2, <4>3 DEF Pending, Exact
    <3> QED BY <2>1, <2>3, <3>2, <3>3
            DEF BodyCounted, Known, Whole, Queued, HeaderStates, FooterStates, Early, Serving
  <2> QED BY <2>2, <2>3
<1>4. CASE Respond
  <2>1. /\ state = "FOOTERS_RECEIVED" /\ UNCHANGED <<state, read_closed, upload, buffered, budget>>
        /\ \E r \in ServiceResponses : reply' = QueueResponse(reply, r)
        /\ ~Queued
    BY <1>4 DEF Respond, Idle, input
  <2>2. Queued'
    <3>1. PICK r \in ServiceResponses : reply' = QueueResponse(reply, r)
      BY <2>1
    <3>2. r.kind # "none"
      BY DEF ServiceResponses, StaticResponse, GeneratorResponse
    <3>3. reply'.response = r
      BY <2>1, <3>1 DEF QueueResponse, Queued, TypeOK, ReplyType
    <3> QED BY <3>2, <3>3 DEF Queued
  <2> QED BY <2>1, <2>2
          DEF BodyCounted, Known, HeaderStates, FooterStates, Early, Serving
<1> QED BY <1>2, <1>3, <1>4

(* Only the last call of the access handler counts as handled.             *)
LEMMA OnlyRespond ==
  ASSUME TypeOK, RequestOwned, [Next]_vars, request'.handled > request.handled
  PROVE  Respond \/ Refuse
<1>1. request \in RequestType /\ Owned(request) /\ request.handled \in Nat
  BY DEF TypeOK, RequestOwned, RequestType
<1>2. ASSUME Quiet \/ Elapse \/ StopDaemon \/ ShutConnections \/ Done \/ UNCHANGED vars
      PROVE  FALSE
  <2>1. UNCHANGED request
    BY <1>2, QuietStep DEF Elapse, StopDaemon, ShutConnections, Done, vars, closing
  <2> QED BY <1>1, <2>1
<1>3. ASSUME Closes PROVE FALSE
  <2>1. PICK code \in Codes : request' \in {request, NotifyCompleted(request, code)}
    BY <1>3, ClosesStep DEF Completes
  <2> QED BY <1>1, <2>1, NotifyOwned
<1>4. ASSUME CallHandlerFirst PROVE FALSE
  <2>1. request.context = "NULL" /\ request.created = 0 /\ request.handled = 0
    BY <1>1, <1>4 DEF CallHandlerFirst, Idle, RequestOwned, Early, Owned, RequestType
  <2>2. request' \in {request, FirstCall(request)}
    BY <1>4 DEF CallHandlerFirst
  <2> QED BY <1>1, <2>1, <2>2, FirstOwned
<1>5. ASSUME PlainBody \/ ChunkData PROVE FALSE
  <2>1. request.context = "live" /\ request' = UseRequest(request)
    BY <1>5 DEF PlainBody, ChunkData, BodyOpen, Idle, RequestOwned, Serving
  <2> QED BY <1>1, <2>1, UseOwned
<1>6. ASSUME Finish PROVE FALSE
  <2>1. /\ NotifyCompleted(request, "COMPLETED_OK") \in RequestType
        /\ NotifyCompleted(request, "COMPLETED_OK").handled = request.handled
    BY <1>1, NotifyType, NotifyOwned DEF Codes
  <2>2. request'.handled = NotifyCompleted(request, "COMPLETED_OK").handled
    BY <1>6, <2>1 DEF Finish, RequestType
  <2> QED BY <1>1, <2>1, <2>2
<1> QED BY <1>2, <1>3, <1>4, <1>5, <1>6
        DEF Next, Thread, Read, Write, Parse, Body, Answer, Loop, Quiet, Closes

(* Every step keeps the counters of the body.                              *)
LEMMA BodyStep ==
  ASSUME TypeOK, TypeOK', RequestOwned, RequestOwned', BodyCounted, MaxUnits < W, [Next]_vars
  PROVE  BodyCounted'
<1>1. CASE Over
  BY <1>1, OverCounted
<1>2. CASE Aside
  BY <1>2, AsideCounted
<1>3. CASE \/ WriteContinue \/ RequestLine \/ RequestLineTooLong \/ HeaderLine \/ EmptyLine
           \/ ParseHeaders \/ ParseHeadersTooLong \/ ContinueSent
  BY <1>3, HeaderCounted
<1>4. CASE PlainBody \/ ChunkSize \/ ChunkData
  BY <1>4, PlainCounted, ChunkCounted
<1>5. CASE CallHandlerFirst
  BY <1>5, CallCounted
<1>6. CASE NoLine \/ NoBody \/ Respond
  BY <1>6, RestCounted
<1>7. Read \/ Write => Over \/ Aside \/ WriteContinue
  BY OverSteps, AsideSteps DEF Read, Write
<1>8. Parse => \/ Over \/ RequestLine \/ RequestLineTooLong \/ HeaderLine \/ EmptyLine
               \/ NoLine \/ ParseHeaders \/ ParseHeadersTooLong
  BY OverSteps DEF Parse
<1>9. Body => \/ Over \/ CallHandlerFirst \/ ContinueSent \/ PlainBody \/ ChunkSize
              \/ ChunkData \/ NoBody
  BY OverSteps DEF Body
<1>10. Answer => Over \/ Aside \/ Respond
  BY OverSteps, AsideSteps DEF Answer
<1>11. Loop => Over \/ Aside
  BY OverSteps, AsideSteps DEF Loop
<1>12. Elapse \/ StopDaemon \/ ShutConnections \/ Done \/ UNCHANGED vars => Aside
  BY AsideSteps
<1> QED BY <1>1, <1>2, <1>3, <1>4, <1>5, <1>6, <1>7, <1>8, <1>9, <1>10, <1>11, <1>12
        DEF Next, Thread

(* The service handles a request with a Content-Length when exactly that   *)
(* many bytes of the body have been given to it.  Fewer than W bytes, 2^64 *)
(* of them in the code, must come over one connection: the counter of a    *)
(* request with a length of 0 and Expect: 100-continue counts them all.    *)
THEOREM BodyIsWhole ==
  ASSUME MaxUnits < W
  PROVE  Spec => WholeBody
<1>1. Init => BodyCounted
  <2>1. SUFFICES ASSUME Init PROVE BodyCounted
    OBVIOUS
  <2>2. "INIT" \in HeaderStates /\ "INIT" \in Early
    BY DEF HeaderStates, Early
  <2>3. MaxUnits \in Nat
    BY ConnectionAssumption DEF ConnectionAssumption
  <2> QED BY <2>1, <2>2, <2>3 DEF Init, BodyCounted, NoUpload, FooterStates
<1>2. /\ TypeOK /\ TypeOK' /\ RequestOwned /\ RequestOwned' /\ BodyCounted /\ [Next]_vars
        => BodyCounted'
  BY BodyStep
<1>3. TypeOK /\ TypeOK' /\ RequestOwned /\ BodyCounted /\ [Next]_vars
        => [request'.handled > request.handled
              => upload.declared \in {upload.body, MHD_SIZE_UNKNOWN}]_vars
  <2>1. SUFFICES ASSUME TypeOK, RequestOwned, BodyCounted, [Next]_vars,
                        request'.handled > request.handled
                 PROVE  Whole
    BY DEF Whole
  <2>2. Respond \/ Refuse
    BY <2>1, OnlyRespond
  <2> QED BY <2>1, <2>2 DEF Respond, Refuse, Idle, BodyCounted
<1> QED BY <1>1, <1>2, <1>3, TypeCorrect, Ownership, PTL DEF Spec, WholeBody
-----------------------------------------------------------------------------
(***************************************************************************)
(* What the counters of the response say while the connection is open.     *)
(***************************************************************************)
Promised == IF upload.method = "HEAD" THEN 0 ELSE reply.response.size
Open     == state \notin {"CLOSED", "IN_CLEANUP"}

Unsent ==
  reply.left = 0 /\ reply.unmade = 0 /\ reply.delivered = 0
Fixed ==
  reply.unmade = 0 /\ reply.delivered + reply.left = Promised
Streamed ==
  /\ reply.delivered + reply.left + reply.unmade = reply.response.size
  /\ upload.method = "HEAD" => reply.delivered = 0 /\ state # "NORMAL_BODY_READY"
  /\ state # "NORMAL_BODY_READY" => reply.left = 0

Counted ==
  IF ~Queued THEN Unsent ELSE IF IsGenerator THEN Streamed ELSE Fixed

ReplyCounted ==
  Open =>
    /\ Counted
    /\ state = "INIT" => ~Queued /\ upload.method # "HEAD"
    /\ state \in {"BODY_SENT", "FOOTERS_SENT"} => reply.left = 0 /\ ~IsGenerator

(* The steps after which the connection is closed, and those that leave    *)
(* the response and the counters of what is sent of it.                    *)
Untouched ==
  /\ UNCHANGED reply /\ upload'.method = upload.method
  /\ state' \notin {"INIT", "BODY_SENT", "FOOTERS_SENT"} \/ state' = state
  /\ state = "NORMAL_BODY_READY" => state' = state
  /\ state' = "NORMAL_BODY_READY" /\ IsGenerator => state' = state
  /\ Open' => Open

LEMMA UntouchedCounted ==
  ASSUME TypeOK, ReplyCounted, Untouched
  PROVE  ReplyCounted'
BY DEF Untouched, ReplyCounted, Counted, Unsent, Fixed, Streamed, Promised, Open, Queued,
       IsGenerator

(* A response that has just been queued is all still to be sent.           *)
LEMMA QueueCounted ==
  ASSUME TypeOK, Open, ReplyCounted, NEW r \in ResponseType, r.kind # "none",
         reply' = QueueResponse(reply, r), upload'.method = upload.method,
         state' \notin {"INIT", "BODY_SENT", "FOOTERS_SENT", "NORMAL_BODY_READY"},
         state # "NORMAL_BODY_READY"
  PROVE  ReplyCounted'
<1>1. CASE Queued
  BY <1>1, UntouchedCounted DEF Untouched, QueueResponse, Queued
<1>2. CASE ~Queued
  <2> DEFINE left == IF r.kind = "generator" \/ upload.method = "HEAD" THEN 0 ELSE r.size
             unmade == IF r.kind = "generator" THEN r.size ELSE 0
  <2>1. reply' = [reply EXCEPT !.response = r, !.left = left, !.unmade = unmade]
    BY <1>2 DEF QueueResponse, Queued
  <2>2. reply.delivered = 0 /\ r.size \in Nat
    BY <1>2 DEF ReplyCounted, Counted, Unsent, ResponseType
  <2>3. /\ reply'.response = r /\ reply'.left = left /\ reply'.unmade = unmade
        /\ reply'.delivered = 0
    <3> HIDE DEF left, unmade
    <3> QED BY <2>1, <2>2 DEF TypeOK, ReplyType
  <2>4. Queued' /\ (IsGenerator' <=> r.kind = "generator")
    BY <2>3 DEF Queued, IsGenerator
  <2>5. CASE r.kind = "generator"
    <3>1. Streamed'
      BY <2>2, <2>3, <2>5 DEF Streamed
    <3> QED BY <2>4, <2>5, <3>1 DEF ReplyCounted, Counted
  <2>6. CASE r.kind # "generator"
    <3>1. Fixed'
      BY <2>2, <2>3, <2>6 DEF Fixed, Promised
    <3> QED BY <2>4, <2>6, <3>1 DEF ReplyCounted, Counted
  <2> QED BY <2>5, <2>6
<1> QED BY <1>1, <1>2

LEMMA TransmitCounted ==
  ASSUME TypeOK, Open, ReplyCounted, state # "NORMAL_BODY_READY", NEW ok,
         TransmitError(ok) \/ CloseAndTransmitError(ok), UNCHANGED upload
  PROVE  ReplyCounted'
<1>1. state' \in {"HEADERS_SENDING", "CLOSED"} /\ reply' = QueueResponse(reply, ErrorResponse)
  BY DEF TransmitError, CloseAndTransmitError, Close, CloseWith
<1>2. ErrorResponse \in ResponseType /\ ErrorResponse.kind # "none"
  BY ResponseTypes DEF ErrorResponse
<1> QED BY <1>1, <1>2, QueueCounted

LEMMA CloseCounted ==
  ASSUME NEW r, NEW code, CloseWith(r, code)
  PROVE  ReplyCounted'
BY DEF CloseWith, ReplyCounted, Open

LEMMA ClosingSteps ==
  ASSUME TypeOK, RequestOwned
  PROVE  /\ ReadEnd \/ ReadError \/ WriteError \/ BadRequestLine \/ BadContentLength => ~Open'
         /\ BadBody \/ Refuse \/ HangUp \/ TimedOut \/ Cleanup \/ Finish => ~Open'
         /\ ReadData \/ NoLine \/ Exit \/ BuildHeaders => ~Open' \/ Untouched
<1>1. ReadEnd \/ ReadError \/ WriteError \/ BadRequestLine \/ BadContentLength => ~Open'
  BY DEF ReadEnd, ReadError, WriteError, BadRequestLine, BadContentLength, Close, CloseWith, Open
<1>2. BadBody \/ Refuse \/ HangUp \/ TimedOut \/ Cleanup => ~Open'
  BY DEF BadBody, Refuse, HangUp, TimedOut, Cleanup, Close, CloseWith, Open
<1>3. Finish => ~Open'
  <2>1. Finish => read_closed \/ reply.response.close
    BY DEF Finish, Idle, RequestOwned, Queued, ServiceKinds, Late, TypeOK, ReplyType,
           ResponseType
  <2> QED BY <2>1 DEF Finish, Open
<1>4. ReadData \/ NoLine \/ Exit => ~Open' \/ Untouched
  BY DEF ReadData, NoLine, Exit, Close, CloseWith, Open, Untouched
<1>5. BuildHeaders => ~Open' \/ Untouched
  <2>1. BuildHeaders => upload'.method = upload.method
    BY DEF BuildHeaders, TypeOK, UploadType
  <2> QED BY <2>1 DEF BuildHeaders, Idle, Close, CloseWith, Open, Untouched
<1> QED BY <1>1, <1>2, <1>3, <1>4, <1>5

LEMMA MethodKept ==
  ASSUME TypeOK, NEW u \in BodyHeaders
  PROVE  u \in UploadType /\ u.method = upload.method
<1>1. upload \in UploadType /\ u \in UploadType
  BY BodyHeadersType DEF TypeOK
<1>2. CASE \E n \in Uploads \cup {0} : u = [upload EXCEPT !.remaining = n, !.declared = n]
  BY <1>1, <1>2 DEF UploadType
<1>3. CASE \E chunked \in BOOLEAN :
             u = [upload EXCEPT !.remaining = MHD_SIZE_UNKNOWN,
                                !.declared = MHD_SIZE_UNKNOWN, !.chunked = chunked]
  BY <1>1, <1>3 DEF UploadType
<1> QED BY <1>1, <1>2, <1>3 DEF BodyHeaders

LEMMA UntouchedSteps ==
  ASSUME TypeOK
  PROVE  /\ ReadNothing \/ WriteNothing \/ WriteContinue \/ WriteHeaders => Untouched
         /\ HeaderLine \/ EmptyLine \/ ParseHeaders => Untouched
         /\ CallHandlerFirst \/ ContinueSent \/ PlainBody \/ ChunkSize => Untouched
         /\ ChunkData \/ NoBody => Untouched
         /\ HeadersSent \/ BodyReady \/ IdleSending \/ LoopTest \/ Settle => Untouched
         /\ (\E ready \in SUBSET Events : Poll(ready)) => Untouched
         /\ Elapse \/ StopDaemon \/ ShutConnections \/ Done \/ UNCHANGED vars => Untouched
<1>1. ReadNothing \/ WriteNothing \/ WriteHeaders => Untouched
  BY DEF ReadNothing, WriteNothing, WriteHeaders, Untouched, Open, closing
<1>2. WriteContinue => Untouched
  BY DEF WriteContinue, Untouched, Open, closing, TypeOK, UploadType
<1>3. HeaderLine => Untouched
  <2>1. HeaderLine => upload'.method = upload.method
    BY DEF HeaderLine, TypeOK, UploadType
  <2> QED BY <2>1 DEF HeaderLine, Idle, FooterStates, Untouched, Open
<1>4. EmptyLine => Untouched
  BY DEF EmptyLine, Idle, FooterStates, Untouched, Open
<1>5. ParseHeaders => Untouched
  <2>1. ASSUME ParseHeaders PROVE upload'.method = upload.method
    <3>1. PICK u \in BodyHeaders, e, k \in BOOLEAN :
            upload' = [u EXCEPT !.expect = e, !.keepalive = k]
      <4>1. {FALSE, Continues} \subseteq BOOLEAN
        BY ConnectionAssumption DEF ConnectionAssumption
      <4> QED BY <2>1, <4>1 DEF ParseHeaders
    <3>2. u \in UploadType /\ u.method = upload.method
      BY MethodKept
    <3> QED BY <3>1, <3>2 DEF UploadType
  <2> QED BY <2>1 DEF ParseHeaders, Idle, Untouched, Open
<1>6. CallHandlerFirst => Untouched
  <2>1. ASSUME CallHandlerFirst
        PROVE  /\ state' \in {"CONTINUE_SENDING", "FOOTERS_RECEIVED", "CONTINUE_SENT"}
               /\ \E n : upload' = [upload EXCEPT !.remaining = n]
               /\ state = "HEADERS_PROCESSED" /\ UNCHANGED reply
    BY <2>1 DEF CallHandlerFirst, Idle
  <2> QED BY <2>1 DEF Untouched, Open, TypeOK, UploadType
<1>7. ContinueSent => Untouched
  BY DEF ContinueSent, Idle, Untouched, Open
<1>8. PlainBody => Untouched
  <2>1. PlainBody => upload'.method = upload.method
    BY DEF PlainBody, BodyCall, TypeOK, UploadType
  <2> QED BY <2>1 DEF PlainBody, BodyOpen, Idle, BodyState, Untouched, Open
<1>9. ChunkSize => Untouched
  <2>1. ChunkSize => upload'.method = upload.method
    BY DEF ChunkSize, TypeOK, UploadType
  <2> QED BY <2>1 DEF ChunkSize, BodyOpen, Idle, BodyState, Untouched, Open
<1>10. ChunkData => Untouched
  <2>1. ChunkData => upload'.method = upload.method
    BY DEF ChunkData, BodyCall, TypeOK, UploadType
  <2> QED BY <2>1 DEF ChunkData, BodyOpen, Idle, Untouched, Open
<1>11. NoBody => Untouched
  BY DEF NoBody, Idle, Untouched, Open
<1>12. HeadersSent \/ BodyReady \/ IdleSending \/ LoopTest \/ Settle => Untouched
  BY DEF HeadersSent, BodyReady, IdleSending, LoopTest, Settle, Idle, Untouched, Open, closing
<1>13. (\E ready \in SUBSET Events : Poll(ready)) => Untouched
  BY DEF Poll, Untouched, Open, closing
<1>14. Elapse \/ StopDaemon \/ ShutConnections \/ Done \/ UNCHANGED vars => Untouched
  BY DEF Elapse, StopDaemon, ShutConnections, Done, vars, Untouched, Open, closing
<1> QED BY <1>1, <1>2, <1>3, <1>4, <1>5, <1>6, <1>7, <1>8, <1>9, <1>10, <1>11, <1>12, <1>13, <1>14

(* The steps that queue a response or begin with a request.                *)
LEMMA QueueingCounted ==
  ASSUME TypeOK, ReplyCounted,
         \/ RequestLine \/ RequestLineTooLong \/ HeaderLineTooLong \/ MalformedHeaderLine
         \/ ParseHeadersTooLong \/ TooBig \/ Respond
  PROVE  ReplyCounted'
<1>1. CASE RequestLine
  <2>1. state = "INIT" /\ state' = "URL_RECEIVED" /\ UNCHANGED reply
    BY <1>1 DEF RequestLine, Idle
  <2> QED BY <2>1 DEF ReplyCounted, Counted, Unsent, Open, Queued
<1>2. CASE RequestLineTooLong
  <2> DEFINE left == IF upload'.method = "HEAD" THEN 0 ELSE 1
  <2>1. state = "INIT" /\ state' = "URL_RECEIVED"
    BY <1>2 DEF RequestLineTooLong, Idle
  <2>2. ~Queued /\ upload.method # "HEAD" /\ Unsent
    BY <2>1 DEF ReplyCounted, Counted, Open
  <2>3. QueueResponse(reply, ErrorResponse)
          = [reply EXCEPT !.response = ErrorResponse, !.left = 1, !.unmade = 0]
    BY <2>2 DEF QueueResponse, Queued, ErrorResponse
  <2>4. reply' = [reply EXCEPT !.response = ErrorResponse, !.left = left, !.unmade = 0]
    BY <1>2, <2>3 DEF RequestLineTooLong, TypeOK, ReplyType
  <2>5. /\ reply'.response = ErrorResponse /\ reply'.left = left
        /\ reply'.unmade = 0 /\ reply'.delivered = 0
    <3> HIDE DEF left
    <3> QED BY <2>2, <2>4 DEF Unsent, TypeOK, ReplyType
  <2>6. Fixed' /\ Queued' /\ ~IsGenerator'
    BY <2>5 DEF Fixed, Promised, Queued, IsGenerator, ErrorResponse
  <2> QED BY <2>1, <2>6 DEF ReplyCounted, Counted
<1>3. CASE HeaderLineTooLong
  <2>1. Open /\ state # "NORMAL_BODY_READY" /\ UNCHANGED upload
        /\ \E ok \in HeaderBuilt : TransmitError(ok)
    BY <1>3 DEF HeaderLineTooLong, Idle, Open
  <2> QED BY <2>1, TransmitCounted
<1>4. CASE MalformedHeaderLine
  <2>1. Open /\ state # "NORMAL_BODY_READY" /\ UNCHANGED upload
        /\ \E ok \in HeaderBuilt : CloseAndTransmitError(ok)
    BY <1>4 DEF MalformedHeaderLine, Idle, FooterStates, Open
  <2> QED BY <2>1, TransmitCounted
<1>5. CASE TooBig
  <2>1. Open /\ state # "NORMAL_BODY_READY" /\ UNCHANGED upload
        /\ \E ok \in HeaderBuilt : TransmitError(ok)
    BY <1>5 DEF TooBig, HeaderStates, FooterStates, Open
  <2> QED BY <2>1, TransmitCounted
<1>6. CASE ParseHeadersTooLong
  <2>1. /\ state = "HEADERS_RECEIVED" /\ reply' = QueueResponse(reply, ErrorResponse)
        /\ state' \in {"HEADERS_PROCESSED", "CLOSED"} /\ \E u \in BodyHeaders : upload' = u
    BY <1>6 DEF ParseHeadersTooLong, Close, CloseWith, Idle
  <2>2. upload'.method = upload.method
    BY <2>1, MethodKept
  <2>3. ErrorResponse \in ResponseType /\ ErrorResponse.kind # "none"
    BY ResponseTypes DEF ErrorResponse
  <2> QED BY <2>1, <2>2, <2>3, QueueCounted DEF Open
<1>7. CASE Respond
  <2>1. PICK r \in ServiceResponses : reply' = QueueResponse(reply, r)
    BY <1>7 DEF Respond
  <2>2. r \in ResponseType /\ r.kind # "none"
    BY ResponseTypes DEF ServiceResponses, StaticResponse, GeneratorResponse
  <2>3. state = "FOOTERS_RECEIVED" /\ UNCHANGED <<state, upload>>
    BY <1>7 DEF Respond, Idle
  <2> QED BY <2>1, <2>2, <2>3, QueueCounted DEF Open
<1> QED BY <1>1, <1>2, <1>3, <1>4, <1>5, <1>6, <1>7

(* The steps that send the body of the response.                           *)
LEMMA GeneratedCounted ==
  ASSUME TypeOK, ReplyCounted, Open, IsGenerator, reply.left = 0, upload.method # "HEAD",
         reply.unmade # 0, Generated, state' = "NORMAL_BODY_READY", UNCHANGED upload
  PROVE  ReplyCounted'
<1>1. /\ reply \in ReplyType /\ reply.unmade \in Nat /\ reply.delivered \in Nat
      /\ reply.response.size \in Nat
  BY DEF TypeOK, ReplyType, ResponseType
<1>2. PICK n \in {1, reply.unmade} : reply' = [reply EXCEPT !.left = n, !.unmade = @ - n]
  BY DEF Generated
<1>3. /\ reply'.response = reply.response /\ reply'.delivered = reply.delivered
      /\ reply'.left = n /\ reply'.unmade = reply.unmade - n
  BY <1>1, <1>2 DEF ReplyType
<1>4. Streamed
  BY DEF ReplyCounted, Counted, Queued, IsGenerator
<1>5. reply'.delivered + reply'.left + reply'.unmade = reply'.response.size
  BY <1>1, <1>2, <1>3, <1>4 DEF Streamed
<1>6. Queued' /\ IsGenerator' /\ Streamed'
  BY <1>3, <1>5 DEF Queued, IsGenerator, Streamed
<1> QED BY <1>6 DEF ReplyCounted, Counted

LEMMA SendingCounted ==
  ASSUME TypeOK, RequestOwned, ReplyCounted,
         WriteBody \/ WriteNeedsMore \/ GenerateFirst \/ EmptyBody \/ BodySent
  PROVE  ReplyCounted'
<1>1. /\ reply \in ReplyType /\ reply.left \in Nat /\ reply.unmade \in Nat
      /\ reply.delivered \in Nat /\ reply.response.size \in Nat
  BY DEF TypeOK, ReplyType, ResponseType
<1>2. CASE WriteBody
  <2>1. state = "NORMAL_BODY_READY" /\ UNCHANGED upload /\ Open /\ Queued
    BY <1>2 DEF WriteBody, Open, RequestOwned, Late, SendStates
  <2>2. PICK n \in {reply.left, 1} :
           /\ n <= reply.left
           /\ reply' = [reply EXCEPT !.left = @ - n, !.delivered = @ + n]
           /\ state' = IF ~IsGenerator /\ reply.left = n THEN "FOOTERS_SENT" ELSE state
    BY <1>2 DEF WriteBody
  <2>3. n \in Nat
    BY <1>1, <2>2
  <2>4. /\ reply'.response = reply.response /\ reply'.unmade = reply.unmade
        /\ reply'.left = reply.left - n /\ reply'.delivered = reply.delivered + n
    BY <1>1, <2>2, <2>3 DEF ReplyType
  <2>5. (Queued' <=> Queued) /\ (IsGenerator' <=> IsGenerator) /\ Promised' = Promised
    BY <2>1, <2>4 DEF Queued, IsGenerator, Promised
  <2>6. CASE IsGenerator
    <3>1. Streamed /\ reply.left > 0
      BY <1>2, <2>1, <2>6 DEF WriteBody, ReplyCounted, Counted
    <3>2. upload.method # "HEAD"
      BY <3>1 DEF Streamed
    <3>3. state' = "NORMAL_BODY_READY"
      BY <2>1, <2>2, <2>6
    <3>4. reply'.delivered + reply'.left + reply'.unmade = reply'.response.size
      BY <1>1, <2>2, <2>3, <2>4, <3>1 DEF Streamed
    <3>5. Streamed'
      BY <2>1, <3>2, <3>3, <3>4 DEF Streamed
    <3> QED BY <2>1, <2>5, <2>6, <3>3, <3>5 DEF ReplyCounted, Counted
  <2>7. CASE ~IsGenerator
    <3>1. Fixed
      BY <2>1, <2>7 DEF ReplyCounted, Counted
    <3>2. Fixed'
      <4>1. reply'.delivered + reply'.left = reply.delivered + reply.left
        BY <1>1, <2>3, <2>4
      <4> QED BY <2>4, <2>5, <3>1, <4>1 DEF Fixed
    <3>3. state' \in {"FOOTERS_SENT", "NORMAL_BODY_READY"} /\ (state' = "FOOTERS_SENT" => reply'.left = 0)
      BY <1>1, <2>1, <2>2, <2>4
    <3> QED BY <2>1, <2>5, <2>7, <3>2, <3>3 DEF ReplyCounted, Counted
  <2> QED BY <2>6, <2>7
<1>3. CASE WriteNeedsMore \/ GenerateFirst
  <2>1. /\ state \in {"NORMAL_BODY_READY", "NORMAL_BODY_UNREADY"} /\ Open /\ IsGenerator
        /\ UNCHANGED upload
    BY <1>3 DEF WriteNeedsMore, NeedsMore, GenerateFirst, Idle, Open
  <2>2. Queued /\ Streamed
    BY <2>1 DEF IsGenerator, Queued, ReplyCounted, Counted
  <2>3. reply.left = 0
    BY <1>3, <2>2 DEF WriteNeedsMore, NeedsMore, GenerateFirst, Idle, Streamed
  <2>4. CASE ~Open'
    BY <2>4 DEF ReplyCounted
  <2>5. CASE UNCHANGED <<state, reply>>
    <3>1. Untouched
      BY <2>1, <2>5 DEF Untouched, Open
    <3> QED BY <3>1, UntouchedCounted
  <2>6. CASE Generated /\ state' = "NORMAL_BODY_READY" /\ upload.method # "HEAD" /\ reply.unmade # 0
    BY <2>1, <2>3, <2>6, GeneratedCounted
  <2>7. WriteNeedsMore => \/ ~Open'
                          \/ Generated /\ state' = "NORMAL_BODY_READY" /\ ~CallbackEnds
    BY DEF WriteNeedsMore, NeedsMore, CloseWith, Open
  <2>8. WriteNeedsMore => upload.method # "HEAD"
    BY <2>2 DEF WriteNeedsMore, NeedsMore, Streamed
  <2>9. GenerateFirst => \/ ~Open' \/ UNCHANGED <<state, reply>>
                         \/ Generated /\ state' = "NORMAL_BODY_READY" /\ ~CallbackEnds
                              /\ upload.method # "HEAD"
    BY DEF GenerateFirst, CloseWith, Open, CallbackStalls
  <2> QED BY <1>3, <2>4, <2>5, <2>6, <2>7, <2>8, <2>9 DEF CallbackEnds
<1>4. CASE EmptyBody
  <2>1. /\ state = "NORMAL_BODY_UNREADY" /\ state' = "BODY_SENT" /\ ~IsGenerator
        /\ reply.response.size = 0 /\ UNCHANGED <<reply, upload>> /\ Open
    BY <1>4 DEF EmptyBody, Idle, Open
  <2>2. Queued /\ Fixed
    BY <2>1 DEF RequestOwned, Late, ReplyCounted, Counted
  <2>3. reply.left = 0
    BY <1>1, <2>1, <2>2 DEF Fixed, Promised
  <2> QED BY <2>1, <2>2, <2>3 DEF ReplyCounted, Counted, Fixed, Promised, Queued, IsGenerator
<1>5. CASE BodySent
  <2>1. state = "BODY_SENT" /\ state' \in {"FOOTERS_SENT", "CLOSED"} /\ UNCHANGED <<reply, upload>>
    BY <1>5 DEF BodySent, Idle, Close, CloseWith
  <2>2. Queued
    BY <2>1 DEF RequestOwned, Late
  <2> QED BY <2>1, <2>2 DEF ReplyCounted, Counted, Fixed, Promised, Queued, IsGenerator, Open
<1> QED BY <1>2, <1>3, <1>4, <1>5

(* Every step keeps the counters of the response.                          *)
LEMMA ReplyStep ==
  ASSUME TypeOK, RequestOwned, ReplyCounted, [Next]_vars
  PROVE  ReplyCounted'
<1>1. CASE ~Open'
  BY <1>1 DEF ReplyCounted
<1>2. CASE Untouched
  BY <1>2, UntouchedCounted
<1>3. CASE \/ RequestLine \/ RequestLineTooLong \/ HeaderLineTooLong \/ MalformedHeaderLine
           \/ ParseHeadersTooLong \/ TooBig \/ Respond
  BY <1>3, QueueingCounted
<1>4. CASE WriteBody \/ WriteNeedsMore \/ GenerateFirst \/ EmptyBody \/ BodySent
  BY <1>4, SendingCounted
<1>5. Read \/ Write => ~Open' \/ Untouched \/ WriteBody \/ WriteNeedsMore
  BY ClosingSteps, UntouchedSteps DEF Read, Write
<1>6. Parse => \/ ~Open' \/ Untouched \/ RequestLine \/ RequestLineTooLong \/ HeaderLineTooLong
               \/ MalformedHeaderLine \/ ParseHeadersTooLong
  BY ClosingSteps, UntouchedSteps DEF Parse
<1>7. Body => ~Open' \/ Untouched
  BY ClosingSteps, UntouchedSteps DEF Body
<1>8. Answer => ~Open' \/ Untouched \/ Respond \/ GenerateFirst \/ EmptyBody \/ BodySent
  BY ClosingSteps, UntouchedSteps DEF Answer
<1>9. Loop => ~Open' \/ Untouched \/ TooBig
  BY ClosingSteps, UntouchedSteps DEF Loop
<1>10. Elapse \/ StopDaemon \/ ShutConnections \/ Done \/ UNCHANGED vars => Untouched
  BY UntouchedSteps
<1> QED BY <1>1, <1>2, <1>3, <1>4, <1>5, <1>6, <1>7, <1>8, <1>9, <1>10 DEF Next, Thread

(* The completion of a request is reported with the code it is given, and  *)
(* a request that is not live keeps what was reported.                     *)
LEMMA NotifyReports ==
  ASSUME NEW r \in RequestType, NEW code \in Codes
  PROVE  NotifyCompleted(r, code).toe \in {r.toe, code}
<1> DEFINE done == IF r.aware THEN RequestCompleted(r) ELSE r
<1>1. RequestCompleted(r) \in RequestType /\ RequestCompleted(r).toe = r.toe
  <2>1. r.context \in {"NULL", "live", "freed"} /\ r.deleted + 1 \in Nat
    BY DEF RequestType
  <2>2. CASE r.context = "NULL"
    BY <2>2 DEF RequestCompleted
  <2>3. CASE r.context = "live"
    <3>1. RequestCompleted(r) = [r EXCEPT !.context = "freed", !.deleted = @ + 1]
      BY <2>3 DEF RequestCompleted
    <3> QED BY <2>1, <3>1 DEF RequestType
  <2>4. CASE r.context = "freed"
    BY <2>4 DEF RequestCompleted, RequestType
  <2> QED BY <2>1, <2>2, <2>3, <2>4
<1>2. done \in RequestType /\ done.toe = r.toe
  BY <1>1
<1> HIDE DEF done
<1> QED BY <1>2 DEF NotifyCompleted, done, RequestType

(* Calls report nothing.                                                   *)
LEMMA CallReports ==
  ASSUME NEW r \in RequestType
  PROVE  UseRequest(r).toe = r.toe /\ FirstCall(r).toe = r.toe /\ FinalCall(r).toe = r.toe
           /\ GeneratorCall(r).toe = r.toe
<1>1. UseRequest(r).toe = r.toe /\ GeneratorCall(r).toe = r.toe
  BY DEF UseRequest, GeneratorCall, RequestType
<1>2. FinalCall(r).toe = r.toe
  BY <1>1, CallType DEF FinalCall, RequestType
<1>3. FirstCall(r).toe = r.toe
  BY <1>1, CallType DEF FirstCall, RequestType
<1> QED BY <1>1, <1>2, <1>3

(* The only steps that report a request as completed.                      *)
Reported == request.toe # "COMPLETED_OK" /\ request'.toe = "COMPLETED_OK"

Otherwise ==
  \E r \in {request, UseRequest(request), FinalCall(request)}, code \in Codes \ {"COMPLETED_OK"} :
    request' = NotifyCompleted(r, code)

LEMMA OtherwiseQuiet ==
  ASSUME TypeOK, Otherwise
  PROVE  ~Reported
<1>1. PICK r \in {request, UseRequest(request), FinalCall(request)},
           code \in Codes \ {"COMPLETED_OK"} : request' = NotifyCompleted(r, code)
  BY DEF Otherwise
<1>2. r \in RequestType /\ r.toe = request.toe
  BY CallType, CallReports DEF TypeOK
<1> QED BY <1>1, <1>2, NotifyReports DEF Reported

LEMMA ReportedBy ==
  ASSUME TypeOK, RequestOwned, [Next]_vars, Reported
  PROVE  Finish \/ (WriteNeedsMore /\ CallbackEnds) \/ (GenerateFirst /\ CallbackEnds)
<1>1. request \in RequestType /\ Owned(request)
  BY DEF TypeOK, RequestOwned
<1>2. request' # request
  BY DEF Reported
<1>3. ASSUME Quiet \/ Elapse \/ StopDaemon \/ ShutConnections \/ Done \/ UNCHANGED vars
      PROVE  FALSE
  BY <1>2, <1>3, QuietStep DEF Elapse, StopDaemon, ShutConnections, Done, vars, closing
<1>4. ASSUME CallHandlerFirst \/ PlainBody \/ ChunkData \/ Respond PROVE FALSE
  <2>1. request' \in {request, UseRequest(request), FirstCall(request), FinalCall(request)}
    BY <1>4 DEF CallHandlerFirst, PlainBody, ChunkData, Respond
  <2> QED BY <1>1, <2>1, CallReports DEF Reported
<1>5. ReadData \/ ReadEnd \/ ReadError \/ WriteError => Otherwise \/ UNCHANGED request
  BY DEF ReadData, ReadEnd, ReadError, WriteError, Close, CloseWith, Otherwise, Codes
<1>6. BadRequestLine \/ HeaderLineTooLong \/ MalformedHeaderLine \/ NoLine
        => Otherwise \/ UNCHANGED request
  BY DEF BadRequestLine, HeaderLineTooLong, MalformedHeaderLine, NoLine, TransmitError,
         CloseAndTransmitError, Close, CloseWith, Otherwise, Codes
<1>7. ParseHeadersTooLong \/ BadContentLength \/ BuildHeaders \/ BodySent
        => Otherwise \/ UNCHANGED request
  BY DEF ParseHeadersTooLong, BadContentLength, BuildHeaders, BodySent, Close, CloseWith,
         Otherwise, Codes
<1>8. HangUp \/ TimedOut \/ TooBig \/ Exit \/ BadBody \/ Refuse => Otherwise \/ UNCHANGED request
  BY DEF HangUp, TimedOut, TooBig, Exit, BadBody, Refuse, TransmitError, Close, CloseWith,
         Otherwise, Codes
<1>9. (WriteNeedsMore \/ GenerateFirst) /\ ~CallbackEnds => request'.toe = request.toe
  BY <1>1, CallReports DEF WriteNeedsMore, GenerateFirst
<1> QED BY <1>2, <1>3, <1>4, <1>5, <1>6, <1>7, <1>8, <1>9, OtherwiseQuiet
        DEF Next, Thread, Read, Write, Parse, Body, Answer, Loop, Quiet, Reported

(* A request is reported as completed only when every byte of its response *)
(* has been passed to the socket.                                          *)
THEOREM CompletedWhenDelivered == Spec => CompletedIsDelivered
<1>1. Init => ReplyCounted
  BY DEF Init, ReplyCounted, Counted, Unsent, NoReply, NoResponse, NoUpload, Queued
<1>2. TypeOK /\ RequestOwned /\ ReplyCounted /\ [Next]_vars => ReplyCounted'
  BY ReplyStep
<1>3. TypeOK /\ RequestOwned /\ ReplyCounted /\ [Next]_vars
        => [request.toe # "COMPLETED_OK" /\ request'.toe = "COMPLETED_OK"
              => reply.delivered =
                   (IF upload.method = "HEAD" THEN 0 ELSE reply.response.size)]_vars
  <2>1. SUFFICES ASSUME TypeOK, RequestOwned, ReplyCounted, [Next]_vars, Reported
                 PROVE  reply.delivered = Promised
    BY DEF Promised, Reported
  <2>2. /\ reply.left \in Nat /\ reply.unmade \in Nat /\ reply.delivered \in Nat
        /\ reply.response.size \in Nat
    BY <2>1 DEF TypeOK, ReplyType, ResponseType
  <2>3. CASE Finish
    <3>1. state = "FOOTERS_SENT" /\ Open
      BY <2>3 DEF Finish, Idle, Open
    <3>2. Queued /\ ~IsGenerator /\ reply.left = 0 /\ Counted
      BY <2>1, <3>1 DEF ReplyCounted, RequestOwned, Late
    <3> QED BY <2>2, <3>2 DEF Counted, Fixed, Promised
  <2>4. CASE (WriteNeedsMore \/ GenerateFirst) /\ CallbackEnds
    <3>1. /\ state \in {"NORMAL_BODY_READY", "NORMAL_BODY_UNREADY"} /\ Open /\ IsGenerator
          /\ state = "NORMAL_BODY_READY" => reply.left = 0
      BY <2>4 DEF WriteNeedsMore, NeedsMore, GenerateFirst, Idle, Open
    <3>2. Streamed
      BY <2>1, <3>1 DEF IsGenerator, Queued, ReplyCounted, Counted
    <3>3. reply.left = 0
      BY <3>1, <3>2 DEF Streamed
    <3> QED BY <2>2, <2>4, <3>2, <3>3 DEF Streamed, Promised, CallbackEnds
  <2> QED BY <2>1, <2>3, <2>4, ReportedBy
<1> QED BY <1>1, <1>2, <1>3, TypeCorrect, Ownership, PTL DEF Spec, CompletedIsDelivered

=============================================================================
