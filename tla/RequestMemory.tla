--------------------------- MODULE RequestMemory ---------------------------
(***************************************************************************)
(* The memory of one connection over its requests, and whether it is kept  *)
(* for the next one: the read buffer, the lines of the request that stay   *)
(* in it, the records of the headers, the write buffer of the reply.  The  *)
(* states are those of module Connection; what a state does to the         *)
(* request object, the socket and the timeout is modelled there.           *)
(*                                                                         *)
(* The client's bytes have no contents: where a line ends, and what it is, *)
(* is chosen when it is looked for, and "scanned" remembers the bytes that *)
(* have been searched in vain.                                             *)
(***************************************************************************)
EXTENDS MemoryPool, Sequences

CONSTANTS
  Increment,    \* MHD_BUF_INC_SIZE, and the daemon's pool_increment
  RecordSize,   \* sizeof (struct MHD_HTTP_Header)
  LeastBuffer,  \* the smallest write buffer of a chunked body (128)
  HeadSizes,    \* sizes of the head of a reply
  Versions,     \* the versions a request line may carry; "" when it carries none
  Wishes,       \* the Connection headers of a client; "none" when it sends none
  Given,        \* the Connection headers of the service's responses
  MaxBody,      \* bound: Content-Length of a request
  MaxPart       \* bound: name, cookie or arguments of a request line

ASSUME MemoryAssumption ==
  /\ Increment \in Nat \ {0} /\ RecordSize \in Nat \ {0} /\ LeastBuffer \in Nat \ {0}
  /\ HeadSizes \subseteq Nat \ {0} /\ MaxBody \in Nat /\ MaxPart \in Nat

VARIABLES
  phase,        \* "wait" for the socket, in the "idle" loop or at its end, "settle"
  state,        \* connection->state
  read_closed,
  memory,       \* the pool and what lies in it
  request,      \* what the request line and the headers said
  reply         \* the queued response and what its head says

vars == <<phase, state, read_closed, memory, request, reply>>

HeaderStates == {"INIT", "URL_RECEIVED", "HEADER_PART_RECEIVED"}
FooterStates == {"BODY_RECEIVED", "FOOTER_PART_RECEIVED"}
ReadStates == HeaderStates \cup FooterStates \cup {"CONTINUE_SENDING", "CONTINUE_SENT"}
WriteStates == {"HEADERS_SENDING", "NORMAL_BODY_READY", "CHUNKED_BODY_READY", "FOOTERS_SENDING"}
States == ReadStates \cup WriteStates \cup
          {"HEADERS_RECEIVED", "HEADERS_PROCESSED", "FOOTERS_RECEIVED", "HEADERS_SENT",
           "BODY_UNREADY", "CHUNKED_BODY_UNREADY", "BODY_SENT", "FOOTERS_SENT", "CLOSED"}

Block(at, size) == IF at = Null THEN {} ELSE at .. at + size - 1
Least(a, b) == IF a < b THEN a ELSE b

NoBuffer == [at |-> Null, size |-> 0]
NoLast == [at |-> Null, size |-> 0]
NewMemory == [pool |-> Created, at |-> Null, size |-> 0, offset |-> 0, scanned |-> 0,
              shrunk |-> FALSE, lines |-> {}, records |-> {}, last |-> NoLast, write |-> NoBuffer]
NoRequest == [version |-> "NULL", wish |-> "none", upload |-> "none", remaining |-> 0]
NoReply == [kind |-> "none", connection |-> "none", chunked |-> FALSE, announced |-> "none"]

Init ==
  /\ phase = "wait" /\ state = "INIT" /\ read_closed = FALSE
  /\ memory = NewMemory /\ request = NoRequest /\ reply = NoReply

-----------------------------------------------------------------------------
(***************************************************************************)
(* The read buffer: bytes at .. at + size - 1, of which offset are filled. *)
(***************************************************************************)
Full(m) == m.offset = m.size

GrownSize(m) == IF m.size = 0 THEN PoolSize \div 2 ELSE m.size + Increment

Growth(m) == Reallocate(m.pool, m.at, m.size, GrownSize(m))

CanGrow(m) == Growth(m).at # Null

(* try_grow_read_buffer, the buffer is left alone when the pool is full. *)
Grown(m) ==
  IF CanGrow(m)
    THEN [m EXCEPT !.pool = Growth(m).pool, !.at = Growth(m).at, !.size = GrownSize(m)]
    ELSE m

(* get_next_header_line: the line stays, the buffer starts after it. *)
WithoutLine(m, n) ==
  [m EXCEPT !.at = @ + n, !.size = @ - n, !.offset = @ - n, !.scanned = 0,
            !.lines = @ \cup Block(m.at, n)]

(* A line of n bytes ends after those searched before, or with a carriage  *)
(* return that was the last of them.                                       *)
LineEnds(n) ==
  /\ n \in 1 .. memory.offset
  /\ n > memory.scanned \/ (n = memory.scanned /\ memory.scanned < memory.offset)

EmptyLineOf(n) == LineEnds(n) /\ n <= 2
TextLineOf(n) == LineEnds(n) /\ n >= 2

(* MHD_set_connection_value, k times or until the pool is full: a record   *)
(* of each header, from the end.                                           *)
FittingRecords(m, k) == Least(k, (m.pool.end - m.pool.pos) \div RoundToAlign(RecordSize))

WithRecords(m, k) ==
  LET bytes == FittingRecords(m, k) * RoundToAlign(RecordSize)
  IN  [m EXCEPT !.pool.end = @ - bytes,
                !.records = @ \cup Block(m.pool.end - bytes, bytes)]

(* parse_cookie_header copies the header to the end, then adds records.    *)
WithCopy(m, size) ==
  LET got == AllocateEnd(m.pool, size)
  IN  [m EXCEPT !.pool = got.pool, !.records = @ \cup Block(got.at, size)]

-----------------------------------------------------------------------------
(***************************************************************************)
(* The reply.  keepalive_possible, then what build_header_response decides *)
(* about the end of the body and of the connection, then its allocation.   *)
(***************************************************************************)
KeepalivePossible(r) ==
  \/ r.version = "1.1" /\ r.wish \notin {"close", "upgrade"}
  \/ r.version = "1.0" /\ r.wish = "keep-alive"

WithHead(p, r) ==
  LET open == p.kind = "unknown" /\ p.connection # "close" /\ r.wish # "close"
      mustClose == open /\ ~KeepalivePossible(r)
      mustKeep == p.connection = "none" /\ ~mustClose /\ KeepalivePossible(r)
  IN  IF r.version = ""
        THEN [p EXCEPT !.chunked = r.upload = "chunked"]
        ELSE [p EXCEPT !.chunked = open /\ KeepalivePossible(r),
                       !.announced = CASE mustClose -> "close"
                                       [] mustKeep -> "keep-alive"
                                       [] OTHER -> p.connection]

(* The buffer of the head, a byte longer than it; none for a request that  *)
(* names no version.                                                       *)
HeadBuffer(m, r, size) ==
  IF r.version = "" THEN AllocateEnd(m.pool, 0) ELSE AllocateFront(m.pool, size + 1)

HeadFits(m, r, size) == HeadBuffer(m, r, size).at # Null

WithHeadBuffer(m, r, size) ==
  IF HeadFits(m, r, size)
    THEN [m EXCEPT !.pool = HeadBuffer(m, r, size).pool,
                   !.write = [at |-> HeadBuffer(m, r, size).at,
                              size |-> IF r.version = "" THEN 0 ELSE size + 1]]
    ELSE m

ErrorReply == [NoReply EXCEPT !.kind = "error"]
Queued(p) == IF reply.kind = "none" THEN p ELSE reply

(***************************************************************************)
(* transmit_error_response, with the memory m and the request r that its   *)
(* caller has by then: a version is assumed when none is known.            *)
(***************************************************************************)
Versioned(r) == IF r.version = "NULL" THEN [r EXCEPT !.version = "1.0"] ELSE r

ErrorQueued(r) == read_closed' = TRUE /\ reply' = WithHead(Queued(ErrorReply), Versioned(r))

TransmitError(m, r) ==
  /\ ErrorQueued(r)
  /\ request' = Versioned(r)
  /\ \E size \in HeadSizes :
       /\ memory' = WithHeadBuffer(m, Versioned(r), size)
       /\ state' = IF HeadFits(m, Versioned(r), size) THEN "HEADERS_SENDING" ELSE "CLOSED"

-----------------------------------------------------------------------------
(***************************************************************************)
(* MHD_connection_handle_read, offered whenever the socket is polled for   *)
(* input: to read the request, or with room left, to notice the client.    *)
(***************************************************************************)
BeforeRead(m) == IF m.offset + Increment > m.size THEN Grown(m) ELSE m

(* "shrink read buffer to how much is actually used": the pool takes the   *)
(* rest back when the buffer is the last block, and a byte shorter than    *)
(* its memory; the buffer keeps its size ("shrunk", read by no action).    *)
Shrunk(m) ==
  LET pool == Reallocate(m.pool, m.at, m.size + 1, m.offset).pool
  IN  [m EXCEPT !.pool = pool, !.shrunk = @ \/ m.at + m.size > pool.pos]

Waiting == phase = "wait" /\ state # "CLOSED"
Awaited == ReadStates \ {"CONTINUE_SENDING"}
PolledForInput == (state \in Awaited /\ ~read_closed) \/ ~Full(memory)

Read ==
  /\ Waiting /\ PolledForInput
  /\ phase' = "idle"
  /\ LET m == BeforeRead(memory)
     IN  \E n \in 0 .. m.size - m.offset :
           LET filled == [m EXCEPT !.offset = @ + n]
           IN  /\ memory' = IF n > 0 /\ state \notin ReadStates THEN Shrunk(filled) ELSE filled
               /\ state' = IF n > 0 /\ state \in ReadStates /\ read_closed THEN "CLOSED" ELSE state
  /\ UNCHANGED <<read_closed, request, reply>>

(* The client closes its side, or the connection breaks or times out.      *)
Lost ==
  /\ Waiting
  /\ phase' = "idle" /\ state' = "CLOSED"
  /\ UNCHANGED <<read_closed, memory, request, reply>>

-----------------------------------------------------------------------------
(***************************************************************************)
(* MHD_connection_handle_idle.  A case that ends in "continue" leaves the  *)
(* phase "idle", one that ends in "break" goes on to "settle".             *)
(***************************************************************************)
Idle(states) == phase = "idle" /\ state \in states
Continue == phase' = "idle"
Break == phase' = "settle"

(* No line in what has been read: get_next_header_line grows a full buffer.*)
NoLine ==
  /\ Idle(HeaderStates \cup FooterStates)
  /\ LET searched == [memory EXCEPT !.scanned = memory.offset]
     IN  IF memory.offset > 0 /\ Full(memory) /\ ~CanGrow(memory)
           THEN Continue /\ TransmitError(searched, request)
           ELSE /\ memory' = IF memory.offset > 0 /\ Full(memory)
                               THEN Grown(searched) ELSE searched
                /\ IF read_closed THEN Continue /\ state' = "CLOSED"
                                  ELSE Break /\ UNCHANGED state
                /\ UNCHANGED <<read_closed, request, reply>>

(* parse_initial_message_line with k arguments; when their records do not  *)
(* fit an error response is queued, and the request goes on.               *)
RequestLine ==
  /\ Idle({"INIT"}) /\ Continue
  /\ \E n \in 1 .. memory.offset, k \in 0 .. MaxPart, v \in Versions :
       /\ TextLineOf(n) /\ k < n
       /\ state' = "URL_RECEIVED"
       /\ request' = [request EXCEPT !.version = v]
       /\ LET m == WithRecords(WithoutLine(memory, n), k)
          IN  IF FittingRecords(WithoutLine(memory, n), k) = k
                THEN memory' = m /\ UNCHANGED <<read_closed, reply>>
                ELSE /\ ErrorQueued(request)
                     /\ \E size \in HeadSizes :
                          memory' = WithHeadBuffer(m, Versioned(request), size)

BadRequestLine ==
  /\ Idle({"INIT"}) /\ Continue
  /\ \E n \in 1 .. memory.offset : LineEnds(n) /\ memory' = WithoutLine(memory, n)
  /\ state' = "CLOSED"
  /\ UNCHANGED <<read_closed, request, reply>>

(* process_header_line: the name of the line becomes connection->last.     *)
WithLast(m, n, name) == [WithoutLine(m, n) EXCEPT !.last = [at |-> m.at, size |-> name + 1]]

Names(n) == 0 .. Least(n - 2, MaxPart)
PartState == IF state \in FooterStates THEN "FOOTER_PART_RECEIVED" ELSE "HEADER_PART_RECEIVED"

FirstLine ==
  /\ Idle({"URL_RECEIVED", "BODY_RECEIVED"}) /\ Continue
  /\ \E n \in 1 .. memory.offset :
       TextLineOf(n) /\ \E name \in Names(n) : memory' = WithLast(memory, n, name)
  /\ state' = PartState
  /\ UNCHANGED <<read_closed, request, reply>>

(* A line without a colon closes the connection, and then is answered.     *)
MalformedFirstLine ==
  /\ Idle({"URL_RECEIVED", "BODY_RECEIVED"}) /\ Break
  /\ \E n \in 1 .. memory.offset : TextLineOf(n) /\ TransmitError(WithoutLine(memory, n), request)

(***************************************************************************)
(* process_broken_line.  A line that starts with a blank continues the one *)
(* before: connection->last gets a block with room for the text as well.   *)
(***************************************************************************)
Continued(m, text) ==
  Reallocate(m.pool, m.last.at, m.last.size, m.last.size + text)

WithContinuation(m, text) ==
  LET got == Continued(m, text)
  IN  [m EXCEPT !.pool = got.pool,
                !.last = [at |-> got.at, size |-> @.size + text],
                !.lines = @ \cup Block(got.at, m.last.size + text)]

ContinuationLine ==
  /\ Idle({"HEADER_PART_RECEIVED", "FOOTER_PART_RECEIVED"}) /\ Continue
  /\ \E n \in 1 .. memory.offset :
       /\ TextLineOf(n)
       /\ \E text \in 0 .. Least(n - 2, MaxPart) :
            LET m == WithoutLine(memory, n)
            IN  IF Continued(m, text).at = Null
                  THEN TransmitError(m, request)
                  ELSE /\ memory' = WithContinuation(m, text)
                       /\ UNCHANGED <<state, read_closed, request, reply>>

(* The line before is complete and gets its record; when that fails the    *)
(* error response is made twice, by connection_add_header and its caller.  *)
RefusedTwice(m) ==
  /\ ErrorQueued(request)
  /\ \E size \in HeadSizes :
       LET once == WithHeadBuffer(m, Versioned(request), size)
       IN  /\ memory' = WithHeadBuffer(once, Versioned(request), size)
           /\ state' = IF HeadFits(once, Versioned(request), size)
                         THEN "HEADERS_SENDING" ELSE "CLOSED"
  /\ request' = Versioned(request)

NextLine ==
  /\ Idle({"HEADER_PART_RECEIVED", "FOOTER_PART_RECEIVED"}) /\ Continue
  /\ \E n \in 1 .. memory.offset :
       LET m == WithoutLine(memory, n)
       IN  /\ TextLineOf(n)
           /\ IF FittingRecords(m, 1) = 0
                THEN RefusedTwice(m)
                ELSE \/ /\ \E name \in Names(n) :
                             memory' = WithRecords(WithLast(memory, n, name), 1)
                        /\ UNCHANGED <<state, read_closed, request, reply>>
                     \/ TransmitError(WithRecords(m, 1), request)   \* it has no colon

EmptyLine ==
  /\ Idle({"URL_RECEIVED", "HEADER_PART_RECEIVED"} \cup FooterStates) /\ Continue
  /\ \E n \in 1 .. memory.offset :
       LET m == WithoutLine(memory, n)
           after == IF state \in FooterStates THEN "FOOTERS_RECEIVED" ELSE "HEADERS_RECEIVED"
       IN  /\ EmptyLineOf(n)
           /\ IF state \in {"URL_RECEIVED", "BODY_RECEIVED"}
                THEN memory' = m /\ state' = after /\ UNCHANGED <<read_closed, request, reply>>
                ELSE IF FittingRecords(m, 1) = 0
                       THEN RefusedTwice(m)
                       ELSE /\ memory' = WithRecords(m, 1) /\ state' = after
                            /\ UNCHANGED <<read_closed, request, reply>>

(***************************************************************************)
(* parse_connection_headers: a cookie header is copied and taken apart     *)
(* into k records; a failure of that transmits an error response, but the  *)
(* request goes on, unless the response could not be made either.          *)
(***************************************************************************)
Unknown == MaxBody + 1   \* MHD_SIZE_UNKNOWN

Announcing(w, upload, n) == [request EXCEPT !.wish = w, !.upload = upload, !.remaining = n]

Announced ==
  IF memory.records = {}
    THEN {request}
    ELSE {Announcing(w, "length", n) : w \in Wishes, n \in 0 .. MaxBody} \cup
         {Announcing(w, upload, Unknown) : w \in Wishes, upload \in {"chunked", "encoded"}}

(* A Content-Length that is no number closes the connection.               *)
AfterHeaders ==
  IF memory.records = {} THEN {"HEADERS_PROCESSED"} ELSE {"HEADERS_PROCESSED", "CLOSED"}

CookieFits(size, k) ==
  /\ AllocateEnd(memory.pool, size).at # Null
  /\ FittingRecords(WithCopy(memory, size), k) = k

ParseHeaders ==
  /\ Idle({"HEADERS_RECEIVED"}) /\ Continue
  /\ request' \in Announced
  /\ \/ UNCHANGED <<memory, read_closed, reply>> /\ state' \in AfterHeaders
     \/ /\ memory.records # {}
        /\ \E size \in 1 .. MaxPart + 1, k \in 0 .. MaxPart :
             LET m == WithRecords(WithCopy(memory, size), k)
             IN  IF CookieFits(size, k)
                   THEN /\ memory' = m /\ state' \in AfterHeaders
                        /\ UNCHANGED <<read_closed, reply>>
                   ELSE /\ ErrorQueued(request')
                        /\ \E head \in HeadSizes :
                             /\ memory' = WithHeadBuffer(m, request', head)
                             /\ IF HeadFits(m, request', head)
                                  THEN state' \in AfterHeaders ELSE state' = "CLOSED"

(* The first call makes the request object and queues nothing.  A client   *)
(* that expects it is told to go on.  An error queued before the call      *)
(* refuses the body of a POST or PUT.                                      *)
Need100Continue == reply.kind = "none" /\ request.version = "1.1" /\ memory.records # {}

CallFirst ==
  /\ Idle({"HEADERS_PROCESSED"})
  /\ \/ /\ Need100Continue
        /\ Break /\ state' = "CONTINUE_SENDING"
        /\ UNCHANGED request
     \/ /\ Continue
        /\ \E n \in IF reply.kind = "none" THEN {request.remaining} ELSE {request.remaining, 0} :
             /\ request' = [request EXCEPT !.remaining = n]
             /\ state' = IF n = 0 THEN "FOOTERS_RECEIVED" ELSE "CONTINUE_SENT"
  /\ UNCHANGED <<read_closed, memory, reply>>

(* "100 Continue" is sent, in as many pieces as it takes.                  *)
WriteContinue ==
  /\ Waiting /\ state = "CONTINUE_SENDING"
  /\ phase' = "idle"
  /\ UNCHANGED <<state, read_closed, memory, request, reply>>

ContinueSending ==
  /\ Idle({"CONTINUE_SENDING"})
  /\ \/ Continue /\ state' = "CONTINUE_SENT"
     \/ Break /\ UNCHANGED state
  /\ UNCHANGED <<read_closed, memory, request, reply>>

(* process_request_body gives the bytes of the body away, what is left of  *)
(* the buffer moves to its start.  Nothing happens to it once a response   *)
(* is queued.  All of a body that is encoded otherwise than in chunks is   *)
(* given away, and all that follows a length of 0: after "100 Continue"    *)
(* the counter wraps around, beyond whatever a client sends.               *)
Consumed ==
  IF memory.offset = 0 \/ reply.kind # "none" THEN {<<0, request.remaining>>}
  ELSE IF request.upload = "length" /\ request.remaining \in 1 .. MaxBody
    THEN LET used == Least(request.remaining, memory.offset)
         IN  {<<used, request.remaining - used>>}
  ELSE IF request.upload = "chunked"
    THEN (* an incomplete chunk head stays, or what follows the last chunk *)
         {<<used, Unknown>> : used \in {memory.offset, memory.offset - 1}} \cup
         {<<used, 0>> : used \in 1 .. memory.offset}
  ELSE {<<memory.offset, Unknown>>}

(* The body is over, or its size is unknown and no more of it will come.   *)
Body ==
  /\ Idle({"CONTINUE_SENT"})
  /\ \E used \in Consumed :
       /\ memory' = [memory EXCEPT !.offset = @ - used[1]]
       /\ request' = [request EXCEPT !.remaining = used[2]]
       /\ IF used[2] = 0 \/ (used[2] = Unknown /\ memory.offset = used[1] /\ read_closed)
            THEN /\ Continue
                 /\ state' = IF request.upload = "chunked" /\ ~read_closed
                               THEN "BODY_RECEIVED" ELSE "FOOTERS_RECEIVED"
            ELSE Break /\ UNCHANGED state
  /\ UNCHANGED <<read_closed, reply>>

MalformedBody ==
  /\ Idle({"CONTINUE_SENT"}) /\ Continue
  /\ request.upload = "chunked" /\ memory.offset > 0 /\ reply.kind = "none"
  /\ state' = "CLOSED"
  /\ UNCHANGED <<read_closed, memory, request, reply>>

(* The final call: the service queues a response, its head is built.       *)
Response(kind, given) == [NoReply EXCEPT !.kind = kind, !.connection = given]
Responses == {Response(k, g) : k \in {"empty", "known", "unknown"}, g \in Given}

Answer ==
  /\ Idle({"FOOTERS_RECEIVED"})
  /\ \E r \in Responses, size \in HeadSizes :
       /\ reply' = WithHead(Queued(r), request)
       /\ memory' = WithHeadBuffer(memory, request, size)
       /\ IF HeadFits(memory, request, size)
            THEN Break /\ state' = "HEADERS_SENDING"
            ELSE Continue /\ state' = "CLOSED"
  /\ UNCHANGED <<read_closed, request>>

(* A service may return true without a response; it is called again.      *)
NoAnswer ==
  /\ reply.kind = "none"
  /\ Idle({"FOOTERS_RECEIVED"}) /\ Break
  /\ UNCHANGED <<state, read_closed, memory, request, reply>>

CalledAgain ==
  /\ Waiting /\ state = "FOOTERS_RECEIVED"
  /\ phase' = "idle"
  /\ UNCHANGED <<state, read_closed, memory, request, reply>>

-----------------------------------------------------------------------------
(***************************************************************************)
(* Sending.  check_write_done gives the write buffer back to the pool, as  *)
(* far as it is the last block.                                            *)
(***************************************************************************)
WriteDone(next) ==
  /\ Waiting
  /\ phase' = "idle" /\ state' = next
  /\ memory' = [memory EXCEPT
                  !.pool = Reallocate(@, memory.write.at, memory.write.size, 0).pool,
                  !.write = NoBuffer]
  /\ UNCHANGED <<read_closed, request, reply>>

WriteHeaders == state = "HEADERS_SENDING" /\ WriteDone("HEADERS_SENT")
WriteChunk ==
  /\ state = "CHUNKED_BODY_READY"
  /\ \E next \in {"CHUNKED_BODY_UNREADY", "BODY_SENT"} : WriteDone(next)
WriteFooters == state = "FOOTERS_SENDING" /\ WriteDone("FOOTERS_SENT")

(* The body of a response of known size, or of unknown size up to the end  *)
(* of its stream, which closes the connection.                             *)
WriteBody ==
  /\ Waiting /\ state = "NORMAL_BODY_READY"
  /\ phase' = "idle"
  /\ state' = IF reply.kind = "unknown" THEN "CLOSED" ELSE "FOOTERS_SENT"
  /\ UNCHANGED <<read_closed, memory, request, reply>>

Sending ==
  /\ Idle(WriteStates) /\ Break
  /\ UNCHANGED <<state, read_closed, memory, request, reply>>

HeadersSent ==
  /\ Idle({"HEADERS_SENT"}) /\ Continue
  /\ state' = IF reply.chunked THEN "CHUNKED_BODY_UNREADY" ELSE "BODY_UNREADY"
  /\ UNCHANGED <<read_closed, memory, request, reply>>

ReadyBody ==
  /\ Idle({"BODY_UNREADY"})
  /\ IF reply.kind = "empty" THEN Continue /\ state' = "BODY_SENT"
                             ELSE Break /\ state' = "NORMAL_BODY_READY"
  /\ UNCHANGED <<read_closed, memory, request, reply>>

(* try_ready_chunked_body takes half of the pool, or a half of that, ...   *)
ChunkSizes == {n \in LeastBuffer .. PoolSize : \E i \in 1 .. PoolSize : n = PoolSize \div (2 ^ i)}
FittingChunks == {n \in ChunkSizes : AllocateFront(memory.pool, n).at # Null}

ReadyChunk ==
  /\ Idle({"CHUNKED_BODY_UNREADY"}) /\ Continue
  /\ IF reply.kind = "empty"
       THEN state' = "BODY_SENT" /\ UNCHANGED memory
       ELSE IF FittingChunks = {}
              THEN state' = "CLOSED" /\ UNCHANGED memory
              ELSE /\ \E size \in FittingChunks :
                        LET got == AllocateFront(memory.pool, size)
                        IN  /\ \A other \in FittingChunks : other <= size
                            /\ memory' = [memory EXCEPT !.pool = got.pool,
                                                        !.write = [at |-> got.at, size |-> size]]
                   /\ state' = "CHUNKED_BODY_READY"
  /\ UNCHANGED <<read_closed, request, reply>>

(* The footers of a response: none, but the line that ends them.           *)
BodySent ==
  /\ Idle({"BODY_SENT"}) /\ Continue
  /\ memory' = WithHeadBuffer(memory, request, 2)
  /\ state' = CASE ~HeadFits(memory, request, 2) -> "CLOSED"
                [] HeadFits(memory, request, 2) /\ reply.chunked /\ request.version # "" ->
                     "FOOTERS_SENDING"
                [] OTHER -> "FOOTERS_SENT"
  /\ UNCHANGED <<read_closed, request, reply>>

(* The end of a request: the connection closes, or the pool is reset and   *)
(* the bytes of the next request, which may be there, are kept.            *)
MutCloses == read_closed \/ ~KeepalivePossible(request)   \* bug: the response's header is ignored

(* MHD_get_response_header finds the header the service gave. *)
ResponseCloses == reply.connection = "close"

Closes ==
  \/ read_closed \/ ResponseCloses \/ request.wish = "close"
  \/ ~KeepalivePossible(request)

Kept(m) ==
  LET got == Reset(m.pool, m.at, m.size)
  IN  [NewMemory EXCEPT !.pool = got.pool, !.at = got.at, !.size = m.size, !.offset = m.offset]

Finish ==
  /\ Idle({"FOOTERS_SENT"}) /\ Continue
  /\ IF Closes
       THEN state' = "CLOSED" /\ memory' = NewMemory
       ELSE state' = "INIT" /\ memory' = Kept(memory)
  /\ request' = NoRequest /\ reply' = NoReply
  /\ UNCHANGED read_closed

Cleanup ==
  /\ state = "CLOSED" /\ phase # "wait"
  /\ phase' = "wait" /\ memory' = NewMemory /\ read_closed' = FALSE
  /\ request' = NoRequest /\ reply' = NoReply
  /\ UNCHANGED state

(***************************************************************************)
(* MHD_connection_update_event_loop_info: room is made before waiting for  *)
(* more of the request, or the request is refused.                         *)
(***************************************************************************)
MutRoomStates == HeaderStates   \* bug: not while the body is read
RoomStates == HeaderStates \cup {"CONTINUE_SENT"}

Settle ==
  /\ phase = "settle"
  /\ CASE state \in RoomStates /\ Full(memory) /\ ~CanGrow(memory) ->
            phase' = "wait" /\ TransmitError(memory, request)
       [] state \in RoomStates /\ Full(memory) /\ CanGrow(memory) ->
            /\ phase' = "wait" /\ memory' = Grown(memory)
            /\ UNCHANGED <<state, read_closed, request, reply>>
       [] state \in FooterStates /\ read_closed ->
            phase' = "idle" /\ state' = "CLOSED" /\ UNCHANGED <<read_closed, memory, request, reply>>
       [] OTHER -> phase' = "wait" /\ UNCHANGED <<state, read_closed, memory, request, reply>>

Done == state = "CLOSED" /\ phase = "wait" /\ UNCHANGED vars

Next ==
  \/ Read \/ Lost \/ CalledAgain
  \/ WriteContinue \/ WriteHeaders \/ WriteBody \/ WriteChunk \/ WriteFooters
  \/ NoLine \/ RequestLine \/ BadRequestLine \/ FirstLine \/ MalformedFirstLine
  \/ ContinuationLine \/ NextLine \/ EmptyLine
  \/ ParseHeaders \/ CallFirst \/ ContinueSending \/ Body \/ MalformedBody
  \/ Answer \/ NoAnswer \/ Sending \/ HeadersSent \/ ReadyBody \/ ReadyChunk
  \/ BodySent \/ Finish \/ Cleanup \/ Settle \/ Done

Spec == Init /\ [][Next]_vars

-----------------------------------------------------------------------------
ReadBytes == Block(memory.at, memory.size)
WriteBytes == IF memory.write.size = 0 THEN {} ELSE Block(memory.write.at, memory.write.size)

(* What is in use at the same time never overlaps: the read buffer, which  *)
(* the client may fill at any moment, the lines the headers point into,    *)
(* the records of the headers and the head or chunk that is being sent;    *)
(* and all of it lies in the pool.  Nothing is said of a read buffer of    *)
(* which the read handler has given a part back and goes on using it.      *)
AreasApart ==
  LET buffer == IF memory.shrunk THEN {} ELSE ReadBytes
      areas == <<buffer, WriteBytes, memory.lines, memory.records>>
  IN  /\ \A i, j \in DOMAIN areas : i # j => areas[i] \cap areas[j] = {}
      /\ \A i \in DOMAIN areas : areas[i] \subseteq 0 .. PoolSize - 1

(* "Shrink read buffer to how much is actually used": the buffer is never  *)
(* larger than what the pool counts as taken.  The code breaks this.       *)
ReadBufferTaken == memory.at # Null => memory.at + memory.size <= memory.pool.pos

Reads(states) == phase = "wait" /\ state \in states /\ ~read_closed
HasRoom == ~Full(BeforeRead(memory))

(* Whenever the connection waits for more of the head or the body, the     *)
(* next read has room for at least a byte of it.                           *)
RoomToRead == Reads(HeaderStates \cup {"CONTINUE_SENT"}) => HasRoom

(* "while reading footers, we always grow the read buffer if needed".  The *)
(* code breaks this: a footer that fills the buffer is never read.         *)
RoomForFooters == Reads(FooterStates) => HasRoom

(* A connection is kept for another request only when the client can tell  *)
(* where the reply ended and was not told that the connection would close. *)
KeptWhenClear ==
  [][Idle({"FOOTERS_SENT"}) /\ state' = "INIT" =>
       /\ reply.kind # "unknown" \/ reply.chunked
       /\ reply.announced # "close"]_vars

(* After a reply that announces "Connection: Keep-Alive" the connection is *)
(* kept.  The code breaks this when the client has shut down its side.     *)
AnnouncedKept ==
  [][Idle({"FOOTERS_SENT"}) /\ reply.announced = "keep-alive" => state' = "INIT"]_vars
============================================================================
