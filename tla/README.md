# TLA+ models and proofs of MicroRestD

MicroRestD is a small C++ library for REST servers. It consists of a reduced
and slightly changed copy of libmicrohttpd (`src/src/libmicrohttpd`), which is
compiled as part of the library and is where the server's concurrency and its
HTTP state machine live, and of the REST server proper
(`src/src/rest_server`). The modules here model both: how a server is started,
accepts, reads and answers requests and is stopped, with one thread for every
connection and with a pool of workers; the contents of a request's form and of
a generated JSON or XML response; the memory of a connection; the responses
and the log that threads share.

The repository lies beside this directory as `src/`, so that its C++ sources
are in `src/src/`. `PROJECT.json` maps every definition to the lines it stands
for, and lists the hazards of the code with the properties that cover them.
The build that is modelled is the one of the repository's own makefile on
Linux: `poll()`, no epoll, no TLS, no digest authentication.

## 1. Inventory

| Component | State it keeps | Operations | Talks to | Correct when |
|---|---|---|---|---|
| Connection state machine (`connection.cpp`, `MHD_handle_connection` in `daemon.cpp`) | `state`, `event_loop_info`, `read_closed`, `remaining_upload_size`, `response`, `client_context`, `client_aware`, `last_activity` | poll loop, read, write and idle handlers, `MHD_queue_response`, `MHD_connection_close` | the client; the access handler, generator and completion callbacks of the REST server; the daemon's lists and `shutdown` | every request object is created, handled and deleted once, whatever closes the connection; the answer is delivered; the connection ends |
| Request memory (`connection.cpp`) | read and write buffer, the lines and records of the headers, `last` | growth and shrinking of the read buffer, `get_next_header_line`, header, footer and continued lines, cookies, `build_header_response`, the end of a request | memory pool, connection | no two live areas overlap; whoever waits for input has room for it; a connection is kept only if the client knows where the reply ended |
| Memory pool (`memorypool.cpp`) | `pos`, `end` | allocate from either end, reallocate, reset | connection | blocks do not overlap |
| REST request (`microhttpd_request` in `rest_server.cpp`) | `remaining_request_body_size`, `body`, `params`, the flags of the post processor, `generator`, `generator_offset`, `generator_end` | constructor, `process_request_body`, `handle`, `respond*`, `generator_callback` | the service, the connection | the body limit is exact; the service sees whole bodies only |
| Post processor (`postprocessor.cpp`) | a state per encoding, the boundary, two buffers, the fields a part's headers have set | `MHD_post_process`, destroy | request | the values do not depend on how the body is cut |
| Streaming response (`response_generator`, `generator_callback`, `try_ready_normal_body`) | the generator's data, `generator_offset`, `data_start`, `data_size`, `response_write_position` | `generate`, `current`, `consume`, the copy, the send | service, connection | bytes are sent in order, completely, and the generator is called as its contract says |
| JSON and XML builders, and their generators | text, the stack of open parts, `mode`, `need_indent` | keys, values, attributes, open, close, indent, escape, discard a prefix | service, generator | a client reads what the service wrote |
| Daemon, one thread per connection (`daemon.cpp`, `rest_server::stop`) | list of connections, cleanup list, `connections`, `shutdown`, `socket_fd`, `cleanup_connection_mutex`, the pipe | listen loop, accept, `internal_add_connection`, `MHD_cleanup_connections`, `MHD_quiesce_daemon`, `MHD_stop_daemon`, `close_all_connections` | connection threads, the thread of `stop()` | no connection is freed too early, the limit holds, `stop()` returns and leaves nothing |
| Daemon in pool mode (`set_threads(n)`) | a daemon per worker, the array for `poll`, the limit split over the workers, one pipe for all | `MHD_poll_all`, `MHD_select`, `MHD_run`, the worker part of start and stop | the same | every ready connection is served under its own events; a client is accepted while any worker has room |
| Start (`MHD_start_daemon_va`, `parse_options_va`, `rest_server::start`) | what was taken so far, `use_poll` | socket, pipe, mutexes, workers, and the unwinding of each | system, owner of the server | a failed start gives back what it took; the daemon has the settings of the server |
| Timeout lists (`internal.h`, `connection.cpp`, `daemon.cpp`) | `normal_timeout_head`/`tail` | `update_last_activity`, `MHD_get_timeout` | connection, worker | sorted by last activity; inactive connections end |
| Responses (`response.cpp`) | `reference_count`, headers, data | create, queue, destroy, add header | request, connection, permanent responses of all servers | freed exactly when unused |
| `rest_server` | settings, `daemon`, `service`, `log_file`, permanent responses | setters, `start`, `stop`, `handle` callbacks | owner, daemons, service | settings reach the daemon; nothing a request uses disappears |
| Log file | the stream, a mutex | `set_log_file`, `log` | all threads | lines are whole; no use of a stream that is gone |
| `wait_until_signalled` | none of the program's | five system calls | main thread | it returns after SIGINT |
| Header helpers, reason phrases, platform layer, `rest_request`, `string_piece`, version | none or plain data | conversions | all | not state machines |
| pugixml | vendored library, which the REST server does not use | | | |

**How they interact.** The owner calls `start()`, which makes the permanent
responses, turns the settings into options and starts a daemon: a listen thread
that starts a thread for every connection it accepts, or workers that each
listen, accept and handle their connections in one loop. Whoever handles a
connection alternates `poll()`, the handlers for the events and the idle
handler, which runs the state machine until it must wait. The state machine
calls the access handler of the REST server once with no body (it creates the
`microhttpd_request` and stores it in `client_context`), once for every piece of
the body, which goes to the post processor when it is a form, and once for the
complete request, in which the service queues a response. While the response is
sent, `generator_callback` may be called, and at the end, however the connection
ends, `request_completed` deletes the request if the flag `client_aware` is
set. A connection that ends goes to the cleanup list; the listen thread or the
worker, and `stop()`, take connections off that list, free them and count them
off.

**What is hard.** Interleavings of threads and `stop()` with an unlocked counter
and unlocked lists; joins under a mutex; error paths of the state machine that
continue after a connection was closed or a response was queued; timeouts that
fire between any two steps; flags that must agree with a pointer that is never
cleared; counters whose zero has a meaning of its own; two walks over a list
that changes in between; a parser whose input is cut anywhere; buffers that
share one memory from both ends; responses shared by servers that do not know
of each other.

## 2. Modules

| Module | What it is |
|---|---|
| `Connection` | one connection's thread with its state machine, its request object, its response and its client |
| `RequestLifecycle` | abstract: what the HTTP library promises about the request object of a connection |
| `RequestMemory`, `MemoryPool` | where the buffers, lines and records of the requests of a connection lie; the pool's operations |
| `RequestBody` | the accounting of a request's body against the limit, and the checks of `handle()` |
| `FormRequest`, `PostProcessor` | a request whose body is a form, piece by piece through the machines of the post processor; implements `RequestBody` |
| `GeneratorStream`, `OutputStream` | a generated response from `generate()` to the socket; abstract: an ordered, complete stream |
| `StreamedDocument`, `JsonBuilder`, `XmlBuilder` | a generator that writes a document with a builder; the builders as operators |
| `DocumentReader` | what a client reads in a JSON or XML text, from the grammars; the reference for the builders |
| `Daemon` | listen thread, connection threads, cleanup, the limit and `stop()` |
| `PollLoop` | one worker of a pool: its turn with `poll()` or `select()`, its lists and timeouts |
| `Pool`, `PoolStart` | the workers with `stop()`; the same from a start that may fail anywhere |
| `DaemonOptions`, `RestServer` | settings to flags and options to fields of a daemon; the servers of a process with requests, permanent responses and log |
| `ConnectionProofs`, `MemoryProofs` (of `RequestMemory` with `MemoryPool`), `RequestBodyProofs` (of `RequestBody` and `FormRequest`), `GeneratorProofs` (of `GeneratorStream` and `StreamedDocument`), `DaemonProofs`, `WorkerProofs` (of `PollLoop`), `PoolProofs` (of `PoolStart` with `Pool`), `RestServerProofs` (of `RestServer` with `DaemonOptions`) | the theorems |
| `MC*` | instances for TLC |

Three models are compositions: `FormRequest` joins the post processor with the
body accounting and is shown to implement `RequestBody` alone;
`StreamedDocument` joins the builders with the stream, so that prefixes are
discarded while the document is written; `PoolStart` joins the start with the
running pool, because workers run while others are still to be created. The
rest fit together by abstraction, since their product would be out of reach: the
whole of `Connection` between its first `poll()` and its end is the step
`Finish` of `Daemon` and `Pool`, and `StopEnds` and `TimeoutEnds` of
`Connection` justify the fairness assumed of that step; `PollLoop` lets the
handlers of a connection choose what it waits for next; a handler of
`RestServer` is a connection in the hands of some thread.

### Connection

`pc` is where the thread is in `MHD_handle_connection`; `events` are
the `revents` still to be handled; `state`, `event_loop_info` and `read_closed`
are the fields of that name; `sock` is what this side has shut down; `budget`
and `buffered` count the client's remaining input and `read_buffer_offset`;
`upload` holds what the request line and headers said and how much of the body
has been read; `request` is the `microhttpd_request`, with `context` for
`client_context`, `aware` for `client_aware`, and history fields that count
creations, calls and deletions; `reply` is the queued response and how much of
it is made and sent. `stale` says that `last_activity` lies longer back than
the timeout.

Every case of `MHD_connection_handle_idle` is an action; one that ends in
`continue` leaves `pc` at `"idle"`, one that ends in `break` goes to
`"settle"`, where the timeout is tested and the next `event_loop_info`
computed. `MHD_connection_close`, `transmit_error_response`,
`MHD_queue_response` and the callbacks are operators that the actions use, so
an action contains every state change of the calls it makes. A line of the
request line, headers, trailers or chunk sizes is one unit, a byte of the body
is one unit, and what a line says is chosen when it is parsed. A write sends one
byte, or all there are.

Error paths are modelled as the code has them, also where they look
unintended, and the invariants hold all the same:
`parse_initial_message_line` and `parse_connection_headers` ignore that a
function they called has queued an error response, and go on with the request
(`RequestLineTooLong`, `ParseHeadersTooLong`); a header line without a colon
closes the connection first and has its caller queue an error response
afterwards, so that the connection leaves the closed state again and its
response is written to a socket that was shut down (`MalformedHeaderLine`,
`connection.cpp:2355`).

### RequestMemory and MemoryPool

A place in the pool is an offset. `memory` holds the pool, the read buffer
(`at`, `size`, `offset`), the lines of the request that stay in it, the records
taken from the end, `last` for continued lines and the write buffer. The bytes
have no contents: where a line ends, and what it is, is chosen when it is looked
for, and `scanned` remembers what has been searched in vain, so that the same
bytes never say two things. `Reallocate` is the code's, with its test of
"the last block" by a size that need not be the rounded one. The end of a
request (`connection.cpp:2625`) decides over `reply` and `request` whether the
connection is kept, moves what was read ahead to the front and resets the pool.
`Announced` is what the headers may say: no body, a length, chunks, or another
`Transfer-Encoding`, whose body has no end but that of the connection; a length
that is no number closes it (`AfterHeaders`). A client that expects
`100 Continue` is told so before its body is read (`ContinueSending`), and a length
of 0 then wraps around.

### RequestBody, FormRequest and PostProcessor

`remaining` is `remaining_request_body_size`, an unsigned modulo `W`. It starts
at the limit plus one, so that 0 can mean "too large". A piece is accepted when
it is smaller than what remains (`Fits`). `handle()` makes its checks in the
order of the code.

In `PostProcessor` a text is a sequence of symbols and one iteration of the loop
of `post_process_urlencoded` or `post_process_multipart` is a step: `pp` has the
fields of `struct MHD_PostProcessor`, where `buf` and `xbuf` are the buffers for
names and values with their sizes as bounds. `FormRequest` cuts the body of a
client anywhere, counts each piece and runs the machine on it; the deletion of
the post processor in `handle()`, which flushes a last value, is `Delete`. A part
may say it is of the type `multipart/mixed`, with a boundary or without one, which
is an error, or of any other type (`ContentType`). Wherever the code takes the
length of the form's boundary for that of a nested one, so does the model
(`Matches`, `Checkable`).

### GeneratorStream and StreamedDocument

Bytes are positions in the whole output of the generator, so its current data
are an interval `[base, base + len)` and the response's buffer is another:
`data.from` is the position of the first byte in it. `InOrder` then is the
statement that the buffer's place in the response and its place in the output
are the same. `generator_callback` is split at its loop: `Generate` is a turn
of it, `EndOfStream` and `Copy` are its two ways out.

`StreamedDocument` gives the positions their symbols: a `generate()` makes one
call of a builder whose text is the generator's data, and a `consume()` discards
a prefix of that text, which leaves the builder's `stack`, `mode` and
`need_indent` behind without the text they came from. A text is a sequence of
characters by their names, and a quotation mark in a value is the same symbol as
one that the builder writes: only its escape tells them apart. What stands for
several characters of the text is one symbol where they are always written
together: a name of XML, a literal, an entity, and `u00` with its two digits.

`doc` is what the service has written, in its own terms: each call with the
value it was given. `DocumentReader` has the grammars of JSON and XML,
independent of the builders; it undoes escapes and entities and gives the calls
that describe a text. `AsXml` says what `value_xml_escape` promises: the
value as a text of XML that reads as that value. `ReadsAsWritten` compares
the two call by call and character by character, but for the characters that
the builders do not write so that they read back, control characters in
JSON and ampersands in XML (`Spoiled`): these are in the values as well, and the
text around them must be as it should. `ValuesKept` asks for them too; the code
breaks it in both formats (section 3).

### Daemon

`place` says which list a connection is on, `thread` how far its thread is
and `pc` where the listen thread and the thread of `stop()` are. Actions are
cut where another thread can observe or change something:
`daemon->connections++` and `--` are a read and a write, `accept4` is separate
from the read of `socket_fd`, the mutex is held over the joins of
`MHD_cleanup_connections`, and a critical section that waits for nothing is a
single step. The order of the lists is abstracted: they are sets.

### PollLoop

The lists are sequences in the order of the code. `p` is the array for `poll()`
and `i` and `next` the locals of the walk that follows it, in which a connection
may close, or block and then not advance the index (`daemon.cpp:2382`).
`Prepare` computes the deadline with `MHD_get_timeout`; `Tick` lets a second
pass, only while the thread waits; `age` counts the seconds since
`last_activity`. `Visit` and `VisitSelect` hold `MHD_connection_handle_idle`'s
effect on the lists, with `update_last_activity`.

### Pool and PoolStart

Each worker listens, accepts, handles and cleans up by itself, and no mutex is
taken. `stop()` runs `MHD_cleanup_connections` of a worker in its own thread
whenever it asks for the number of connections (`daemon.cpp:4423`); the counter
is again a read and a write. Where both would change one list, or free one
connection twice, `fault` is set: from there on the program may do anything,
so the model says nothing of what follows. `PoolStart` adds the steps of
`MHD_start_daemon_va`, each of which may fail, `held` for what has been taken,
`Undone` for what each failure gives back, the second attempt without `poll()`,
and the unwinding when a worker cannot be created.

### DaemonOptions and RestServer

`DaemonOptions` follows a setting from its setter through the variable argument
list, where it is an `int`, and through `parse_options_va`, where it is an
`unsigned`, to the field of the daemon. A `max_connections` of 0 leaves the
option out, so that the daemon has its default limit, and not none as the manual
says: `ConfiguredAsSet` speaks of limits that are set, `UnlimitedAsDocumented` of
this one, and the code breaks it (section 3).

`RestServer` has several servers and one thread, `owner`, that calls them.
`initialize()` is cut at every permanent response into its creation (`Create`),
the assignment (`Assign`) and the release of the old one (`Release`), and so are
`respond()` (`Respond`, `AddHeaders`, `Queue`, `Drop`) and `log()` (`LogTest`,
`LogLock`, `LogText`, `LogEnd`), since other threads run in between. `rc` is
`reference_count`, 0 once the response is freed; queueing a freed response, or
writing to a null stream, leads to `fault`, after which that thread does nothing.

## 3. Runs

| Run | Instance | What it shows |
|---|---|---|
| `connection` | GET, HEAD, POST; length 2 and chunked; 5 units in pieces of 1 or 2; all error paths, timeouts, shutdown | the request object is deleted exactly once and never used afterwards, is handled at most once and only with its whole body; "completed" means delivered; a handled request is answered or closed; shutdown and lasting silence end the connection; `RequestLifecycle` is implemented |
| `connection_head` | GET and HEAD, generators that hold data beforehand | **violated** `Answered`, finding 1 |
| `daemon` | three clients, one of which never leaves, limit 2, counter modulo 4, `stop()` at any time, threads that cannot be created | no early free, exact counter until `stop()`, the limit, `stop()` leaves nothing behind; a waiting client is accepted; `stop()` ends but for a wrong counter or a client that stays |
| `daemon_hangs` | two clients, limit 2 | **violated** `StopReturns`, finding 2 |
| `worker` | three connections, two of which may block, limit 2, a timeout of one second, `poll()` and `select()` | no look-up outside the array, a sorted timeout list that holds exactly the worker's connections, an inactive connection ends or is active again |
| `pool` | two workers, three connections of which two stay, limit 3, a start that may fail at every step | the limit and its remainder are split so that a client is accepted while there is room anywhere; a failed start frees the port and what a worker may use is still held; `stop()` ends and leaves nothing |
| `request` | 109 bodies (urlencoded, multipart, nested and malformed forms, nested boundaries as long as the form's, longer, and longer than the buffer, and bodies that are no forms) in pieces up to 4 or all at once, value buffer 4, part buffer 9, body limit 58 | the service sees exactly the values that were encoded, only whole bodies within the limit; every call returns; `RequestBody` is implemented |
| `form_nested` | a nested part followed by a field | **violated** `ServedParams`, finding 3 |
| `responses` | JSON, XML and plain generators with up to five calls, minimum 2, buffer 3, values with a quotation mark, markup, a line end, a backslash and the characters the builders spoil | order, at least half dropped by `consume()`, the end is reached, `OutputStream` is implemented; what arrives is well-formed and reads as it was written, but for those characters |
| `memory` | a pool of 16 bytes in units of 2, growth by 2, records of 3, all versions and `Connection` headers | areas do not overlap, readers have room, a connection is kept only when the client can tell where the reply ended and was not told that it closes |
| `server` | a server with a connection and a pool, one without connections and two settings, three starts | exact reference counts, live services and responses, whole log lines, settings that reach the daemon |
| `server_statics` | the same, two starts | **violated** `PermanentKept`, finding 4 |

**Why the bounds are enough.** `connection`: five units are a request line, an
empty line and a body with a unit left over, or a chunk and a trailer, in all
divisions into reads; every disjunct of the next-state relation fires. A second
request cannot come about there (`OnlyOneRequest` is proved), so more input adds
only longer headers and bodies. `W` exceeds the units the client can send, so
that a subtraction can wrap only by going below zero. `daemon`: three clients
against a limit of two make one that waits while one is served, one is on the
cleanup list and one is being added; the counter's wrap below zero after a lost
update is in reach. `worker`: a connection that blocks has one before and one
behind it in the list, both of which may close in the walk, and one more may be
accepted at the limit. `pool`: limit 3 over two workers gives 2 and 1, so that
one worker is full while the other has room; the safety properties of both runs
are proved for any number of connections and workers and any limit. `request`:
the buffers are shorter than names with escapes, boundaries are found across the
end of a piece and of the buffer, and one body in the set is over the limit.
`responses`: a piece may be smaller than the minimum or take several buffers, so
that the callback copies it in parts before it consumes it; a value has three
characters, of which each is written in another way, between others. `memory`: half the
pool is the read buffer, so that any few lines and records exhaust it, from
either end, in every state. `server`: two servers are what the permanent
responses need to be replaced by another, and three starts let one be replaced
twice; with a second connection 5.5 million states were searched without an
error, but not all of them, and the properties of this run are proved for any
number of servers, connections, starts and settings.

`CHECK_DEADLOCK` is on everywhere: the modelled systems end in an explicit
stuttering step (`Done`, `Stopped`, `Served`), and a stop anywhere else is an
error.

### Findings

1. `connection.cpp:2935`: a HEAD request answered by a generator that holds
   data before its first `generate()` spins and is never completed.
2. `daemon.cpp:1499`: a lost update of the connection counter makes `stop()`
   wait for ever.
3. `postprocessor.cpp:954`: behind a nested `multipart/mixed` part, the next
   field is delivered under the name of the part before it.
4. `rest_server.cpp:141`: starting a second server in a process frees the
   permanent responses, one of which a request of the first may be about to
   queue.

The sentence of the documentation each disagrees with is in `PROJECT.json`.

Further statements that the code breaks are written down beside the properties
that hold, each with a comment that says so. They are not among the runs; where a
`.cfg` is named, TLC shows the trace with it:

| Statement | Where it is broken |
|---|---|
| `Connection!RemainingIsExact` | `connection.cpp:1644`: `Expect: 100-continue` with `Content-Length: 0` and more input makes `remaining_upload_size` wrap around |
| `Daemon!CurrentHandled` | `daemon.cpp:1499`: a connection accepted just before `stop()` is cut off, because it is not counted yet |
| `PollLoop!OnTime` | `daemon.cpp:2028`: `MHD_get_timeout` takes the head of a list whose tail times out first (seen with a timeout of two seconds) |
| `Pool!HandledUndisturbed` | `daemon.cpp:4423`: `stop()` cleans up in a worker's lists without a mutex |
| `PoolStart!CreatedShutDown` | `daemon.cpp:4112`: the last worker that was created is forgotten when the next one cannot be |
| `RequestMemory!ReadBufferTaken` | `connection.cpp:2070`: the read buffer keeps its size after its free memory was given back |
| `RequestMemory!RoomForFooters` | `connection.cpp:1063`: the read buffer does not grow for footers |
| `RequestMemory!AnnouncedKept` | `connection.cpp:2620`: a client that has shut down its side can be told that the connection is kept, and it is closed |
| `RestServer!UnlimitedAsDocumented` | `rest_server.cpp:392`: with a `max_connections` of 0, its default, which "denot[es] unlimited number of connections" (`src/doc/manual.t2t:226`), the option is left out, and the daemon has the limit of `daemon.cpp:3471`, the size of an `fd_set` less 4, also with `poll()` (`MCRestServerUnlimited.cfg`) |
| `StreamedDocument!ValuesKept`, JSON | `json_builder.cpp:38`: "Add a value ... to the generated JSON" (`src/doc/manual.t2t:352`), but a control character without an escape of its own is written without the backslash of `\u`, and is read as five characters (`MCJsonControl.cfg`) |
| `StreamedDocument!ValuesKept`, XML | `xml_builder.cpp:37`: "Add text (pcdata) to the last generated opened element" (`src/doc/manual.t2t:493`), but an ampersand is written as the entity of an apostrophe, and read as one (`MCXmlAmpersand.cfg`) |
| `FormRequest!ServedParams`, with a nested boundary shorter than the form's | `postprocessor.cpp:739`: `blen` is "strlen(boundary)" (`postprocessor.cpp:700`), but is ignored and the length of the form's boundary taken; the end of a file is never found (`MCFormShorter.cfg`) |
| `RestServer!LogThere` | `rest_server.cpp:529`: a log that is disabled between the test and the lock is a null stream |

`RefusedTooLarge` and `ServedWhole` need a limit other than the largest unsigned
(`rest_server.cpp:115`: the limit plus one is then 0, which means too large), and
completeness of a stream a minimum other than 0 (`rest_server.cpp:310`: such a
stream ends without asking the generator again); both are premises of the
theorems.

### Fairness

`Connection`: the thread runs whenever it is not blocked in `poll()`, and
`poll()` returns when it has no need to wait, that is with a timeout of zero,
an expired timeout or a socket that was shut down (`WF_vars(Runs)`); the daemon
goes through its list and shuts sockets down (`WF_vars(ShutConnections)`). A
client that waits for its answer keeps reading, so `poll()` reports the
socket writable again and again (`SF_vars(PollWritable)`), and a `recv()` or
`send()` that can do something does so eventually instead of returning EINTR
for ever (`SF_vars(ReadProgress)`, `SF_vars(WriteProgress)`). Nothing is
assumed of the client's sending, and nothing of the timeout: `TimeoutEnds`
speaks of a connection that is idle too long again and again.

`Daemon`: each thread that can go on does (weak fairness). The mutex is
given to a thread that asks for it again and again (strong fairness): its
holders release it after joins of threads that have already left their loop,
and the listen thread, which competes for it, gives it back in every round. A
client outside `Idle` leaves or times out in the end, which is `TimeoutEnds` or
`Answered` of `Connection`; a client in `Idle` never does, and its connection
ends only once `close_all_connections` has shut its socket down, which is
`StopEnds`. No fairness is assumed of clients connecting, of `stop()` being
called, or of the failure of `pthread_create`.

`Pool` and `PoolStart`: the same for the workers, the thread of `stop()` and of
`start()` (weak), and strong fairness of `Finish` outside `Idle`, since a worker
handles a connection only in its turn. There are no mutexes to be fair about.

`PollLoop`: the worker runs on; time passes while it waits, however often it is
woken, and a `poll()` whose time is over returns rather than being interrupted
by a signal for ever (strong fairness of `Tick` and `PollReturns`, since other
connections' events enable and disable them). No client is assumed to do
anything.

`FormRequest`: a call of the post processor goes on until it returns.
`StreamedDocument` and `GeneratorStream`: the library asks for, copies and sends
what there is, unless the client goes away.

## 4. Mutants

Every property of a passing run has an operator `Mut...` next to the
definition it would replace: a flag that is not set or reset, an off-by-one, a
missing join, a counter that is not reset, a reference that is not counted. With
the replacement TLC finds that property violated under the same configuration.
They are not part of the specifications.

## 5. Theorems

TLC checks the instances above; the theorems hold for every value of the
constants within the assumptions the modules state, which only give types
(`Limit` positive, `W` larger than the limit and one, `Uploads` below
`MHD_SIZE_UNKNOWN`, a pool whose size is a multiple of an alignment of at least
two bytes, settings that are `unsigned`, at least one server and one permanent
response, and so on). `DocumentAssumption` says no more of the values than that
they are sequences of characters: no symbol of one is a word for a call, or for
several characters, so that the readings of two texts differ when the texts do;
quotation marks, backslashes, markup, ampersands and control characters are in
them. Three theorems have a premise of their own, named with
them below: `MaxUnits < W`, `MaxBody # W - 1` and `MinGenerated # 0`.

* `ConnectionProofs!TypeCorrect`: the type invariant, one step per action.
* `ConnectionProofs!Ownership`: `RequestOwned` is inductive relative to `TypeOK`.
  The pointer `client_context` is never cleared by the completion callback, so
  what makes the request safe is that `client_aware` holds exactly when the
  request is live, and that the state restricts what can still be called:
  before the first call there is no request, in the body states there is a live
  one unless a response is queued, and a response of the service always asks
  for the connection to be closed, so that no second request follows.
  `NeverUsedAfterDelete`, `AlwaysReleased` and `OnlyOneRequest` are its
  consequences, and with a lemma on what one action may do to the request,
  `LifecycleImplemented` shows that `Connection` refines `RequestLifecycle`.
* `ConnectionProofs!BodyIsWhole`: `BodyCounted` relates `remaining_upload_size` to
  the length of the header and to what was read, state by state: exact while the
  body is expected, whole once the footers are. The premise `MaxUnits < W` says
  that a client sends fewer bytes than a `uint64_t` counts. It is needed because
  of one corner of the code: a request with a length of 0 and
  `Expect: 100-continue` waits for its body all the same, and what comes
  next is taken for a body and has the counter go below zero (`Wrapped`);
  only after `W` bytes would it be 0 again, and a body be called whole that is not.
* `ConnectionProofs!CompletedWhenDelivered`: a request that is reported as completed
  has had all its reply sent. `ReplyCounted` says that what was sent, what is made
  and what is still to be made add up to the size of the response in every state
  in which the connection is open, and to nothing for a HEAD.
* `MemoryProofs`: three lemmas say what each operation of the pool (front, end,
  reallocation) may return. `Placed` then says of every part of the memory where it
  lies: the read buffer, the lines of the head, which may outlive it once it is
  shrunk (`shrunk`), the records at the end of the pool, the write buffer, in front
  of the read buffer or behind it. One fact
  is not visible in `AreasApart` and is needed to prove it: the shrinking tells the
  pool that the read buffer has a byte more than it has (`connection.cpp:2072`), so
  that byte is given back with the buffer, and `pos` need not stay a multiple of
  `Align`. `ReadKept` says that nothing that is in use lies in this byte when it
  is given back. That holds only because a block with any byte in it takes at
  least two, which is why `Align` must be more than 1 (it is twice the size of a
  pointer). `AreasStayApart` follows from `Placed` alone.
  `RoomIsThere` adds `Room`, that whoever waits for more has a free byte in the
  read buffer or in the pool, and needs that a pool is not empty.
  `KeptOnlyWhenClear` adds `Informed`, what the head of a reply has told the client.
* `RequestBodyProofs`: `Counted` says that the counter is zero exactly when the
  body has gone over the limit, and otherwise the limit plus one minus what was
  received. `BodyServedWhole` and `BodyRefused` follow, both under
  `MaxBody # W - 1`. `FormCountsBody` shows that `FormRequest`, whatever the post
  processor does, is an implementation of `RequestBody`: a step of a machine is a
  stutter, and the piece it works on has been counted once (`PieceKept`). So
  `FormServedWhole` and `FormRefused` hold of requests with forms of any kind.
* `RequestBodyProofs!BuffersBounded` and `TurnsProgress`: the post processor alone, for
  any form, any pieces and any size of its buffers within `PostProcessorAssumption`.
  `Buffered` gives the bounds and types; for each way an iteration can end (`Fail`,
  `Wait`, `Consume`) a lemma shows that it keeps them and that the call either
  returns or goes down in `Measure`: what is left to consume, then the distance of
  the state to one that consumes (`Rank`), then what is outside the buffer, then
  `state_changed`. The order is lexicographic and well-founded, so no call goes on
  for ever; that a call which has not returned can always go on is TLC's check
  for deadlocks, and both together are `CallsReturn`. The place where a value
  ends (`ValueEnd`) is a loop in the code; it is written as a set of candidates,
  which `EndInside` shows to be in the buffer.
* `GeneratorProofs`: `Placed` relates the three copies of one position: the
  generator's base and offset, the response's buffer and its write position.
  From it order, the contract of `generate()` and `consume()`, the memory bound
  and, with `MinGenerated # 0`, completeness and the refinement of
  `OutputStream` follow. `GenerateEnds`, `StreamComplete` and `GeneratorBounded`
  state properties that no run repeats. `DocumentStream` shows that a
  `StreamedDocument` is a `GeneratorStream`, whatever its service writes with the
  builders, so that `DocumentInOrder`, `DocumentLinear` and `DocumentImplemented`
  carry over to documents.
* `GeneratorProofs!DocumentReadsAsWritten`: what a client reads is well-formed and
  what the service wrote, for values and documents of any length and any
  characters and with any prefixes discarded while the document is written, but
  for the characters in `Spoiled`. The invariant is `DocumentInv`: the text that was
  discarded and the text that is held, one after the other, read as some calls
  that are `Like` those that were made, which means of the same length and
  different only where a spoiled character was written. What comes in its place
  is known (`AsRead`, `FromXml`), and where the reader then stands follows
  from `mode` and the stack of the builder. For JSON (`Json`, `JsonAt`): after a key
  that waits for its value it expects one, `IN_VALUE` means inside a string, after a
  value it expects a separator or an end, and in `NORMAL` it is at the start of an
  object, an array or the document; for XML (`Xml`, `XmlAt`): `IN_ELEMENT` means
  inside a tag, otherwise outside of one. The stack holds exactly the closing
  symbols of what the reader has open (`Closers`). The proof goes in layers. The
  reader is a fold, and `ReadingNothing` and `ReadingOneMore` are its two cases.
  `At...` lemmas say what the reader makes of one more symbol; `CharacterWritten` and
  `XmlCharacterWritten` that each character of a string is written either as it is or
  as a backslash with what the reader takes for that character, and `AtEncoded`,
  `AtXmlEncoded` and `ToldXmlEncode` what it makes of whole encoded values. Then each
  operation of the two
  builders has a lemma that it adds what reads as its call and keeps mode and stack
  in step with the reader (`JsonOpens`, `JsonStrings`, `XmlCloses`, ...).
  `finish()` is `close()` as often as there is something open (`JsonEnds`, `XmlEnds`).
  Each action of the generator is then one of these calls, and `consume()` only
  moves the border between the two parts of the text (`ToldDiscarded`).
  The library's induction theorems cannot be used here, because they take an
  operator as a parameter. `Inductive` takes their place: a set of numbers that has
  0 and with each number the next is all of `Nat`, by the least number that
  it lacks. With it is also proved that the recursive functions behind the folds
  and `finish()` exist (`TurnsThere`, `FlattenThere`, `ClosesThere`).
* `DaemonProofs`: the invariant has the parts `Mutex` (who holds it), `Held`
  (what the connection in a thread's hands looks like), `Charge` (a connection
  between two lists is in the hands of exactly the right thread), `Stage`
  (where a connection is says how far its thread is) and `Stopping` (how far
  `stop()` is says what no longer exists). `ThreadsOutlived` and `StopTearsDown`
  follow. The proof of each part splits on the steps of `Next`; the lemma
  `Kinds` sorts the steps that leave most of the state alone.
* `DaemonProofs!ConnectionLimit`: the counter is changed by two threads without
  a common lock, and still the limit holds. The argument: until `stop()` is
  called only the listen thread changes the counter; once it is called the
  listen socket is not polled again, so only a listen thread already on its way
  to its last `accept` can still add a connection, and on that way the counter
  is not yet wrong (`Fresh`). `NoneRefused` and `CounterExact` follow from the
  same invariant.
* `WorkerProofs`: what a worker does to its lists is a sequence of removals,
  insertions at the head and moves to the head, so the lemmas say what each of
  them does to the members and their order. `Once` says that every connection is
  once in either list and none of them waits to be accepted any more; without
  it a removal could leave a copy behind. With it `TimeoutsSorted` needs only
  that what comes to the head has an age of 0. `Ahead` is the reason for
  `IndexBounded`: the connections the second walk of `MHD_poll_all` has still
  to visit are at most as many as the slots the index has still to go through.
  A connection that ends in the walk, or that blocks and so does not advance
  the index, only makes the slots more.
* `PoolProofs`: `Counter` is the equation between a worker's counter and its
  connections, `Room` what the worker knows of its limit from the moment it
  polled the listen socket until it adds the connection, `Hands` that an accepted
  socket is in the hands of one worker, and `Joining` that nothing is left of the
  workers that were joined. Until `stop()` is called only the worker itself
  changes its counter, so `Counter` needs no lock (`PoolCounted`); afterwards
  nothing is said of it, since two threads then free connections of one worker.
  `PoolLimited` needs that the shares add up to the limit with its remainder:
  the n-th connection of worker w is given the number w + n * `PoolSize`, which is
  below `Limit` by `Place`, and no two have the same by `PlacesApart`.
  `PoolTornDown` rests on `Joining`. `StartInv` lists what `MHD_start_daemon_va`
  holds at each of its steps (`Taken`) and `stop()` at each of its own
  (`Deployed`); `FailureFreesPort` and `StartedWhole` follow.
* `RestServerProofs!LogLines`: `LogWhole` is a statement about a mutex, but
  `log()` reads the stream before it takes it. `LogHeld` says who holds the mutex
  from `LogLock` to `LogEnd` and that `set_log_file` cannot come between;
  `Silence` that a connection writes nothing before its first request, so that no
  line is in flight while `start()` still sets its server up. `Deployed` says
  that a server with connections has its service.
* `RestServerProofs!ReferencesCounted`: `RefsExact` counts holders with
  `Cardinality`. A change of the count is always by one holder, so the lemmas
  add and remove single holders, and what has to be shown is that nobody holds a
  response twice and that a response that is new is held by nobody. `Slots`
  gives every permanent response its kind and its start, `Hands` says what the
  owner holds in each step of `initialize()` (`Made`, `NextKind`, `ToCome`), and
  `Counts` joins them. `LiveUsed` needs one more part, `Reachable`: the
  permanent response that a request has read is in its slot, or in the owner's
  hand and about to be released, or was `ReplacedByAnother` start. That the third
  case cannot be excluded is finding 4.
* `RestServerProofs!SettingsArrive`: the daemon of a server that runs has the
  fields that its settings ask for, the limit of connections among them where one
  is set, for any settings that are `unsigned`, also those that pass through an
  `int` and come back. `parse_options_va` is a fold over
  the options of `start()`. Their number is known, so there is no induction: the
  fold is unfolded turn by turn (`FoldSix`, `FoldOne`), after a proof that the
  recursive function it is defined with exists, and each of the six turns sets
  one field and leaves the others.

**Only model-checked.** Liveness (`Answered`, `StopEnds`, `TimeoutEnds`,
`Finishes`, `WaitingAccepted`, `StopEndsIfCounted`, `InactiveCloses`,
`CallsReturn`), which needs fairness and ENABLED; of `CallsReturn` the part
without either is `TurnsProgress`. `ServedParams`, which compares the values that
the post processor hands out with those that a form was made from
(`sent.params`): a theorem would need a definition of every text that encodes some
values, and an invariant that describes each state of both machines by what of such
a text is still to come, cut anywhere and partly in the buffer. The run `request`
checks it for its 109 bodies and all their cuts. The type invariants of the modules
without a proof were checked while the models were written and are not part of a
run.

## 6. What is not modelled

* `Connection` leaves out: HTTP/0.9; `malloc` that fails (the pool of the
  connection may be exhausted, `PoolFull`); a service that returns true without
  having queued a response, and chunked replies, which are in `RequestMemory`; a
  service that responds twice, which is in `RestServer`; TLS, epoll, suspended
  connections; the `select()` variant of the loop; an error of `poll()` itself.
* `RequestMemory` leaves out what bytes say, except where a decision depends on
  it; that a continued header line is stored behind its name and not behind its
  value (`connection.cpp:1862`) is therefore a hazard without a property.
* `RequestBody` and `FormRequest` leave out which texts are valid UTF-8 (the
  check is a yes or no) and `http_value_compare`. The post processor's `malloc`
  does not fail.
* `StreamedDocument` leaves out, in XML only, values with blanks and control
  characters: indentation adds blanks to the texts, so they do not count, and XML
  has no control characters. Which of the control characters one is, with the two
  digits of its code, is left out in JSON. A name of an element or attribute is one
  symbol: the builder writes it as it is given. HEAD requests are in `Connection`.
* `Daemon`, `PollLoop` and `Pool` leave out: epoll; the limit per address and the
  accept policy, which the REST server never sets; the loop of
  `MHD_stop_daemon` that closes connections without a thread, which has nothing
  to close here; the 500 ms for which `stop()` sleeps; `select()` in `Daemon`
  and `Pool`, with the hazard that the byte of `stop()` wakes all workers and is
  read by one (`daemon.cpp:2103`). `MHD_set_connection_option` and
  `MHD_suspend_connection` are never called, so there is no list of other
  timeouts and no suspended connection.
* `RestServer` leaves out: `start()` on a server that runs (the code then loses
  the daemon it has, `rest_server.cpp:398`); a second thread that calls the
  servers; responses from files or descriptors, deleted or iterated headers and
  response options, none of which the REST server uses; the text of a log line
  and its shortening by `log_append_pair`; which generator a request has after a
  refused second `respond()` (`rest_server.cpp:218`).
* `wait_until_signalled` has no state of the program; its hazard
  (`rest_server.cpp:479`) lies in how the system delivers signals.
* String and header helpers, reason phrases, the platform layer and the plain
  data types are conversions and wrappers without state. pugixml is vendored and
  not used by the server.

## 7. Plan

Done, in this order: `Connection` with `RequestLifecycle`, `RequestBody`,
`GeneratorStream` with `OutputStream`, `Daemon`, and their proofs; `PollLoop`,
`Pool` and `PoolStart`; `PostProcessor` with `FormRequest`; the builders with
`StreamedDocument`; `MemoryPool` with `RequestMemory`; `DaemonOptions` with
`RestServer` and its proofs; the proofs of the worker and of the pool, of the
memory, of whole bodies and delivered replies, of forms and documents as
implementations, of the post processor's buffers and progress, of the
settings, and of documents that read as they were written.

Next, the most important first:

1. `valid_utf8` and `log_append_pair` as operators against a definition of the
   encoding, in the run `request`.
2. `start()` on a server that is running, with what becomes of the daemon it
   loses; the generator under a service that responds twice.
