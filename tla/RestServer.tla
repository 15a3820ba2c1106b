----------------------------- MODULE RestServer -----------------------------
(***************************************************************************)
(* The rest_servers of a process: start(), stop(), set_log_file() and the  *)
(* other settings, the requests their daemons handle meanwhile, the log,   *)
(* and the responses, counted references, of which the permanent ones are  *)
(* shared by all the servers.                                              *)
(*                                                                         *)
(* One thread, the owner, calls the servers.  What a daemon's threads do   *)
(* with a connection, and how MHD_stop_daemon joins them, is the subject   *)
(* of the modules Connection, Daemon and Pool; here a handler is a         *)
(* connection in the hands of some thread.                                 *)
(***************************************************************************)
EXTENDS DaemonOptions, FiniteSets

CONSTANTS
  Servers,
  Connections,  \* bound: for every server, its connections at a time
  Kinds,        \* the permanent responses, in the order of initialize()
  Settings,     \* for every server, what the owner may set before a start
  Streams,      \* what it may log to
  MaxStarts     \* bound: calls of start()

ASSUME ServerAssumption ==
  /\ Servers # {} /\ Connections \in [Servers -> Nat]
  /\ Kinds \in Seq(STRING) /\ Kinds # <<>> /\ MaxStarts \in Nat
  /\ Streams \cap {"null", "disabled"} = {}

ASSUME SettingsAssumption ==
  \A s \in Servers : \A set \in Settings[s] :
    set.threads \in Unsigned /\ set.max_connections \in Unsigned /\ set.timeout \in Unsigned

VARIABLES
  server,   \* the members of each server
  owner,    \* the call the owner is in
  handler,  \* the connections
  line,     \* for every thread, where it is in log()
  statics,  \* the permanent responses
  rc,       \* reference_count of every response, 0 once it is freed
  starts    \* the servers that were started, in order

vars == <<server, owner, handler, line, statics, rc, starts>>

Handlers == UNION {{s} \X (1 .. Connections[s]) : s \in Servers}
Owner == <<"owner", 0>>
Nobody == <<"nobody", 0>>
Threads == Handlers \cup {Owner}

(* Both are a null pointer: "disabled" was passed to set_log_file().       *)
Null == "null"
Disabled == "disabled"

NoResponse == <<>>
Permanent == {"static"} \X (1 .. MaxStarts) \X (1 .. Len(Kinds))
Own(h) == {<<"own", h[1], h[2], n>> : n \in 1 .. 2}
Responses == Permanent \cup UNION {Own(h) : h \in Handlers}

AllSettings == UNION {Settings[s] : s \in Servers}

NoLine == [at |-> "none", stream |-> Null]
NewServer(set) ==
  [service |-> FALSE, daemon |-> NoDaemon, listens |-> FALSE, log_file |-> Null, mutex |-> Nobody,
   set |-> set]
Idle == [pc |-> "idle", response |-> NoResponse, queued |-> NoResponse]

Init ==
  /\ \E chosen \in [Servers -> AllSettings] :
       /\ \A s \in Servers : chosen[s] \in Settings[s]
       /\ server = [s \in Servers |-> NewServer(chosen[s])]
  /\ owner = [pc |-> "free", on |-> CHOOSE s \in Servers : TRUE, kind |-> 1,
              new |-> NoResponse, old |-> NoResponse, use_poll |-> TRUE]
  /\ handler = [h \in Handlers |-> Idle]
  /\ line = [t \in Threads |-> NoLine]
  /\ statics = [k \in 1 .. Len(Kinds) |-> NoResponse]
  /\ rc = [r \in Responses |-> 0]
  /\ starts = <<>>

ServerOf(t) == IF t = Owner THEN owner.on ELSE t[1]

-----------------------------------------------------------------------------
(***************************************************************************)
(* log(): whether there is a log is tested first, without the mutex.       *)
(***************************************************************************)
Logs(t) == line' = [line EXCEPT ![t].at = "test"]
Quiet == UNCHANGED line
Silent(t) == line[t].at = "none"

NoLog(s) == server[s].log_file \in {Null, Disabled}

LogTest(t) ==
  /\ line[t].at = "test"
  /\ line' = [line EXCEPT ![t].at = IF NoLog(ServerOf(t)) THEN "none" ELSE "lock"]
  /\ UNCHANGED <<server, owner, handler, statics, rc, starts>>

LogLock(t) ==
  /\ line[t].at = "lock" /\ server[ServerOf(t)].mutex = Nobody
  /\ server' = [server EXCEPT ![ServerOf(t)].mutex = t]
  /\ line' = [line EXCEPT ![t].at = "text"]
  /\ UNCHANGED <<owner, handler, statics, rc, starts>>

LogText(t) ==
  /\ line[t].at = "text"
  /\ line' = [line EXCEPT ![t] = IF NoLog(ServerOf(t))
                                   THEN [@ EXCEPT !.at = "fault"]
                                   ELSE [at |-> "end", stream |-> server[ServerOf(t)].log_file]]
  /\ UNCHANGED <<server, owner, handler, statics, rc, starts>>

LogEnd(t) ==
  /\ line[t].at = "end"
  /\ line' = [line EXCEPT ![t] = NoLine]
  /\ server' = [server EXCEPT ![ServerOf(t)].mutex = Nobody]
  /\ UNCHANGED <<owner, handler, statics, rc, starts>>

-----------------------------------------------------------------------------
(***************************************************************************)
(* Responses.  MHD_destroy_response of NoResponse does nothing.            *)
(***************************************************************************)
Created(r) == [rc EXCEPT ![r] = 1]

MutIncremented(r) == rc   \* bug: a queued response is not counted

Incremented(r) == [rc EXCEPT ![r] = @ + 1]

Destroyed(r) == IF r = NoResponse THEN rc ELSE [rc EXCEPT ![r] = @ - 1]

-----------------------------------------------------------------------------
(***************************************************************************)
(* The owner.                                                              *)
(***************************************************************************)
Owns(pc) == owner.pc = pc /\ Silent(Owner)

(* set_threads(), set_max_connections(), set_timeout().                    *)
Set(s) ==
  /\ Owns("free") /\ server[s].daemon = NoDaemon
  /\ \E set \in Settings[s] : server' = [server EXCEPT ![s].set = set]
  /\ UNCHANGED <<owner, handler, line, statics, rc, starts>>

MutSetLogFile(s) ==   \* bug: the mutex is not taken
  /\ Owns("free")
  /\ \E file \in Streams \cup {Disabled} : server' = [server EXCEPT ![s].log_file = file]
  /\ UNCHANGED <<owner, handler, line, statics, rc, starts>>

SetLogFile(s) ==
  /\ Owns("free") /\ server[s].mutex = Nobody
  /\ \E file \in Streams \cup {Disabled} : server' = [server EXCEPT ![s].log_file = file]
  /\ UNCHANGED <<owner, handler, line, statics, rc, starts>>

Start(s) ==
  /\ Owns("free") /\ server[s].daemon = NoDaemon /\ Len(starts) < MaxStarts
  /\ server' = [server EXCEPT ![s].service = TRUE]
  /\ starts' = Append(starts, s)
  /\ owner' = [owner EXCEPT !.pc = "create", !.on = s, !.kind = 1, !.use_poll = TRUE]
  /\ UNCHANGED <<handler, line, statics, rc>>

(* initialize() makes each permanent response, or fails to, and            *)
(* unique_ptr::reset() puts it in the place of the one before, then frees  *)
(* that one.                                                               *)
Create ==
  /\ Owns("create")
  /\ \/ LET new == <<"static", Len(starts), owner.kind>>
        IN  owner' = [owner EXCEPT !.pc = "assign", !.new = new] /\ rc' = Created(new)
     \/ owner' = [owner EXCEPT !.pc = "assign"] /\ UNCHANGED rc
  /\ UNCHANGED <<server, handler, line, statics, starts>>

Assign ==
  /\ Owns("assign")
  /\ statics' = [statics EXCEPT ![owner.kind] = owner.new]
  /\ owner' = [owner EXCEPT !.pc = "release", !.old = statics[owner.kind]]
  /\ UNCHANGED <<server, handler, line, rc, starts>>

(* The response of the first kind gets a header more, which may fail.      *)
Release ==
  /\ Owns("release")
  /\ rc' = Destroyed(owner.old)
  /\ LET after == [owner EXCEPT !.new = NoResponse, !.old = NoResponse]
     IN  \/ /\ owner.new = NoResponse \/ owner.kind = 1
            /\ owner' = [after EXCEPT !.pc = "free"]
         \/ /\ owner.new # NoResponse
            /\ owner' = IF owner.kind < Len(Kinds)
                          THEN [after EXCEPT !.pc = "create", !.kind = @ + 1]
                          ELSE [after EXCEPT !.pc = "attempt"]
  /\ UNCHANGED <<server, handler, line, statics, starts>>

(* MHD_start_daemon, with poll() and then without, may fail for want of    *)
(* memory, descriptors, threads or the port.                               *)
Attempt ==
  /\ Owns("attempt")
  /\ LET daemon == Configured(server[owner.on].set, owner.use_poll)
     IN  \/ /\ Acceptable(daemon)
            /\ server' = [server EXCEPT ![owner.on].daemon = daemon, ![owner.on].listens = TRUE]
            /\ owner' = [owner EXCEPT !.pc = "free"]
            /\ Logs(Owner)
         \/ /\ owner' = IF owner.use_poll THEN [owner EXCEPT !.use_poll = FALSE]
                                          ELSE [owner EXCEPT !.pc = "free"]
            /\ UNCHANGED <<server, line>>
  /\ UNCHANGED <<handler, statics, rc, starts>>

(* stop(): without a daemon it returns at once.                            *)
Stop(s) ==
  /\ Owns("free") /\ server[s].daemon # NoDaemon
  /\ owner' = [owner EXCEPT !.pc = "quiesce", !.on = s] /\ Logs(Owner)
  /\ UNCHANGED <<server, handler, statics, rc, starts>>

Quiesce ==
  /\ Owns("quiesce")
  /\ server' = [server EXCEPT ![owner.on].listens = FALSE]
  /\ owner' = [owner EXCEPT !.pc = "count"]
  /\ UNCHANGED <<handler, line, statics, rc, starts>>

(* A connection is counted once its thread is there.                       *)
Counted(s) == {h \in Handlers : h[1] = s /\ handler[h].pc \notin {"idle", "new"}}

Count ==
  /\ Owns("count") /\ Logs(Owner)
  /\ owner' = [owner EXCEPT !.pc = IF Counted(owner.on) = {} THEN "stopped" ELSE "sleep"]
  /\ UNCHANGED <<server, handler, statics, rc, starts>>

Sleep ==
  /\ Owns("sleep")
  /\ owner' = [owner EXCEPT !.pc = "count"]
  /\ UNCHANGED <<server, handler, line, statics, rc, starts>>

LogStopped ==
  /\ Owns("stopped") /\ Logs(Owner)
  /\ owner' = [owner EXCEPT !.pc = "join"]
  /\ UNCHANGED <<server, handler, statics, rc, starts>>

MutJoined(s) == Counted(s) = {}   \* bug: a connection that is not yet counted is forgotten

(* MHD_stop_daemon joins the threads of all the connections.               *)
Joined(s) == \A h \in Handlers : h[1] = s => handler[h].pc = "idle"

Stopped ==
  /\ Owns("join") /\ Joined(owner.on)
  /\ server' = [server EXCEPT ![owner.on].daemon = NoDaemon, ![owner.on].service = FALSE,
                              ![owner.on].log_file = Null]
  /\ owner' = [owner EXCEPT !.pc = "free"]
  /\ UNCHANGED <<handler, line, statics, rc, starts>>

-----------------------------------------------------------------------------
(***************************************************************************)
(* A connection.                                                           *)
(***************************************************************************)
Handles(h, pc) == handler[h].pc = pc /\ Silent(h)
Moves(h, to) == handler' = [handler EXCEPT ![h] = to]
Goes(h, pc) == Moves(h, [handler[h] EXCEPT !.pc = pc])

Accept(h) ==
  /\ Handles(h, "idle") /\ server[h[1]].listens
  /\ Goes(h, "new")
  /\ UNCHANGED <<server, owner, line, statics, rc, starts>>

(* handle_request: the request is complete, and logged.                    *)
Complete(h) ==
  /\ Handles(h, "new")
  /\ Goes(h, "handle") /\ Logs(h)
  /\ UNCHANGED <<server, owner, statics, rc, starts>>

(* handle(): the server refuses the request with a permanent response, ... *)
Refuse(h) ==
  /\ Handles(h, "handle")
  /\ \E k \in DOMAIN Kinds :
       /\ Kinds[k] # "not_found"
       /\ Moves(h, [handler[h] EXCEPT !.pc = "refuse", !.response = statics[k]])
  /\ UNCHANGED <<server, owner, line, statics, rc, starts>>

(* ... or calls the service, which answers, more than once if it likes.    *)
Serve(h) ==
  /\ Handles(h, "handle")
  /\ Goes(h, IF server[h[1]].service THEN "serve" ELSE "fault")
  /\ UNCHANGED <<server, owner, line, statics, rc, starts>>

RespondNotFound(h) ==
  /\ Handles(h, "serve")
  /\ \E k \in DOMAIN Kinds :
       /\ Kinds[k] = "not_found"
       /\ Moves(h, [handler[h] EXCEPT !.pc = "queue", !.response = statics[k]])
  /\ UNCHANGED <<server, owner, line, statics, rc, starts>>

(* A response is made of data or a generator, and then gets its headers:   *)
(* without memory, or with a malformed header, respond() returns false.    *)
Respond(h) ==
  /\ Handles(h, "serve")
  /\ \E r \in Own(h) :
       /\ rc[r] = 0
       /\ rc' = Created(r)
       /\ Moves(h, [handler[h] EXCEPT !.pc = "headers", !.response = r])
  /\ UNCHANGED <<server, owner, line, statics, starts>>

AddHeaders(h) ==
  /\ Handles(h, "headers")
  /\ \E added \in BOOLEAN : Goes(h, IF added THEN "queue" ELSE "drop")
  /\ UNCHANGED <<server, owner, line, statics, rc, starts>>

(* MHD_queue_response, which takes one response only.                      *)
Takes(h) == handler[h].response # NoResponse /\ handler[h].queued = NoResponse

AfterQueue(h) ==
  IF handler[h].response \in Own(h) THEN "drop"
  ELSE IF handler[h].pc = "queue" THEN "serve"
  ELSE IF Takes(h) THEN "send" ELSE "close"

Queue(h) ==
  /\ Handles(h, "queue") \/ Handles(h, "refuse")
  /\ LET r == handler[h].response
         to == [handler[h] EXCEPT !.pc = AfterQueue(h),
                                  !.response = IF @ \in Own(h) THEN @ ELSE NoResponse]
     IN  \/ ~Takes(h) /\ Moves(h, to) /\ UNCHANGED rc
         \/ Takes(h) /\ rc[r] > 0 /\ Moves(h, [to EXCEPT !.queued = r]) /\ rc' = Incremented(r)
         \/ Takes(h) /\ rc[r] = 0 /\ Goes(h, "fault") /\ UNCHANGED rc
  /\ UNCHANGED <<server, owner, line, statics, starts>>

(* The unique_ptr of respond() goes out of scope.                          *)
Drop(h) ==
  /\ Handles(h, "drop")
  /\ rc' = Destroyed(handler[h].response)
  /\ Moves(h, [handler[h] EXCEPT !.pc = "serve", !.response = NoResponse])
  /\ UNCHANGED <<server, owner, line, statics, starts>>

(* The service returns; without a response it is called again.             *)
ReturnTrue(h) ==
  /\ Handles(h, "serve")
  /\ IF handler[h].queued # NoResponse THEN Goes(h, "send") /\ Quiet
                                       ELSE Goes(h, "handle") /\ Logs(h)
  /\ UNCHANGED <<server, owner, statics, rc, starts>>

ReturnFalse(h) ==
  /\ Handles(h, "serve")
  /\ Goes(h, "close")
  /\ UNCHANGED <<server, owner, line, statics, rc, starts>>

(* The response is sent and destroyed, and the connection serves another   *)
(* request, or is closed.                                                  *)
Sent(h) ==
  /\ Handles(h, "send")
  /\ rc' = Destroyed(handler[h].queued)
  /\ Moves(h, [Idle EXCEPT !.pc = "handle"]) /\ Logs(h)
  /\ UNCHANGED <<server, owner, statics, starts>>

Closed(h) ==
  /\ Handles(h, "send") \/ Handles(h, "close")
  /\ rc' = Destroyed(handler[h].queued)
  /\ Moves(h, Idle)
  /\ UNCHANGED <<server, owner, line, statics, starts>>

-----------------------------------------------------------------------------
Faults ==
  \/ \E h \in Handlers : handler[h].pc = "fault"
  \/ \E t \in Threads : line[t].at = "fault"

Done ==
  /\ Faults \/ (Len(starts) = MaxStarts /\ \A h \in Handlers : handler[h].pc = "idle")
  /\ UNCHANGED vars

LogStep(t) == LogTest(t) \/ LogLock(t) \/ LogText(t) \/ LogEnd(t)

OwnerStep ==
  \/ \E s \in Servers : Set(s) \/ SetLogFile(s) \/ Start(s) \/ Stop(s)
  \/ Create \/ Assign \/ Release \/ Attempt
  \/ Quiesce \/ Count \/ Sleep \/ LogStopped \/ Stopped

HandlerStep(h) ==
  \/ Accept(h) \/ Complete(h) \/ Refuse(h) \/ Serve(h) \/ RespondNotFound(h) \/ Respond(h) \/ AddHeaders(h)
  \/ Queue(h) \/ Drop(h) \/ ReturnTrue(h) \/ ReturnFalse(h) \/ Sent(h) \/ Closed(h)

Next ==
  \/ OwnerStep
  \/ \E h \in Handlers : HandlerStep(h)
  \/ \E t \in Threads : LogStep(t)
  \/ Done

Spec == Init /\ [][Next]_vars

-----------------------------------------------------------------------------
(* The reference count of a response is the number of those that hold it:  *)
(* the slot of a permanent one, initialize() around its reset(), respond() *)
(* until it returns, and every connection that is to send it.              *)
Holders(r) ==
  {<<"slot", k>> : k \in {j \in DOMAIN statics : statics[j] = r}}
  \cup (IF r \in {owner.old} \cup (IF owner.pc = "assign" THEN {owner.new} ELSE {})
          THEN {Owner} ELSE {})
  \cup {<<"respond", h>> : h \in {g \in Handlers : r \in Own(g) /\ handler[g].response = r}}
  \cup {<<"queued", h>> : h \in {g \in Handlers : handler[g].queued = r}}

RefsExact == \A r \in Responses : rc[r] = Cardinality(Holders(r))

(* A request finds the service of its server, and the permanent response   *)
(* it queues still exists unless another server was started since.         *)
ReplacedByAnother(r, s) == \E n \in r[2] + 1 .. Len(starts) : starts[n] # s

UsesLive ==
  \A h \in Handlers :
    /\ handler[h].pc = "handle" => server[h[1]].service
    /\ handler[h].pc \in {"queue", "refuse"} /\ handler[h].response # NoResponse =>
         \/ rc[handler[h].response] > 0
         \/ handler[h].response \in Permanent /\ ReplacedByAnother(handler[h].response, h[1])

(* No request queues a response that was freed: a permanent response is    *)
(* there for all the servers of the process.  The code breaks this.        *)
PermanentKept ==
  \A h \in Handlers :
    Takes(h) /\ handler[h].pc \in {"queue", "refuse"} => rc[handler[h].response] > 0

(* A line is written by one thread at a time, whole and to one stream, and *)
(* a stream is there unless the owner has disabled the log meanwhile.      *)
LogWhole ==
  \A t \in Threads :
    LET s == ServerOf(t)
    IN  /\ line[t].at \in {"text", "end"} => server[s].mutex = t
        /\ line[t].at = "end" => server[s].log_file = line[t].stream
        /\ line[t].at = "text" => server[s].log_file # Null

(* "If nullptr is passed, logging is disabled": nobody writes to a null    *)
(* stream.  The code breaks this.                                          *)
LogThere == \A t \in Threads : line[t].at # "fault"

(* A daemon that start() leaves behind has the settings of the server,     *)
(* and tells the server when a request ends.  What no limit of connections *)
(* becomes is the subject of UnlimitedAsDocumented.                        *)
ConfiguredAsSet ==
  [][\A s \in Servers : server[s].daemon = NoDaemon /\ server'[s].daemon # NoDaemon =>
       LET daemon == server'[s].daemon
           set == server[s].set
       IN  /\ daemon.worker_pool_size = set.threads
           /\ set.max_connections # 0 => daemon.connection_limit = set.max_connections
           /\ daemon.connection_timeout = set.timeout
           /\ daemon.notify_completed = "request_completed"
           /\ daemon.listening_address_reuse = 1]_vars

(* "0 denoting unlimited number of connections": no limit that can be set  *)
(* admits more connections than a server without one.  The code breaks     *)
(* this: 0 ends the list of options, and the default limit stays.          *)
UnlimitedAsDocumented ==
  \A s \in Servers :
    server[s].daemon # NoDaemon /\ server[s].set.max_connections = 0 =>
      \A n \in Unsigned : n <= server[s].daemon.connection_limit
============================================================================
