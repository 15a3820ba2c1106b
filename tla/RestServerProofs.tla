-------------------------- MODULE RestServerProofs --------------------------
(***************************************************************************)
(* The servers of a process (RestServer): a line of the log is written by  *)
(* one thread to one stream that is there, a server has a service and a    *)
(* daemon for as long as it has connections, the reference count of every  *)
(* response is the number of those that hold it, what a request queues     *)
(* exists, unless another server was started since, and a daemon that      *)
(* start() leaves behind is configured as the server was.  For any         *)
(* servers, connections, streams, settings, kinds of permanent responses   *)
(* and numbers of starts.                                                  *)
(***************************************************************************)
EXTENDS RestServer, FiniteSetTheorems, TLAPS

Daemons == {NoDaemon} \cup {Configured(set, b) : set \in AllSettings, b \in BOOLEAN}
Files == Streams \cup {Null, Disabled}

InStart == {"create", "assign", "release", "attempt"}
InStop == {"quiesce", "count", "sleep", "stopped", "join"}
HandlerLabels ==
  {"idle", "new", "handle", "refuse", "serve", "queue", "headers", "drop", "send", "close", "fault"}

(* The types of the variables and of their fields.                         *)
Members == [service : BOOLEAN, daemon : Daemons, listens : BOOLEAN, log_file : Files,
            mutex : Threads \cup {Nobody}, set : AllSettings]
Owners == [pc : {"free"} \cup InStart \cup InStop, on : Servers, kind : 1 .. Len(Kinds),
           new : Permanent \cup {NoResponse}, old : Permanent \cup {NoResponse}, use_poll : BOOLEAN]
States == [pc : HandlerLabels, response : Responses \cup {NoResponse},
           queued : Responses \cup {NoResponse}]
Lines == [at : {"none", "test", "lock", "text", "end", "fault"}, stream : Files]

ServerShape == server \in [Servers -> Members]
OwnerShape == owner \in Owners
HandlerShape == handler \in [Handlers -> States]
LineShape == line \in [Threads -> Lines]
StaticShape == statics \in [1 .. Len(Kinds) -> Permanent \cup {NoResponse}]
CountShape == rc \in [Responses -> Int]
StartShape ==
  starts \in Seq(Servers) /\ Len(starts) <= MaxStarts /\ (owner.pc \in InStart => starts # <<>>)

Shape ==
  ServerShape /\ OwnerShape /\ HandlerShape /\ LineShape /\ StaticShape /\ CountShape /\ StartShape

(* The owner is not a handler, and the mutex of a server that is free is   *)
(* held by neither.                                                        *)
LEMMA ThreadsApart ==
  /\ Owner \in Threads /\ Owner \notin Handlers /\ Nobody \notin Threads
  /\ \A h \in Handlers : h \in Threads /\ h[1] \in Servers /\ ServerOf(h) = h[1]
  /\ ServerOf(Owner) = owner.on
<1>1. \A h \in Handlers : h[2] >= 1 /\ h[1] \in Servers
  BY ServerAssumption DEF Handlers
<1>2. QED  BY <1>1 DEF Owner, Nobody, Threads, ServerOf

(* What a connection holds is its own response, or a permanent one.        *)
LEMMA Kept ==
  ASSUME NEW h \in Handlers
  PROVE  /\ Own(h) \subseteq Responses /\ Permanent \subseteq Responses
         /\ NoResponse \notin Responses
         /\ \A r \in Own(h) : r \notin Permanent
         /\ \A g \in Handlers : g # h => Own(g) \cap Own(h) = {}
<1>1. \A g \in Handlers : g = <<g[1], g[2]>>
  BY DEF Handlers
<1>2. \A g \in Handlers : g # h => Own(g) \cap Own(h) = {}
  BY <1>1 DEF Own
<1>3. \A r \in Own(h) : r \notin Permanent
  BY DEF Own, Permanent
<1>4. NoResponse \notin Responses
  BY DEF Own, Permanent, Responses, NoResponse
<1>5. QED  BY <1>2, <1>3, <1>4 DEF Responses

(* A field of a record gets a value of its type.                           *)
LEMMA MembersKept ==
  ASSUME NEW m \in Members
  PROVE  /\ \A x \in AllSettings : [m EXCEPT !.set = x] \in Members
         /\ \A x \in Files : [m EXCEPT !.log_file = x] \in Members
         /\ \A x \in Threads \cup {Nobody} : [m EXCEPT !.mutex = x] \in Members
         /\ \A x \in BOOLEAN : [m EXCEPT !.service = x] \in Members /\ [m EXCEPT !.listens = x] \in Members
         /\ \A x \in Daemons : [m EXCEPT !.daemon = x] \in Members
BY DEF Members

LEMMA OwnersKept ==
  ASSUME NEW o \in Owners
  PROVE  /\ \A x \in {"free"} \cup InStart \cup InStop : [o EXCEPT !.pc = x] \in Owners
         /\ \A x \in Servers : [o EXCEPT !.on = x] \in Owners
         /\ \A x \in 1 .. Len(Kinds) : [o EXCEPT !.kind = x] \in Owners
         /\ \A x \in Permanent \cup {NoResponse} :
              [o EXCEPT !.new = x] \in Owners /\ [o EXCEPT !.old = x] \in Owners
         /\ \A x \in BOOLEAN : [o EXCEPT !.use_poll = x] \in Owners
BY DEF Owners

LEMMA StatesKept ==
  ASSUME NEW m \in States
  PROVE  /\ \A x \in HandlerLabels : [m EXCEPT !.pc = x] \in States
         /\ \A x \in Responses \cup {NoResponse} :
              [m EXCEPT !.response = x] \in States /\ [m EXCEPT !.queued = x] \in States
BY DEF States

LEMMA LinesKept ==
  ASSUME NEW m \in Lines
  PROVE  /\ \A x \in {"none", "test", "lock", "text", "end", "fault"} : [m EXCEPT !.at = x] \in Lines
         /\ NoLine \in Lines
         /\ \A x \in Files : [at |-> "end", stream |-> x] \in Lines
BY DEF Lines, NoLine, Files

(* Whoever logs is a thread of one of the servers.                         *)
LEMMA ServersOf ==
  ASSUME Shape, NEW t \in Threads
  PROVE  ServerOf(t) \in Servers
BY ThreadsApart DEF Shape, OwnerShape, Owners, Threads

LEMMA ServedAgain ==
  ASSUME NEW f \in [Servers -> Members], NEW s \in Servers, NEW d \in Daemons
  PROVE  [f EXCEPT ![s].daemon = d, ![s].listens = TRUE] \in [Servers -> Members]
<1>1. [f EXCEPT ![s].daemon = d] \in [Servers -> Members]
  BY MembersKept
<1> QED  BY <1>1, MembersKept

(* What initialize() is about to make is one of the permanent responses.   *)
LEMMA NewPermanent ==
  ASSUME Shape, owner.pc = "create"
  PROVE  /\ <<"static", Len(starts), owner.kind>> \in Permanent
         /\ <<"static", Len(starts), owner.kind>> \in Responses
<1>1. Len(starts) \in 1 .. MaxStarts
  BY ServerAssumption DEF Shape, StartShape, InStart
<1>2. owner.kind \in 1 .. Len(Kinds)
  BY DEF Shape, OwnerShape, Owners
<1> QED  BY <1>1, <1>2 DEF Permanent, Responses

(* The steps that take more than one fact about a record to keep its type. *)
LEMMA ReleaseShape ==
  ASSUME Shape, Release
  PROVE  OwnerShape'
<1> DEFINE after == [owner EXCEPT !.new = NoResponse, !.old = NoResponse]
<1>1. after \in Owners /\ owner.kind \in 1 .. Len(Kinds) /\ after.kind = owner.kind
  BY DEF Shape, OwnerShape, Owners
<1>2. CASE owner' = [after EXCEPT !.pc = "free"]
  BY <1>1, <1>2 DEF OwnerShape, Owners
<1>3. CASE owner' = [after EXCEPT !.pc = "create", !.kind = @ + 1] /\ owner.kind < Len(Kinds)
  <2>1. owner.kind + 1 \in 1 .. Len(Kinds)
    BY <1>1, <1>3, ServerAssumption
  <2> QED  BY <1>1, <1>3, <2>1 DEF OwnerShape, Owners, InStart
<1>4. CASE owner' = [after EXCEPT !.pc = "attempt"]
  BY <1>1, <1>4 DEF OwnerShape, Owners, InStart
<1> QED  BY <1>2, <1>3, <1>4 DEF Release

LEMMA AttemptShape ==
  ASSUME Shape, Attempt
  PROVE  ServerShape'
<1>1. Configured(server[owner.on].set, owner.use_poll) \in Daemons /\ owner.on \in Servers
  BY DEF Shape, ServerShape, Members, OwnerShape, Owners, Daemons
<1> QED  BY <1>1, ServedAgain DEF Attempt, Shape, ServerShape

LEMMA AttemptLine ==
  ASSUME Shape, Attempt
  PROVE  LineShape'
<1>1. CASE line' = line
  BY <1>1 DEF Shape, LineShape
<1>2. CASE Logs(Owner)
  BY <1>2, ThreadsApart, LinesKept DEF Shape, LineShape, Logs
<1> QED  BY <1>1, <1>2 DEF Attempt

LEMMA ReturnLine ==
  ASSUME Shape, NEW h \in Handlers, ReturnTrue(h)
  PROVE  LineShape'
<1>1. CASE line' = line
  BY <1>1 DEF Shape, LineShape
<1>2. CASE Logs(h)
  BY <1>2, ThreadsApart, LinesKept DEF Shape, LineShape, Logs
<1> QED  BY <1>1, <1>2 DEF ReturnTrue, Quiet

LEMMA StoppedShape ==
  ASSUME Shape, Stopped
  PROVE  ServerShape'
<1> DEFINE m == server[owner.on]
<1>1. m \in Members /\ owner.on \in Servers
  BY DEF Shape, ServerShape, OwnerShape, Owners
<1>2. [m EXCEPT !.daemon = NoDaemon, !.service = FALSE, !.log_file = Null] \in Members
  <2> HIDE DEF m
  <2>1. [m EXCEPT !.daemon = NoDaemon] \in Members
    BY <1>1, MembersKept DEF Daemons
  <2>2. [m EXCEPT !.daemon = NoDaemon, !.service = FALSE] \in Members
    BY <2>1, MembersKept
  <2> QED  BY <2>2, MembersKept DEF Files
<1>3. server' = [server EXCEPT ![owner.on] = [m EXCEPT !.daemon = NoDaemon, !.service = FALSE, !.log_file = Null]]
  BY <1>1 DEF Stopped, Shape, ServerShape
<1> QED  BY <1>1, <1>2, <1>3 DEF Shape, ServerShape

LEMMA PermanentShape ==
  ASSUME Shape, NEW h \in Handlers, Refuse(h) \/ RespondNotFound(h)
  PROVE  HandlerShape'
<1>1. PICK k \in DOMAIN Kinds :
        \E pc \in {"refuse", "queue"} : Moves(h, [handler[h] EXCEPT !.pc = pc, !.response = statics[k]])
  BY DEF Refuse, RespondNotFound
<1>2. statics[k] \in Responses \cup {NoResponse}
  BY Kept, ServerAssumption DEF Shape, StaticShape
<1>3. \A pc \in {"refuse", "queue"} : [handler[h] EXCEPT !.pc = pc, !.response = statics[k]] \in States
  BY <1>2 DEF Shape, HandlerShape, States, HandlerLabels
<1> QED  BY <1>1, <1>3 DEF Moves, Shape, HandlerShape

LEMMA FirstKind == 1 \in 1 .. Len(Kinds)
BY ServerAssumption

LEMMA RespondShape ==
  ASSUME Shape, NEW h \in Handlers, Respond(h)
  PROVE  HandlerShape'
<1>1. PICK r \in Own(h) : Moves(h, [handler[h] EXCEPT !.pc = "headers", !.response = r])
  BY DEF Respond
<1>2. [handler[h] EXCEPT !.pc = "headers", !.response = r] \in States
  BY Kept DEF Shape, HandlerShape, States, HandlerLabels
<1> QED  BY <1>1, <1>2 DEF Moves, Shape, HandlerShape

LEMMA QueueCount ==
  ASSUME Shape, NEW h \in Handlers, Queue(h)
  PROVE  CountShape'
<1>1. rc' = rc \/ rc' = Incremented(handler[h].response)
  BY DEF Queue
<1> QED  BY <1>1 DEF Incremented, Shape, CountShape

LEMMA CreateCount ==
  ASSUME Shape, Create
  PROVE  CountShape'
<1>1. rc' = rc \/ rc' = Created(<<"static", Len(starts), owner.kind>>)
  BY DEF Create
<1>2. ASSUME NEW r PROVE Created(r) \in [Responses -> Int]
  <2>1. rc \in [Responses -> Int] /\ 1 \in Int
    BY DEF Shape, CountShape
  <2> QED  BY <2>1 DEF Created
<1> QED  BY <1>1, <1>2 DEF Shape, CountShape

LEMMA IdleShape == Idle \in States
BY DEF Idle, States, HandlerLabels

LEMMA QueueShape ==
  ASSUME Shape, NEW h \in Handlers, Queue(h)
  PROVE  HandlerShape'
<1> DEFINE to == [handler[h] EXCEPT !.pc = AfterQueue(h),
                    !.response = IF @ \in Own(h) THEN @ ELSE NoResponse]
<1>1. handler[h] \in States /\ AfterQueue(h) \in HandlerLabels
  BY DEF Shape, HandlerShape, AfterQueue, HandlerLabels
<1>2. to \in States
  BY <1>1 DEF States
<1>3. handler[h].response \in Responses \cup {NoResponse}
  BY <1>1 DEF States
<1>4. /\ [to EXCEPT !.queued = handler[h].response] \in States
      /\ [handler[h] EXCEPT !.pc = "fault"] \in States
  BY <1>1, <1>2, <1>3, StatesKept DEF HandlerLabels
<1>5. \E m \in States : handler' = [handler EXCEPT ![h] = m]
  <2>1. CASE Moves(h, to)
    BY <1>2, <2>1 DEF Moves
  <2>2. CASE Moves(h, [to EXCEPT !.queued = handler[h].response])
    BY <1>4, <2>2 DEF Moves
  <2>3. CASE Goes(h, "fault")
    BY <1>4, <2>3 DEF Goes, Moves
  <2> QED  BY <2>1, <2>2, <2>3 DEF Queue
<1> QED  BY <1>5 DEF Shape, HandlerShape

(* Every variable has its type.                                            *)
LEMMA ShapeHolds == Spec => []Shape
<1>1. Init => Shape
  <2> SUFFICES ASSUME Init PROVE Shape  OBVIOUS
  <2>1. owner.on \in Servers /\ 1 \in 1 .. Len(Kinds)
    BY ServerAssumption DEF Init
  <2>2. Owner \in Threads
    BY ThreadsApart
  <2>3. ServerShape
    BY ServerAssumption DEF Init, ServerShape, Members, NewServer, Daemons, Files
  <2>4. OwnerShape
    BY <2>1, ServerAssumption DEF Init, OwnerShape, Owners
  <2>5. HandlerShape /\ LineShape
    BY IdleShape DEF Init, HandlerShape, LineShape, Lines, NoLine, Files
  <2>6. StaticShape /\ CountShape /\ StartShape
    BY ServerAssumption DEF Init, StaticShape, CountShape, StartShape, InStart
  <2> QED  BY <2>3, <2>4, <2>5, <2>6 DEF Shape
<1>2. Shape /\ [Next]_vars => Shape'
  <2> SUFFICES ASSUME Shape, [Next]_vars PROVE Shape'  OBVIOUS
  <2>0. owner.on \in Servers /\ Owner \in Threads /\ owner.kind \in 1 .. Len(Kinds)
    BY ThreadsApart DEF Shape, OwnerShape, Owners
  <2>1. ASSUME NEW s \in Servers, Set(s) PROVE Shape'
    <3>1. ServerShape'
      BY <2>1, MembersKept DEF Set, Shape, ServerShape, AllSettings
    <3>2. OwnerShape' /\ HandlerShape' /\ LineShape' /\ StaticShape' /\ CountShape' /\ StartShape'
      BY <2>1 DEF Set, Shape, OwnerShape, HandlerShape, LineShape, StaticShape, CountShape, StartShape
    <3> QED  BY <3>1, <3>2 DEF Shape
  <2>2. ASSUME NEW s \in Servers, SetLogFile(s) PROVE Shape'
    <3>1. ServerShape'
      BY <2>2, MembersKept DEF SetLogFile, Shape, ServerShape, Files
    <3>2. OwnerShape' /\ HandlerShape' /\ LineShape' /\ StaticShape' /\ CountShape' /\ StartShape'
      BY <2>2 DEF SetLogFile, Shape, OwnerShape, HandlerShape, LineShape, StaticShape, CountShape, StartShape
    <3> QED  BY <3>1, <3>2 DEF Shape
  <2>3. ASSUME NEW s \in Servers, Start(s) PROVE Shape'
    <3>1. ServerShape'
      BY <2>3, MembersKept DEF Start, Shape, ServerShape
    <3>2. OwnerShape'
      BY <2>3, FirstKind DEF Start, Shape, OwnerShape, Owners, InStart
    <3>3. StartShape'
      BY <2>3, ServerAssumption DEF Start, Shape, StartShape, OwnerShape, Owners, InStart, InStop
    <3>4. HandlerShape' /\ LineShape' /\ StaticShape' /\ CountShape'
      BY <2>3 DEF Start, Shape, HandlerShape, LineShape, StaticShape, CountShape
    <3> QED  BY <3>1, <3>2, <3>3, <3>4 DEF Shape
  <2>4. ASSUME NEW s \in Servers, Stop(s) PROVE Shape'
    <3>1. OwnerShape'
      BY <2>4 DEF Stop, Shape, OwnerShape, Owners, InStop
    <3>2. LineShape'
      BY <2>4, <2>0, LinesKept DEF Stop, Shape, LineShape, Logs
    <3>3. StartShape'
      BY <2>4, ServerAssumption DEF Stop, Shape, StartShape, OwnerShape, Owners, InStart, InStop
    <3>4. ServerShape' /\ HandlerShape' /\ StaticShape' /\ CountShape'
      BY <2>4 DEF Stop, Shape, ServerShape, HandlerShape, StaticShape, CountShape
    <3> QED  BY <3>1, <3>2, <3>3, <3>4 DEF Shape
  <2>5. CASE Create
    <3>1. OwnerShape'
      BY <2>5, <2>0, NewPermanent DEF Create, Shape, OwnerShape, Owners, Owns, InStart
    <3>2. CountShape'
      BY <2>5, CreateCount DEF Create, Shape, CountShape
    <3>3. StartShape'
      BY <2>5, <2>0 DEF Create, Shape, StartShape, Owns, OwnerShape, Owners, InStart
    <3>4. ServerShape' /\ HandlerShape' /\ LineShape' /\ StaticShape'
      BY <2>5 DEF Create, Shape, ServerShape, HandlerShape, LineShape, StaticShape
    <3> QED  BY <3>1, <3>2, <3>3, <3>4 DEF Shape
  <2>6. CASE Assign
    <3>1. OwnerShape'
      BY <2>6, <2>0 DEF Assign, Shape, OwnerShape, Owners, InStart, StaticShape
    <3>2. StaticShape'
      BY <2>6 DEF Assign, Shape, StaticShape, OwnerShape, Owners
    <3>3. StartShape'
      BY <2>6, <2>0 DEF Assign, Shape, StartShape, Owns, OwnerShape, Owners, InStart
    <3>4. ServerShape' /\ HandlerShape' /\ LineShape' /\ CountShape'
      BY <2>6 DEF Assign, Shape, ServerShape, HandlerShape, LineShape, CountShape
    <3> QED  BY <3>1, <3>2, <3>3, <3>4 DEF Shape
  <2>7. CASE Release
    <3>1. OwnerShape'
      BY <2>7, ReleaseShape DEF Release, Shape, OwnerShape
    <3>2. CountShape'
      BY <2>7 DEF Release, Shape, CountShape, Destroyed, OwnerShape, Owners, Responses
    <3>3. StartShape'
      BY <2>7, <2>0 DEF Release, Shape, StartShape, Owns, OwnerShape, Owners, InStart
    <3>4. ServerShape' /\ HandlerShape' /\ LineShape' /\ StaticShape'
      BY <2>7 DEF Release, Shape, ServerShape, HandlerShape, LineShape, StaticShape
    <3> QED  BY <3>1, <3>2, <3>3, <3>4 DEF Shape
  <2>8. CASE Attempt
    <3>1. ServerShape'
      BY <2>8, <2>0, AttemptShape DEF Attempt, Shape, ServerShape
    <3>2. OwnerShape'
      BY <2>8 DEF Attempt, Shape, OwnerShape, Owners, InStart
    <3>3. LineShape'
      BY <2>8, <2>0, LinesKept, AttemptLine DEF Attempt, Shape, LineShape
    <3>4. StartShape'
      BY <2>8, <2>0 DEF Attempt, Shape, StartShape, Owns, OwnerShape, Owners, InStart
    <3>5. HandlerShape' /\ StaticShape' /\ CountShape'
      BY <2>8 DEF Attempt, Shape, HandlerShape, StaticShape, CountShape
    <3> QED  BY <3>1, <3>2, <3>3, <3>4, <3>5 DEF Shape
  <2>9. CASE Quiesce
    <3>1. OwnerShape'
      BY <2>9 DEF Quiesce, Shape, OwnerShape, Owners, InStop
    <3>2. StartShape'
      BY <2>9, <2>0 DEF Quiesce, Shape, StartShape, Owns, OwnerShape, Owners, InStart, InStop
    <3>3. ServerShape'
      BY <2>9, <2>0, MembersKept DEF Quiesce, Shape, ServerShape
    <3>4. HandlerShape' /\ LineShape' /\ StaticShape' /\ CountShape'
      BY <2>9 DEF Quiesce, Shape, HandlerShape, LineShape, StaticShape, CountShape
    <3> QED  BY <3>1, <3>2, <3>3, <3>4 DEF Shape
  <2>10. CASE Count
    <3>1. OwnerShape'
      BY <2>10 DEF Count, Shape, OwnerShape, Owners, InStop
    <3>2. StartShape'
      BY <2>10, <2>0 DEF Count, Shape, StartShape, Owns, OwnerShape, Owners, InStart, InStop
    <3>3. LineShape'
      BY <2>10, <2>0, LinesKept DEF Count, Shape, LineShape, Logs
    <3>4. ServerShape' /\ HandlerShape' /\ StaticShape' /\ CountShape'
      BY <2>10 DEF Count, Shape, ServerShape, HandlerShape, StaticShape, CountShape
    <3> QED  BY <3>1, <3>2, <3>3, <3>4 DEF Shape
  <2>11. CASE Sleep
    <3>1. OwnerShape'
      BY <2>11 DEF Sleep, Shape, OwnerShape, Owners, InStop
    <3>2. StartShape'
      BY <2>11, <2>0 DEF Sleep, Shape, StartShape, Owns, OwnerShape, Owners, InStart, InStop
    <3>3. ServerShape' /\ HandlerShape' /\ LineShape' /\ StaticShape' /\ CountShape'
      BY <2>11 DEF Sleep, Shape, ServerShape, HandlerShape, LineShape, StaticShape, CountShape
    <3> QED  BY <3>1, <3>2, <3>3 DEF Shape
  <2>12. CASE LogStopped
    <3>1. OwnerShape'
      BY <2>12 DEF LogStopped, Shape, OwnerShape, Owners, InStop
    <3>2. StartShape'
      BY <2>12, <2>0 DEF LogStopped, Shape, StartShape, Owns, OwnerShape, Owners, InStart, InStop
    <3>3. LineShape'
      BY <2>12, <2>0, LinesKept DEF LogStopped, Shape, LineShape, Logs
    <3>4. ServerShape' /\ HandlerShape' /\ StaticShape' /\ CountShape'
      BY <2>12 DEF LogStopped, Shape, ServerShape, HandlerShape, StaticShape, CountShape
    <3> QED  BY <3>1, <3>2, <3>3, <3>4 DEF Shape
  <2>13. CASE Stopped
    <3>1. ServerShape'
      BY <2>13, <2>0, StoppedShape DEF Stopped, Shape, ServerShape
    <3>2. OwnerShape'
      BY <2>13 DEF Stopped, Shape, OwnerShape, Owners
    <3>3. StartShape'
      BY <2>13, <2>0 DEF Stopped, Shape, StartShape, Owns, OwnerShape, Owners, InStart, InStop
    <3>4. HandlerShape' /\ LineShape' /\ StaticShape' /\ CountShape'
      BY <2>13 DEF Stopped, Shape, HandlerShape, LineShape, StaticShape, CountShape
    <3> QED  BY <3>1, <3>2, <3>3, <3>4 DEF Shape
  <2>14. ASSUME NEW h \in Handlers, Accept(h) PROVE Shape'
    <3>1. HandlerShape'
      BY <2>14, StatesKept DEF Accept, Shape, HandlerShape, Goes, Moves, HandlerLabels
    <3>2. ServerShape' /\ OwnerShape' /\ LineShape' /\ StaticShape' /\ CountShape' /\ StartShape'
      BY <2>14 DEF Accept, Shape, ServerShape, OwnerShape, LineShape, StaticShape, CountShape, StartShape
    <3> QED  BY <3>1, <3>2 DEF Shape
  <2>15. ASSUME NEW h \in Handlers, Complete(h) PROVE Shape'
    <3>1. HandlerShape'
      BY <2>15, StatesKept DEF Complete, Shape, HandlerShape, Goes, Moves, HandlerLabels
    <3>2. LineShape'
      BY <2>15, ThreadsApart, LinesKept DEF Complete, Shape, LineShape, Logs, Quiet
    <3>3. ServerShape' /\ OwnerShape' /\ StaticShape' /\ CountShape' /\ StartShape'
      BY <2>15 DEF Complete, Shape, ServerShape, OwnerShape, StaticShape, CountShape, StartShape
    <3> QED  BY <3>1, <3>2, <3>3 DEF Shape
  <2>16. ASSUME NEW h \in Handlers, Refuse(h) PROVE Shape'
    <3>1. HandlerShape'
      BY <2>16, PermanentShape DEF Refuse, Shape, HandlerShape
    <3>2. ServerShape' /\ OwnerShape' /\ LineShape' /\ StaticShape' /\ CountShape' /\ StartShape'
      BY <2>16 DEF Refuse, Shape, ServerShape, OwnerShape, LineShape, StaticShape, CountShape, StartShape
    <3> QED  BY <3>1, <3>2 DEF Shape
  <2>17. ASSUME NEW h \in Handlers, Serve(h) PROVE Shape'
    <3>1. HandlerShape'
      BY <2>17, StatesKept DEF Serve, Shape, HandlerShape, Goes, Moves, HandlerLabels
    <3>2. ServerShape' /\ OwnerShape' /\ LineShape' /\ StaticShape' /\ CountShape' /\ StartShape'
      BY <2>17 DEF Serve, Shape, ServerShape, OwnerShape, LineShape, StaticShape, CountShape, StartShape
    <3> QED  BY <3>1, <3>2 DEF Shape
  <2>18. ASSUME NEW h \in Handlers, RespondNotFound(h) PROVE Shape'
    <3>1. HandlerShape'
      BY <2>18, PermanentShape DEF RespondNotFound, Shape, HandlerShape
    <3>2. ServerShape' /\ OwnerShape' /\ LineShape' /\ StaticShape' /\ CountShape' /\ StartShape'
      BY <2>18 DEF RespondNotFound, Shape, ServerShape, OwnerShape, LineShape, StaticShape, CountShape, StartShape
    <3> QED  BY <3>1, <3>2 DEF Shape
  <2>19. ASSUME NEW h \in Handlers, Respond(h) PROVE Shape'
    <3>1. HandlerShape'
      BY <2>19, RespondShape DEF Respond, Shape, HandlerShape
    <3>2. CountShape'
      BY <2>19, Kept DEF Respond, Shape, CountShape, Created
    <3>3. ServerShape' /\ OwnerShape' /\ LineShape' /\ StaticShape' /\ StartShape'
      BY <2>19 DEF Respond, Shape, ServerShape, OwnerShape, LineShape, StaticShape, StartShape
    <3> QED  BY <3>1, <3>2, <3>3 DEF Shape
  <2>20. ASSUME NEW h \in Handlers, AddHeaders(h) PROVE Shape'
    <3>1. HandlerShape'
      BY <2>20 DEF AddHeaders, Shape, HandlerShape, Goes, Moves, HandlerLabels, States
    <3>2. ServerShape' /\ OwnerShape' /\ LineShape' /\ StaticShape' /\ CountShape' /\ StartShape'
      BY <2>20 DEF AddHeaders, Shape, ServerShape, OwnerShape, LineShape, StaticShape, CountShape, StartShape
    <3> QED  BY <3>1, <3>2 DEF Shape
  <2>21. ASSUME NEW h \in Handlers, Queue(h) PROVE Shape'
    <3>1. HandlerShape'
      BY <2>21, QueueShape DEF Queue, Shape, HandlerShape
    <3>2. CountShape'
      BY <2>21, QueueCount DEF Queue, Shape, CountShape
    <3>3. ServerShape' /\ OwnerShape' /\ LineShape' /\ StaticShape' /\ StartShape'
      BY <2>21 DEF Queue, Shape, ServerShape, OwnerShape, LineShape, StaticShape, StartShape
    <3> QED  BY <3>1, <3>2, <3>3 DEF Shape
  <2>22. ASSUME NEW h \in Handlers, Drop(h) PROVE Shape'
    <3>1. HandlerShape'
      BY <2>22, StatesKept DEF Drop, Shape, HandlerShape, Goes, Moves, HandlerLabels
    <3>2. CountShape'
      BY <2>22 DEF Drop, Shape, CountShape, Destroyed, HandlerShape, States
    <3>3. ServerShape' /\ OwnerShape' /\ LineShape' /\ StaticShape' /\ StartShape'
      BY <2>22 DEF Drop, Shape, ServerShape, OwnerShape, LineShape, StaticShape, StartShape
    <3> QED  BY <3>1, <3>2, <3>3 DEF Shape
  <2>23. ASSUME NEW h \in Handlers, ReturnTrue(h) PROVE Shape'
    <3>1. HandlerShape'
      BY <2>23 DEF ReturnTrue, Shape, HandlerShape, Goes, Moves, HandlerLabels, States
    <3>2. LineShape'
      BY <2>23, ReturnLine DEF ReturnTrue, Shape, LineShape
    <3>3. ServerShape' /\ OwnerShape' /\ StaticShape' /\ CountShape' /\ StartShape'
      BY <2>23 DEF ReturnTrue, Shape, ServerShape, OwnerShape, StaticShape, CountShape, StartShape
    <3> QED  BY <3>1, <3>2, <3>3 DEF Shape
  <2>24. ASSUME NEW h \in Handlers, ReturnFalse(h) PROVE Shape'
    <3>1. HandlerShape'
      BY <2>24, StatesKept DEF ReturnFalse, Shape, HandlerShape, Goes, Moves, HandlerLabels
    <3>2. ServerShape' /\ OwnerShape' /\ LineShape' /\ StaticShape' /\ CountShape' /\ StartShape'
      BY <2>24 DEF ReturnFalse, Shape, ServerShape, OwnerShape, LineShape, StaticShape, CountShape, StartShape
    <3> QED  BY <3>1, <3>2 DEF Shape
  <2>25. ASSUME NEW h \in Handlers, Sent(h) PROVE Shape'
    <3>1. HandlerShape'
      BY <2>25, IdleShape, StatesKept DEF Sent, Shape, HandlerShape, Goes, Moves, HandlerLabels
    <3>2. CountShape'
      BY <2>25 DEF Sent, Shape, CountShape, Destroyed, HandlerShape, States
    <3>3. LineShape'
      BY <2>25, ThreadsApart, LinesKept DEF Sent, Shape, LineShape, Logs, Quiet
    <3>4. ServerShape' /\ OwnerShape' /\ StaticShape' /\ StartShape'
      BY <2>25 DEF Sent, Shape, ServerShape, OwnerShape, StaticShape, StartShape
    <3> QED  BY <3>1, <3>2, <3>3, <3>4 DEF Shape
  <2>26. ASSUME NEW h \in Handlers, Closed(h) PROVE Shape'
    <3>1. HandlerShape'
      BY <2>26, IdleShape DEF Closed, Shape, HandlerShape, Goes, Moves, HandlerLabels
    <3>2. CountShape'
      BY <2>26 DEF Closed, Shape, CountShape, Destroyed, HandlerShape, States
    <3>3. ServerShape' /\ OwnerShape' /\ LineShape' /\ StaticShape' /\ StartShape'
      BY <2>26 DEF Closed, Shape, ServerShape, OwnerShape, LineShape, StaticShape, StartShape
    <3> QED  BY <3>1, <3>2, <3>3 DEF Shape
  <2>27. ASSUME NEW t \in Threads, LogTest(t) PROVE Shape'
    <3>1. LineShape'
      BY <2>27, LinesKept DEF LogTest, Shape, LineShape
    <3>2. ServerShape' /\ OwnerShape' /\ HandlerShape' /\ StaticShape' /\ CountShape' /\ StartShape'
      BY <2>27 DEF LogTest, Shape, ServerShape, OwnerShape, HandlerShape, StaticShape, CountShape, StartShape
    <3> QED  BY <3>1, <3>2 DEF Shape
  <2>28. ASSUME NEW t \in Threads, LogLock(t) PROVE Shape'
    <3>1. ServerShape'
      BY <2>28, <2>0, MembersKept, ThreadsApart, ServersOf DEF LogLock, Shape, ServerShape
    <3>2. LineShape'
      BY <2>28, LinesKept DEF LogLock, Shape, LineShape
    <3>3. OwnerShape' /\ HandlerShape' /\ StaticShape' /\ CountShape' /\ StartShape'
      BY <2>28 DEF LogLock, Shape, OwnerShape, HandlerShape, StaticShape, CountShape, StartShape
    <3> QED  BY <3>1, <3>2, <3>3 DEF Shape
  <2>29. ASSUME NEW t \in Threads, LogText(t) PROVE Shape'
    <3>1. LineShape'
      BY <2>29, <2>0, LinesKept, ServersOf DEF LogText, Shape, LineShape, ServerShape, Members
    <3>2. ServerShape' /\ OwnerShape' /\ HandlerShape' /\ StaticShape' /\ CountShape' /\ StartShape'
      BY <2>29 DEF LogText, Shape, ServerShape, OwnerShape, HandlerShape, StaticShape, CountShape, StartShape
    <3> QED  BY <3>1, <3>2 DEF Shape
  <2>30. ASSUME NEW t \in Threads, LogEnd(t) PROVE Shape'
    <3>1. ServerShape'
      BY <2>30, <2>0, MembersKept, ThreadsApart, ServersOf DEF LogEnd, Shape, ServerShape
    <3>2. LineShape'
      BY <2>30, LinesKept DEF LogEnd, Shape, LineShape
    <3>3. OwnerShape' /\ HandlerShape' /\ StaticShape' /\ CountShape' /\ StartShape'
      BY <2>30 DEF LogEnd, Shape, OwnerShape, HandlerShape, StaticShape, CountShape, StartShape
    <3> QED  BY <3>1, <3>2, <3>3 DEF Shape
  <2>31. CASE UNCHANGED vars
    BY <2>31 DEF vars, Shape, ServerShape, OwnerShape, HandlerShape, LineShape, StaticShape, CountShape, StartShape
  <2> QED  BY <2>1, <2>2, <2>3, <2>4, <2>5, <2>6, <2>7, <2>8, <2>9, <2>10, <2>11, <2>12, <2>13,
              <2>14, <2>15, <2>16, <2>17, <2>18, <2>19, <2>20, <2>21, <2>22, <2>23, <2>24, <2>25,
              <2>26, <2>27, <2>28, <2>29, <2>30, <2>31
       DEF Next, OwnerStep, HandlerStep, LogStep, Done
<1>3. QED  BY <1>1, <1>2, PTL DEF Spec

-----------------------------------------------------------------------------
(* From the moment a thread holds the mutex of a log until it has written  *)
(* its line, the log is its own, and from the moment it finds that there   *)
(* is one the server does not stop.                                        *)
LogHeld ==
  \A t \in Threads :
    /\ line[t].at \in {"text", "end"} => server[ServerOf(t)].mutex = t
    /\ line[t].at \in {"lock", "text"} => server[ServerOf(t)].log_file # Null
    /\ line[t].at = "end" => server[ServerOf(t)].log_file = line[t].stream

(* A connection logs nothing before its first request.                     *)
Silence == \A h \in Handlers : handler[h].pc \in {"idle", "new"} => Silent(h)

(* A step that takes nothing from a log, and begins a line at most.        *)
LEMMA LogFrame ==
  ASSUME LogHeld,
         \A s \in Servers : /\ server'[s].mutex = server[s].mutex
                            /\ server'[s].log_file = server[s].log_file,
         \A t \in Threads : /\ ServerOf(t) \in Servers
                            /\ line'[t].at \in {"lock", "text", "end"} =>
                                 line'[t] = line[t] /\ ServerOf(t)' = ServerOf(t)
  PROVE  LogHeld'
BY DEF LogHeld

(* What the steps outside log() do to the lines.                           *)
LEMMA LineFrame ==
  ASSUME Shape, \/ UNCHANGED line
                \/ \E t \in Threads : line' = [line EXCEPT ![t].at = "test"],
         NEW t \in Threads, line'[t].at \in {"lock", "text", "end"}
  PROVE  line'[t] = line[t]
<1>1. CASE \E u \in Threads : line' = [line EXCEPT ![u].at = "test"]
  <2>1. PICK u \in Threads : line' = [line EXCEPT ![u].at = "test"]
    BY <1>1
  <2>2. line'[u].at = "test"
    BY <2>1 DEF Shape, LineShape, Lines
  <2> QED  BY <2>1, <2>2 DEF Shape, LineShape
<1> QED  BY <1>1

(* The owner changes a log without its mutex only once nobody uses it.     *)
LEMMA OwnerLog ==
  ASSUME Shape, LogHeld, Silence, OwnerStep
  PROVE  LogHeld' /\ Silence'
<1> USE DEF Shape
<1>1. \A t \in Threads : ServerOf(t) \in Servers
  BY ServersOf
<1>2. Silent(Owner)
  BY DEF OwnerStep, Set, SetLogFile, Start, Stop, Create, Assign, Release, Attempt, Quiesce, Count, Sleep,
         LogStopped, Stopped, Owns
<1>3. UNCHANGED line \/ line' = [line EXCEPT ![Owner].at = "test"]
  BY DEF OwnerStep, Set, SetLogFile, Start, Stop, Create, Assign, Release, Attempt, Quiesce, Count, Sleep,
         LogStopped, Stopped, Logs
<1>4. \A t \in Threads : line'[t].at \in {"lock", "text", "end"} =>
        t # Owner /\ line'[t] = line[t] /\ ServerOf(t)' = ServerOf(t)
  BY <1>2, <1>3, LineFrame, ThreadsApart DEF ServerOf, Silent, LineShape
<1>5. handler' = handler
  BY DEF OwnerStep, Set, SetLogFile, Start, Stop, Create, Assign, Release, Attempt, Quiesce, Count, Sleep,
         LogStopped, Stopped
<1>6. Silence'
  BY <1>3, <1>5, ThreadsApart DEF Silence, Silent, LineShape
<1>7. ASSUME NEW s \in Servers, SetLogFile(s) PROVE LogHeld'
  <2>1. PICK file \in Streams \cup {Disabled} : server' = [server EXCEPT ![s].log_file = file]
    BY <1>7 DEF SetLogFile
  <2>2. file # Null /\ server[s].mutex = Nobody /\ line' = line /\ owner' = owner
    BY <1>7, ServerAssumption DEF SetLogFile, Null, Disabled
  <2>3. \A r \in Servers : /\ server'[r].mutex = server[r].mutex
                           /\ server'[r].log_file = IF r = s THEN file ELSE server[r].log_file
    BY <2>1 DEF ServerShape, Members
  <2> QED  BY <1>1, <1>4, <2>2, <2>3, ThreadsApart DEF LogHeld
<1>8. CASE Stopped
  <2>1. \A t \in Threads : line[t].at # "none" => ServerOf(t) # owner.on
    BY <1>2, <1>8, ThreadsApart DEF Stopped, Joined, Silence, Silent, Threads, Handlers
  <2>2. line' = line /\ \A t \in Threads : ServerOf(t)' = ServerOf(t)
    BY <1>8 DEF Stopped, ServerOf, OwnerShape, Owners
  <2>3. \A r \in Servers \ {owner.on} : server'[r] = server[r]
    BY <1>8 DEF Stopped, ServerShape
  <2> QED  BY <1>1, <1>6, <2>1, <2>2, <2>3 DEF LogHeld
<1>9. CASE \A s \in Servers : /\ server'[s].mutex = server[s].mutex
                              /\ server'[s].log_file = server[s].log_file
  <2>1. \A t \in Threads : /\ ServerOf(t) \in Servers
                           /\ line'[t].at \in {"lock", "text", "end"} =>
                                line'[t] = line[t] /\ ServerOf(t)' = ServerOf(t)
    BY <1>1, <1>4
  <2> QED  BY <1>6, <1>9, <2>1, LogFrame
<1>10. ASSUME NEW s \in Servers, Set(s) \/ Start(s) \/ Stop(s)
       PROVE  \A r \in Servers : /\ server'[r].mutex = server[r].mutex
                                 /\ server'[r].log_file = server[r].log_file
  BY <1>10 DEF Set, Start, Stop, ServerShape, Members
<1>11. ASSUME Create \/ Assign \/ Release \/ Attempt \/ Quiesce \/ Count \/ Sleep \/ LogStopped
       PROVE  \A r \in Servers : /\ server'[r].mutex = server[r].mutex
                                 /\ server'[r].log_file = server[r].log_file
  BY <1>11 DEF Create, Assign, Release, Attempt, Quiesce, Count, Sleep, LogStopped, ServerShape, Members
<1> QED  BY <1>6, <1>7, <1>8, <1>9, <1>10, <1>11 DEF OwnerStep

(* A connection begins a line, and only once it has begun a request.       *)
LEMMA HandlerLog ==
  ASSUME Shape, LogHeld, Silence, NEW h \in Handlers, HandlerStep(h)
  PROVE  LogHeld' /\ Silence'
<1> USE DEF Shape
<1>1. \A t \in Threads : ServerOf(t) \in Servers
  BY ServersOf
<1>2. server' = server /\ owner' = owner
  BY DEF HandlerStep, Accept, Complete, Refuse, Serve, RespondNotFound, Respond, AddHeaders, Queue, Drop,
         ReturnTrue, ReturnFalse, Sent, Closed
<1>3. UNCHANGED line \/ line' = [line EXCEPT ![h].at = "test"]
  BY DEF HandlerStep, Accept, Complete, Refuse, Serve, RespondNotFound, Respond, AddHeaders, Queue, Drop,
         ReturnTrue, ReturnFalse, Sent, Closed, Logs, Quiet
<1>4. \A t \in Threads : line'[t].at \in {"lock", "text", "end"} =>
        line'[t] = line[t] /\ ServerOf(t)' = ServerOf(t)
  BY <1>2, <1>3, LineFrame, ThreadsApart DEF ServerOf
<1>5. LogHeld'
  BY <1>1, <1>2, <1>4, LogFrame
<1>6. Silent(h)
  BY DEF HandlerStep, Accept, Complete, Refuse, Serve, RespondNotFound, Respond, AddHeaders, Queue, Drop,
         ReturnTrue, ReturnFalse, Sent, Closed, Handles
<1>7. \A g \in Handlers \ {h} : handler'[g] = handler[g] /\ line'[g] = line[g]
  <2>1. \E m : handler' = [handler EXCEPT ![h] = m]
    BY DEF HandlerStep, Accept, Complete, Refuse, Serve, RespondNotFound, Respond, AddHeaders, Queue, Drop,
           ReturnTrue, ReturnFalse, Sent, Closed, Moves, Goes
  <2> QED  BY <1>3, <2>1, ThreadsApart DEF HandlerShape, LineShape
<1>8. UNCHANGED line \/ handler'[h].pc \notin {"idle", "new"}
  BY DEF HandlerStep, Accept, Complete, Refuse, Serve, RespondNotFound, Respond, AddHeaders, Queue, Drop,
         ReturnTrue, ReturnFalse, Sent, Closed, Moves, Goes, Idle, Quiet, HandlerShape, States
<1>9. Silence'
  BY <1>6, <1>7, <1>8 DEF Silence, Silent
<1> QED  BY <1>5, <1>9

(* The steps of log() itself.                                              *)
LEMMA LineLog ==
  ASSUME Shape, LogHeld, Silence, NEW t \in Threads, LogStep(t)
  PROVE  LogHeld' /\ Silence'
<1> USE DEF Shape
<1>1. \A u \in Threads : ServerOf(u) \in Servers /\ ServerOf(u)' = ServerOf(u)
  BY ServersOf DEF LogStep, LogTest, LogLock, LogText, LogEnd, ServerOf
<1>2. handler' = handler /\ line[t].at # "none"
  BY DEF LogStep, LogTest, LogLock, LogText, LogEnd
<1>3. \A u \in Threads \ {t} : line'[u] = line[u]
  BY DEF LogStep, LogTest, LogLock, LogText, LogEnd, LineShape
<1>4. Silence'
  BY <1>2, <1>3, ThreadsApart DEF Silence, Silent
<1>5. CASE LogTest(t)
  <2>1. line'[t].at = (IF NoLog(ServerOf(t)) THEN "none" ELSE "lock") /\ server' = server
    BY <1>5 DEF LogTest, LineShape, Lines
  <2> QED  BY <1>1, <1>3, <1>4, <2>1 DEF LogHeld, NoLog
<1>6. CASE LogLock(t)
  <2>1. line'[t].at = "text" /\ line[t].at = "lock" /\ server[ServerOf(t)].mutex = Nobody
    BY <1>6 DEF LogLock, LineShape, Lines
  <2>2. \A s \in Servers : /\ server'[s].log_file = server[s].log_file
                           /\ server'[s].mutex = IF s = ServerOf(t) THEN t ELSE server[s].mutex
    BY <1>1, <1>6 DEF LogLock, ServerShape, Members
  <2> QED  BY <1>1, <1>3, <1>4, <2>1, <2>2, ThreadsApart DEF LogHeld
<1>7. CASE LogText(t)
  <2>1. /\ line'[t].at \in {"fault", "end"} /\ line[t].at = "text" /\ server' = server
        /\ line'[t].at = "end" => line'[t].stream = server[ServerOf(t)].log_file
    BY <1>7 DEF LogText, LineShape, Lines
  <2> QED  BY <1>1, <1>3, <1>4, <2>1 DEF LogHeld
<1>8. CASE LogEnd(t)
  <2>1. line'[t].at = "none" /\ line[t].at = "end"
    BY <1>8 DEF LogEnd, LineShape, NoLine
  <2>2. \A s \in Servers : /\ server'[s].log_file = server[s].log_file
                           /\ server'[s].mutex = IF s = ServerOf(t) THEN Nobody ELSE server[s].mutex
    BY <1>1, <1>8 DEF LogEnd, ServerShape, Members
  <2> QED  BY <1>1, <1>3, <1>4, <2>1, <2>2 DEF LogHeld
<1> QED  BY <1>4, <1>5, <1>6, <1>7, <1>8 DEF LogStep

(* What log() relies on holds at every step.                               *)
LEMMA LogInductive == Spec => [](LogHeld /\ Silence)
<1>1. Init => LogHeld /\ Silence
  BY ThreadsApart DEF Init, LogHeld, Silence, Silent, NoLine
<1>2. Shape /\ LogHeld /\ Silence /\ [Next]_vars => LogHeld' /\ Silence'
  <2>1. ASSUME LogHeld, Silence, UNCHANGED vars PROVE LogHeld' /\ Silence'
    BY <2>1 DEF vars, LogHeld, Silence, Silent, ServerOf
  <2> QED  BY <2>1, OwnerLog, HandlerLog, LineLog DEF Next, Done
<1> QED  BY <1>1, <1>2, ShapeHolds, PTL DEF Spec

(* Lines are not mixed, and go to a stream that is there.                  *)
THEOREM LogLines == Spec => []LogWhole
<1>1. LogHeld => LogWhole
  BY DEF LogHeld, LogWhole
<1> QED  BY <1>1, LogInductive, PTL

-----------------------------------------------------------------------------
(* A server that listens has a daemon and a daemon its service; start()    *)
(* works on a server without a daemon, stop() on one with a daemon.        *)
Deployed ==
  /\ \A s \in Servers : /\ server[s].listens => server[s].daemon # NoDaemon
                        /\ server[s].daemon # NoDaemon => server[s].service
  /\ \A h \in Handlers : handler[h].pc # "idle" => server[h[1]].daemon # NoDaemon
  /\ owner.pc \in InStart => /\ server[owner.on].daemon = NoDaemon /\ server[owner.on].service
                             /\ starts[Len(starts)] = owner.on
  /\ owner.pc \in InStop => server[owner.on].daemon # NoDaemon
  /\ owner.pc \in InStop \ {"quiesce"} => ~server[owner.on].listens

(* A step of a connection is its own.                                      *)
LEMMA HandlerFrame ==
  ASSUME Shape, NEW h \in Handlers, HandlerStep(h)
  PROVE  /\ UNCHANGED <<server, owner, statics, starts>>
         /\ \A g \in Handlers \ {h} : handler'[g] = handler[g]
         /\ handler[h].pc = "idle" => server[h[1]].listens
<1>1. UNCHANGED <<server, owner, statics, starts>>
  BY DEF HandlerStep, Accept, Complete, Refuse, Serve, RespondNotFound, Respond, AddHeaders, Queue, Drop,
         ReturnTrue, ReturnFalse, Sent, Closed
<1>2. \E m : handler' = [handler EXCEPT ![h] = m]
  BY DEF HandlerStep, Accept, Complete, Refuse, Serve, RespondNotFound, Respond, AddHeaders, Queue, Drop,
         ReturnTrue, ReturnFalse, Sent, Closed, Moves, Goes
<1>3. handler[h].pc = "idle" => server[h[1]].listens
  BY DEF HandlerStep, Accept, Complete, Refuse, Serve, RespondNotFound, Respond, AddHeaders, Queue, Drop,
         ReturnTrue, ReturnFalse, Sent, Closed, Handles
<1> QED  BY <1>1, <1>2, <1>3 DEF Shape, HandlerShape

(* The owner changes the service and the daemon of a server together.      *)
LEMMA OwnerDeployed ==
  ASSUME Shape, Deployed, OwnerStep
  PROVE  Deployed'
<1> USE ThreadsApart DEF Shape, ServerShape, Members, OwnerShape, Owners, InStart, InStop
<1>1. ASSUME NEW s \in Servers, Set(s) \/ SetLogFile(s) PROVE Deployed'
  <2>1. /\ UNCHANGED <<owner, handler, starts>>
        /\ \A r \in Servers : /\ server'[r].daemon = server[r].daemon /\ server'[r].service = server[r].service
                              /\ server'[r].listens = server[r].listens
    BY <1>1 DEF Set, SetLogFile
  <2> QED  BY <2>1 DEF Deployed
<1>2. ASSUME NEW s \in Servers, Start(s) PROVE Deployed'
  <2>1. /\ UNCHANGED handler /\ owner'.pc = "create" /\ owner'.on = s /\ server[s].daemon = NoDaemon
        /\ \A r \in Servers : /\ server'[r].daemon = server[r].daemon
                              /\ IF r = s THEN server'[r].service ELSE server'[r].service = server[r].service
                              /\ server'[r].listens = server[r].listens
    BY <1>2 DEF Start
  <2>2. starts'[Len(starts')] = s
    BY <1>2 DEF Start, StartShape
  <2> QED  BY <2>1, <2>2 DEF Deployed
<1>3. ASSUME NEW s \in Servers, Stop(s) PROVE Deployed'
  <2>1. /\ UNCHANGED <<server, handler, starts>> /\ owner'.pc = "quiesce" /\ owner'.on = s
        /\ server[s].daemon # NoDaemon
    BY <1>3 DEF Stop
  <2> QED  BY <2>1 DEF Deployed
<1>4. CASE Create \/ Assign \/ Release
  <2>1. /\ UNCHANGED <<server, handler, starts>> /\ owner.pc \in InStart
        /\ owner'.pc \in InStart \cup {"free"} /\ owner'.on = owner.on
    BY <1>4 DEF Create, Assign, Release, Owns
  <2> QED  BY <2>1 DEF Deployed
<1>5. CASE Attempt
  <2>1. /\ UNCHANGED <<handler, starts>> /\ owner.pc = "attempt" /\ owner'.on = owner.on
    BY <1>5 DEF Attempt, Owns
  <2>2. CASE UNCHANGED server /\ owner'.pc \in {"attempt", "free"}
    BY <2>1, <2>2 DEF Deployed
  <2>3. ASSUME owner'.pc = "free", NEW d, d # NoDaemon,
               server' = [server EXCEPT ![owner.on].daemon = d, ![owner.on].listens = TRUE]
        PROVE  Deployed'
    <3>1. /\ \A r \in Servers \ {owner.on} : server'[r] = server[r]
          /\ server'[owner.on].daemon = d /\ server'[owner.on].service = server[owner.on].service
      BY <2>3
    <3> QED  BY <2>1, <2>3, <3>1 DEF Deployed
  <2>4. \/ UNCHANGED server /\ owner'.pc \in {"attempt", "free"}
        \/ owner'.pc = "free" /\ \E d : d # NoDaemon
             /\ server' = [server EXCEPT ![owner.on].daemon = d, ![owner.on].listens = TRUE]
    <3>1. CASE UNCHANGED server
      BY <1>5, <2>1, <3>1 DEF Attempt
    <3>2. CASE ~UNCHANGED server
      BY <1>5, <2>1, <3>2 DEF Attempt, Acceptable
    <3> QED  BY <3>1, <3>2
  <2> QED  BY <2>2, <2>3, <2>4
<1>6. CASE Quiesce \/ Count \/ Sleep \/ LogStopped
  <2>1. /\ UNCHANGED <<handler, starts>> /\ owner.pc \in InStop /\ owner'.on = owner.on
        /\ owner'.pc \in InStop \ {"quiesce"}
        /\ \A r \in Servers : /\ server'[r].daemon = server[r].daemon /\ server'[r].service = server[r].service
                              /\ server'[r].listens => server[r].listens
        /\ owner.pc = "quiesce" => ~server'[owner.on].listens
    BY <1>6 DEF Quiesce, Count, Sleep, LogStopped, Owns
  <2> QED  BY <2>1 DEF Deployed
<1>7. CASE Stopped
  <2>1. /\ UNCHANGED <<handler, starts>> /\ owner.pc = "join" /\ owner'.pc = "free" /\ owner'.on = owner.on
        /\ \A r \in Servers \ {owner.on} : server'[r] = server[r]
        /\ server'[owner.on].daemon = NoDaemon /\ server'[owner.on].listens = server[owner.on].listens
    BY <1>7 DEF Stopped, Owns
  <2>2. \A h \in Handlers : handler[h].pc # "idle" => h[1] # owner.on
    BY <1>7 DEF Stopped, Joined
  <2> QED  BY <2>1, <2>2 DEF Deployed
<1> QED  BY <1>1, <1>2, <1>3, <1>4, <1>5, <1>6, <1>7 DEF OwnerStep

(* The daemons and services of the servers.                                *)
LEMMA DeployedHolds == Spec => []Deployed
<1>1. Init => Deployed
  BY ThreadsApart DEF Init, Deployed, NewServer, Idle, InStart, InStop
<1>2. Shape /\ Deployed /\ [Next]_vars => Deployed'
  <2> SUFFICES ASSUME Shape, Deployed, [Next]_vars PROVE Deployed'  OBVIOUS
  <2>1. ASSUME NEW h \in Handlers, HandlerStep(h) PROVE Deployed'
    BY <2>1, HandlerFrame, ThreadsApart DEF Deployed
  <2>2. ASSUME NEW t \in Threads, LogStep(t) PROVE Deployed'
    <3>1. /\ UNCHANGED <<owner, handler, starts>>
          /\ \A s \in Servers : /\ server'[s].daemon = server[s].daemon /\ server'[s].service = server[s].service
                                /\ server'[s].listens = server[s].listens
      BY <2>2 DEF LogStep, LogTest, LogLock, LogText, LogEnd, Shape, ServerShape, Members
    <3> QED  BY <3>1, ThreadsApart DEF Deployed, Shape, OwnerShape, Owners
  <2>3. CASE UNCHANGED vars
    BY <2>3 DEF vars, Deployed
  <2> QED  BY <2>1, <2>2, <2>3, OwnerDeployed DEF Next, Done
<1> QED  BY <1>1, <1>2, ShapeHolds, PTL DEF Spec

-----------------------------------------------------------------------------
(***************************************************************************)
(* The responses and their reference counts.                               *)
(***************************************************************************)
(* The permanent responses made so far: initialize() goes through the      *)
(* kinds, and a response is told by its start and its kind.                *)
NextKind ==
  IF owner.pc = "create" THEN owner.kind
  ELSE IF owner.pc \in {"assign", "release"} THEN owner.kind + 1 ELSE Len(Kinds) + 1

Made(r) == r \in Permanent /\ (r[2] < Len(starts) \/ (r[2] = Len(starts) /\ r[3] < NextKind))

(* A slot holds a response of its kind, of an earlier start if initialize()*)
(* has yet to come to it.                                                  *)
ToCome(k) ==
  \/ owner.pc \in {"create", "assign"} /\ k >= owner.kind
  \/ owner.pc = "release" /\ k > owner.kind

Slots ==
  /\ \A k \in 1 .. Len(Kinds) : statics[k] # NoResponse =>
       /\ Made(statics[k]) /\ statics[k][3] = k
       /\ ToCome(k) => statics[k][2] < Len(starts)
  /\ owner.new # NoResponse =>
       owner.pc \in {"assign", "release"} /\ owner.new = <<"static", Len(starts), owner.kind>>
  /\ owner.old # NoResponse =>
       owner.pc = "release" /\ Made(owner.old) /\ owner.old[2] < Len(starts)

(* What a connection may hold at each of its steps.                        *)
Holding(h, r) == r = NoResponse \/ r \in Own(h) \/ Made(r)

Hands ==
  \A h \in Handlers :
    /\ Holding(h, handler[h].response) /\ Holding(h, handler[h].queued)
    /\ handler[h].pc \in {"idle", "new", "handle", "serve", "send", "close"} => handler[h].response = NoResponse
    /\ handler[h].pc \in {"headers", "drop"} => handler[h].response \in Own(h)
    /\ handler[h].pc \in {"idle", "new"} => handler[h].queued = NoResponse

Making == {"create", "assign", "release"}

(* A permanent response is told by its start and its kind.                 *)
LEMMA PermanentParts ==
  ASSUME NEW r \in Permanent
  PROVE  r[2] \in 1 .. MaxStarts /\ r[3] \in 1 .. Len(Kinds) /\ r = <<"static", r[2], r[3]>> /\ r # NoResponse
BY DEF Permanent, NoResponse

(* The steps of the owner outside initialize().                            *)
LEMMA OwnerElsewhere ==
  ASSUME Shape, OwnerStep, ~Create, ~Assign, ~Release, \A s \in Servers : ~Start(s)
  PROVE  /\ UNCHANGED <<handler, statics, rc, starts>>
         /\ owner'.new = owner.new /\ owner'.old = owner.old
         /\ owner' = owner \/ (owner.pc \notin Making /\ owner'.pc \notin Making)
<1>1. UNCHANGED <<handler, statics, rc, starts>>
  BY DEF OwnerStep, Set, SetLogFile, Stop, Attempt, Quiesce, Count, Sleep, LogStopped, Stopped
<1>2. /\ owner'.new = owner.new /\ owner'.old = owner.old
      /\ owner' = owner \/ (owner.pc \notin Making /\ owner'.pc \notin Making)
  BY DEF OwnerStep, Set, SetLogFile, Stop, Attempt, Quiesce, Count, Sleep, LogStopped, Stopped, Owns, Making,
         Shape, OwnerShape, Owners
<1> QED  BY <1>1, <1>2

(* What was made stays made.                                               *)
LEMMA MadeKept ==
  ASSUME Shape, OwnerStep
  PROVE  \A r : Made(r) => Made(r)'
<1> SUFFICES ASSUME NEW r, Made(r) PROVE Made(r)'
  OBVIOUS
<1>1. r \in Permanent /\ r[2] \in Nat /\ r[3] \in 1 .. Len(Kinds) /\ Len(starts) \in Nat
  BY PermanentParts, ServerAssumption DEF Made, Shape, StartShape
<1>2. owner.kind \in 1 .. Len(Kinds) /\ Len(Kinds) \in Nat
  BY ServerAssumption DEF Shape, OwnerShape, Owners
<1>3. ASSUME NEW s \in Servers, Start(s) PROVE Made(r)'
  <2>1. Len(starts') = Len(starts) + 1
    BY <1>3 DEF Start, Shape, StartShape
  <2> QED  BY <1>1, <2>1 DEF Made
<1>4. CASE Create \/ Assign
  <2>1. /\ starts' = starts /\ owner'.kind = owner.kind
        /\ \/ owner.pc = "create" /\ owner'.pc = "assign"
           \/ owner.pc = "assign" /\ owner'.pc = "release"
    BY <1>4 DEF Create, Assign, Owns, Shape, OwnerShape, Owners
  <2> QED  BY <1>1, <1>2, <2>1 DEF Made, NextKind
<1>5. CASE Release
  <2>1. /\ starts' = starts /\ owner.pc = "release"
        /\ \/ owner'.pc = "create" /\ owner'.kind = owner.kind + 1
           \/ owner'.pc \in {"free", "attempt"}
    BY <1>5 DEF Release, Owns, Shape, OwnerShape, Owners
  <2> QED  BY <1>1, <1>2, <2>1 DEF Made, NextKind
<1>6. CASE ~Create /\ ~Assign /\ ~Release /\ \A s \in Servers : ~Start(s)
  BY <1>6, OwnerElsewhere DEF Made, NextKind, Making
<1> QED  BY <1>3, <1>4, <1>5, <1>6

(* initialize() fills the slots in their order.                            *)
LEMMA OwnerSlots ==
  ASSUME Shape, Slots, OwnerStep
  PROVE  Slots'
<1>0. /\ owner.kind \in 1 .. Len(Kinds) /\ Len(Kinds) \in Nat /\ Len(starts) \in Nat
      /\ statics \in [1 .. Len(Kinds) -> Permanent \cup {NoResponse}]
  BY ServerAssumption DEF Shape, OwnerShape, Owners, StartShape, StaticShape
<1>1. ASSUME NEW s \in Servers, Start(s) PROVE Slots'
  <2>1. /\ Len(starts') = Len(starts) + 1 /\ owner'.new = owner.new /\ owner'.old = owner.old
        /\ owner.pc = "free" /\ statics' = statics
    BY <1>1 DEF Start, Owns, Shape, StartShape, OwnerShape, Owners
  <2>2. owner.new = NoResponse /\ owner.old = NoResponse
    BY <2>1 DEF Slots
  <2>3. \A k \in 1 .. Len(Kinds) : statics[k] # NoResponse => statics[k][2] < Len(starts')
    BY <1>0, <2>1, PermanentParts DEF Slots, Made
  <2> QED  BY <2>1, <2>2, <2>3, MadeKept DEF Slots
<1>2. CASE Create
  <2>1. /\ UNCHANGED <<statics, starts>> /\ owner.pc = "create" /\ owner'.pc = "assign"
        /\ owner'.kind = owner.kind /\ owner'.old = owner.old
        /\ owner'.new \in {owner.new, <<"static", Len(starts), owner.kind>>}
    BY <1>2 DEF Create, Owns, Shape, OwnerShape, Owners
  <2> QED  BY <2>1, MadeKept DEF Slots, ToCome
<1>3. CASE Assign
  <2>1. /\ starts' = starts /\ owner.pc = "assign" /\ owner'.pc = "release"
        /\ owner'.kind = owner.kind /\ owner'.new = owner.new /\ owner'.old = statics[owner.kind]
        /\ statics' = [statics EXCEPT ![owner.kind] = owner.new]
    BY <1>3 DEF Assign, Owns, Shape, OwnerShape, Owners
  <2>2. owner.new # NoResponse => Made(owner.new)' /\ owner.new[3] = owner.kind
    <3>1. owner.new \in Permanent \cup {NoResponse}
      BY DEF Shape, OwnerShape, Owners
    <3> QED  BY <1>0, <2>1, <3>1 DEF Slots, Made, NextKind
  <2>3. \A r : r = statics[owner.kind] /\ r # NoResponse => Made(r)' /\ r[2] < Len(starts)
    BY <1>0, <2>1, MadeKept DEF Slots, ToCome
  <2>4. ASSUME NEW k \in 1 .. Len(Kinds) \ {owner.kind}
        PROVE  (statics[k] # NoResponse =>
                  /\ Made(statics[k]) /\ statics[k][3] = k
                  /\ ToCome(k) => statics[k][2] < Len(starts))'
    <3>1. statics'[k] = statics[k]
      BY <1>0, <2>1
    <3>2. ToCome(k)' => ToCome(k)
      BY <1>0, <2>1 DEF ToCome
    <3> QED  BY <2>1, <3>1, <3>2, MadeKept DEF Slots
  <2>5. (statics[owner.kind] # NoResponse =>
           /\ Made(statics[owner.kind]) /\ statics[owner.kind][3] = owner.kind
           /\ ToCome(owner.kind) => statics[owner.kind][2] < Len(starts))'
    <3>1. statics'[owner'.kind] = owner'.new
      BY <1>0, <2>1
    <3>2. ~ToCome(owner.kind)'
      BY <1>0, <2>1 DEF ToCome
    <3> QED  BY <2>1, <2>2, <3>1, <3>2
  <2>6. /\ owner'.new # NoResponse =>
             owner'.pc \in {"assign", "release"} /\ owner'.new = <<"static", Len(starts'), owner'.kind>>
        /\ (owner.old # NoResponse =>
               owner.pc = "release" /\ Made(owner.old) /\ owner.old[2] < Len(starts))'
    BY <2>1, <2>3 DEF Slots
  <2> QED  BY <2>1, <2>4, <2>5, <2>6 DEF Slots
<1>4. CASE Release
  <2>1. /\ UNCHANGED <<statics, starts>> /\ owner.pc = "release"
        /\ owner'.new = NoResponse /\ owner'.old = NoResponse
        /\ \/ owner'.pc = "create" /\ owner'.kind = owner.kind + 1
           \/ owner'.pc \in {"free", "attempt"}
    BY <1>4 DEF Release, Owns, Shape, OwnerShape, Owners
  <2>2. \A k \in 1 .. Len(Kinds) : ToCome(k)' => ToCome(k)
    BY <1>0, <2>1 DEF ToCome
  <2> QED  BY <2>1, <2>2, MadeKept DEF Slots
<1>5. CASE ~Create /\ ~Assign /\ ~Release /\ \A s \in Servers : ~Start(s)
  <2>1. \A k : ToCome(k)' => ToCome(k)
    BY <1>5, OwnerElsewhere DEF ToCome, Making
  <2>2. owner.new # NoResponse \/ owner.old # NoResponse => owner' = owner
    BY <1>5, OwnerElsewhere DEF Slots, Making
  <2> QED  BY <1>5, <2>1, <2>2, OwnerElsewhere, MadeKept DEF Slots
<1> QED  BY <1>1, <1>2, <1>3, <1>4, <1>5

(* A connection holds what its step says.                                  *)
LEMMA HandlerHands ==
  ASSUME Shape, Slots, Hands, NEW h \in Handlers, HandlerStep(h)
  PROVE  Hands'
<1>1. /\ UNCHANGED <<owner, statics, starts>>
      /\ \A g \in Handlers \ {h} : handler'[g] = handler[g]
  BY HandlerFrame
<1>2. \A g, r : Holding(g, r)' <=> Holding(g, r)
  BY <1>1 DEF Holding, Made, NextKind
<1>3. handler[h] \in States
  BY DEF Shape, HandlerShape
<1>4. \A k \in DOMAIN Kinds : Holding(h, statics[k])
  BY ServerAssumption DEF Slots, Holding
<1>5. /\ Holding(h, handler'[h].response) /\ Holding(h, handler'[h].queued)
      /\ handler'[h].pc \in {"idle", "new", "handle", "serve", "send", "close"} => handler'[h].response = NoResponse
      /\ handler'[h].pc \in {"headers", "drop"} => handler'[h].response \in Own(h)
      /\ handler'[h].pc \in {"idle", "new"} => handler'[h].queued = NoResponse
  <2> USE <1>3 DEF Handles, Moves, Goes, Hands, Shape, HandlerShape, States
  <2>1. CASE Accept(h) \/ Complete(h) \/ Serve(h) \/ AddHeaders(h) \/ ReturnTrue(h) \/ ReturnFalse(h)
    BY <2>1 DEF Accept, Complete, Serve, AddHeaders, ReturnTrue, ReturnFalse
  <2>2. CASE Refuse(h) \/ RespondNotFound(h)
    <3>1. PICK k \in DOMAIN Kinds, pc \in {"refuse", "queue"} :
            handler' = [handler EXCEPT ![h] = [@ EXCEPT !.pc = pc, !.response = statics[k]]]
      BY <2>2 DEF Refuse, RespondNotFound
    <3>2. handler'[h].pc = pc /\ handler'[h].response = statics[k] /\ handler'[h].queued = handler[h].queued
      BY <3>1
    <3> QED  BY <1>4, <3>2
  <2>3. CASE Respond(h)
    BY <2>3 DEF Respond, Holding
  <2>4. CASE Drop(h)
    BY <2>4 DEF Drop, Holding
  <2>5. CASE Sent(h) \/ Closed(h)
    BY <2>5 DEF Sent, Closed, Idle, Holding
  <2>6. CASE Queue(h)
    <3>1. CASE Goes(h, "fault")
      BY <3>1
    <3>2. ASSUME NEW q \in {handler[h].queued, handler[h].response},
                 Moves(h, [handler[h] EXCEPT !.pc = AfterQueue(h), !.queued = q,
                                             !.response = IF @ \in Own(h) THEN @ ELSE NoResponse])
          PROVE  /\ Holding(h, handler'[h].response) /\ Holding(h, handler'[h].queued)
                 /\ handler'[h].pc \in {"idle", "new", "handle", "serve", "send", "close"} =>
                      handler'[h].response = NoResponse
                 /\ handler'[h].pc \in {"headers", "drop"} => handler'[h].response \in Own(h)
                 /\ handler'[h].pc \in {"idle", "new"} => handler'[h].queued = NoResponse
      <4>1. /\ handler'[h].pc = AfterQueue(h) /\ handler'[h].queued = q
            /\ handler'[h].response = IF handler[h].response \in Own(h) THEN handler[h].response ELSE NoResponse
        BY <3>2
      <4>2. AfterQueue(h) \in {"drop", "serve", "send", "close"}
        BY DEF AfterQueue
      <4>3. AfterQueue(h) = "drop" <=> handler[h].response \in Own(h)
        BY DEF AfterQueue
      <4> QED  BY <4>1, <4>2, <4>3 DEF Holding
    <3>3. \/ Goes(h, "fault")
          \/ \E q \in {handler[h].queued, handler[h].response} :
               Moves(h, [handler[h] EXCEPT !.pc = AfterQueue(h), !.queued = q,
                                           !.response = IF @ \in Own(h) THEN @ ELSE NoResponse])
      BY <2>6 DEF Queue
    <3> QED  BY <3>1, <3>2, <3>3
  <2> QED  BY <2>1, <2>2, <2>3, <2>4, <2>5, <2>6 DEF HandlerStep
<1> QED  BY <1>1, <1>2, <1>5 DEF Hands

(* The slots, and what the connections hold, in every state.               *)
LEMMA HandsHold == Spec => [](Slots /\ Hands)
<1>1. Init => Slots /\ Hands
  BY ServerAssumption DEF Init, Slots, Hands, Idle, Holding
<1>2. Shape /\ Slots /\ Hands /\ [Next]_vars => Slots' /\ Hands'
  <2> SUFFICES ASSUME Shape, Slots, Hands, [Next]_vars PROVE Slots' /\ Hands'  OBVIOUS
  <2>1. CASE OwnerStep
    <3>1. handler' = handler
      BY <2>1 DEF OwnerStep, Set, SetLogFile, Start, Stop, Create, Assign, Release, Attempt, Quiesce, Count,
                  Sleep, LogStopped, Stopped
    <3>2. Hands'
      BY <2>1, <3>1, MadeKept DEF Hands, Holding
    <3> QED  BY <2>1, <3>2, OwnerSlots
  <2>2. ASSUME UNCHANGED <<owner, statics, starts>> PROVE Slots'
    BY <2>2 DEF Slots, Made, NextKind, ToCome
  <2>3. ASSUME NEW h \in Handlers, HandlerStep(h) PROVE Slots' /\ Hands'
    BY <2>2, <2>3, HandlerHands, HandlerFrame
  <2>4. ASSUME UNCHANGED <<owner, handler, statics, starts>> PROVE Slots' /\ Hands'
    BY <2>2, <2>4 DEF Hands, Holding, Made, NextKind
  <2>5. ASSUME NEW t \in Threads, LogStep(t) PROVE UNCHANGED <<owner, handler, statics, starts>>
    BY <2>5 DEF LogStep, LogTest, LogLock, LogText, LogEnd
  <2> QED  BY <2>1, <2>3, <2>4, <2>5 DEF Next, Done, vars
<1> QED  BY <1>1, <1>2, ShapeHolds, PTL DEF Spec

-----------------------------------------------------------------------------
(* The reference counts.                                                   *)
Counts == \A r \in Responses : IsFiniteSet(Holders(r)) /\ rc[r] = Cardinality(Holders(r))

RespondHolds(h, r) == r \in Own(h) /\ handler[h].response = r
QueueHolds(h, r) == handler[h].queued = r
OwnerHolds(r) == r = owner.old \/ (owner.pc = "assign" /\ r = owner.new)
SlotHolds(k, r) == k \in DOMAIN statics /\ statics[k] = r

(* Holders, one by one.                                                    *)
LEMMA HolderIs ==
  ASSUME NEW r
  PROVE  /\ \A h \in Handlers : <<"respond", h>> \in Holders(r) <=> RespondHolds(h, r)
         /\ \A h \in Handlers : <<"queued", h>> \in Holders(r) <=> QueueHolds(h, r)
         /\ \A k : <<"slot", k>> \in Holders(r) <=> SlotHolds(k, r)
         /\ Owner \in Holders(r) <=> OwnerHolds(r)
         /\ \A e \in Holders(r) :
              \/ e = Owner
              \/ \E k : e = <<"slot", k>>
              \/ \E h \in Handlers : e = <<"respond", h>> \/ e = <<"queued", h>>
BY DEF Holders, RespondHolds, QueueHolds, OwnerHolds, SlotHolds, Owner

(* One holder more or less.                                                *)
LEMMA AddHolder ==
  ASSUME NEW S, NEW e, IsFiniteSet(S), e \notin S
  PROVE  IsFiniteSet(S \cup {e}) /\ Cardinality(S \cup {e}) = Cardinality(S) + 1
BY FS_AddElement

LEMMA RemoveHolder ==
  ASSUME NEW S, NEW e, IsFiniteSet(S), e \in S
  PROVE  IsFiniteSet(S \ {e}) /\ Cardinality(S \ {e}) = Cardinality(S) - 1
BY FS_RemoveElement

(* Others hold a response as before.                                       *)
OthersHold(h, r) ==
  /\ \A g \in Handlers \ {h} : RespondHolds(g, r)' <=> RespondHolds(g, r)
  /\ \A g \in Handlers \ {h} : QueueHolds(g, r)' <=> QueueHolds(g, r)
  /\ \A k : SlotHolds(k, r)' <=> SlotHolds(k, r)
  /\ OwnerHolds(r)' <=> OwnerHolds(r)

(* A step of a connection leaves what the others hold.                     *)
LEMMA OthersKeep ==
  ASSUME Shape, NEW h \in Handlers, HandlerStep(h), NEW r
  PROVE  OthersHold(h, r)
BY HandlerFrame DEF OthersHold, RespondHolds, QueueHolds, SlotHolds, OwnerHolds

(* A connection comes to hold a response, or lets go of it, once at a time.*)
LEMMA SameHolders ==
  ASSUME NEW h \in Handlers, NEW r, OthersHold(h, r),
         RespondHolds(h, r)' <=> RespondHolds(h, r), QueueHolds(h, r)' <=> QueueHolds(h, r)
  PROVE  Holders(r)' = Holders(r)
BY DEF OthersHold, Holders, RespondHolds, QueueHolds, OwnerHolds, SlotHolds

CountOf(r) == IsFiniteSet(Holders(r)) /\ rc[r] = Cardinality(Holders(r))

(* A count stays right when holders stay, come or go with it.              *)
LEMMA KeptCount ==
  ASSUME NEW r, CountOf(r), Holders(r)' = Holders(r), rc'[r] = rc[r]
  PROVE  CountOf(r)'
BY DEF CountOf

LEMMA GainedCount ==
  ASSUME NEW r, NEW e, CountOf(r), e \notin Holders(r), Holders(r)' = Holders(r) \cup {e},
         rc'[r] = rc[r] + 1
  PROVE  CountOf(r)'
BY AddHolder DEF CountOf

LEMMA LostCount ==
  ASSUME NEW r, NEW e, CountOf(r), e \in Holders(r), Holders(r)' = Holders(r) \ {e},
         rc'[r] = rc[r] - 1
  PROVE  CountOf(r)'
BY RemoveHolder DEF CountOf

(* The four ways the holders change with a connection.                     *)
LEMMA GainsRespond ==
  ASSUME NEW h \in Handlers, NEW r, OthersHold(h, r),
         ~RespondHolds(h, r), RespondHolds(h, r)', QueueHolds(h, r)' <=> QueueHolds(h, r)
  PROVE  Holders(r)' = Holders(r) \cup {<<"respond", h>>} /\ <<"respond", h>> \notin Holders(r)
BY DEF OthersHold, Holders, RespondHolds, QueueHolds, OwnerHolds, SlotHolds, Owner

LEMMA LosesRespond ==
  ASSUME NEW h \in Handlers, NEW r, OthersHold(h, r),
         RespondHolds(h, r), ~RespondHolds(h, r)', QueueHolds(h, r)' <=> QueueHolds(h, r)
  PROVE  Holders(r)' = Holders(r) \ {<<"respond", h>>} /\ <<"respond", h>> \in Holders(r)
BY DEF OthersHold, Holders, RespondHolds, QueueHolds, OwnerHolds, SlotHolds, Owner

LEMMA GainsQueue ==
  ASSUME NEW h \in Handlers, NEW r, OthersHold(h, r),
         ~QueueHolds(h, r), QueueHolds(h, r)', RespondHolds(h, r)' <=> RespondHolds(h, r)
  PROVE  Holders(r)' = Holders(r) \cup {<<"queued", h>>} /\ <<"queued", h>> \notin Holders(r)
BY DEF OthersHold, Holders, RespondHolds, QueueHolds, OwnerHolds, SlotHolds, Owner

LEMMA LosesQueue ==
  ASSUME NEW h \in Handlers, NEW r, OthersHold(h, r),
         QueueHolds(h, r), ~QueueHolds(h, r)', RespondHolds(h, r)' <=> RespondHolds(h, r)
  PROVE  Holders(r)' = Holders(r) \ {<<"queued", h>>} /\ <<"queued", h>> \in Holders(r)
BY DEF OthersHold, Holders, RespondHolds, QueueHolds, OwnerHolds, SlotHolds, Owner

(* The counts after a step of a connection ...                             *)
LEMMA HandlerCounts ==
  ASSUME Shape, Slots, Hands, Counts, NEW h \in Handlers, HandlerStep(h), NEW r \in Responses
  PROVE  CountOf(r)'
<1>1. /\ CountOf(r) /\ OthersHold(h, r) /\ r # NoResponse
      /\ handler \in [Handlers -> States] /\ rc \in [Responses -> Int]
  BY OthersKeep, Kept DEF Counts, CountOf, Shape, HandlerShape, CountShape
<1>2. handler[h] \in States /\ Own(h) \subseteq Responses
  BY <1>1, Kept
<1>3. ASSUME RespondHolds(h, r)' <=> RespondHolds(h, r), QueueHolds(h, r)' <=> QueueHolds(h, r), rc'[r] = rc[r]
      PROVE  CountOf(r)'
  BY <1>1, <1>3, SameHolders, KeptCount
<1>4. CASE Accept(h) \/ Complete(h) \/ Serve(h) \/ AddHeaders(h) \/ ReturnTrue(h) \/ ReturnFalse(h)
  <2>1. handler'[h].response = handler[h].response /\ handler'[h].queued = handler[h].queued /\ rc' = rc
    BY <1>1, <1>4 DEF Accept, Complete, Serve, AddHeaders, ReturnTrue, ReturnFalse, Goes, Moves, States
  <2> QED  BY <1>3, <2>1 DEF RespondHolds, QueueHolds
<1>5. CASE Refuse(h) \/ RespondNotFound(h)
  <2>1. PICK k \in DOMAIN Kinds, pc \in {"refuse", "queue"} :
          handler' = [handler EXCEPT ![h] = [@ EXCEPT !.pc = pc, !.response = statics[k]]]
    BY <1>5 DEF Refuse, RespondNotFound, Moves
  <2>2. handler'[h].response = statics[k] /\ handler'[h].queued = handler[h].queued /\ rc' = rc
    BY <1>1, <1>5, <2>1 DEF Refuse, RespondNotFound, States
  <2>3. handler[h].response = NoResponse
    BY <1>5 DEF Refuse, RespondNotFound, Handles, Hands
  <2>4. statics[k] \notin Own(h)
    BY Kept, ServerAssumption DEF Shape, StaticShape
  <2> QED  BY <1>1, <1>3, <2>2, <2>3, <2>4 DEF RespondHolds, QueueHolds
<1>6. CASE Respond(h)
  <2>1. PICK q \in Own(h) :
          /\ rc[q] = 0 /\ rc' = [rc EXCEPT ![q] = 1]
          /\ handler' = [handler EXCEPT ![h] = [@ EXCEPT !.pc = "headers", !.response = q]]
    BY <1>6 DEF Respond, Created, Moves
  <2>2. /\ handler'[h].response = q /\ handler'[h].queued = handler[h].queued
        /\ handler[h].response = NoResponse
    BY <1>1, <1>6, <2>1 DEF Respond, Handles, Hands, States
  <2>3. CASE r = q
    <3>1. rc'[r] = rc[r] + 1
      BY <1>1, <2>1, <2>3
    <3>2. ~RespondHolds(h, r) /\ RespondHolds(h, r)' /\ (QueueHolds(h, r)' <=> QueueHolds(h, r))
      BY <1>1, <2>1, <2>2, <2>3 DEF RespondHolds, QueueHolds
    <3> QED  BY <1>1, <3>1, <3>2, GainsRespond, GainedCount
  <2>4. CASE r # q
    BY <1>1, <1>3, <2>1, <2>2, <2>4 DEF RespondHolds, QueueHolds
  <2> QED  BY <2>3, <2>4
<1>7. CASE Queue(h)
  <2> DEFINE q == handler[h].response
  <2>1. ASSUME handler'[h].response = (IF q \in Own(h) THEN q ELSE NoResponse) \/ handler'[h].response = q
        PROVE  RespondHolds(h, r)' <=> RespondHolds(h, r)
    BY <1>1, <2>1 DEF RespondHolds
  <2>2. CASE handler'[h].queued = handler[h].queued /\ rc' = rc
    <3>1. handler'[h].response = (IF q \in Own(h) THEN q ELSE NoResponse) \/ handler'[h].response = q
      BY <1>1, <1>7 DEF Queue, Moves, Goes, States
    <3> QED  BY <1>3, <2>1, <2>2, <3>1 DEF QueueHolds
  <2>3. CASE Takes(h) /\ handler'[h].queued = q /\ rc' = Incremented(q)
    <3>1. handler'[h].response = (IF q \in Own(h) THEN q ELSE NoResponse) \/ handler'[h].response = q
      BY <1>1, <1>7 DEF Queue, Moves, Goes, States
    <3>2. handler[h].queued = NoResponse /\ q \in Responses
      BY <1>2, <2>3 DEF Takes, States
    <3>3. CASE r = q
      <4>1. rc'[r] = rc[r] + 1
        BY <1>1, <2>3, <3>3 DEF Incremented
      <4>2. ~QueueHolds(h, r) /\ QueueHolds(h, r)'
        BY <1>1, <2>3, <3>2, <3>3 DEF QueueHolds
      <4> QED  BY <1>1, <2>1, <3>1, <4>1, <4>2, GainsQueue, GainedCount
    <3>4. CASE r # q
      <4>1. rc'[r] = rc[r]
        BY <1>1, <2>3, <3>4 DEF Incremented
      <4>2. QueueHolds(h, r)' <=> QueueHolds(h, r)
        BY <1>1, <2>3, <3>2, <3>4 DEF QueueHolds
      <4> QED  BY <1>3, <2>1, <3>1, <4>1, <4>2
    <3> QED  BY <3>3, <3>4
  <2>4. \/ handler'[h].queued = handler[h].queued /\ rc' = rc
        \/ Takes(h) /\ handler'[h].queued = q /\ rc' = Incremented(q)
    BY <1>1, <1>7 DEF Queue, Moves, Goes, States
  <2> QED  BY <2>2, <2>3, <2>4
<1>8. CASE Drop(h)
  <2>1. /\ handler'[h].response = NoResponse /\ handler'[h].queued = handler[h].queued
        /\ handler[h].response \in Own(h) /\ rc' = Destroyed(handler[h].response)
    BY <1>1, <1>8 DEF Drop, Handles, Hands, Moves, States
  <2>2. CASE r = handler[h].response
    <3>1. rc'[r] = rc[r] - 1
      BY <1>1, <2>1, <2>2 DEF Destroyed
    <3>2. RespondHolds(h, r) /\ ~RespondHolds(h, r)' /\ (QueueHolds(h, r)' <=> QueueHolds(h, r))
      BY <1>1, <2>1, <2>2 DEF RespondHolds, QueueHolds
    <3> QED  BY <1>1, <3>1, <3>2, LosesRespond, LostCount
  <2>3. CASE r # handler[h].response
    <3>1. rc'[r] = rc[r]
      BY <1>1, <2>1, <2>3 DEF Destroyed
    <3> QED  BY <1>1, <1>3, <2>1, <2>3, <3>1 DEF RespondHolds, QueueHolds
  <2> QED  BY <2>2, <2>3
<1>9. CASE Sent(h) \/ Closed(h)
  <2>1. /\ handler'[h].response = NoResponse /\ handler'[h].queued = NoResponse
        /\ handler[h].response = NoResponse /\ rc' = Destroyed(handler[h].queued)
    BY <1>1, <1>9 DEF Sent, Closed, Handles, Hands, Moves, Idle
  <2>2. RespondHolds(h, r)' <=> RespondHolds(h, r)
    BY <1>1, <2>1 DEF RespondHolds
  <2>3. CASE r = handler[h].queued
    <3>1. rc'[r] = rc[r] - 1
      BY <1>1, <2>1, <2>3 DEF Destroyed
    <3>2. QueueHolds(h, r) /\ ~QueueHolds(h, r)'
      BY <1>1, <2>1, <2>3 DEF QueueHolds
    <3> QED  BY <1>1, <2>2, <3>1, <3>2, LosesQueue, LostCount
  <2>4. CASE r # handler[h].queued
    <3>1. rc'[r] = rc[r]
      BY <1>1, <2>1, <2>4 DEF Destroyed
    <3> QED  BY <1>1, <1>3, <2>1, <2>2, <2>4, <3>1 DEF QueueHolds
  <2> QED  BY <2>3, <2>4
<1> QED  BY <1>4, <1>5, <1>6, <1>7, <1>8, <1>9 DEF HandlerStep

(* Connections hold a response as before.                                  *)
HandlersHold(r) ==
  \A h \in Handlers : (RespondHolds(h, r)' <=> RespondHolds(h, r)) /\ (QueueHolds(h, r)' <=> QueueHolds(h, r))

(* The ways the holders change with the owner.                             *)
LEMMA OwnerGains ==
  ASSUME NEW r, HandlersHold(r), \A k : SlotHolds(k, r)' <=> SlotHolds(k, r),
         ~OwnerHolds(r), OwnerHolds(r)'
  PROVE  Holders(r)' = Holders(r) \cup {Owner} /\ Owner \notin Holders(r)
BY DEF HandlersHold, Holders, RespondHolds, QueueHolds, OwnerHolds, SlotHolds, Owner

LEMMA OwnerLoses ==
  ASSUME NEW r, HandlersHold(r), \A k : SlotHolds(k, r)' <=> SlotHolds(k, r),
         OwnerHolds(r), ~OwnerHolds(r)'
  PROVE  Holders(r)' = Holders(r) \ {Owner} /\ Owner \in Holders(r)
BY DEF HandlersHold, Holders, RespondHolds, QueueHolds, OwnerHolds, SlotHolds, Owner

LEMMA OwnerSame ==
  ASSUME NEW r, HandlersHold(r), \A k : SlotHolds(k, r)' <=> SlotHolds(k, r),
         OwnerHolds(r)' <=> OwnerHolds(r)
  PROVE  Holders(r)' = Holders(r)
BY DEF HandlersHold, Holders, RespondHolds, QueueHolds, OwnerHolds, SlotHolds, Owner

(* unique_ptr::reset() moves a response from the owner to its slot, and    *)
(* the one before the other way.                                           *)
LEMMA OwnerGives ==
  ASSUME NEW r, NEW j, HandlersHold(r), \A k : SlotHolds(k, r)' <=> SlotHolds(k, r) \/ k = j,
         OwnerHolds(r), ~OwnerHolds(r)', ~SlotHolds(j, r)
  PROVE  /\ Holders(r)' = (Holders(r) \ {Owner}) \cup {<<"slot", j>>}
         /\ Owner \in Holders(r) /\ <<"slot", j>> \notin Holders(r) \ {Owner}
BY DEF HandlersHold, Holders, RespondHolds, QueueHolds, OwnerHolds, SlotHolds, Owner

LEMMA OwnerTakes ==
  ASSUME NEW r, NEW j, HandlersHold(r), \A k : SlotHolds(k, r)' <=> SlotHolds(k, r) /\ k # j,
         ~OwnerHolds(r), OwnerHolds(r)', SlotHolds(j, r)
  PROVE  /\ Holders(r)' = (Holders(r) \ {<<"slot", j>>}) \cup {Owner}
         /\ <<"slot", j>> \in Holders(r) /\ Owner \notin Holders(r) \ {<<"slot", j>>}
BY DEF HandlersHold, Holders, RespondHolds, QueueHolds, OwnerHolds, SlotHolds, Owner

(* A count stays as it is when a holder is put in place of another.        *)
LEMMA MovedCount ==
  ASSUME NEW r, NEW d, NEW e, CountOf(r), d \in Holders(r), e \notin Holders(r) \ {d},
         Holders(r)' = (Holders(r) \ {d}) \cup {e}, rc'[r] = rc[r]
  PROVE  CountOf(r)'
<1>1. IsFiniteSet(Holders(r) \ {d}) /\ Cardinality(Holders(r) \ {d}) = Cardinality(Holders(r)) - 1
  BY RemoveHolder DEF CountOf
<1>2. IsFiniteSet(Holders(r)') /\ Cardinality(Holders(r)') = Cardinality(Holders(r)) - 1 + 1
  BY <1>1, AddHolder
<1>3. Cardinality(Holders(r)) \in Nat
  BY FS_CardinalityType DEF CountOf
<1> QED  BY <1>2, <1>3 DEF CountOf

(* ... and after a step of the owner.                                      *)
LEMMA OwnerCounts ==
  ASSUME Shape, Slots, Hands, Counts, OwnerStep, NEW r \in Responses
  PROVE  CountOf(r)'
<1>0. r # NoResponse
  BY DEF Responses, Permanent, Own, NoResponse
<1>1. /\ CountOf(r) /\ rc \in [Responses -> Int] /\ r # NoResponse
      /\ statics \in [1 .. Len(Kinds) -> Permanent \cup {NoResponse}] /\ owner \in Owners
      /\ owner.kind \in 1 .. Len(Kinds) /\ Len(Kinds) \in Nat /\ Len(starts) \in Nat
  BY <1>0, ServerAssumption DEF Counts, CountOf, Shape, CountShape, StaticShape, OwnerShape, Owners, StartShape
<1>2. HandlersHold(r)
  BY DEF OwnerStep, Set, SetLogFile, Start, Stop, Create, Assign, Release, Attempt, Quiesce, Count, Sleep,
         LogStopped, Stopped, HandlersHold, RespondHolds, QueueHolds
<1>3. CASE Create
  <2> DEFINE new == <<"static", Len(starts), owner.kind>>
  <2>1. /\ owner.pc = "create" /\ owner'.pc = "assign" /\ owner'.old = owner.old /\ statics' = statics
        /\ owner.new = NoResponse /\ owner.old = NoResponse
    BY <1>1, <1>3 DEF Create, Owns, Owners, Slots
  <2>2. \/ owner'.new = owner.new /\ rc' = rc
        \/ owner'.new = new /\ rc' = [rc EXCEPT ![new] = 1]
    BY <1>1, <1>3 DEF Create, Created, Owners
  <2>3. CASE owner'.new = new /\ rc' = [rc EXCEPT ![new] = 1] /\ r = new
    <3>1. ~Made(r)
      BY <1>1, <2>1, <2>3 DEF Made, NextKind
    <3>2. \A h \in Handlers : r \notin Own(h)
      BY <2>3 DEF Own
    <3>3. \A h \in Handlers : ~RespondHolds(h, r) /\ ~QueueHolds(h, r)
      BY <1>1, <3>1, <3>2 DEF RespondHolds, QueueHolds, Hands, Holding
    <3>4. \A k : ~SlotHolds(k, r)
      BY <1>1, <3>1 DEF SlotHolds, Slots
    <3>5. ~OwnerHolds(r) /\ OwnerHolds(r)'
      BY <1>1, <2>1, <2>3 DEF OwnerHolds
    <3>6. Holders(r) = {}
      BY <3>3, <3>4, <3>5, HolderIs
    <3>7. rc[r] = 0
      BY <1>1, <3>6, FS_EmptySet DEF CountOf
    <3>8. rc'[r] = rc[r] + 1
      BY <1>1, <2>3, <3>7
    <3>9. \A k : SlotHolds(k, r)' <=> SlotHolds(k, r)
      BY <2>1 DEF SlotHolds
    <3> QED  BY <1>1, <1>2, <3>5, <3>8, <3>9, OwnerGains, GainedCount
  <2>4. CASE r # owner'.new
    <3>1. rc'[r] = rc[r]
      BY <1>1, <2>2, <2>4
    <3>2. OwnerHolds(r)' <=> OwnerHolds(r)
      BY <1>1, <2>1, <2>4 DEF OwnerHolds
    <3>3. \A k : SlotHolds(k, r)' <=> SlotHolds(k, r)
      BY <2>1 DEF SlotHolds
    <3> QED  BY <1>1, <1>2, <3>1, <3>2, <3>3, OwnerSame, KeptCount
  <2> QED  BY <1>1, <2>1, <2>2, <2>3, <2>4
<1>4. CASE Assign
  <2> DEFINE j == owner.kind
  <2>1. /\ owner.pc = "assign" /\ owner'.pc = "release" /\ owner'.old = statics[j] /\ rc' = rc
        /\ owner.old = NoResponse /\ statics' = [statics EXCEPT ![j] = owner.new]
    BY <1>1, <1>4 DEF Assign, Owns, Owners, Slots
  <2>2. \A k \in 1 .. Len(Kinds) : statics[k] = r => k = r[3] /\ (k = j => r[2] < Len(starts))
    BY <1>1, <2>1 DEF Slots, ToCome
  <2>3. r = owner.new => r[2] = Len(starts) /\ r[3] = j
    BY <1>1 DEF Slots
  <2>4. \A k : SlotHolds(k, r)' <=> (k # j /\ SlotHolds(k, r)) \/ (k = j /\ r = owner.new)
    BY <1>1, <2>1 DEF SlotHolds
  <2>5. OwnerHolds(r) <=> r = owner.new
    BY <1>1, <2>1 DEF OwnerHolds
  <2>6. OwnerHolds(r)' <=> r = statics[j]
    BY <1>1, <2>1 DEF OwnerHolds
  <2>7. CASE r = owner.new
    <3>1. r # statics[j]
      BY <1>1, <2>2, <2>3, <2>7
    <3>2. ~SlotHolds(j, r)
      BY <3>1 DEF SlotHolds
    <3>3. \A k : SlotHolds(k, r)' <=> SlotHolds(k, r) \/ k = j
      BY <2>4, <2>7, <3>2
    <3>4. /\ Holders(r)' = (Holders(r) \ {Owner}) \cup {<<"slot", j>>}
          /\ Owner \in Holders(r) /\ <<"slot", j>> \notin Holders(r) \ {Owner}
      <4> HIDE DEF j
      <4> QED  BY <1>2, <2>5, <2>6, <2>7, <3>1, <3>2, <3>3, OwnerGives
    <3> QED  BY <1>1, <2>1, <3>4, MovedCount
  <2>8. CASE r = statics[j] /\ r # owner.new
    <3>1. SlotHolds(j, r)
      BY <1>1, <2>8 DEF SlotHolds
    <3>2. \A k : SlotHolds(k, r)' <=> SlotHolds(k, r) /\ k # j
      BY <2>4, <2>8
    <3> QED  BY <1>1, <1>2, <2>1, <2>5, <2>6, <2>8, <3>1, <3>2, OwnerTakes, MovedCount
  <2>9. CASE r # statics[j] /\ r # owner.new
    <3>1. \A k : SlotHolds(k, r)' <=> SlotHolds(k, r)
      BY <2>4, <2>9 DEF SlotHolds
    <3> QED  BY <1>1, <1>2, <2>1, <2>5, <2>6, <2>9, <3>1, OwnerSame, KeptCount
  <2> QED  BY <2>7, <2>8, <2>9
<1>5. CASE Release
  <2>1. /\ owner.pc = "release" /\ owner'.old = NoResponse /\ owner'.pc # "assign" /\ statics' = statics
        /\ rc' = Destroyed(owner.old)
    BY <1>1, <1>5 DEF Release, Owns, Owners
  <2>2. \A k : SlotHolds(k, r)' <=> SlotHolds(k, r)
    BY <2>1 DEF SlotHolds
  <2>3. ~OwnerHolds(r)' /\ (OwnerHolds(r) <=> r = owner.old)
    BY <1>1, <2>1 DEF OwnerHolds
  <2>4. CASE r = owner.old
    <3>1. rc'[r] = rc[r] - 1
      BY <1>1, <2>1, <2>4 DEF Destroyed
    <3> QED  BY <1>1, <1>2, <2>2, <2>3, <2>4, <3>1, OwnerLoses, LostCount
  <2>5. CASE r # owner.old
    <3>1. rc'[r] = rc[r]
      BY <1>1, <2>1, <2>5 DEF Destroyed
    <3> QED  BY <1>1, <1>2, <2>2, <2>3, <2>5, <3>1, OwnerSame, KeptCount
  <2> QED  BY <2>4, <2>5
<1>6. ASSUME NEW s \in Servers, Start(s) PROVE CountOf(r)'
  <2>1. UNCHANGED <<statics, rc>> /\ owner'.old = owner.old /\ owner'.pc # "assign" /\ owner.pc # "assign"
    BY <1>1, <1>6 DEF Start, Owns, Owners
  <2> QED  BY <1>1, <1>2, <2>1, OwnerSame, KeptCount DEF OwnerHolds, SlotHolds
<1>7. CASE ~Create /\ ~Assign /\ ~Release /\ \A s \in Servers : ~Start(s)
  <2>1. /\ UNCHANGED <<statics, rc>> /\ owner'.old = owner.old /\ owner'.new = owner.new
        /\ owner'.pc = "assign" <=> owner.pc = "assign"
    BY <1>7, OwnerElsewhere DEF Making
  <2> QED  BY <1>1, <1>2, <2>1, OwnerSame, KeptCount DEF OwnerHolds, SlotHolds
<1> QED  BY <1>3, <1>4, <1>5, <1>6, <1>7

(* The counts are right in every state.                                    *)
LEMMA CountsHold == Spec => []Counts
<1>1. Init => Counts
  <2> SUFFICES ASSUME Init, NEW r \in Responses PROVE IsFiniteSet(Holders(r)) /\ rc[r] = Cardinality(Holders(r))
    BY DEF Counts
  <2>1. r # NoResponse
    BY DEF Responses, Permanent, Own, NoResponse
  <2>2. Holders(r) = {}
    BY <2>1 DEF Init, Holders, Idle
  <2> QED  BY <2>2, FS_EmptySet DEF Init
<1>2. Shape /\ Slots /\ Hands /\ Counts /\ [Next]_vars => Counts'
  <2> SUFFICES ASSUME Shape, Slots, Hands, Counts, [Next]_vars, NEW r \in Responses PROVE CountOf(r)'
    BY DEF Counts, CountOf
  <2>1. CountOf(r)
    BY DEF Counts, CountOf
  <2>2. ASSUME UNCHANGED <<owner, handler, statics, rc>> PROVE CountOf(r)'
    BY <2>1, <2>2 DEF CountOf, Holders
  <2>3. ASSUME NEW t \in Threads, LogStep(t) PROVE UNCHANGED <<owner, handler, statics, rc>>
    BY <2>3 DEF LogStep, LogTest, LogLock, LogText, LogEnd
  <2> QED  BY <2>2, <2>3, OwnerCounts, HandlerCounts DEF Next, Done, vars
<1> QED  BY <1>1, <1>2, ShapeHolds, HandsHold, PTL DEF Spec

(* The reference count of a response is the number of those that hold it.  *)
THEOREM ReferencesCounted == Spec => []RefsExact
<1>1. Counts => RefsExact
  BY DEF Counts, RefsExact
<1> QED  BY <1>1, CountsHold, PTL

(* A connection that is about to queue a permanent response finds it in    *)
(* its slot or in the hands of the owner, or its server is not the one     *)
(* that was started last.                                                  *)
Reached(r, s) ==
  \/ \E k \in 1 .. Len(Kinds) : statics[k] = r
  \/ owner.old = r
  \/ ReplacedByAnother(r, s)

Reachable ==
  \A h \in Handlers :
    handler[h].pc \in {"queue", "refuse"} /\ handler[h].response \in Permanent =>
      Reached(handler[h].response, h[1])

(* The owner frees a permanent response only when it starts another server.*)
LEMMA OwnerReachable ==
  ASSUME Shape, Deployed, Slots, Reachable, OwnerStep
  PROVE  Reachable'
<1>1. /\ owner \in Owners /\ starts \in Seq(Servers) /\ Len(starts) \in Nat
      /\ statics \in [1 .. Len(Kinds) -> Permanent \cup {NoResponse}] /\ owner.kind \in 1 .. Len(Kinds)
  BY DEF Shape, OwnerShape, Owners, StartShape, StaticShape
<1>2. handler' = handler
  BY DEF OwnerStep, Set, SetLogFile, Start, Stop, Create, Assign, Release, Attempt, Quiesce, Count, Sleep,
         LogStopped, Stopped
<1> SUFFICES ASSUME NEW h \in Handlers, NEW r \in Permanent, handler[h].pc # "idle", Reached(r, h[1])
             PROVE  Reached(r, h[1])'
  BY <1>2 DEF Reachable
<1>3. r[2] \in Nat /\ r # NoResponse /\ h[1] \in Servers
  BY PermanentParts, ThreadsApart, ServerAssumption
<1>4. ASSUME NEW s \in Servers, Start(s) PROVE Reached(r, h[1])'
  <2>1. statics' = statics /\ owner'.old = owner.old /\ starts' = Append(starts, s)
    BY <1>1, <1>4 DEF Start, Owners
  <2>2. ReplacedByAnother(r, h[1]) => ReplacedByAnother(r, h[1])'
    BY <1>1, <1>3, <2>1 DEF ReplacedByAnother
  <2> QED  BY <2>1, <2>2 DEF Reached
<1>5. CASE Assign
  <2>1. /\ starts' = starts /\ owner'.old = statics[owner.kind] /\ owner.old = NoResponse
        /\ statics' = [statics EXCEPT ![owner.kind] = owner.new]
    BY <1>1, <1>5 DEF Assign, Owns, Owners, Slots
  <2>2. \A k \in 1 .. Len(Kinds) \ {owner.kind} : statics'[k] = statics[k]
    BY <1>1, <2>1
  <2> QED  BY <1>3, <2>1, <2>2 DEF Reached, ReplacedByAnother
<1>6. CASE Release
  <2>1. /\ UNCHANGED <<statics, starts>> /\ owner.pc = "release"
    BY <1>6 DEF Release, Owns
  <2>2. CASE owner.old = r
    <3>1. r[2] < Len(starts)
      BY <1>3, <2>2 DEF Slots
    <3>2. starts[Len(starts)] = owner.on /\ server[owner.on].daemon = NoDaemon
      BY <2>1 DEF Deployed, InStart
    <3>3. h[1] # owner.on
      BY <3>2 DEF Deployed
    <3>4. Len(starts) \in r[2] + 1 .. Len(starts)
      BY <1>1, <1>3, <3>1
    <3> QED  BY <2>1, <3>2, <3>3, <3>4 DEF Reached, ReplacedByAnother
  <2>3. CASE owner.old # r
    BY <2>1, <2>3 DEF Reached, ReplacedByAnother
  <2> QED  BY <2>2, <2>3
<1>7. CASE Create
  <2>1. UNCHANGED <<statics, starts>> /\ owner'.old = owner.old
    BY <1>1, <1>7 DEF Create, Owners
  <2> QED  BY <2>1 DEF Reached, ReplacedByAnother
<1>8. CASE ~Create /\ ~Assign /\ ~Release /\ \A s \in Servers : ~Start(s)
  BY <1>8, OwnerElsewhere DEF Reached, ReplacedByAnother
<1> QED  BY <1>4, <1>5, <1>6, <1>7, <1>8

(* A connection takes a permanent response from its slot.                  *)
LEMMA HandlerReachable ==
  ASSUME Shape, Hands, Reachable, NEW h \in Handlers, HandlerStep(h)
  PROVE  Reachable'
<1>1. /\ UNCHANGED <<owner, statics, starts>>
      /\ \A g \in Handlers \ {h} : handler'[g] = handler[g]
  BY HandlerFrame
<1>2. \A r, s : Reached(r, s)' <=> Reached(r, s)
  BY <1>1 DEF Reached, ReplacedByAnother
<1>3. handler \in [Handlers -> States] /\ handler[h] \in States
  BY DEF Shape, HandlerShape
<1>4. handler'[h].pc \in {"queue", "refuse"} /\ handler'[h].response \in Permanent =>
        Reached(handler'[h].response, h[1])
  <2>1. CASE Refuse(h) \/ RespondNotFound(h)
    <3>1. PICK k \in DOMAIN Kinds, pc \in {"refuse", "queue"} :
            handler' = [handler EXCEPT ![h] = [@ EXCEPT !.pc = pc, !.response = statics[k]]]
      BY <2>1 DEF Refuse, RespondNotFound, Moves
    <3>2. handler'[h].response = statics[k]
      BY <1>3, <3>1 DEF States
    <3> QED  BY <3>2, ServerAssumption DEF Reached
  <2>2. CASE AddHeaders(h)
    <3>1. handler'[h].response = handler[h].response /\ handler[h].response \in Own(h)
      BY <1>3, <2>2 DEF AddHeaders, Handles, Goes, Moves, Hands, States
    <3> QED  BY <3>1, Kept
  <2>3. CASE Queue(h)
    <3>1. handler'[h].pc \in {AfterQueue(h), "fault"}
      BY <1>3, <2>3 DEF Queue, Goes, Moves, States
    <3> QED  BY <3>1 DEF AfterQueue
  <2>4. CASE Accept(h) \/ Complete(h) \/ Serve(h) \/ ReturnTrue(h) \/ ReturnFalse(h)
    BY <1>3, <2>4 DEF Accept, Complete, Serve, ReturnTrue, ReturnFalse, Goes, Moves, States
  <2>5. CASE Respond(h)
    BY <1>3, <2>5 DEF Respond, Moves, States
  <2>6. CASE Drop(h)
    BY <1>3, <2>6 DEF Drop, Moves, States
  <2>7. CASE Sent(h) \/ Closed(h)
    BY <1>3, <2>7 DEF Sent, Closed, Moves, Idle
  <2> QED  BY <2>1, <2>2, <2>3, <2>4, <2>5, <2>6, <2>7 DEF HandlerStep
<1> QED  BY <1>1, <1>2, <1>4 DEF Reachable

(* Whether a permanent response can be reached, in every state.            *)
LEMMA ReachableHolds == Spec => []Reachable
<1>1. Init => Reachable
  BY DEF Init, Reachable, Idle
<1>2. Shape /\ Deployed /\ Slots /\ Hands /\ Reachable /\ [Next]_vars => Reachable'
  <2> SUFFICES ASSUME Shape, Deployed, Slots, Hands, Reachable, [Next]_vars PROVE Reachable'  OBVIOUS
  <2>1. ASSUME UNCHANGED <<owner, handler, statics, starts>> PROVE Reachable'
    BY <2>1 DEF Reachable, Reached, ReplacedByAnother
  <2>2. ASSUME NEW t \in Threads, LogStep(t) PROVE UNCHANGED <<owner, handler, statics, starts>>
    BY <2>2 DEF LogStep, LogTest, LogLock, LogText, LogEnd
  <2> QED  BY <2>1, <2>2, OwnerReachable, HandlerReachable DEF Next, Done, vars
<1> QED  BY <1>1, <1>2, ShapeHolds, DeployedHolds, HandsHold, PTL DEF Spec

(* A request finds the service of its server and a response that exists,   *)
(* but for the permanent ones once another server was started.             *)
THEOREM LiveUsed == Spec => []UsesLive
<1>1. Shape /\ Deployed /\ Hands /\ Counts /\ Reachable => UsesLive
  <2> SUFFICES ASSUME Shape, Deployed, Hands, Counts, Reachable, NEW h \in Handlers
               PROVE  /\ handler[h].pc = "handle" => server[h[1]].service
                      /\ handler[h].pc \in {"queue", "refuse"} /\ handler[h].response # NoResponse =>
                           \/ rc[handler[h].response] > 0
                           \/ /\ handler[h].response \in Permanent
                              /\ ReplacedByAnother(handler[h].response, h[1])
    BY DEF UsesLive
  <2>1. handler[h].pc = "handle" => server[h[1]].service
    BY ThreadsApart DEF Deployed
  <2>2. ASSUME NEW r \in Responses, NEW e \in Holders(r) PROVE rc[r] > 0
    <3>1. IsFiniteSet(Holders(r)) /\ rc[r] = Cardinality(Holders(r)) /\ Holders(r) # {}
      BY <2>2 DEF Counts
    <3> QED  BY <3>1, FS_EmptySet, FS_CardinalityType
  <2>3. ASSUME handler[h].response \in Own(h) PROVE rc[handler[h].response] > 0
    <3>1. <<"respond", h>> \in Holders(handler[h].response)
      BY <2>3, HolderIs DEF RespondHolds
    <3> QED  BY <2>2, <2>3, <3>1, Kept
  <2>4. ASSUME handler[h].pc \in {"queue", "refuse"}, handler[h].response \in Permanent
        PROVE  rc[handler[h].response] > 0 \/ ReplacedByAnother(handler[h].response, h[1])
    <3> DEFINE r == handler[h].response
    <3>1. r \in Responses /\ Reached(r, h[1])
      BY <2>4, Kept DEF Reachable
    <3>2. ASSUME NEW k \in 1 .. Len(Kinds), statics[k] = r PROVE rc[r] > 0
      <4>1. <<"slot", k>> \in Holders(r)
        BY <3>2, HolderIs DEF SlotHolds, Shape, StaticShape
      <4> QED  BY <2>2, <3>1, <4>1
    <3>3. CASE owner.old = r
      <4>1. Owner \in Holders(r)
        BY <3>3, HolderIs DEF OwnerHolds
      <4> QED  BY <2>2, <3>1, <4>1
    <3> QED  BY <3>1, <3>2, <3>3 DEF Reached
  <2>5. handler[h].response # NoResponse => handler[h].response \in Own(h) \cup Permanent
    BY DEF Hands, Holding, Made
  <2> QED  BY <2>1, <2>3, <2>4, <2>5
<1> QED  BY <1>1, ShapeHolds, DeployedHolds, HandsHold, CountsHold, ReachableHolds, PTL

-----------------------------------------------------------------------------
(***************************************************************************)
(* The settings.  The options are a list of six and two arrays, so that    *)
(* the folds over them are unfolded turn by turn.                          *)
(***************************************************************************)
(* Among a few numbers one is the largest.                                 *)
LEMMA MaxThere ==
  ASSUME NEW n \in 0 .. 6, NEW S \in SUBSET (1 .. n), S # {}
  PROVE  Max(S) \in S /\ \A y \in S : Max(S) >= y
<1>1. \E x \in S : \A y \in S : x >= y
  <2>1. CASE 6 \in S  BY <2>1
  <2>2. CASE 6 \notin S /\ 5 \in S  BY <2>2
  <2>3. CASE 6 \notin S /\ 5 \notin S /\ 4 \in S  BY <2>3
  <2>4. CASE 6 \notin S /\ 5 \notin S /\ 4 \notin S /\ 3 \in S  BY <2>4
  <2>5. CASE 6 \notin S /\ 5 \notin S /\ 4 \notin S /\ 3 \notin S /\ 2 \in S  BY <2>5
  <2>6. CASE \A k \in 2 .. 6 : k \notin S
    <3>1. \A x \in S : x = 1  BY <2>6
    <3>2. PICK x \in S : TRUE  OBVIOUS
    <3>3. x = 1 /\ \A y \in S : x >= y  BY <3>1, <3>2
    <3>4. QED  BY <3>3
  <2>7. QED  BY <2>1, <2>2, <2>3, <2>4, <2>5, <2>6
<1>2. QED  BY <1>1 DEF Max

LEMMA MaxOfFirst ==
  ASSUME NEW n \in 1 .. 6
  PROVE  Max(1 .. n) = n /\ (1 .. n) \ {n} = 1 .. (n - 1)
<1>0. 1 .. n # {} /\ (1 .. n) \in SUBSET (1 .. n) /\ n \in 0 .. 6  OBVIOUS
<1>1. Max(1 .. n) \in 1 .. n /\ \A y \in 1 .. n : Max(1 .. n) >= y  BY <1>0, MaxThere
<1>2. QED  BY <1>1

Turn(g, d, l, s) == IF s = {} THEN d ELSE SetArrayOrOption(g[s \ {Max(s)}], l[Max(s)])

(* FoldLeft is the value, for the whole list, of a function on the sets of *)
(* its indices that takes the largest index off.                           *)
LEMMA FoldIs ==
  ASSUME NEW d, NEW l
  PROVE  FoldLeft(SetArrayOrOption, d, l) =
           (CHOOSE g : g = [s \in SUBSET DOMAIN l |-> Turn(g, d, l, s)])[DOMAIN l]
  BY DEF FoldLeft, MapThenFoldSet, Turn

Turned(g, d, l) == [s \in SUBSET (1 .. 6) |-> Turn(g, d, l, s)]
Agree(g, h, k) == \A s \in SUBSET (1 .. k) : g[s] = h[s]

(* A turn over functions that agree on the first k indices makes them      *)
(* agree on one more.                                                      *)
LEMMA TurnsAgree ==
  ASSUME NEW d, NEW l, NEW g, NEW h, NEW k \in 0 .. 5, Agree(g, h, k)
  PROVE  Agree(Turned(g, d, l), Turned(h, d, l), k + 1)
<1>1. ASSUME NEW s \in SUBSET (1 .. (k + 1)), s # {}
      PROVE  g[s \ {Max(s)}] = h[s \ {Max(s)}]
  <2>1. k + 1 \in 0 .. 6  OBVIOUS
  <2>2. Max(s) \in s /\ \A y \in s : Max(s) >= y  BY <1>1, <2>1, MaxThere
  <2>3. \A y \in s \ {Max(s)} : y \in 1 .. k
    <3>1. SUFFICES ASSUME NEW y \in s, y # Max(s)  PROVE y \in 1 .. k
      OBVIOUS
    <3>2. y \in 1 .. (k + 1) /\ Max(s) \in 1 .. (k + 1) /\ Max(s) >= y  BY <2>2
    <3>3. QED  BY <3>1, <3>2
  <2>4. QED  BY <2>3 DEF Agree
<1>2. \A s \in SUBSET (1 .. (k + 1)) : s \in SUBSET (1 .. 6)  OBVIOUS
<1>3. QED  BY <1>1, <1>2 DEF Agree, Turned, Turn

(* There is such a function: six turns over any function give one that a   *)
(* further turn does not change.                                           *)
LEMMA TurnsThere ==
  ASSUME NEW d, NEW l
  PROVE  \E g : g = Turned(g, d, l)
<1> DEFINE T(g) == Turned(g, d, l)
           A == T([s \in SUBSET (1 .. 6) |-> d])
<1>1. \A g, h : \A k \in 0 .. 5 : Agree(g, h, k) => Agree(T(g), T(h), k + 1)  BY TurnsAgree
<1>2. Agree(A, T(A), 0)
  <2>1. \A s \in SUBSET (1 .. 0) : s = {} /\ s \in SUBSET (1 .. 6)  OBVIOUS
  <2>2. QED  BY <2>1 DEF Agree, Turned, Turn
<1>. HIDE DEF A, T
<1>3. Agree(T(A), T(T(A)), 1)  BY <1>1, <1>2
<1>4. Agree(T(T(A)), T(T(T(A))), 2)  BY <1>1, <1>3
<1>5. Agree(T(T(T(A))), T(T(T(T(A)))), 3)  BY <1>1, <1>4
<1> DEFINE B == T(T(T(A)))
<1>6. Agree(B, T(B), 3)  BY <1>5
<1>. HIDE DEF B
<1>7. Agree(T(B), T(T(B)), 4)  BY <1>1, <1>6
<1>8. Agree(T(T(B)), T(T(T(B))), 5)  BY <1>1, <1>7
<1>9. Agree(T(T(T(B))), T(T(T(T(B)))), 6)  BY <1>1, <1>8
<1>10. T(T(T(B))) = T(T(T(T(B))))  BY <1>9 DEF Agree, T, Turned
<1>11. QED  BY <1>10 DEF T

(* The fold over the six options of start(), and over an array.            *)
LEMMA FoldSix ==
  ASSUME NEW d, NEW l, DOMAIN l = 1 .. 6
  PROVE  LET a == SetArrayOrOption(SetArrayOrOption(SetArrayOrOption(d, l[1]), l[2]), l[3])
         IN  FoldLeft(SetArrayOrOption, d, l)
               = SetArrayOrOption(SetArrayOrOption(SetArrayOrOption(a, l[4]), l[5]), l[6])
<1> DEFINE g == CHOOSE h : h = [s \in SUBSET (1 .. 6) |-> Turn(h, d, l, s)]
<1>1. g = [s \in SUBSET (1 .. 6) |-> Turn(g, d, l, s)]  BY TurnsThere DEF Turned
<1>2. FoldLeft(SetArrayOrOption, d, l) = g[1 .. 6]  BY FoldIs
<1>. HIDE DEF g
<1>3. ASSUME NEW n \in 1 .. 6  PROVE g[1 .. n] = SetArrayOrOption(g[1 .. (n - 1)], l[n])
  <2>1. Max(1 .. n) = n /\ (1 .. n) \ {n} = 1 .. (n - 1)  BY MaxOfFirst
  <2>2. (1 .. n) \in SUBSET (1 .. 6) /\ 1 .. n # {}  OBVIOUS
  <2>3. g[1 .. n] = Turn(g, d, l, 1 .. n)  BY <1>1, <2>2
  <2>4. QED  BY <2>1, <2>2, <2>3 DEF Turn
<1>4. g[1 .. 0] = d
  <2>1. 1 .. 0 = {}  OBVIOUS
  <2>2. QED  BY <1>1, <2>1 DEF Turn
<1>5. /\ g[1 .. 6] = SetArrayOrOption(g[1 .. 5], l[6])
      /\ g[1 .. 5] = SetArrayOrOption(g[1 .. 4], l[5])
      /\ g[1 .. 4] = SetArrayOrOption(g[1 .. 3], l[4])
      /\ g[1 .. 3] = SetArrayOrOption(g[1 .. 2], l[3])
      /\ g[1 .. 2] = SetArrayOrOption(g[1 .. 1], l[2])
      /\ g[1 .. 1] = SetArrayOrOption(g[1 .. 0], l[1])
  <2>1. /\ 6 - 1 = 5 /\ 5 - 1 = 4 /\ 4 - 1 = 3 /\ 3 - 1 = 2 /\ 2 - 1 = 1 /\ 1 - 1 = 0
        /\ {1, 2, 3, 4, 5, 6} \subseteq 1 .. 6
    OBVIOUS
  <2>2. QED  BY <1>3, <2>1
<1>6. QED  BY <1>2, <1>4, <1>5

LEMMA FoldOne ==
  ASSUME NEW d, NEW l
  PROVE  /\ DOMAIN l = {} => FoldLeft(SetItem, d, l) = d
         /\ DOMAIN l = {1} => FoldLeft(SetItem, d, l) = SetItem(d, l[1])
<1> DEFINE T(g, s) == IF s = {} THEN d ELSE SetItem(g[s \ {Max(s)}], l[Max(s)])
           g == CHOOSE h : h = [s \in SUBSET DOMAIN l |-> T(h, s)]
<1>1. FoldLeft(SetItem, d, l) = g[DOMAIN l]  BY DEF FoldLeft, MapThenFoldSet
<1>2. CASE DOMAIN l = {}
  <2>1. \E h : h = [s \in SUBSET DOMAIN l |-> T(h, s)]
    <3>1. [s \in SUBSET DOMAIN l |-> d] = [s \in SUBSET DOMAIN l |-> T([t \in SUBSET DOMAIN l |-> d], s)]
      BY <1>2
    <3>2. QED  BY <3>1
  <2>2. g = [s \in SUBSET DOMAIN l |-> T(g, s)]  BY <2>1
  <2>3. QED  BY <1>1, <1>2, <2>2
<1>3. CASE DOMAIN l = {1}
  <2> DEFINE w == [s \in SUBSET DOMAIN l |-> IF s = {} THEN d ELSE SetItem(d, l[1])]
  <2>0. Max({1}) = 1 /\ {1} \ {1} = {}  BY DEF Max
  <2>3. \A s \in SUBSET {1} : s = {} \/ s = {1}  OBVIOUS
  <2>1. w = [s \in SUBSET DOMAIN l |-> T(w, s)]
    <3>1. w[{}] = d  OBVIOUS
    <3>2. T(w, {}) = d /\ T(w, {1}) = SetItem(d, l[1])  BY <2>0, <3>1
    <3>3. \A s \in SUBSET {1} : w[s] = T(w, s)  BY <1>3, <2>3, <3>1, <3>2
    <3>4. QED  BY <1>3, <3>3
  <2>2. g = [s \in SUBSET DOMAIN l |-> T(g, s)]  BY <2>1
  <2>. HIDE DEF g
  <2>4. g[{1}] = SetItem(g[{}], l[1])  BY <1>3, <2>2, <2>0
  <2>5. g[{}] = d  BY <1>3, <2>2
  <2>6. QED  BY <1>1, <1>3, <2>4, <2>5
<1>4. QED  BY <1>2, <1>3

(* The fields of the options that start() sets.                            *)
LEMMA FieldsAre ==
  /\ FieldOf["LISTENING_ADDRESS_REUSE"] = "listening_address_reuse"
  /\ FieldOf["THREAD_POOL_SIZE"] = "worker_pool_size"
  /\ FieldOf["CONNECTION_LIMIT"] = "connection_limit"
  /\ FieldOf["CONNECTION_MEMORY_LIMIT"] = "pool_size"
  /\ FieldOf["CONNECTION_TIMEOUT"] = "connection_timeout"
  /\ FieldOf["NOTIFY_COMPLETED"] = "notify_completed"
  /\ {"LISTENING_ADDRESS_REUSE", "THREAD_POOL_SIZE", "CONNECTION_LIMIT", "CONNECTION_MEMORY_LIMIT",
      "CONNECTION_TIMEOUT", "NOTIFY_COMPLETED"} \subseteq DOMAIN FieldOf
  /\ {"THREAD_POOL_SIZE", "CONNECTION_LIMIT"} \subseteq DOMAIN UnsignedFields
<1>1. /\ DOMAIN SizeFields = {"CONNECTION_MEMORY_LIMIT", "CONNECTION_MEMORY_INCREMENT", "THREAD_STACK_SIZE"}
      /\ SizeFields["CONNECTION_MEMORY_LIMIT"] = "pool_size"
  BY DEF SizeFields
<1>2. /\ DOMAIN UnsignedFields =
           {"CONNECTION_LIMIT", "CONNECTION_TIMEOUT", "PER_IP_CONNECTION_LIMIT", "THREAD_POOL_SIZE",
            "TCP_FASTOPEN_QUEUE_SIZE", "LISTENING_ADDRESS_REUSE"}
      /\ UnsignedFields["LISTENING_ADDRESS_REUSE"] = "listening_address_reuse"
      /\ UnsignedFields["THREAD_POOL_SIZE"] = "worker_pool_size"
      /\ UnsignedFields["CONNECTION_LIMIT"] = "connection_limit"
      /\ UnsignedFields["CONNECTION_TIMEOUT"] = "connection_timeout"
  BY DEF UnsignedFields
<1>3. /\ "NOTIFY_COMPLETED" \in DOMAIN PointerFields
      /\ PointerFields["NOTIFY_COMPLETED"] = "notify_completed"
  BY DEF PointerFields
<1>4. /\ "CONNECTION_MEMORY_LIMIT" \in DOMAIN SizeFields \ DOMAIN UnsignedFields
      /\ \A o \in {"LISTENING_ADDRESS_REUSE", "THREAD_POOL_SIZE", "CONNECTION_LIMIT", "CONNECTION_TIMEOUT"} :
           o \in DOMAIN UnsignedFields /\ o \notin DOMAIN SizeFields
      /\ "NOTIFY_COMPLETED" \notin DOMAIN SizeFields \cup DOMAIN UnsignedFields
  BY <1>1, <1>2
<1>5. /\ DOMAIN FieldOf = DOMAIN SizeFields \cup DOMAIN UnsignedFields \cup DOMAIN PointerFields
      /\ \A o \in DOMAIN SizeFields \ DOMAIN UnsignedFields : FieldOf[o] = SizeFields[o]
      /\ \A o \in DOMAIN UnsignedFields \ DOMAIN SizeFields : FieldOf[o] = UnsignedFields[o]
      /\ \A o \in DOMAIN PointerFields \ (DOMAIN SizeFields \cup DOMAIN UnsignedFields) :
           FieldOf[o] = PointerFields[o]
  <2>1. DOMAIN FieldOf = DOMAIN SizeFields \cup DOMAIN UnsignedFields \cup DOMAIN PointerFields
    BY DEF FieldOf
  <2>2. \A o \in DOMAIN SizeFields \ DOMAIN UnsignedFields : FieldOf[o] = SizeFields[o]  BY DEF FieldOf
  <2>3. \A o \in DOMAIN UnsignedFields \ DOMAIN SizeFields : FieldOf[o] = UnsignedFields[o]  BY DEF FieldOf
  <2>4. \A o \in DOMAIN PointerFields \ (DOMAIN SizeFields \cup DOMAIN UnsignedFields) :
           FieldOf[o] = PointerFields[o]
    BY DEF FieldOf
  <2>5. QED  BY <2>1, <2>2, <2>3, <2>4
<1>6. /\ FieldOf["CONNECTION_MEMORY_LIMIT"] = "pool_size"
      /\ FieldOf["NOTIFY_COMPLETED"] = "notify_completed"
      /\ FieldOf["LISTENING_ADDRESS_REUSE"] = "listening_address_reuse"
      /\ FieldOf["THREAD_POOL_SIZE"] = "worker_pool_size"
      /\ FieldOf["CONNECTION_LIMIT"] = "connection_limit"
      /\ FieldOf["CONNECTION_TIMEOUT"] = "connection_timeout"
  <2>1. FieldOf["CONNECTION_MEMORY_LIMIT"] = "pool_size"  BY <1>1, <1>4, <1>5
  <2>2. FieldOf["NOTIFY_COMPLETED"] = "notify_completed"  BY <1>3, <1>4, <1>5
  <2>3. \A o \in {"LISTENING_ADDRESS_REUSE", "THREAD_POOL_SIZE", "CONNECTION_LIMIT", "CONNECTION_TIMEOUT"} :
          FieldOf[o] = UnsignedFields[o]
    BY <1>4, <1>5
  <2>4. QED  BY <1>2, <2>1, <2>2, <2>3
<1>7. QED
  <2>1. "CONNECTION_TIMEOUT" \in DOMAIN UnsignedFields  BY <1>4
  <2>2. QED  BY <1>3, <1>4, <1>5, <1>6, <2>1

(* What is before the end of an array, and of the list of start().         *)
LEMMA ItemsOfArray ==
  ASSUME NEW option \in DOMAIN UnsignedFields, NEW n
  PROVE  /\ n = 0 => DOMAIN Items(Array(option, n)) = {}
         /\ n # 0 => /\ DOMAIN Items(Array(option, n)) = {1}
                     /\ Items(Array(option, n))[1] = Item(option, AsInt(n))
<1>0. option # "END"  BY DEF UnsignedFields
<1>1. CASE n = 0
  <2>1. Array(option, n) = <<End, End>>  BY <1>1 DEF Array
  <2>2. EndOf(<<End, End>>) = 1  BY DEF EndOf
  <2>3. QED  BY <1>1, <2>1, <2>2 DEF Items
<1>2. CASE n # 0
  <2>1. Array(option, n) = <<Item(option, AsInt(n)), End>>  BY <1>2 DEF Array
  <2> DEFINE one == Item(option, AsInt(n))
  <2>2. one # End  BY <1>0 DEF Item, End
  <2>. HIDE DEF one
  <2>3. EndOf(<<one, End>>) = 2  BY <2>2 DEF EndOf
  <2>4. QED  BY <1>2, <2>1, <2>3 DEF Items, one
<1>3. QED  BY <1>1, <1>2

(* A daemon that has all its fields.                                       *)
DaemonFields == {"options", "pool_size", "pool_increment", "thread_stack_size", "connection_limit",
  "connection_timeout", "per_ip_connection_limit", "worker_pool_size", "fastopen_queue_size",
  "listening_address_reuse", "socket_fd", "servaddr", "notify_completed", "uri_log_callback",
  "custom_error_log", "unescape_callback"}

HasFields(d) == d = [f \in DaemonFields |-> d[f]]

LEMMA FieldsOfDaemon ==
  ASSUME NEW d, HasFields(d) PROVE d # NoDaemon /\ DOMAIN d = DaemonFields
<1>1. DOMAIN d = DaemonFields  BY DEF HasFields
<1>2. DOMAIN NoDaemon = {"options"}  BY DEF NoDaemon
<1>3. "pool_size" \in DaemonFields  BY DEF DaemonFields
<1>4. QED  BY <1>1, <1>2, <1>3

(* An option sets its field and keeps the others.                          *)
LEMMA OptionSets ==
  ASSUME NEW d, NEW item, HasFields(d), item.option \in DOMAIN FieldOf,
         FieldOf[item.option] \in DaemonFields, item.option # "THREAD_POOL_SIZE",
         item.option # "LISTENING_ADDRESS_REUSE"
  PROVE  LET e == SetOption(d, item)
         IN  /\ HasFields(e) /\ e[FieldOf[item.option]] = item.value
             /\ \A f \in DaemonFields : f # FieldOf[item.option] => e[f] = d[f]
<1>1. d # NoDaemon  BY FieldsOfDaemon
<1>2. SetOption(d, item) = [d EXCEPT ![FieldOf[item.option]] = item.value]  BY <1>1 DEF SetOption
<1>3. QED  BY <1>2 DEF HasFields

(* The number of workers is set, or there are too many of them.            *)
LEMMA WorkersSet ==
  ASSUME NEW d, NEW item, HasFields(d), item.option = "THREAD_POOL_SIZE"
  PROVE  LET e == SetOption(d, item)
         IN  \/ e = NoDaemon
             \/ /\ HasFields(e) /\ e["worker_pool_size"] = item.value
                /\ \A f \in DaemonFields : f # "worker_pool_size" => e[f] = d[f]
<1>1. d # NoDaemon  BY FieldsOfDaemon
<1>2. \/ SetOption(d, item) = NoDaemon
      \/ SetOption(d, item) = [d EXCEPT !["worker_pool_size"] = item.value]
  BY <1>1, FieldsAre DEF SetOption
<1>3. "worker_pool_size" \in DaemonFields  BY DEF DaemonFields
<1>4. QED  BY <1>2, <1>3 DEF HasFields

LEMMA ReuseSet ==
  ASSUME NEW d, HasFields(d)
  PROVE  LET e == SetOption(d, Item("LISTENING_ADDRESS_REUSE", 1))
         IN  /\ HasFields(e) /\ e["listening_address_reuse"] = 1
             /\ \A f \in DaemonFields : f # "listening_address_reuse" => e[f] = d[f]
<1>1. d # NoDaemon  BY FieldsOfDaemon
<1>2. SetOption(d, Item("LISTENING_ADDRESS_REUSE", 1)) = [d EXCEPT !["listening_address_reuse"] = 1]
  <2>. DEFINE item == Item("LISTENING_ADDRESS_REUSE", 1)
  <2>1. item.option = "LISTENING_ADDRESS_REUSE" /\ item.value = 1  BY DEF Item
  <2>. HIDE DEF item
  <2>2. SetOption(d, item) = [d EXCEPT !["listening_address_reuse"] = 1]
    BY <1>1, <2>1, FieldsAre DEF SetOption
  <2>3. QED  BY <2>2 DEF item
<1>3. "listening_address_reuse" \in DaemonFields  BY DEF DaemonFields
<1>4. QED  BY <1>2, <1>3 DEF HasFields

(* An unsigned number survives the int it is stored in.                    *)
LEMMA ThroughInt ==
  ASSUME NEW n \in Unsigned  PROVE AsUnsigned(AsInt(n)) = n
<1>1. Half \in Nat \ {0}  BY OptionsAssumption
<1> DEFINE w == 2 * Half
<1>2. w \in Nat \ {0} /\ n \in 0 .. w - 1  BY <1>1 DEF Unsigned
<1>3. CASE n < Half
  <2>1. n % w = n  BY <1>2
  <2>2. QED  BY <1>3, <2>1 DEF AsUnsigned, AsInt
<1>4. CASE ~(n < Half)
  <2>1. (n - w) % w = n
    <3>. HIDE DEF w
    <3>1. n - w \in Int /\ n - w = w * (-1) + n  BY <1>2
    <3>2. QED  BY <1>2, <3>1
  <2>2. QED  BY <1>4, <2>1 DEF AsUnsigned, AsInt
<1>5. QED  BY <1>3, <1>4

(* An array sets nothing, or the one option it holds, to the number.       *)
LEMMA ArraySets ==
  ASSUME NEW option \in DOMAIN UnsignedFields, NEW n \in Unsigned, NEW d
  PROVE  SetArrayOrOption(d, Item("ARRAY", Array(option, n))) =
           IF n = 0 THEN d ELSE SetOption(d, Item(option, n))
<1> DEFINE item == Item("ARRAY", Array(option, n))
           one == Item(option, AsInt(n))
<1>1. item.option = "ARRAY" /\ item.value = Array(option, n)  BY DEF Item
<1>2. SetArrayOrOption(d, item) = FoldLeft(SetItem, d, Items(Array(option, n)))
  <2>. HIDE DEF item
  <2>1. QED  BY <1>1 DEF SetArrayOrOption
<1>3. SetItem(d, one) = SetOption(d, Item(option, n))
  <2>1. [one EXCEPT !.value = ItemValue(one)] = Item(option, n)
    BY ThroughInt DEF Item, ItemValue
  <2>2. QED  BY <2>1 DEF SetItem
<1>. HIDE DEF item, one
<1> DEFINE l == Items(Array(option, n))
<1>4. /\ n = 0 => DOMAIN l = {}
      /\ n # 0 => DOMAIN l = {1} /\ l[1] = one
  BY ItemsOfArray DEF one
<1>5. /\ DOMAIN l = {} => FoldLeft(SetItem, d, l) = d
      /\ DOMAIN l = {1} => FoldLeft(SetItem, d, l) = SetItem(d, l[1])
  BY FoldOne
<1>6. CASE n = 0
  <2>1. SetArrayOrOption(d, item) = d  BY <1>2, <1>6, <1>4, <1>5
  <2>2. QED  BY <1>6, <2>1 DEF item
<1>7. CASE n # 0
  <2>1. SetArrayOrOption(d, item) = SetOption(d, Item(option, n))  BY <1>2, <1>3, <1>7, <1>4, <1>5
  <2>2. QED  BY <1>7, <2>1 DEF item
<1>8. QED  BY <1>6, <1>7

LEMMA ItemsOfOptions ==
  ASSUME NEW set
  PROVE  LET l == Items(Options(set))
         IN  /\ DOMAIN l = 1 .. 6
             /\ l[1] = Item("LISTENING_ADDRESS_REUSE", 1)
             /\ l[2] = Item("ARRAY", Array("THREAD_POOL_SIZE", set.threads))
             /\ l[3] = Item("ARRAY", Array("CONNECTION_LIMIT", set.max_connections))
             /\ l[4] = Item("CONNECTION_MEMORY_LIMIT", "64 KB")
             /\ l[5] = Item("CONNECTION_TIMEOUT", set.timeout)
             /\ l[6] = Item("NOTIFY_COMPLETED", "request_completed")
<1> DEFINE o == Options(set)
           P(k) == k \in DOMAIN o /\ o[k] = End /\ \A j \in 1 .. k - 1 : o[j] # End
<1>1. DOMAIN o = 1 .. 7 /\ Len(o) = 7 /\ o[7] = End
  BY DEF Options
<1>2. o \in Seq({o[1], o[2], o[3], o[4], o[5], o[6], o[7]})
  BY DEF Options
<1>3. \A option, value : option # "END" => Item(option, value) # End
  BY DEF Item, End
<1>4. \A k \in 1 .. 6 : o[k] # End
  <2>1. o[1] # End /\ o[2] # End /\ o[3] # End /\ o[4] # End /\ o[5] # End /\ o[6] # End
    BY <1>3 DEF Options
  <2>2. QED  BY <2>1
<1>. HIDE DEF o
<1>5. \A k : P(k) <=> k = 7  BY <1>1, <1>4
<1>6. EndOf(o) = 7
  <2>1. PICK k : P(k) /\ k = EndOf(o)  BY <1>5 DEF EndOf
  <2>2. QED  BY <1>5, <2>1
<1>7. Items(o) = SubSeq(o, 1, 6)  BY <1>6 DEF Items
<1> DEFINE S == {o[1], o[2], o[3], o[4], o[5], o[6], o[7]}
<1>8. DOMAIN Items(o) = 1 .. 6 /\ \A k \in 1 .. 6 : Items(o)[k] = o[k]
  <2>1. o \in Seq(S)  BY <1>2
  <2>. HIDE DEF S
  <2>2. QED  BY <1>1, <1>7, <2>1
<1>9. /\ Items(o)[1] = o[1] /\ Items(o)[2] = o[2] /\ Items(o)[3] = o[3]
      /\ Items(o)[4] = o[4] /\ Items(o)[5] = o[5] /\ Items(o)[6] = o[6]
  BY <1>8
<1>10. /\ o[1] = Item("LISTENING_ADDRESS_REUSE", 1)
       /\ o[2] = Item("ARRAY", Array("THREAD_POOL_SIZE", set.threads))
       /\ o[3] = Item("ARRAY", Array("CONNECTION_LIMIT", set.max_connections))
       /\ o[4] = Item("CONNECTION_MEMORY_LIMIT", "64 KB")
       /\ o[5] = Item("CONNECTION_TIMEOUT", set.timeout)
       /\ o[6] = Item("NOTIFY_COMPLETED", "request_completed")
  BY DEF o, Options
<1>11. QED
  <2>. HIDE DEF P
  <2>1. o = Options(set)  BY DEF o
  <2>2. QED  BY <1>8, <1>9, <1>10, <2>1

(* If the options are taken at all, they leave the settings of the server  *)
(* in the daemon.                                                          *)
LEMMA AllOptions ==
  ASSUME NEW set, set.threads \in Unsigned, set.max_connections \in Unsigned, NEW b,
         Configured(set, b) # NoDaemon
  PROVE  LET d == Configured(set, b)
         IN  /\ d["worker_pool_size"] = set.threads
             /\ d["connection_limit"] =
                  IF set.max_connections = 0 THEN DefaultLimit ELSE set.max_connections
             /\ d["connection_timeout"] = set.timeout
             /\ d["notify_completed"] = "request_completed"
             /\ d["listening_address_reuse"] = 1
<1> DEFINE d0 == NewDaemon(Flags(set, b))
           d1 == SetOption(d0, Item("LISTENING_ADDRESS_REUSE", 1))
           d2 == IF set.threads = 0 THEN d1 ELSE SetOption(d1, Item("THREAD_POOL_SIZE", set.threads))
           d3 == IF set.max_connections = 0 THEN d2
                 ELSE SetOption(d2, Item("CONNECTION_LIMIT", set.max_connections))
           d4 == SetOption(d3, Item("CONNECTION_MEMORY_LIMIT", "64 KB"))
           d5 == SetOption(d4, Item("CONNECTION_TIMEOUT", set.timeout))
           d6 == SetOption(d5, Item("NOTIFY_COMPLETED", "request_completed"))
<1>1. HasFields(d0) /\ d0["worker_pool_size"] = 0 /\ d0["connection_limit"] = DefaultLimit
  BY DEF NewDaemon, HasFields, DaemonFields
<1>. HIDE DEF d0
<1>2. /\ HasFields(d1) /\ d1["listening_address_reuse"] = 1
      /\ \A f \in DaemonFields : f # "listening_address_reuse" => d1[f] = d0[f]
  BY <1>1, ReuseSet
<1>3. Configured(set, b) = d6
  <2> DEFINE l == Items(Options(set))
             S(e, k) == SetArrayOrOption(e, l[k])
  <2>1. /\ DOMAIN l = 1 .. 6
        /\ l[1] = Item("LISTENING_ADDRESS_REUSE", 1)
        /\ l[2] = Item("ARRAY", Array("THREAD_POOL_SIZE", set.threads))
        /\ l[3] = Item("ARRAY", Array("CONNECTION_LIMIT", set.max_connections))
        /\ l[4] = Item("CONNECTION_MEMORY_LIMIT", "64 KB")
        /\ l[5] = Item("CONNECTION_TIMEOUT", set.timeout)
        /\ l[6] = Item("NOTIFY_COMPLETED", "request_completed")
    BY ItemsOfOptions
  <2>. HIDE DEF l
  <2>2. FoldLeft(SetArrayOrOption, d0, l) = S(S(S(S(S(S(d0, 1), 2), 3), 4), 5), 6)
    BY <2>1, FoldSix
  <2>3. ASSUME NEW e, NEW k \in {1, 4, 5, 6}
        PROVE  S(e, k) = SetOption(e, l[k])
    <3>3. /\ l[1].option = "LISTENING_ADDRESS_REUSE" /\ l[4].option = "CONNECTION_MEMORY_LIMIT"
          /\ l[5].option = "CONNECTION_TIMEOUT" /\ l[6].option = "NOTIFY_COMPLETED"
      <4>1. ASSUME NEW x, NEW option, NEW value, x = Item(option, value)
            PROVE  x.option = option
        BY <4>1 DEF Item
      <4>2. l[1].option = "LISTENING_ADDRESS_REUSE"  BY <2>1, <4>1, Zenon
      <4>3. l[4].option = "CONNECTION_MEMORY_LIMIT"  BY <2>1, <4>1, Zenon
      <4>4. l[5].option = "CONNECTION_TIMEOUT"  BY <2>1, <4>1, Zenon
      <4>5. l[6].option = "NOTIFY_COMPLETED"  BY <2>1, <4>1, Zenon
      <4>6. QED  BY <4>2, <4>3, <4>4, <4>5
    <3>4. l[k].option # "ARRAY"  BY <3>3
    <3>2. QED  BY <3>4 DEF SetArrayOrOption
  <2>4. S(d0, 1) = d1  BY <2>1, <2>3
  <2>5. S(d1, 2) = d2  BY <2>1, FieldsAre, ArraySets DEF Unsigned
  <2>6. S(d2, 3) = d3  BY <2>1, FieldsAre, ArraySets DEF Unsigned
  <2>7. S(d3, 4) = d4  BY <2>1, <2>3
  <2>8. S(d4, 5) = d5  BY <2>1, <2>3
  <2>9. S(d5, 6) = d6  BY <2>1, <2>3
  <2>10. Configured(set, b) = FoldLeft(SetArrayOrOption, d0, l)
    BY DEF Configured, ParseOptions, d0, l
  <2>. HIDE DEF d1, d2, d3, d4, d5, d6, S
  <2>11. QED  BY <2>2, <2>4, <2>5, <2>6, <2>7, <2>8, <2>9, <2>10
<1>. HIDE DEF d1
<1>4. \/ d2 = NoDaemon
      \/ /\ HasFields(d2) /\ d2["worker_pool_size"] = set.threads
         /\ \A f \in DaemonFields : f # "worker_pool_size" => d2[f] = d1[f]
  <2>1. CASE set.threads = 0
    <3>1. "worker_pool_size" \in DaemonFields  BY DEF DaemonFields
    <3>2. QED  BY <1>1, <1>2, <2>1, <3>1
  <2>2. CASE set.threads # 0
    <3> DEFINE item == Item("THREAD_POOL_SIZE", set.threads)
    <3>1. item.option = "THREAD_POOL_SIZE" /\ item.value = set.threads  BY DEF Item
    <3>2. d2 = SetOption(d1, item)  BY <2>2
    <3>. HIDE DEF item, d2
    <3>3. QED  BY <1>2, <3>1, <3>2, WorkersSet
  <2>3. QED  BY <2>1, <2>2
<1>. HIDE DEF d2
<1>5. \A item : SetOption(NoDaemon, item) = NoDaemon  BY DEF SetOption
<1>6. d2 # NoDaemon
  <2>1. CASE d2 = NoDaemon
    <3>1. d3 = NoDaemon  BY <2>1, <1>5
    <3>2. d4 = NoDaemon  BY <3>1, <1>5
    <3>3. d5 = NoDaemon  BY <3>2, <1>5
    <3>4. d6 = NoDaemon  BY <3>3, <1>5
    <3>5. QED  BY <3>4, <1>3
  <2>2. QED  BY <2>1
<1>7. ASSUME NEW e, HasFields(e), NEW option, NEW value,
             option \in {"CONNECTION_LIMIT", "CONNECTION_MEMORY_LIMIT", "CONNECTION_TIMEOUT", "NOTIFY_COMPLETED"}
      PROVE  LET g == SetOption(e, Item(option, value))
             IN  /\ HasFields(g) /\ g[FieldOf[option]] = value
                 /\ \A f \in DaemonFields : f # FieldOf[option] => g[f] = e[f]
  <2> DEFINE item == Item(option, value)
  <2>1. item.option = option /\ item.value = value  BY DEF Item
  <2>2. /\ option \in DOMAIN FieldOf /\ FieldOf[option] \in DaemonFields
        /\ option # "THREAD_POOL_SIZE" /\ option # "LISTENING_ADDRESS_REUSE"
    BY <1>7, FieldsAre DEF DaemonFields
  <2>. HIDE DEF item
  <2>3. LET g == SetOption(e, item)
        IN  /\ HasFields(g) /\ g[FieldOf[option]] = value
            /\ \A f \in DaemonFields : f # FieldOf[option] => g[f] = e[f]
    BY <1>7, <2>1, <2>2, OptionSets
  <2>4. QED  BY <2>3 DEF item
<1>8. /\ HasFields(d3)
      /\ d3["connection_limit"] = IF set.max_connections = 0 THEN DefaultLimit ELSE set.max_connections
      /\ \A f \in DaemonFields : f # "connection_limit" => d3[f] = d2[f]
  <2>1. CASE set.max_connections = 0
    <3>1. "connection_limit" \in DaemonFields  BY DEF DaemonFields
    <3>2. QED  BY <1>1, <1>2, <1>4, <1>6, <2>1, <3>1
  <2>2. CASE set.max_connections # 0  BY <1>4, <1>6, <1>7, <2>2, FieldsAre
  <2>3. QED  BY <2>1, <2>2
<1>. HIDE DEF d3
<1>9. HasFields(d4) /\ \A f \in DaemonFields : f # "pool_size" => d4[f] = d3[f]
  <2>1. HasFields(d4) /\ \A f \in DaemonFields : f # FieldOf["CONNECTION_MEMORY_LIMIT"] => d4[f] = d3[f]
    <3> DEFINE size == "64 KB"
    <3>1. d4 = SetOption(d3, Item("CONNECTION_MEMORY_LIMIT", size))  OBVIOUS
    <3>. HIDE DEF size, d4
    <3>2. QED  BY <1>7, <1>8, <3>1
  <2>2. QED  BY <2>1, FieldsAre
<1>. HIDE DEF d4
<1>10. /\ HasFields(d5) /\ d5["connection_timeout"] = set.timeout
       /\ \A f \in DaemonFields : f # "connection_timeout" => d5[f] = d4[f]
  BY <1>7, <1>9, FieldsAre
<1>. HIDE DEF d5
<1>11. /\ HasFields(d6) /\ d6["notify_completed"] = "request_completed"
       /\ \A f \in DaemonFields : f # "notify_completed" => d6[f] = d5[f]
  BY <1>7, <1>10, FieldsAre
<1>. HIDE DEF d6
<1>12. {"worker_pool_size", "connection_limit", "connection_timeout", "listening_address_reuse"} \subseteq DaemonFields
  BY DEF DaemonFields
<1>13. QED  BY <1>2, <1>3, <1>4, <1>6, <1>8, <1>9, <1>10, <1>11, <1>12

(* Only Attempt gives a server a daemon.                                   *)
LEMMA DaemonFromAttempt ==
  ASSUME Shape, NEW s \in Servers, server[s].daemon = NoDaemon, server'[s].daemon # NoDaemon,
         [Next]_vars
  PROVE  \E b \in BOOLEAN : server'[s].daemon = Configured(server[s].set, b)
<1> USE DEF Shape, ServerShape, Members
<1>1. CASE Attempt
  <2> DEFINE d == Configured(server[owner.on].set, owner.use_poll)
  <2>1. owner.on \in Servers /\ owner.use_poll \in BOOLEAN  BY DEF OwnerShape, Owners
  <2>2. server' = [server EXCEPT ![owner.on].daemon = d, ![owner.on].listens = TRUE] \/ UNCHANGED server
    BY <1>1 DEF Attempt
  <2>. HIDE DEF d
  <2>3. s = owner.on /\ server'[s].daemon = d  BY <2>1, <2>2
  <2>4. QED  BY <2>1, <2>3 DEF d
<1>2. ASSUME NEW r \in Servers, Set(r) \/ SetLogFile(r) \/ Start(r) \/ Stop(r)
      PROVE  server'[s].daemon = server[s].daemon
  BY <1>2 DEF Set, SetLogFile, Start, Stop
<1>3. CASE Create \/ Assign \/ Release \/ Quiesce \/ Count \/ Sleep \/ LogStopped
  <2>1. server'[s].daemon = server[s].daemon
    BY <1>3 DEF Create, Assign, Release, Quiesce, Count, Sleep, LogStopped
  <2>2. QED  BY <2>1
<1>4. CASE Stopped
  <2>1. server'[s].daemon \in {server[s].daemon, NoDaemon}
    BY <1>4 DEF Stopped, OwnerShape, Owners
  <2>2. QED  BY <2>1
<1>5. ASSUME NEW h \in Handlers, HandlerStep(h)  PROVE UNCHANGED server
  BY <1>5, HandlerFrame
<1>6. ASSUME NEW t \in Threads, LogStep(t)  PROVE server'[s].daemon = server[s].daemon
  BY <1>6 DEF LogStep, LogTest, LogLock, LogText, LogEnd
<1>7. CASE UNCHANGED vars  BY <1>7 DEF vars
<1>8. QED  BY <1>1, <1>2, <1>3, <1>4, <1>5, <1>6, <1>7 DEF Next, OwnerStep, Done

(* Whatever the owner sets, a daemon that start() leaves behind has the    *)
(* settings of the server, its limit of connections among them where one   *)
(* is set: they come through the int of the options unchanged.             *)
THEOREM SettingsArrive == Spec => ConfiguredAsSet
<1> DEFINE A(s) ==
      LET daemon == server'[s].daemon
          set == server[s].set
      IN  /\ daemon.worker_pool_size = set.threads
          /\ set.max_connections # 0 => daemon.connection_limit = set.max_connections
          /\ daemon.connection_timeout = set.timeout
          /\ daemon.notify_completed = "request_completed"
          /\ daemon.listening_address_reuse = 1
<1>1. ASSUME Shape, [Next]_vars, NEW s \in Servers,
             server[s].daemon = NoDaemon, server'[s].daemon # NoDaemon
      PROVE  A(s)
  <2>1. PICK b \in BOOLEAN : server'[s].daemon = Configured(server[s].set, b)
    BY <1>1, DaemonFromAttempt
  <2>2. server[s].set \in AllSettings  BY <1>1 DEF Shape, ServerShape, Members
  <2>3. server[s].set.threads \in Unsigned /\ server[s].set.max_connections \in Unsigned
    BY <2>2, SettingsAssumption DEF AllSettings
  <2>4. QED  BY <1>1, <2>1, <2>3, AllOptions
<1>2. Shape /\ [Next]_vars =>
        [\A s \in Servers : server[s].daemon = NoDaemon /\ server'[s].daemon # NoDaemon => A(s)]_vars
  BY <1>1
<1>3. QED  BY <1>2, ShapeHolds, PTL DEF Spec, ConfiguredAsSet
=============================================================================
