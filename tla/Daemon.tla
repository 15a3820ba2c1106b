------------------------------- MODULE Daemon -------------------------------
(***************************************************************************)
(* The threads of a server started with set_threads(0): the listen thread  *)
(* of libmicrohttpd (MHD_select_thread), one thread for every connection   *)
(* (MHD_handle_connection) and the thread that calls rest_server::stop().  *)
(* What a connection does between its first poll() and its end is the      *)
(* module Connection; here it is one step, Finish.                         *)
(*                                                                         *)
(* The lists of connections are sets: place says which one a connection is *)
(* on, and no property depends on its order.  A critical section of        *)
(* cleanup_connection_mutex that waits for nothing is one step.            *)
(***************************************************************************)
EXTENDS Naturals, FiniteSets

CONSTANTS
  Conns,    \* the connections clients ever try to make
  Idle,     \* those whose client keeps the connection open for ever
  Limit,    \* connection_limit
  W,        \* unsigned int counts modulo W
  NoConn

ASSUME DaemonAssumption ==
  /\ IsFiniteSet(Conns) /\ Idle \subseteq Conns /\ NoConn \notin Conns
  /\ Limit \in Nat \ {0} /\ W \in Nat /\ W > Limit + 1

VARIABLES
  place,        \* where each connection is
  thread,       \* where its thread is, from create_thread to its return
  aborted,      \* connections cut off by the shutdown of the daemon
  woken,        \* connections whose socket close_all_connections has shut down
  connections,  \* the daemon's counter of connections
  mutex,        \* who holds cleanup_connection_mutex while it joins threads
  socket_fd,    \* the daemon still knows its listen socket
  open,         \* the listen socket is not closed yet
  wpipe,        \* the pipe that wakes the listen thread holds a byte
  shutdown,
  pc,           \* where the listen thread and the thread of stop() are
  at_connection_limit, ready,   \* locals of MHD_poll_listen_socket
  pos,          \* the connection in the hands of internal_add_connection,
                \* MHD_cleanup_connections or close_all_connections
  tmp           \* the register in which connections is changed

client == <<place, aborted, woken>>
flags == <<socket_fd, open, wpipe, shutdown>>
locals == <<at_connection_limit, ready>>
vars == <<place, thread, aborted, woken, connections, mutex, socket_fd, open, wpipe,
          shutdown, pc, at_connection_limit, ready, pos, tmp>>

Threads == {"listen", "stop"}

Places == {"outside", "backlog", "lost", "accepted", "refused", "listed", "cleanup",
           "reaped", "freed"}

Init ==
  /\ place = [c \in Conns |-> "outside"]
  /\ thread = [c \in Conns |-> "none"]
  /\ aborted = {} /\ woken = {}
  /\ connections = 0
  /\ mutex = "free"
  /\ socket_fd = TRUE /\ open = TRUE /\ wpipe = FALSE /\ shutdown = FALSE
  /\ pc = [t \in Threads |-> IF t = "listen" THEN "limit" ELSE "running"]
  /\ at_connection_limit = FALSE /\ ready = FALSE
  /\ pos = [t \in Threads |-> NoConn]
  /\ tmp = [t \in Threads |-> 0]

On(where) == {c \in Conns : place[c] = where}

Go(t, label) == pc' = [pc EXCEPT ![t] = label]

(* A client connects: the kernel completes the connection and queues it.   *)
Connect(c) ==
  /\ place[c] = "outside" /\ open
  /\ place' = [place EXCEPT ![c] = "backlog"]
  /\ UNCHANGED <<thread, aborted, woken, connections, mutex, flags, pc, locals, pos, tmp>>

-----------------------------------------------------------------------------
(* The listen thread: MHD_select_thread around MHD_poll_listen_socket.     *)

MutAtLimit == connections > Limit   \* bug: one connection too many

AtLimit == connections = Limit

(* At the limit the listen socket is left out of the set to poll.          *)
PollsListenSocket == ~AtLimit /\ socket_fd

(* The two reads are one step: the counter only falls in between.          *)
ReadLimit ==
  /\ pc["listen"] = "limit"
  /\ at_connection_limit' = AtLimit
  /\ ready' = PollsListenSocket
  /\ Go("listen", "poll")
  /\ UNCHANGED <<client, thread, connections, mutex, flags, pos, tmp>>

MutPollReturns == wpipe \/ (ready /\ On("backlog") # {})   \* bug: blocks at the limit

(* poll() waits for ever, but 5 ms at the limit.                           *)
PollReturns == wpipe \/ (ready /\ On("backlog") # {}) \/ at_connection_limit

Poll ==
  /\ pc["listen"] = "poll" /\ PollReturns
  /\ ready' = (ready /\ On("backlog") # {})
  /\ Go("listen", "polled")
  /\ UNCHANGED <<client, thread, connections, mutex, flags, at_connection_limit, pos, tmp>>

Polled ==
  /\ pc["listen"] = "polled"
  /\ Go("listen", IF ~shutdown /\ ready THEN "accept" ELSE "cleanup")
  /\ UNCHANGED <<client, thread, connections, mutex, flags, locals, pos, tmp>>

(* MHD_accept_connection reads socket_fd before it calls accept4.          *)
ReadSocket ==
  /\ pc["listen"] = "accept"
  /\ Go("listen", IF socket_fd THEN "accept4" ELSE "cleanup")
  /\ UNCHANGED <<client, thread, connections, mutex, flags, locals, pos, tmp>>

Accept ==
  /\ pc["listen"] = "accept4" /\ open
  /\ \E c \in On("backlog") :
       /\ place' = [place EXCEPT ![c] = "accepted"]
       /\ pos' = [pos EXCEPT !["listen"] = c]
  /\ Go("listen", "add")
  /\ UNCHANGED <<thread, aborted, woken, connections, mutex, flags, locals, tmp>>

(* stop() has closed the socket since.                                     *)
AcceptFails ==
  /\ pc["listen"] = "accept4" /\ ~open
  /\ Go("listen", "cleanup")
  /\ UNCHANGED <<client, thread, connections, mutex, flags, locals, pos, tmp>>

-----------------------------------------------------------------------------
(* internal_add_connection                                                 *)

(* The limit is checked once more; above it the socket is closed.          *)
Add ==
  /\ pc["listen"] = "add"
  /\ place' = IF AtLimit THEN [place EXCEPT ![pos["listen"]] = "refused"] ELSE place
  /\ pos' = IF AtLimit THEN [pos EXCEPT !["listen"] = NoConn] ELSE pos
  /\ Go("listen", IF AtLimit THEN "cleanup" ELSE "insert")
  /\ UNCHANGED <<thread, aborted, woken, connections, mutex, flags, locals, tmp>>

Insert ==
  /\ pc["listen"] = "insert" /\ mutex = "free"
  /\ place' = [place EXCEPT ![pos["listen"]] = "listed"]
  /\ Go("listen", "create")
  /\ UNCHANGED <<thread, aborted, woken, connections, mutex, flags, locals, pos, tmp>>

CreateThread ==
  /\ pc["listen"] = "create"
  /\ thread' = [thread EXCEPT ![pos["listen"]] = "loop"]
  /\ pos' = [pos EXCEPT !["listen"] = NoConn]
  /\ Go("listen", "count")
  /\ UNCHANGED <<client, connections, mutex, flags, locals, tmp>>

(* pthread_create fails: goto cleanup.                                     *)
CreateFails ==
  /\ pc["listen"] = "create"
  /\ Go("listen", "undo")
  /\ UNCHANGED <<client, thread, connections, mutex, flags, locals, pos, tmp>>

MutUndone == "count"    \* bug: a connection without a thread is counted

(* Where the cleanup path of internal_add_connection continues.            *)
Undone == "cleanup"

Undo ==
  /\ pc["listen"] = "undo" /\ mutex = "free"
  /\ place' = [place EXCEPT ![pos["listen"]] = "freed"]
  /\ pos' = [pos EXCEPT !["listen"] = NoConn]
  /\ Go("listen", Undone)
  /\ UNCHANGED <<thread, aborted, woken, connections, mutex, flags, locals, tmp>>

(* daemon->connections++, outside of every mutex: a read, then a write.    *)
Count ==
  /\ pc["listen"] = "count"
  /\ tmp' = [tmp EXCEPT !["listen"] = connections]
  /\ Go("listen", "counted")
  /\ UNCHANGED <<client, thread, connections, mutex, flags, locals, pos>>

Counted ==
  /\ pc["listen"] = "counted"
  /\ connections' = (tmp["listen"] + 1) % W
  /\ Go("listen", "cleanup")
  /\ UNCHANGED <<client, thread, mutex, flags, locals, pos, tmp>>

-----------------------------------------------------------------------------
(* MHD_cleanup_connections, called by the listen thread after every poll   *)
(* and by the thread of stop(): it waits, with the mutex held, for the     *)
(* thread of each connection on the cleanup list.                          *)

Lock(t) ==
  /\ pc[t] = "cleanup" /\ mutex = "free"
  /\ mutex' = t
  /\ Go(t, "reap")
  /\ UNCHANGED <<client, thread, connections, flags, locals, pos, tmp>>

Reap(t) ==
  /\ pc[t] = "reap"
  /\ \E c \in On("cleanup") :
       /\ place' = [place EXCEPT ![c] = "reaped"]
       /\ pos' = [pos EXCEPT ![t] = c]
  /\ Go(t, "join")
  /\ UNCHANGED <<thread, aborted, woken, connections, mutex, flags, locals, tmp>>

MutJoined(c) == thread[c] # "loop"   \* bug: looks at the state, does not join

(* MHD_join_thread_ returns.                                               *)
Joined(c) == thread[c] = "ended"

Free(t) ==
  /\ pc[t] = "join" /\ Joined(pos[t])
  /\ place' = [place EXCEPT ![pos[t]] = "freed"]
  /\ pos' = [pos EXCEPT ![t] = NoConn]
  /\ Go(t, "uncount")
  /\ UNCHANGED <<thread, aborted, woken, connections, mutex, flags, locals, tmp>>

(* daemon->connections--                                                   *)
Uncount(t) ==
  /\ pc[t] = "uncount"
  /\ tmp' = [tmp EXCEPT ![t] = connections]
  /\ Go(t, "uncounted")
  /\ UNCHANGED <<client, thread, connections, mutex, flags, locals, pos>>

Uncounted(t) ==
  /\ pc[t] = "uncounted"
  /\ connections' = (tmp[t] + W - 1) % W
  /\ Go(t, "reap")
  /\ UNCHANGED <<client, thread, mutex, flags, locals, pos, tmp>>

(* Where MHD_cleanup_connections returns to.                               *)
Caller(t) ==
  CASE t = "listen"             -> "while"
    [] t = "stop" /\ ~shutdown  -> "info"
    [] t = "stop" /\ shutdown   -> "done"

Unlock(t) ==
  /\ pc[t] = "reap" /\ On("cleanup") = {}
  /\ mutex' = "free"
  /\ Go(t, Caller(t))
  /\ UNCHANGED <<client, thread, connections, flags, locals, pos, tmp>>

Cleanup(t) == Reap(t) \/ Free(t) \/ Uncount(t) \/ Uncounted(t) \/ Unlock(t)

(* The condition of the loop of MHD_select_thread.                         *)
While ==
  /\ pc["listen"] = "while"
  /\ Go("listen", IF shutdown THEN "ended" ELSE "limit")
  /\ UNCHANGED <<client, thread, connections, mutex, flags, locals, pos, tmp>>

-----------------------------------------------------------------------------
(* The thread of a connection                                              *)

MutClosed == "ended"    \* bug: the loop is left without the idle handler

(* What the loop leaves behind: the idle handler is still to be called.    *)
Closed == "closed"

(* The connection closes: its client went away, the last response was sent *)
(* or it timed out.                                                        *)
Finish(c) ==
  /\ thread[c] = "loop"
  /\ thread' = [thread EXCEPT ![c] = Closed]
  /\ aborted' = aborted \cup ({c} \cap woken)
  /\ UNCHANGED <<place, woken, connections, mutex, flags, pc, locals, pos, tmp>>

(* The loop of MHD_handle_connection finds the shutdown of the daemon.     *)
SeeShutdown(c) ==
  /\ thread[c] = "loop" /\ shutdown
  /\ thread' = [thread EXCEPT ![c] = Closed]
  /\ aborted' = aborted \cup {c}
  /\ UNCHANGED <<place, woken, connections, mutex, flags, pc, locals, pos, tmp>>

(* cleanup_connection                                                      *)
Retire(c) ==
  /\ thread[c] = "closed" /\ mutex = "free"
  /\ place' = [place EXCEPT ![c] = "cleanup"]
  /\ thread' = [thread EXCEPT ![c] = "exit"]
  /\ UNCHANGED <<aborted, woken, connections, mutex, flags, pc, locals, pos, tmp>>

(* The thread looks at its connection once more (con->response) and ends.  *)
Leave(c) ==
  /\ thread[c] = "exit"
  /\ thread' = [thread EXCEPT ![c] = "ended"]
  /\ UNCHANGED <<client, connections, mutex, flags, pc, locals, pos, tmp>>

-----------------------------------------------------------------------------
(* rest_server::stop()                                                     *)

Quiesce ==
  /\ pc["stop"] = "running"
  /\ socket_fd' = FALSE
  /\ Go("stop", "quiesce")
  /\ UNCHANGED <<client, thread, connections, mutex, open, wpipe, shutdown, locals, pos, tmp>>

WakeListen ==
  /\ pc["stop"] = "quiesce"
  /\ wpipe' = TRUE
  /\ Go("stop", "close")
  /\ UNCHANGED <<client, thread, connections, mutex, socket_fd, open, shutdown, locals, pos, tmp>>

(* The kernel resets the connections nobody has accepted.                  *)
CloseListenSocket ==
  /\ pc["stop"] = "close"
  /\ open' = FALSE
  /\ place' = [c \in Conns |-> IF place[c] = "backlog" THEN "lost" ELSE place[c]]
  /\ Go("stop", "cleanup")
  /\ UNCHANGED <<thread, aborted, woken, connections, mutex, socket_fd, wpipe, shutdown,
                 locals, pos, tmp>>

(* MHD_get_daemon_info, after its MHD_cleanup_connections, gives out the   *)
(* counter: not zero, stop() sleeps and asks again.                        *)
ReadCount ==
  /\ pc["stop"] = "info"
  /\ Go("stop", IF connections = 0 THEN "shutdown" ELSE "cleanup")
  /\ UNCHANGED <<client, thread, connections, mutex, flags, locals, pos, tmp>>

(* MHD_stop_daemon: the flag, then a byte to the pipe, which is full of    *)
(* bytes nobody reads already.                                             *)
Shutdown ==
  /\ pc["stop"] = "shutdown"
  /\ shutdown' = TRUE
  /\ Go("stop", "join listen")
  /\ UNCHANGED <<client, thread, connections, mutex, socket_fd, open, wpipe, locals, pos, tmp>>

MutListenJoined == TRUE   \* bug: the listen thread is not joined

ListenJoined == pc["listen"] = "ended"

JoinListen ==
  /\ pc["stop"] = "join listen" /\ ListenJoined
  /\ Go("stop", "wake")
  /\ UNCHANGED <<client, thread, connections, mutex, flags, locals, pos, tmp>>

ToWake == On("listed")

(* close_all_connections, the loop under the mutex.                        *)
WakeAll ==
  /\ pc["stop"] = "wake" /\ mutex = "free"
  /\ woken' = woken \cup ToWake
  /\ Go("stop", "join all")
  /\ UNCHANGED <<place, aborted, thread, connections, mutex, flags, locals, pos, tmp>>

(* close_all_connections, the loop that joins: connections_head is read    *)
(* without the mutex, its thread is waited for.                            *)
NextToJoin ==
  /\ pc["stop"] = "join all"
  /\ \E c \in On("listed") : pos' = [pos EXCEPT !["stop"] = c]
  /\ Go("stop", "joining")
  /\ UNCHANGED <<client, thread, connections, mutex, flags, locals, tmp>>

JoinNext ==
  /\ pc["stop"] = "joining" /\ thread[pos["stop"]] = "ended"
  /\ pos' = [pos EXCEPT !["stop"] = NoConn]
  /\ Go("stop", "join all")
  /\ UNCHANGED <<client, thread, connections, mutex, flags, locals, tmp>>

(* Every thread has taken its connection off the list.                     *)
AllJoined ==
  /\ pc["stop"] = "join all" /\ On("listed") = {}
  /\ Go("stop", "cleanup")
  /\ UNCHANGED <<client, thread, connections, mutex, flags, locals, pos, tmp>>

-----------------------------------------------------------------------------
ListenStep ==
  \/ ReadLimit \/ Poll \/ Polled \/ ReadSocket \/ Accept \/ AcceptFails
  \/ Add \/ CreateThread \/ CreateFails \/ Count \/ Counted
  \/ Cleanup("listen") \/ While

StopStep ==
  \/ WakeListen \/ CloseListenSocket \/ ReadCount \/ Shutdown \/ JoinListen
  \/ NextToJoin \/ JoinNext \/ AllJoined \/ Cleanup("stop")

ListenLocks == Insert \/ Undo \/ Lock("listen")
StopLocks == WakeAll \/ Lock("stop")

ConnectionStep(c) == Finish(c) \/ SeeShutdown(c) \/ Retire(c) \/ Leave(c)

(* stop() has returned and the daemon is freed: nothing is left to do.     *)
Stopped == pc["stop"] = "done" /\ UNCHANGED vars

Next ==
  \/ ListenStep \/ ListenLocks
  \/ Quiesce \/ StopStep \/ StopLocks
  \/ \E c \in Conns : Connect(c) \/ ConnectionStep(c)
  \/ Stopped

Spec == Init /\ [][Next]_vars

(* A thread that can go on does.  A mutex is given again and again to      *)
(* others but not for ever: the listen thread takes it after every poll,   *)
(* and poll never blocks once stop() has written to the pipe.  A client    *)
(* outside Idle leaves, or its connection times out (module Connection).   *)
Fairness ==
  /\ WF_vars(ListenStep) /\ SF_vars(ListenLocks)
  /\ WF_vars(StopStep) /\ SF_vars(StopLocks)
  /\ \A c \in Conns :
       /\ WF_vars(c \notin Idle /\ Finish(c))
       /\ WF_vars(c \in woken /\ SeeShutdown(c))
       /\ SF_vars(Retire(c)) /\ WF_vars(Leave(c))

FairSpec == Spec /\ Fairness

-----------------------------------------------------------------------------
ListenLabels ==
  {"limit", "poll", "polled", "accept", "accept4", "add", "insert", "create", "undo",
   "count", "counted", "cleanup", "reap", "join", "uncount", "uncounted", "while", "ended"}

StopLabels ==
  {"running", "quiesce", "close", "cleanup", "reap", "join", "uncount", "uncounted",
   "info", "shutdown", "join listen", "wake", "join all", "joining", "done"}

Stages == {"none", "loop", "closed", "exit", "ended"}

(* The type of the state.                                                  *)
TypeOK ==
  /\ place \in [Conns -> Places]
  /\ thread \in [Conns -> Stages]
  /\ aborted \subseteq Conns /\ woken \subseteq Conns
  /\ connections \in 0 .. W - 1
  /\ mutex \in Threads \cup {"free"}
  /\ socket_fd \in BOOLEAN /\ open \in BOOLEAN /\ wpipe \in BOOLEAN
  /\ shutdown \in BOOLEAN /\ at_connection_limit \in BOOLEAN /\ ready \in BOOLEAN
  /\ pc \in [Threads -> ListenLabels \cup StopLabels]
  /\ pc["listen"] \in ListenLabels /\ pc["stop"] \in StopLabels
  /\ pos \in [Threads -> Conns \cup {NoConn}]
  /\ tmp \in [Threads -> 0 .. W - 1]

(* The connections the daemon holds a socket for.                          *)
Live == {c \in Conns : place[c] \in {"accepted", "listed", "cleanup", "reaped"}}

(* A connection is freed (MHD_cleanup_connections) only when the thread    *)
(* that looks at it to the end (MHD_handle_connection) is gone.            *)
NoUseAfterFree == \A c \in On("freed") : thread[c] \in {"none", "ended"}

(* Until stop() is called the counter, which is changed without the mutex, *)
(* counts every connection that has a thread: it is behind only for the    *)
(* one being added and ahead only for the one just freed.                  *)
CountExact ==
  pc["stop"] = "running" =>
    LET adding == IF pc["listen"] \in {"add", "insert", "create", "undo", "count", "counted"}
                    THEN 1 ELSE 0
        freeing == IF pc["listen"] \in {"uncount", "uncounted"} THEN 1 ELSE 0
    IN connections + adding = Cardinality(Live) + freeing

(* set_max_connections: there are never more connections at a time.        *)
LimitKept == Cardinality(Live) <= Limit

(* At the limit a client waits in the backlog; it is not accepted only to  *)
(* be closed by internal_add_connection.                                   *)
NeverRefused == On("refused") = {}

(* When stop() returns, and has freed the daemon with its mutex, no thread *)
(* is left that could use it and no connection is left behind.             *)
Teardown ==
  pc["stop"] = "done" =>
    /\ pc["listen"] = "ended" /\ mutex = "free" /\ Live = {}
    /\ \A c \in Conns : thread[c] \in {"none", "ended"}

(* A client in the backlog is accepted once others have been served, if    *)
(* the server is not stopped and clients that never leave do not fill it:  *)
(* 5 ms at the limit, the listen thread looks again.                       *)
FilledByIdle == Cardinality(Live \cap Idle) >= Limit

WaitingAccepted ==
  \A c \in Conns : place[c] = "backlog" ~> (place[c] # "backlog" \/ FilledByIdle)

(* Once MHD_stop_daemon is called stop() returns, whatever the clients do. *)
ShutdownEnds == shutdown ~> pc["stop"] = "done"

(* No connection is left, yet the counter is not zero and will never be.   *)
Miscounted ==
  /\ Live = {} /\ connections # 0
  /\ \A t \in Threads : pc[t] \notin {"count", "counted", "uncount", "uncounted"}

(* stop() returns, but for a counter that is wrong or a client that never  *)
(* leaves: it waits for the current connections without any limit.         *)
StopEndsIfCounted ==
  pc["stop"] # "running" ~>
    (pc["stop"] = "done" \/ Miscounted \/ Live \cap Idle # {})

(* doc/manual.t2t:274, of stop(): "current connections are handled before  *)
(* returning".  First part: no accepted connection is cut off.  The code   *)
(* breaks this: a connection is counted only after its thread was started. *)
CurrentHandled == aborted = {}

(* Second part: it returns.  The code breaks this, too.                    *)
StopReturns == pc["stop"] # "running" ~> pc["stop"] = "done"
=============================================================================
