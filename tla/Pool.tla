-------------------------------- MODULE Pool --------------------------------
(***************************************************************************)
(* The threads of a server started with set_threads(n): n workers, each    *)
(* listening, accepting and processing its own connections (one turn of    *)
(* its loop is the module PollLoop), and the thread that calls             *)
(* rest_server::stop().  No mutex is taken in this mode.                   *)
(*                                                                         *)
(* What a connection does between accept and its end is one step, Finish.  *)
(* When two threads change the cleanup list of a worker at a time, or free *)
(* one connection twice, anything may happen: fault is set, and nothing is *)
(* said of what follows.                                                   *)
(***************************************************************************)
EXTENDS Naturals, FiniteSets, FiniteSetsExt

CONSTANTS
  Conns,       \* the connections clients ever try to make
  Idle,        \* those whose client keeps the connection open for ever
  PoolSize,    \* worker_pool_size
  Limit,       \* connection_limit of the daemon
  W,           \* unsigned int counts modulo W
  NoConn

ASSUME PoolAssumption ==
  /\ IsFiniteSet(Conns) /\ Idle \subseteq Conns /\ NoConn \notin Conns
  /\ PoolSize \in Nat \ {0} /\ Limit \in Nat /\ W \in Nat /\ W > Limit + 1

Workers == 0 .. PoolSize - 1
Stop == PoolSize              \* the thread that calls stop()
Threads == Workers \cup {Stop}

VARIABLES
  place,        \* where each connection is
  worker,       \* the worker that has accepted it
  connections,  \* the counter of each worker
  socket_fd,    \* each worker still knows the listen socket
  open,         \* the listen socket is not closed yet
  wpipe,        \* the pipe all workers wait for holds a byte
  shutdown,     \* of each worker
  pc,           \* where each worker and the thread of stop() are
  ready,        \* the listen socket was polled, and was ready
  pos,          \* the connection each thread has in its hands
  tmp,          \* the register in which a counter is changed
  i, sum,       \* the worker stop() looks at, and what it has counted
  fault

threads == <<pc, pos, tmp>>
flags == <<socket_fd, open, wpipe, shutdown>>
stopping == <<i, sum>>
vars == <<place, worker, connections, flags, threads, ready, stopping, fault>>

Init ==
  /\ place = [c \in Conns |-> "outside"]
  /\ worker = [c \in Conns |-> 0]
  /\ connections = [w \in Workers |-> 0]
  /\ socket_fd = [w \in Workers |-> TRUE] /\ open = TRUE /\ wpipe = FALSE
  /\ shutdown = [w \in Workers |-> FALSE]
  /\ pc = [t \in Threads |-> IF t = Stop THEN "running" ELSE "loop"]
  /\ ready = [w \in Workers |-> FALSE]
  /\ pos = [t \in Threads |-> NoConn]
  /\ tmp = [t \in Threads |-> 0]
  /\ i = 0 /\ sum = 0 /\ fault = FALSE

On(where, w) == {c \in Conns : place[c] = where /\ worker[c] = w}
Backlog == {c \in Conns : place[c] = "backlog"}

(* Thread t moves on; after a fault there is nothing to say.               *)
Go(t, label) == ~fault /\ pc' = [pc EXCEPT ![t] = label]

-----------------------------------------------------------------------------
(* MHD_start_daemon_va divides the limit over the workers.                 *)
MutWorkerLimit(w) == Limit \div PoolSize   \* bug: the leftover is lost

WorkerLimit(w) == (Limit \div PoolSize) + IF w < Limit % PoolSize THEN 1 ELSE 0

Connect(c) ==
  /\ place[c] = "outside" /\ open
  /\ place' = [place EXCEPT ![c] = "backlog"]
  /\ UNCHANGED <<worker, connections, flags, threads, ready, stopping, fault>>

-----------------------------------------------------------------------------
(***************************************************************************)
(* A worker: MHD_select_thread and MHD_poll_all.                           *)
(***************************************************************************)
MutListens(w) == socket_fd[w]   \* bug: listens at the limit, too

Listens(w) == socket_fd[w] /\ connections[w] < WorkerLimit(w)

Prepare(w) ==
  /\ pc[w] = "loop"
  /\ ready' = [ready EXCEPT ![w] = Listens(w)]
  /\ Go(w, "poll")
  /\ UNCHANGED <<place, worker, connections, flags, pos, tmp, stopping, fault>>

MutWoken(w) == ready[w] /\ Backlog # {}   \* bug: the pipe is not polled

Woken(w) == wpipe \/ (ready[w] /\ Backlog # {})

(* poll() returns for the listen socket or the pipe; for the events of a   *)
(* connection see Finish.                                                  *)
PollReturns(w) ==
  /\ pc[w] = "poll" /\ Woken(w)
  /\ ready' = [ready EXCEPT ![w] = @ /\ Backlog # {}]
  /\ Go(w, IF shutdown[w] THEN "cleanup" ELSE "walk")
  /\ UNCHANGED <<place, worker, connections, flags, pos, tmp, stopping, fault>>

Changing(w) == \E t \in Threads : pc[t] = "removing" /\ (t = w \/ (t = Stop /\ i = w))

MutFinished(w, c) == /\ place' = [place EXCEPT ![c] = "freed"]   \* bug: freed but not counted
                     /\ UNCHANGED fault

(* cleanup_connection moves a connection to the cleanup list.              *)
Finished(w, c) ==
  /\ place' = [place EXCEPT ![c] = "cleanup"]
  /\ fault' = Changing(w)

(* poll() returns for a connection that ends: its client went away, its    *)
(* last response was sent, or it timed out.                                *)
Finish(w, c) ==
  /\ pc[w] \in {"poll", "walk"} /\ c \in On("listed", w) /\ ~shutdown[w]
  /\ Finished(w, c)
  /\ ready' = [ready EXCEPT ![w] = @ /\ Backlog # {}]
  /\ Go(w, "walk")
  /\ UNCHANGED <<worker, connections, flags, pos, tmp, stopping>>

WalkEnds(w) ==
  /\ pc[w] = "walk"
  /\ ready' = [ready EXCEPT ![w] = FALSE]
  /\ Go(w, IF ready[w] /\ socket_fd[w] THEN "accept" ELSE "cleanup")
  /\ UNCHANGED <<place, worker, connections, flags, pos, tmp, stopping, fault>>

(* The listen socket does not block: only one worker gets a connection.    *)
Accept(w) ==
  /\ pc[w] = "accept"
  /\ \/ /\ open
        /\ \E c \in Backlog :
             /\ place' = [place EXCEPT ![c] = "accepted"]
             /\ worker' = [worker EXCEPT ![c] = w]
             /\ pos' = [pos EXCEPT ![w] = c]
        /\ Go(w, "add")
     \/ /\ ~open \/ Backlog = {}
        /\ Go(w, "cleanup")
        /\ UNCHANGED <<place, worker, pos>>
  /\ UNCHANGED <<connections, flags, tmp, ready, stopping, fault>>

(* internal_add_connection                                                 *)
Add(w) ==
  /\ pc[w] = "add"
  /\ IF connections[w] = WorkerLimit(w)
       THEN /\ place' = [place EXCEPT ![pos[w]] = "refused"]
            /\ Go(w, "cleanup") /\ UNCHANGED tmp
       ELSE /\ place' = [place EXCEPT ![pos[w]] = "listed"]
            /\ tmp' = [tmp EXCEPT ![w] = connections[w]]
            /\ Go(w, "counted")
  /\ pos' = [pos EXCEPT ![w] = NoConn]
  /\ UNCHANGED <<worker, connections, flags, ready, stopping, fault>>

Counted(w) ==
  /\ pc[w] = "counted"
  /\ connections' = [connections EXCEPT ![w] = (tmp[w] + 1) % W]
  /\ tmp' = [tmp EXCEPT ![w] = 0]
  /\ Go(w, "cleanup")
  /\ UNCHANGED <<place, worker, flags, pos, ready, stopping, fault>>

-----------------------------------------------------------------------------
(***************************************************************************)
(* MHD_cleanup_connections of worker w, called by the worker after every   *)
(* poll and by stop(), for each worker in turn.                            *)
(***************************************************************************)
Of(t) == IF t = Stop THEN i ELSE t

(* pos = daemon->cleanup_head; a worker then tests its shutdown flag.      *)
ReadHead(t) ==
  /\ pc[t] = "cleanup"
  /\ \/ /\ \E c \in On("cleanup", Of(t)) : pos' = [pos EXCEPT ![t] = c]
        /\ Go(t, "removing")
     \/ /\ On("cleanup", Of(t)) = {}
        /\ Go(t, CASE t = Stop -> "info"
                   [] t # Stop /\ shutdown[Of(t)] -> "ended"
                   [] t # Stop /\ ~shutdown[Of(t)] -> "loop")
        /\ UNCHANGED pos
  /\ UNCHANGED <<place, worker, connections, flags, tmp, ready, stopping, fault>>

(* DLL_remove, and the rest up to free(pos).                               *)
Free(t) ==
  /\ pc[t] = "removing"
  /\ fault' = (place[pos[t]] # "cleanup")
  /\ place' = [place EXCEPT ![pos[t]] = "freed"]
  /\ worker' = [worker EXCEPT ![pos[t]] = 0]
  /\ pos' = [pos EXCEPT ![t] = NoConn]
  /\ Go(t, "uncount")
  /\ UNCHANGED <<connections, flags, tmp, ready, stopping>>

(* daemon->connections--: a read and a write.                              *)
Uncount(t) ==
  /\ pc[t] = "uncount"
  /\ tmp' = [tmp EXCEPT ![t] = connections[Of(t)]]
  /\ Go(t, "uncounted")
  /\ UNCHANGED <<place, worker, connections, flags, pos, ready, stopping, fault>>

Uncounted(t) ==
  /\ pc[t] = "uncounted"
  /\ connections' = [connections EXCEPT ![Of(t)] = (tmp[t] + W - 1) % W]
  /\ tmp' = [tmp EXCEPT ![t] = 0]
  /\ Go(t, "cleanup")
  /\ UNCHANGED <<place, worker, flags, pos, ready, stopping, fault>>

Cleanup(t) == ReadHead(t) \/ Free(t) \/ Uncount(t) \/ Uncounted(t)

-----------------------------------------------------------------------------
(***************************************************************************)
(* rest_server::stop()                                                     *)
(***************************************************************************)

NextWorker == (i + 1) % PoolSize

(* MHD_quiesce_daemon: the workers forget the socket, one after the other, *)
(* and the pipe gets a byte for each; nobody ever reads it.                *)
Quiesce ==
  /\ pc[Stop] \in {"running", "quiesce"}
  /\ socket_fd' = [socket_fd EXCEPT ![i] = FALSE]
  /\ wpipe' = TRUE
  /\ i' = NextWorker
  /\ Go(Stop, IF i = PoolSize - 1 THEN "close" ELSE "quiesce")
  /\ UNCHANGED <<place, worker, connections, open, shutdown, pos, tmp, ready, sum, fault>>

CloseListenSocket ==
  /\ pc[Stop] = "close"
  /\ open' = FALSE
  /\ place' = [c \in Conns |-> IF place[c] = "backlog" THEN "lost" ELSE place[c]]
  /\ Go(Stop, "cleanup")
  /\ UNCHANGED <<worker, connections, socket_fd, wpipe, shutdown, pos, tmp, ready,
                 stopping, fault>>

(* MHD_get_daemon_info adds up the counters; not zero, stop() sleeps and   *)
(* asks again.                                                             *)
ReadCount ==
  /\ pc[Stop] = "info"
  /\ i' = NextWorker
  /\ sum' = IF i = PoolSize - 1 THEN 0 ELSE sum + connections[i]
  /\ Go(Stop, IF i = PoolSize - 1 /\ sum + connections[i] = 0 THEN "shutdown" ELSE "cleanup")
  /\ UNCHANGED <<place, worker, connections, flags, pos, tmp, ready, fault>>

(* MHD_stop_daemon                                                         *)
Shutdown ==
  /\ pc[Stop] = "shutdown"
  /\ shutdown' = [shutdown EXCEPT ![i] = TRUE]
  /\ i' = NextWorker
  /\ Go(Stop, IF i = PoolSize - 1 THEN "join" ELSE "shutdown")
  /\ UNCHANGED <<place, worker, connections, socket_fd, open, wpipe, pos, tmp, ready, sum, fault>>

MutJoined(w) == shutdown[w]   \* bug: the thread is not joined

(* MHD_join_thread_ of worker w returns.                                   *)
Joined(w) == pc[w] = "ended"

(* close_all_connections: the worker's thread is gone.                     *)
JoinWorker ==
  /\ pc[Stop] = "join" /\ Joined(i)
  /\ place' = [c \in Conns |-> IF c \in On("listed", i) \cup On("cleanup", i)
                                 THEN "freed" ELSE place[c]]
  /\ i' = NextWorker
  /\ Go(Stop, IF i = PoolSize - 1 THEN "done" ELSE "join")
  /\ UNCHANGED <<worker, connections, flags, pos, tmp, ready, sum, fault>>

-----------------------------------------------------------------------------
WorkerStep(w) ==
  \/ Prepare(w) \/ PollReturns(w) \/ WalkEnds(w) \/ Accept(w) \/ Add(w) \/ Counted(w)
  \/ Cleanup(w)

StopStep ==
  \/ pc[Stop] # "running" /\ Quiesce
  \/ CloseListenSocket \/ Cleanup(Stop) \/ ReadCount \/ Shutdown \/ JoinWorker

(* stop() has returned, or the program has gone wrong.                     *)
Stopped == (pc[Stop] = "done" \/ fault) /\ UNCHANGED vars

Next ==
  \/ \E w \in Workers : WorkerStep(w)
  \/ \E w \in Workers, c \in Conns : Finish(w, c)
  \/ Quiesce \/ StopStep
  \/ \E c \in Conns : Connect(c)
  \/ Stopped

Spec == Init /\ [][Next]_vars

(* A thread that can go on does, and a client outside Idle leaves.         *)
FairSpec ==
  /\ Spec
  /\ \A w \in Workers :
       /\ WF_vars(WorkerStep(w))
       /\ \A c \in Conns \ Idle : SF_vars(Finish(w, c))
  /\ WF_vars(StopStep)

-----------------------------------------------------------------------------
Places == {"outside", "backlog", "lost", "accepted", "refused", "listed", "cleanup", "freed"}

WorkerLabels == {"new", "loop", "poll", "walk", "accept", "add", "counted", "cleanup", "removing",
                 "uncount", "uncounted", "ended"}
StopLabels == {"starting", "failing", "running", "quiesce", "close", "cleanup", "removing",
               "uncount", "uncounted", "info", "shutdown", "join", "done"}

(* The type of the state.                                                  *)
TypeOK ==
  /\ place \in [Conns -> Places] /\ worker \in [Conns -> Workers]
  /\ connections \in [Workers -> 0 .. W - 1]
  /\ socket_fd \in [Workers -> BOOLEAN] /\ shutdown \in [Workers -> BOOLEAN]
  /\ open \in BOOLEAN /\ wpipe \in BOOLEAN /\ fault \in BOOLEAN
  /\ pc \in [Threads -> WorkerLabels \cup StopLabels]
  /\ pc[Stop] \in StopLabels /\ \A w \in Workers : pc[w] \in WorkerLabels
  /\ ready \in [Workers -> BOOLEAN]
  /\ pos \in [Threads -> Conns \cup {NoConn}] /\ tmp \in [Threads -> 0 .. W - 1]
  /\ i \in Workers /\ sum \in Nat

(* The connections worker w holds a socket for.                            *)
Live(w) == {c \in Conns : place[c] \in {"accepted", "listed", "cleanup"} /\ worker[c] = w}

(* Until stop() is called the counter of a worker counts its connections.  *)
CountExact ==
  pc[Stop] \in {"starting", "running"} =>
    \A w \in Workers :
      LET adding == IF pc[w] \in {"add", "counted"} THEN 1 ELSE 0
          freeing == IF pc[w] \in {"uncount", "uncounted"} THEN 1 ELSE 0
      IN connections[w] + adding = Cardinality(Live(w)) + freeing

(* set_max_connections: "When this limit is reached, no more connections   *)
(* are accepted", with the limit divided over the workers: until stop() is *)
(* called there are never more, and nobody is accepted only to be refused. *)
LimitKept ==
  pc[Stop] \in {"starting", "running"} =>
    /\ Cardinality(UNION {Live(w) : w \in Workers}) <= Limit
    /\ \A c \in Conns : place[c] # "refused"

(* When stop() returns, and has freed the workers, none of them runs and   *)
(* no connection is left behind.                                           *)
Teardown ==
  pc[Stop] = "done" /\ ~fault =>
    \A w \in Workers : pc[w] = "ended" /\ Live(w) = {}

(* Each place for a connection is taken by a client that never leaves.     *)
FilledByIdle == Cardinality(UNION {Live(w) \cap Idle : w \in Workers}) >= Limit

(* A client in the backlog is accepted by some worker although others are  *)
(* full, unless stop() is called or idle clients fill them all.            *)
WaitingAccepted ==
  \A c \in Conns : place[c] = "backlog" ~> (place[c] # "backlog" \/ FilledByIdle)

(* doc/manual.t2t:274, of stop(): "current connections are handled before  *)
(* returning".  While stop() waits for them it must not disturb them.  The *)
(* code breaks this: stop() cleans up after a worker that is running.      *)
HandledUndisturbed == ~fault
=============================================================================
