----------------------------- MODULE PoolStart -----------------------------
(***************************************************************************)
(* rest_server::start() of a server with a pool: MHD_start_daemon_va takes *)
(* what it needs one by one, any of which may fail, gives back what it has *)
(* taken, and start() tries again without poll().  The workers of the      *)
(* module Pool run from the moment they are created, while others are      *)
(* still to come.                                                          *)
(*                                                                         *)
(* What a failed attempt has lost is remembered until the next one begins. *)
(***************************************************************************)
EXTENDS Pool, SequencesExt

VARIABLES
  step,       \* what MHD_start_daemon_va does next
  use_poll,   \* of start()
  held,       \* what the daemon holds
  created     \* the workers that were created

startVars == <<step, use_poll, held, created>>
poolVars == <<startVars, vars>>

StartInit ==
  /\ place = [c \in Conns |-> "outside"]
  /\ worker = [c \in Conns |-> 0]
  /\ connections = [w \in Workers |-> 0]
  /\ socket_fd = [w \in Workers |-> FALSE] /\ open = FALSE /\ wpipe = FALSE
  /\ shutdown = [w \in Workers |-> FALSE]
  /\ pc = [t \in Threads |-> IF t = Stop THEN "starting" ELSE "new"]
  /\ ready = [w \in Workers |-> FALSE]
  /\ pos = [t \in Threads |-> NoConn]
  /\ tmp = [t \in Threads |-> 0]
  /\ i = 0 /\ sum = 0 /\ fault = FALSE
  /\ step = "daemon" /\ use_poll = TRUE /\ held = {} /\ created = 0

(* What is to be done before the workers are created, in this order.       *)
Steps == <<"daemon", "wpipe", "pipe_size", "options", "socket", "reuse", "bind", "listen",
           "socket_size", "per_ip_mutex", "cleanup_mutex", "nonblock", "worker_pool", "workers">>

Following(s) == Steps[1 + CHOOSE k \in DOMAIN Steps : Steps[k] = s]

(* Of the steps, those that take something.                                *)
Resources == {"daemon", "wpipe", "socket", "per_ip_mutex", "cleanup_mutex", "worker_pool"}

(* The sizes of descriptors matter to select() only.                       *)
MayFail(s) == s \in {"pipe_size", "socket_size"} => ~use_poll

Take ==
  /\ step \in Resources \cup {"pipe_size", "options", "reuse", "bind", "listen", "socket_size",
                               "nonblock"}
  /\ held' = held \cup ({step} \cap Resources)
  /\ open' = (open \/ step = "listen")
  /\ step' = Following(step)
  /\ UNCHANGED <<use_poll, created, place, worker, connections, socket_fd, wpipe, shutdown,
                 threads, ready, stopping, fault>>

MutUndone(s) ==   \* bug: the listen socket is closed only where it could not be bound
  CASE s \in {"bind", "listen"} -> {"daemon", "socket"}
    [] OTHER                    -> {"daemon", "worker_pool"}

(* What is given back when a step has failed: never the pipe but once, and *)
(* not the socket that does not take its options.                          *)
Undone(s) ==
  CASE s \in {"daemon", "wpipe", "options", "socket", "reuse"}                    -> {"daemon"}
    [] s = "pipe_size"                                                            -> {"daemon", "wpipe"}
    [] s \in {"bind", "listen", "socket_size", "per_ip_mutex"} -> {"daemon", "socket"}
    [] s = "cleanup_mutex"                          -> {"daemon", "socket", "cleanup_mutex"}
    [] s \in {"nonblock", "worker_pool", "workers"} -> Resources \ {"wpipe"}

Close(all) ==
  /\ open' = (open /\ "socket" \notin all)
  /\ place' = [c \in Conns |-> IF place[c] = "backlog" /\ ~open' THEN "lost" ELSE place[c]]

(* A step before the first worker runs fails: NULL is returned.            *)
Fails ==
  /\ pc[Stop] = "starting" /\ step \in ToSet(Steps) /\ MayFail(step) /\ created = 0
  /\ held' = held \ Undone(step)
  /\ Close(Undone(step))
  /\ step' = "null"
  /\ UNCHANGED <<use_poll, created, worker, connections, socket_fd, wpipe, shutdown,
                 threads, ready, stopping, fault>>

-----------------------------------------------------------------------------

WorkersLeft == created < PoolSize

(* A worker gets a copy of the daemon.                                     *)
CreateWorker ==
  /\ pc[Stop] = "starting" /\ step = "workers" /\ WorkersLeft
  /\ socket_fd' = [socket_fd EXCEPT ![created] = TRUE]
  /\ Go(created, "loop")
  /\ created' = created + 1
  /\ UNCHANGED <<step, use_poll, held, place, worker, connections, open, wpipe, shutdown,
                 pos, tmp, ready, stopping, fault>>

(* The daemon is returned, and start() returns true.                       *)
Started ==
  /\ pc[Stop] = "starting" /\ step = "workers" /\ ~WorkersLeft
  /\ Go(Stop, "running")
  /\ step' = "started" /\ use_poll' = TRUE
  /\ UNCHANGED <<held, created, place, worker, connections, flags, pos, tmp, ready, stopping,
                 fault>>

(* After i workers the next one cannot be created: MHD_stop_daemon is      *)
(* called for a pool of i - 1.                                             *)
Remaining == 0 .. created - 2

CreateFails ==
  /\ pc[Stop] = "starting" /\ step = "workers" /\ WorkersLeft /\ created > 0
  /\ shutdown' = [w \in Workers |-> shutdown[w] \/ w \in Remaining]
  /\ socket_fd' = [w \in Workers |-> socket_fd[w] /\ w \notin Remaining]
  /\ wpipe' = TRUE
  /\ Go(Stop, "failing")
  /\ UNCHANGED <<startVars, place, worker, connections, open, pos, tmp, ready, stopping, fault>>

(* It has joined these workers, and frees all of the pool.                 *)
FreeCreated ==
  /\ pc[Stop] = "failing" /\ \A w \in Remaining : pc[w] = "ended"
  /\ ~fault
  /\ fault' = (\E w \in Workers : pc[w] \notin {"new", "ended"})
  /\ held' = {}
  /\ Close(Resources)
  /\ step' = "null"
  /\ UNCHANGED <<use_poll, created, worker, connections, socket_fd, wpipe, shutdown, threads,
                 ready, stopping>>

(* start() tries again without poll(), and returns false in the end.       *)
TryAgain ==
  /\ step = "null" /\ ~fault
  /\ IF use_poll THEN step' = "daemon" /\ use_poll' = FALSE /\ held' = {}
                 ELSE step' = "failed" /\ UNCHANGED <<use_poll, held>>
  /\ UNCHANGED <<created, vars>>

-----------------------------------------------------------------------------
MutFreed == Resources \ {"socket", "wpipe"}   \* bug: the pipe stays open

(* What MHD_stop_daemon frees at its end.                                  *)
Freed == Resources \ {"socket"}

Stopping ==
  /\ StopStep
  /\ held' = CASE pc[Stop] = "close" -> held \ {"socket"}
               [] pc'[Stop] = "done" -> held \ Freed
               [] OTHER              -> held
  /\ UNCHANGED <<step, use_poll, created>>

StartStep == Take \/ CreateWorker \/ Started \/ FreeCreated \/ TryAgain

Running == \/ \E w \in Workers : WorkerStep(w)
           \/ \E w \in Workers, c \in Conns : Finish(w, c)
           \/ \E c \in Conns : Connect(c)

StartDone == (step = "failed" \/ pc[Stop] = "done" \/ fault) /\ UNCHANGED poolVars

StartNext ==
  \/ Take \/ Fails \/ CreateWorker \/ Started \/ CreateFails \/ FreeCreated \/ TryAgain
  \/ Quiesce /\ UNCHANGED startVars
  \/ Stopping
  \/ Running /\ UNCHANGED startVars
  \/ StartDone

StartSpec ==
  /\ StartInit /\ [][StartNext]_poolVars
  /\ \A w \in Workers :
       /\ WF_poolVars(WorkerStep(w) /\ UNCHANGED startVars)
       /\ \A c \in Conns \ Idle : SF_poolVars(Finish(w, c) /\ UNCHANGED startVars)
  /\ WF_poolVars(Stopping) /\ WF_poolVars(StartStep)

-----------------------------------------------------------------------------
(* Whatever has failed, and after whatever steps, the port is free for the *)
(* second attempt of start(): nothing listens on it any more.              *)
PortFreed == step = "null" /\ ~fault => ~open

(* A server that start() has returned true for has all of its workers and  *)
(* holds what they use, until stop() has given everything back.            *)
HeldWhole ==
  /\ pc[Stop] \in {"running", "quiesce"} =>
       held = Resources /\ \A w \in Workers : pc[w] # "new"
  /\ pc[Stop] = "done" => held = {}

(* No connection is left, yet a counter is not zero and will never be.     *)
Miscounted ==
  /\ \A w \in Workers : Live(w) = {}
  /\ \E w \in Workers : connections[w] # 0
  /\ \A t \in Threads : pc[t] \notin {"uncount", "uncounted"}

(* stop() returns, but for two threads that cleaned up after one worker at *)
(* a time, and for clients that never leave.                               *)
StopEndsIfCounted ==
  pc[Stop] = "quiesce" ~>
    (pc[Stop] = "done" \/ fault \/ Miscounted \/ \E w \in Workers : Live(w) \cap Idle # {})

(* daemon.cpp:4108: "Shutdown worker threads we've already created."  The  *)
(* code breaks this: the last one it has created is not joined.            *)
CreatedShutDown == step = "null" => \A w \in Workers : pc[w] \in {"new", "ended"}
=============================================================================
