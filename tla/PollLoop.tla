----------------------------- MODULE PollLoop -----------------------------
(***************************************************************************)
(* One worker of a server started with set_threads(n): MHD_select_thread   *)
(* around MHD_poll_all, or around MHD_select where poll() is not to be     *)
(* had, with all its connections in one thread, their lists in the order   *)
(* of the code and the inactivity timeouts.  What the handlers of a        *)
(* connection do is the module Connection; here they choose what it waits  *)
(* for next.  The other workers and stop() are in the module Pool.         *)
(*                                                                         *)
(* Time is counted in seconds, and passes only while the thread waits.     *)
(***************************************************************************)
EXTENDS Integers, Sequences, SequencesExt

CONSTANTS
  Conns,      \* the connections clients ever make
  Stallers,   \* those with a response that the library waits for (BLOCK)
  Timeout,    \* connection_timeout of the daemon, 0 for none
  Limit,      \* connection_limit of the worker
  Roomy,      \* those with room in the read buffer for a read outside of READ
  Modes,      \* poll(), select() or both
  MaxAge,     \* bound: longer inactivity is not told apart
  NoConn

ASSUME PollLoopAssumption ==
  /\ IsFiniteSet(Conns) /\ {Stallers, Roomy} \subseteq SUBSET Conns /\ NoConn \notin Conns
  /\ {Timeout, Limit, MaxAge} \subseteq Nat /\ Timeout < MaxAge
  /\ Modes \subseteq {"poll", "select"}

VARIABLES
  mode,              \* MHD_USE_POLL is among the daemon's options
  pc,                \* where the worker is in its loop
  waiting,           \* connections of clients, not accepted yet
  connections,       \* connections_head to connections_tail
  normal_timeout,    \* normal_timeout_head to normal_timeout_tail
  cleanup,           \* the cleanup list
  event_loop_info,
  age,               \* seconds since last_activity
  room,              \* read_buffer_size > read_buffer_offset
  p,                 \* the array for poll(), or the sets for select()
  listen,            \* the listen socket: not polled, polled or ready
  wait,              \* the seconds poll() has left
  i, next            \* locals of the walk over the connections

lists == <<connections, normal_timeout, cleanup>>
conn  == <<event_loop_info, age, room>>
walk  == <<i, next>>
vars  == <<mode, pc, waiting, lists, conn, p, listen, wait, walk>>

Forever == Timeout + 2

Init ==
  /\ mode \in Modes
  /\ pc = "loop" /\ waiting = Conns
  /\ connections = <<>> /\ normal_timeout = <<>> /\ cleanup = {}
  /\ event_loop_info = [c \in Conns |-> "READ"]
  /\ age = [c \in Conns |-> 0]
  /\ room = [c \in Conns |-> c \in Roomy]
  /\ p = <<>> /\ listen = "off" /\ wait = 0
  /\ i = 1 /\ next = NoConn

Listed == ToSet(connections)
Position(list, c) == CHOOSE k \in DOMAIN list : list[k] = c
Without(list, c) ==
  [k \in 1 .. Len(list) - 1 |-> list[IF k < Position(list, c) THEN k ELSE k + 1]]
Count == Len(connections) + Cardinality(cleanup)   \* daemon->connections

-----------------------------------------------------------------------------
(***************************************************************************)
(* What to wait for, and how long.                                         *)
(***************************************************************************)
Awaited(c) ==
  CASE event_loop_info[c] = "READ"  -> {"in"}
    [] event_loop_info[c] = "WRITE" -> {"out"} \cup (IF room[c] THEN {"in"} ELSE {})
    [] event_loop_info[c] = "BLOCK" -> IF room[c] THEN {"in"} ELSE {}
    [] OTHER                        -> {}

(* MHD_get_timeout: "normal timeouts are sorted, so we only need to look   *)
(* at the 'head'".                                                         *)
Deadline == Timeout - age[Head(normal_timeout)]

MutTimeout ==   \* bug: a deadline that has passed counts as none
  IF Timeout = 0 \/ normal_timeout = <<>> \/ Deadline < 0 THEN Forever ELSE 1 + Deadline

GetTimeout ==
  CASE Timeout = 0 \/ normal_timeout = <<>> -> Forever
    [] Timeout # 0 /\ normal_timeout # <<>> -> IF Deadline < 0 THEN 0 ELSE 1 + Deadline

MutPolled == SelectSeq(connections, LAMBDA c : Awaited(c) # {})   \* bug: some are left out

(* The connections that get a slot in the array.                           *)
Polled == connections

Prepare ==
  /\ pc = "loop"
  /\ p' = [k \in DOMAIN Polled |-> [fd |-> Polled[k], revents |-> Awaited(Polled[k])]]
  /\ listen' = IF Count < Limit THEN "polled" ELSE "off"
  /\ wait' = GetTimeout
  /\ pc' = "poll"
  /\ UNCHANGED <<mode, waiting, lists, conn, walk>>

Older(c) == IF age[c] < MaxAge THEN age[c] + 1 ELSE MaxAge

Tick ==
  /\ pc = "poll" /\ wait > 0
  /\ age' = [c \in Conns |-> IF c \in Listed THEN Older(c) ELSE age[c]]
  /\ wait' = IF wait = Forever THEN Forever ELSE wait - 1
  /\ UNCHANGED <<mode, pc, waiting, lists, event_loop_info, room, p, listen, walk>>

StartWalk(list) ==
  /\ pc' = "walk" /\ i' = 1
  /\ next' = IF list = <<>> THEN NoConn ELSE Head(list)

(* poll() or select() returns: with events, because the time is over, or   *)
(* because of the POLLHUP of a connection this side has shut down.         *)
Return(ready, accepts) ==
  /\ pc = "poll"
  /\ \A k \in DOMAIN p : ready[k] \subseteq p[k].revents
  /\ accepts => listen = "polled" /\ waiting # {}
  /\ \/ wait = 0 \/ accepts
     \/ \E k \in DOMAIN p : ready[k] # {} \/ event_loop_info[p[k].fd] = "CLEANUP"
  /\ p' = [k \in DOMAIN p |-> [p[k] EXCEPT !.revents = ready[k]]]
  /\ listen' = IF accepts THEN "ready" ELSE "off"
  /\ wait' = 0
  /\ IF mode = "poll" THEN StartWalk(connections) ELSE pc' = "accept" /\ UNCHANGED walk
  /\ UNCHANGED <<mode, waiting, lists, conn>>

PollReturns ==
  \E ready \in [DOMAIN p -> SUBSET {"in", "out"}], accepts \in BOOLEAN : Return(ready, accepts)

(* EINTR                                                                   *)
Interrupted ==
  /\ pc = "poll"
  /\ pc' = "cleanup"
  /\ UNCHANGED <<mode, waiting, lists, conn, p, listen, wait, walk>>

-----------------------------------------------------------------------------
(***************************************************************************)
(* The handlers of one connection.                                         *)
(***************************************************************************)
MutMoved(c) == Without(normal_timeout, c) \o <<c>>   \* bug: moved to the tail

(* update_last_activity moves the connection to the head of its list.      *)
Moved(c) == <<c>> \o Without(normal_timeout, c)

(* cleanup_connection; nobody looks at the fields of c any more.           *)
Unlink(c) ==
  /\ connections' = Without(connections, c)
  /\ normal_timeout' = Without(normal_timeout, c)
  /\ cleanup' = cleanup \cup {c}
  /\ event_loop_info' = [event_loop_info EXCEPT ![c] = "READ"]
  /\ age' = [age EXCEPT ![c] = 0]
  /\ room' = [room EXCEPT ![c] = c \in Roomy]

(* The read and write handlers, for the events given, with data or room    *)
(* for data if they are the connection's own, and then the idle handler,   *)
(* which finds that the connection has closed or what it waits for next.   *)
Active(c, events, own) ==
  \/ own /\ Unlink(c)
  \/ /\ normal_timeout' = Moved(c)
     /\ age' = [age EXCEPT ![c] = 0]
     /\ IF own
          THEN \E info \in {"READ", "WRITE"} \cup (IF c \in Stallers THEN {"BLOCK"} ELSE {}) :
                 /\ event_loop_info' = [event_loop_info EXCEPT ![c] = info]
                 /\ room' = [room EXCEPT ![c] =
                      IF info = "READ" THEN c \in Roomy
                      ELSE @ /\ ~(event_loop_info[c] # "READ" /\ "in" \in events)]
          ELSE UNCHANGED <<event_loop_info, room>>
     /\ UNCHANGED <<connections, cleanup>>

(* The idle handler alone: a connection that was inactive for too long is  *)
(* closed, and waits for the next time around the loop.                    *)
Expired(c) == Timeout # 0 /\ Timeout <= age[c]

Inactive(c) ==
  /\ event_loop_info' = IF Expired(c) THEN [event_loop_info EXCEPT ![c] = "CLEANUP"]
                                      ELSE event_loop_info
  /\ UNCHANGED <<lists, age, room>>

Handle(c, events, own) ==
  CASE event_loop_info[c] = "CLEANUP"                  -> Unlink(c)
    [] event_loop_info[c] # "CLEANUP" /\ events # {} -> Active(c, events, own)
    [] event_loop_info[c] # "CLEANUP" /\ events = {}  -> Inactive(c)

Skip == UNCHANGED <<lists, conn>>

-----------------------------------------------------------------------------
(***************************************************************************)
(* The walk over the connections.                                          *)
(***************************************************************************)
After(c) ==
  LET k == Position(connections, c)
  IN  IF k = Len(connections) THEN NoConn ELSE connections[k + 1]

(* "fd mismatch, something else happened, retry later"                     *)
Matches(c) == i <= Len(p) /\ p[i].fd = c

(* A connection in state BLOCK uses the array but does not advance i.      *)
Advance(c) == event_loop_info[c] \in {"READ", "WRITE"} /\ Matches(c)

(* MHD_poll_all                                                            *)
Visit ==
  /\ pc = "walk" /\ mode = "poll" /\ next # NoConn
  /\ LET c == next
     IN  /\ next' = After(c)
         /\ i' = IF Advance(c) THEN i + 1 ELSE i   \* the slot is not used again
         /\ CASE event_loop_info[c] \in {"READ", "WRITE"} ->
                   IF Matches(c) THEN Handle(c, p[i].revents, TRUE) ELSE Skip
              [] event_loop_info[c] = "BLOCK" ->
                   Handle(c, p[i].revents \cap {"in"}, p[i].fd = c)
              [] OTHER -> Handle(c, {}, TRUE)
         /\ p' = IF Advance(c) THEN [p EXCEPT ![i].revents = {}] ELSE p
  /\ UNCHANGED <<mode, pc, waiting, listen, wait>>

(* MHD_run_from_select looks every socket up in the sets.                  *)
Lookup(c) ==
  LET slots == {k \in DOMAIN p : p[k].fd = c}
  IN  IF slots = {} THEN {} ELSE p[CHOOSE k \in slots : TRUE].revents

VisitSelect ==
  /\ pc = "walk" /\ mode = "select" /\ next # NoConn
  /\ next' = After(next)
  /\ Handle(next, Lookup(next), TRUE)
  /\ UNCHANGED <<mode, pc, waiting, p, listen, wait, i>>

WalkEnds ==
  /\ pc = "walk" /\ next = NoConn
  /\ pc' = IF mode = "poll" THEN "accept" ELSE "cleanup"
  /\ UNCHANGED <<mode, waiting, lists, conn, p, listen, wait, walk>>

-----------------------------------------------------------------------------
(***************************************************************************)
(* The listen socket and the end of a turn of the loop.                    *)
(***************************************************************************)
AcceptEnds(list) ==
  IF mode = "poll" THEN pc' = "cleanup" /\ UNCHANGED walk ELSE StartWalk(list)

(* MHD_accept_connection and internal_add_connection.                      *)
Accept ==
  /\ pc = "accept" /\ listen = "ready"
  /\ \E c \in waiting :
       /\ waiting' = waiting \ {c}
       /\ IF Count = Limit
            THEN UNCHANGED <<lists, age>>
            ELSE /\ connections' = <<c>> \o connections
                 /\ normal_timeout' = <<c>> \o normal_timeout
                 /\ age' = [age EXCEPT ![c] = 0]
                 /\ UNCHANGED cleanup
  /\ AcceptEnds(connections')
  /\ UNCHANGED <<mode, event_loop_info, room, p, listen, wait>>

(* Nobody is waiting, or another worker was faster.                        *)
AcceptNothing ==
  /\ pc = "accept"
  /\ AcceptEnds(connections)
  /\ UNCHANGED <<mode, waiting, lists, conn, p, listen, wait>>

(* MHD_cleanup_connections                                                 *)
Cleanup ==
  /\ pc = "cleanup"
  /\ cleanup' = {}
  /\ p' = <<>> /\ listen' = "off" /\ wait' = 0 /\ i' = 1 /\ next' = NoConn
  /\ pc' = "loop"
  /\ UNCHANGED <<mode, waiting, connections, normal_timeout, conn>>

Worker ==
  \/ Prepare \/ PollReturns \/ Visit \/ VisitSelect \/ WalkEnds
  \/ Accept \/ AcceptNothing \/ Cleanup

Next == Worker \/ Tick \/ Interrupted

Spec == Init /\ [][Next]_vars

(* The worker runs on, time passes for a thread that waits, however often  *)
(* it is woken; poll() returns when the time is over, and is not           *)
(* interrupted by a signal every time.                                     *)
FairSpec ==
  /\ Spec
  /\ WF_vars(Worker /\ pc # "poll") /\ SF_vars(PollReturns /\ wait = 0)
  /\ SF_vars(Tick)

-----------------------------------------------------------------------------
Infos == {"READ", "WRITE", "BLOCK", "CLEANUP"}

(* The type of the state.                                                  *)
TypeOK ==
  /\ mode \in {"poll", "select"}
  /\ pc \in {"loop", "poll", "walk", "accept", "cleanup"}
  /\ waiting \subseteq Conns /\ cleanup \subseteq Conns
  /\ connections \in Seq(Conns) /\ normal_timeout \in Seq(Conns)
  /\ event_loop_info \in [Conns -> Infos]
  /\ age \in [Conns -> 0 .. MaxAge] /\ room \in [Conns -> BOOLEAN]
  /\ p \in Seq([fd: Conns, revents: SUBSET {"in", "out"}])
  /\ listen \in {"off", "polled", "ready"}
  /\ wait \in 0 .. Forever /\ i \in Nat /\ next \in Conns \cup {NoConn}

(* MHD_poll_all fills the array in one walk and reads it by an index of    *)
(* its own in the next, while connections close: the index stays inside.   *)
IndexInside == pc = "walk" /\ next # NoConn /\ mode = "poll" => i <= Len(p)

(* normal_timeout is sorted by the last activity, the most recent one at   *)
(* the head, and holds exactly the connections of the worker.              *)
NormalSorted ==
  /\ \A k \in DOMAIN normal_timeout, l \in DOMAIN normal_timeout :
       k < l => age[normal_timeout[k]] <= age[normal_timeout[l]]
  /\ ToSet(normal_timeout) = Listed /\ Len(normal_timeout) = Len(connections)

(* A connection closed by a timeout, a client or the service is gone: one  *)
(* that is inactive for too long leaves the lists, also behind others that *)
(* block, or is active again.                                              *)
InactiveCloses ==
  Timeout # 0 =>
    \A c \in Conns : (c \in Listed /\ age[c] > Timeout) ~> (c \notin Listed \/ age[c] = 0)

(* internal.h:970: the list is sorted with the "earliest timeout at the    *)
(* tail", so that the worker wakes when the first timeout is due: at most  *)
(* a second late.  The code breaks this: MHD_get_timeout looks at the head.*)
OnTime == Stallers = {} /\ Timeout # 0 => \A c \in Listed : age[c] <= Timeout + 1
=============================================================================
