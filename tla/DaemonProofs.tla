---------------------------- MODULE DaemonProofs ----------------------------
(***************************************************************************)
(* The threads of the server (Daemon): no connection is freed while its    *)
(* thread can still look at it, when stop() has returned no thread and no  *)
(* connection is left, and the limit holds.  For any number of             *)
(* connections, any limit and any width of the counter.                    *)
(***************************************************************************)
EXTENDS Daemon, Integers, FiniteSetTheorems, TLAPS

(* What of the type of the state the steps are shown from.                 *)
Shape ==
  /\ place \in [Conns -> Places] /\ thread \in [Conns -> Stages]
  /\ pc \in [Threads -> ListenLabels \cup StopLabels]
  /\ pos \in [Threads -> Conns \cup {NoConn}]

InCleanup == {"reap", "join", "uncount", "uncounted"}

(* The mutex is held from lock to unlock in MHD_cleanup_connections.       *)
Mutex == \A t \in Threads : mutex = t <=> pc[t] \in InCleanup

(* What a thread holds: the connection it adds, frees or joins.            *)
Held ==
  /\ \A t \in Threads : pc[t] = "join" => pos[t] \in Conns /\ place[pos[t]] = "reaped"
  /\ pc["listen"] \in {"add", "insert"} =>
       pos["listen"] \in Conns /\ place[pos["listen"]] = "accepted"
  /\ pc["listen"] \in {"create", "undo"} =>
       /\ pos["listen"] \in Conns /\ place[pos["listen"]] = "listed"
       /\ thread[pos["listen"]] = "none"
  /\ pc["stop"] = "joining" => pos["stop"] \in Conns

(* A connection on its way is in the hands of a thread.                    *)
Charge ==
  \A c \in Conns :
    /\ place[c] = "accepted" => pc["listen"] \in {"add", "insert"} /\ pos["listen"] = c
    /\ place[c] = "reaped" => \E t \in Threads : pc[t] = "join" /\ pos[t] = c
    /\ place[c] = "listed" /\ thread[c] = "none" =>
         pc["listen"] \in {"create", "undo"} /\ pos["listen"] = c

(* Where a connection is says how far its thread has come.                 *)
Stage ==
  \A c \in Conns :
    /\ place[c] \in {"outside", "backlog", "lost", "accepted", "refused"} => thread[c] = "none"
    /\ thread[c] \in {"loop", "closed"} => place[c] = "listed"
    /\ thread[c] = "exit" => place[c] \in {"cleanup", "reaped"}
    /\ thread[c] = "ended" => place[c] \in {"cleanup", "reaped", "freed"}
    /\ place[c] \in {"cleanup", "reaped"} => thread[c] \in {"exit", "ended"}

(* How far MHD_stop_daemon has come.                                       *)
Stopping ==
  /\ pc["stop"] \in {"running", "quiesce", "close", "info", "shutdown"} => ~shutdown
  /\ pc["stop"] \in {"join listen", "wake", "join all", "joining", "done"} => shutdown
  /\ shutdown /\ pc["stop"] # "join listen" => pc["listen"] = "ended"
  /\ shutdown /\ pc["stop"] \in InCleanup \cup {"cleanup", "done"} => On("listed") = {}
  /\ pc["stop"] = "done" => On("cleanup") = {}

(* The inductive invariant.                                                *)
IInv == TypeOK /\ Mutex /\ Held /\ Charge /\ Stage /\ Stopping

(* The labels at which a thread holds a connection.                        *)
Busy == {"add", "insert", "create", "undo", "join", "joining"}

(* A thread goes from one label to another without touching a connection.  *)
Quiet ==
  /\ place' = place /\ thread' = thread /\ pos' = pos
  /\ \/ pc' = pc
     \/ \E t \in Threads, l \in (ListenLabels \cup StopLabels) \ Busy :
          pc[t] \notin Busy /\ pc' = [pc EXCEPT ![t] = l]


(* The counter stays in its width.                                         *)
LEMMA ModRange == \A k \in Int : k % W \in 0 .. W - 1
  BY DaemonAssumption

(* Type correctness is preserved.                                          *)
LEMMA TypeOKStep == ASSUME TypeOK, Next PROVE TypeOK'
<1> USE DaemonAssumption DEF Go, client, flags, locals, vars, Threads, TypeOK
<1>1. CASE ReadLimit
  BY <1>1 DEF ReadLimit, AtLimit, PollsListenSocket, ListenLabels, StopLabels
<1>2. CASE Poll
  BY <1>2 DEF Poll, PollReturns, On, ListenLabels, StopLabels
<1>3. CASE Polled
  BY <1>3 DEF Polled, ListenLabels, StopLabels
<1>4. CASE ReadSocket
  BY <1>4 DEF ReadSocket, ListenLabels, StopLabels
<1>5. CASE AcceptFails
  BY <1>5 DEF AcceptFails, ListenLabels, StopLabels
<1>6. CASE Count
  BY <1>6 DEF Count, ListenLabels, StopLabels
<1>7. CASE Counted
  <2>1. tmp["listen"] + 1 \in Int
    BY <1>7, DaemonAssumption
  <2>2. (tmp["listen"] + 1) % W \in 0 .. W - 1
    BY <2>1, ModRange
  <2> QED
    BY <1>7, <2>2 DEF Counted, ListenLabels, StopLabels
<1>8. CASE While
  BY <1>8 DEF While, ListenLabels, StopLabels
<1>9. CASE Quiesce
  BY <1>9 DEF Quiesce, ListenLabels, StopLabels
<1>10. CASE WakeListen
  BY <1>10 DEF WakeListen, ListenLabels, StopLabels
<1>11. CASE ReadCount
  BY <1>11 DEF ReadCount, ListenLabels, StopLabels
<1>12. CASE Shutdown
  BY <1>12 DEF Shutdown, ListenLabels, StopLabels
<1>13. CASE JoinListen
  BY <1>13 DEF JoinListen, ListenJoined, ListenLabels, StopLabels
<1>14. CASE AllJoined
  BY <1>14 DEF AllJoined, On, ListenLabels, StopLabels
<1>15. CASE WakeAll
  BY <1>15 DEF WakeAll, ToWake, On, ListenLabels, StopLabels
<1>16. CASE Accept
  <2>1. PICK c \in Conns : /\ place' = [place EXCEPT ![c] = "accepted"]
                           /\ pos' = [pos EXCEPT !["listen"] = c]
    BY <1>16 DEF Accept, On
  <2> QED
    BY <1>16, <2>1 DEF Accept, Places, ListenLabels, StopLabels
<1>17. CASE Add
  BY <1>17 DEF Add, AtLimit, ListenLabels, StopLabels, Places
<1>18. CASE CreateThread
  BY <1>18 DEF CreateThread, ListenLabels, StopLabels, Stages
<1>19. CASE CreateFails
  BY <1>19 DEF CreateFails, ListenLabels, StopLabels
<1>20. CASE Insert
  BY <1>20 DEF Insert, ListenLabels, StopLabels, Places
<1>21. CASE Undo
  BY <1>21 DEF Undo, Undone, ListenLabels, StopLabels, Places
<1>22. CASE CloseListenSocket
  BY <1>22 DEF CloseListenSocket, ListenLabels, StopLabels, Places
<1>23. CASE NextToJoin
  <2>1. PICK c \in Conns : pos' = [pos EXCEPT !["stop"] = c]
    BY <1>23 DEF NextToJoin, On
  <2> QED
    BY <1>23, <2>1 DEF NextToJoin, ListenLabels, StopLabels
<1>24. CASE JoinNext
  BY <1>24 DEF JoinNext, ListenLabels, StopLabels
<1>25. ASSUME NEW t \in Threads, Lock(t) PROVE TypeOK'
  BY <1>25 DEF Lock, ListenLabels, StopLabels
<1>26. ASSUME NEW t \in Threads, Uncount(t) PROVE TypeOK'
  BY <1>26 DEF Uncount, ListenLabels, StopLabels
<1>27. ASSUME NEW t \in Threads, Uncounted(t) PROVE TypeOK'
  <2>1. tmp[t] + W - 1 \in Int
    BY <1>27, DaemonAssumption
  <2>2. (tmp[t] + W - 1) % W \in 0 .. W - 1
    BY <2>1, ModRange
  <2> QED
    BY <1>27, <2>2 DEF Uncounted, ListenLabels, StopLabels
<1>28. ASSUME NEW t \in Threads, Unlock(t) PROVE TypeOK'
  BY <1>28 DEF Unlock, On, Caller, ListenLabels, StopLabels
<1>29. ASSUME NEW c \in Conns, Connect(c) PROVE TypeOK'
  BY <1>29 DEF Connect, Places
<1>30. ASSUME NEW c \in Conns, Finish(c) PROVE TypeOK'
  BY <1>30 DEF Finish, Closed, Stages
<1>31. ASSUME NEW c \in Conns, SeeShutdown(c) PROVE TypeOK'
  BY <1>31 DEF SeeShutdown, Closed, Stages
<1>32. ASSUME NEW c \in Conns, Retire(c) PROVE TypeOK'
  BY <1>32 DEF Retire, Places, Stages
<1>33. ASSUME NEW c \in Conns, Leave(c) PROVE TypeOK'
  BY <1>33 DEF Leave, Stages
<1>34. ASSUME NEW t \in Threads, Reap(t) PROVE TypeOK'
  <2>1. PICK c \in Conns : /\ place' = [place EXCEPT ![c] = "reaped"]
                           /\ pos' = [pos EXCEPT ![t] = c]
    BY <1>34 DEF Reap, On
  <2> QED
    BY <1>34, <2>1 DEF Reap, Places, ListenLabels, StopLabels
<1>35. ASSUME NEW t \in Threads, Free(t) PROVE TypeOK'
  BY <1>35 DEF Free, Joined, Places, ListenLabels, StopLabels
<1>36. CASE Stopped
  BY <1>36 DEF Stopped
<1> QED
  BY <1>1, <1>2, <1>3, <1>4, <1>5, <1>6, <1>7, <1>8, <1>9, <1>10, <1>11, 
     <1>12, <1>13, <1>14, <1>15, <1>16, <1>17, <1>18, <1>19, <1>20, <1>21, 
     <1>22, <1>23, <1>24, <1>25, <1>26, <1>27, <1>28, <1>29, <1>30, <1>31, 
     <1>32, <1>33, <1>34, <1>35, <1>36
  DEF Next, ListenStep, ListenLocks, StopStep, StopLocks, ConnectionStep, Cleanup, Threads

(* Every step is quiet or one of these.                                    *)
LEMMA Kinds ==
  ASSUME Shape, Next
  PROVE \/ Quiet
        \/ Accept \/ Add \/ CreateThread \/ CreateFails \/ Insert \/ Undo
        \/ CloseListenSocket \/ NextToJoin \/ JoinNext
        \/ \E c \in Conns :
             Connect(c) \/ Finish(c) \/ SeeShutdown(c) \/ Retire(c) \/ Leave(c)
        \/ \E t \in Threads : Reap(t) \/ Free(t)
<1> USE DEF Shape, Quiet, Busy, Go, client, flags, locals, vars, Threads, ListenLabels, StopLabels
<1>1. ASSUME ReadLimit PROVE Quiet
  BY <1>1 DEF ReadLimit, AtLimit, PollsListenSocket
<1>2. ASSUME Poll PROVE Quiet
  BY <1>2 DEF Poll, PollReturns, On
<1>3. ASSUME Polled PROVE Quiet
  BY <1>3 DEF Polled
<1>4. ASSUME ReadSocket PROVE Quiet
  BY <1>4 DEF ReadSocket
<1>5. ASSUME AcceptFails PROVE Quiet
  BY <1>5 DEF AcceptFails
<1>6. ASSUME Count PROVE Quiet
  BY <1>6 DEF Count
<1>7. ASSUME Counted PROVE Quiet
  BY <1>7 DEF Counted
<1>8. ASSUME While PROVE Quiet
  BY <1>8 DEF While
<1>9. ASSUME Quiesce PROVE Quiet
  BY <1>9 DEF Quiesce
<1>10. ASSUME WakeListen PROVE Quiet
  BY <1>10 DEF WakeListen
<1>11. ASSUME ReadCount PROVE Quiet
  BY <1>11 DEF ReadCount
<1>12. ASSUME Shutdown PROVE Quiet
  BY <1>12 DEF Shutdown
<1>13. ASSUME JoinListen PROVE Quiet
  BY <1>13 DEF JoinListen, ListenJoined
<1>14. ASSUME AllJoined PROVE Quiet
  BY <1>14 DEF AllJoined, On
<1>15. ASSUME WakeAll PROVE Quiet
  BY <1>15 DEF WakeAll, ToWake, On
<1>16. ASSUME NEW t \in Threads, Lock(t) PROVE Quiet
  BY <1>16 DEF Lock
<1>17. ASSUME NEW t \in Threads, Uncount(t) PROVE Quiet
  BY <1>17 DEF Uncount
<1>18. ASSUME NEW t \in Threads, Uncounted(t) PROVE Quiet
  BY <1>18 DEF Uncounted
<1>19. ASSUME NEW t \in Threads, Unlock(t) PROVE Quiet
  BY <1>19 DEF Unlock, On, Caller
<1>20. ASSUME Stopped PROVE Quiet
  BY <1>20 DEF Stopped
<1> QED
  BY <1>1, <1>2, <1>3, <1>4, <1>5, <1>6, <1>7, <1>8, <1>9, <1>10, <1>11, 
     <1>12, <1>13, <1>14, <1>15, <1>16, <1>17, <1>18, <1>19, <1>20
  DEF Next, ListenStep, ListenLocks, StopStep, StopLocks, ConnectionStep, Cleanup, Threads

(* Only Lock and Unlock change who is in MHD_cleanup_connections.          *)
LEMMA MutexStep == ASSUME Shape, Mutex, Next PROVE Mutex'
<1> USE DaemonAssumption DEF Go, client, flags, locals, vars, Threads, Shape, Mutex, InCleanup
<1>1. CASE ReadLimit
  BY <1>1 DEF ReadLimit, AtLimit, PollsListenSocket
<1>2. CASE Poll
  BY <1>2 DEF Poll, PollReturns, On
<1>3. CASE Polled
  BY <1>3 DEF Polled
<1>4. CASE ReadSocket
  BY <1>4 DEF ReadSocket
<1>5. CASE AcceptFails
  BY <1>5 DEF AcceptFails
<1>6. CASE Count
  BY <1>6 DEF Count
<1>7. CASE Counted
  BY <1>7 DEF Counted
<1>8. CASE While
  BY <1>8 DEF While
<1>9. CASE Quiesce
  BY <1>9 DEF Quiesce
<1>10. CASE WakeListen
  BY <1>10 DEF WakeListen
<1>11. CASE ReadCount
  BY <1>11 DEF ReadCount
<1>12. CASE Shutdown
  BY <1>12 DEF Shutdown
<1>13. CASE JoinListen
  BY <1>13 DEF JoinListen, ListenJoined
<1>14. CASE AllJoined
  BY <1>14 DEF AllJoined, On
<1>15. CASE WakeAll
  BY <1>15 DEF WakeAll, ToWake, On
<1>16. CASE Accept
  BY <1>16 DEF Accept, On
<1>17. CASE Add
  BY <1>17 DEF Add, AtLimit
<1>18. CASE CreateThread
  BY <1>18 DEF CreateThread
<1>19. CASE CreateFails
  BY <1>19 DEF CreateFails
<1>20. CASE Insert
  BY <1>20 DEF Insert
<1>21. CASE Undo
  BY <1>21 DEF Undo, Undone
<1>22. CASE CloseListenSocket
  BY <1>22 DEF CloseListenSocket
<1>23. CASE NextToJoin
  BY <1>23 DEF NextToJoin, On
<1>24. CASE JoinNext
  BY <1>24 DEF JoinNext
<1>25. ASSUME NEW t \in Threads, Lock(t) PROVE Mutex'
  BY <1>25 DEF Lock
<1>26. ASSUME NEW t \in Threads, Uncount(t) PROVE Mutex'
  BY <1>26 DEF Uncount
<1>27. ASSUME NEW t \in Threads, Uncounted(t) PROVE Mutex'
  BY <1>27 DEF Uncounted
<1>28. ASSUME NEW t \in Threads, Unlock(t) PROVE Mutex'
  BY <1>28 DEF Unlock, On, Caller
<1>29. ASSUME NEW c \in Conns, Connect(c) PROVE Mutex'
  BY <1>29 DEF Connect
<1>30. ASSUME NEW c \in Conns, Finish(c) PROVE Mutex'
  BY <1>30 DEF Finish, Closed
<1>31. ASSUME NEW c \in Conns, SeeShutdown(c) PROVE Mutex'
  BY <1>31 DEF SeeShutdown, Closed
<1>32. ASSUME NEW c \in Conns, Retire(c) PROVE Mutex'
  BY <1>32 DEF Retire
<1>33. ASSUME NEW c \in Conns, Leave(c) PROVE Mutex'
  BY <1>33 DEF Leave
<1>34. ASSUME NEW t \in Threads, Reap(t) PROVE Mutex'
  BY <1>34 DEF Reap, On
<1>35. ASSUME NEW t \in Threads, Free(t) PROVE Mutex'
  BY <1>35 DEF Free, Joined
<1>36. CASE Stopped
  BY <1>36 DEF Stopped
<1> QED
  BY <1>1, <1>2, <1>3, <1>4, <1>5, <1>6, <1>7, <1>8, <1>9, <1>10, <1>11, 
     <1>12, <1>13, <1>14, <1>15, <1>16, <1>17, <1>18, <1>19, <1>20, <1>21, 
     <1>22, <1>23, <1>24, <1>25, <1>26, <1>27, <1>28, <1>29, <1>30, <1>31, 
     <1>32, <1>33, <1>34, <1>35, <1>36
  DEF Next, ListenStep, ListenLocks, StopStep, StopLocks, ConnectionStep, Cleanup, Threads

(* What the threads hold stays where it is until they move it.             *)
LEMMA HeldStep == ASSUME Shape, Mutex, Held, Charge, Stage, Next PROVE Held'
<1> USE DaemonAssumption DEF Shape, Go, client, flags, locals, Threads, Mutex, Held, InCleanup
<1>1. CASE Quiet
  BY <1>1 DEF Quiet, Busy
<1>2. CASE Accept
  BY <1>2 DEF Accept, On
<1>3. CASE Add
  BY <1>3 DEF Add, AtLimit
<1>4. CASE CreateThread
  BY <1>4 DEF CreateThread
<1>5. CASE CreateFails
  BY <1>5 DEF CreateFails
<1>6. CASE Insert
  <2>1. /\ pc["listen"] = "insert" /\ mutex = "free" /\ pos["listen"] \in Conns
        /\ pc' = [pc EXCEPT !["listen"] = "create"]
        /\ place' = [place EXCEPT ![pos["listen"]] = "listed"]
        /\ place[pos["listen"]] = "accepted"
        /\ pos' = pos /\ thread' = thread
    BY <1>6 DEF Insert
  <2>2. thread[pos["listen"]] = "none"
    BY <2>1 DEF Stage
  <2>3. \A t \in Threads : pc[t] # "join"
    BY <2>1
  <2> QED
    BY <2>1, <2>2, <2>3
<1>7. CASE Undo
  BY <1>7 DEF Undo, Undone, Charge
<1>8. CASE CloseListenSocket
  BY <1>8 DEF CloseListenSocket
<1>9. CASE NextToJoin
  <2>1. PICK c \in Conns : pos' = [pos EXCEPT !["stop"] = c]
    BY <1>9 DEF NextToJoin, On
  <2>2. pc["stop"] = "join all" /\ pc' = [pc EXCEPT !["stop"] = "joining"]
        /\ place' = place /\ thread' = thread
    BY <1>9 DEF NextToJoin
  <2> QED
    BY <2>1, <2>2
<1>10. CASE JoinNext
  BY <1>10 DEF JoinNext
<1>11. ASSUME NEW c \in Conns, Connect(c) PROVE Held'
  BY <1>11 DEF Connect, Charge
<1>12. ASSUME NEW c \in Conns, Finish(c) PROVE Held'
  BY <1>12 DEF Finish, Closed
<1>13. ASSUME NEW c \in Conns, SeeShutdown(c) PROVE Held'
  BY <1>13 DEF SeeShutdown, Closed
<1>14. ASSUME NEW c \in Conns, Retire(c) PROVE Held'
  BY <1>14 DEF Retire, Stage
<1>15. ASSUME NEW c \in Conns, Leave(c) PROVE Held'
  BY <1>15 DEF Leave
<1>16. ASSUME NEW t \in Threads, Reap(t) PROVE Held'
  BY <1>16 DEF Reap, On, Charge
<1>17. ASSUME NEW t \in Threads, Free(t) PROVE Held'
  BY <1>17 DEF Free, Joined, Charge
<1> QED
  BY Kinds, <1>1, <1>2, <1>3, <1>4, <1>5, <1>6, <1>7, <1>8, <1>9, <1>10, 
     <1>11, <1>12, <1>13, <1>14, <1>15, <1>16, <1>17

(* A connection that gets on its way gets into the hands of a thread.      *)
LEMMA ChargeStep == ASSUME Shape, Mutex, Held, Charge, Stage, Next PROVE Charge'
<1> USE DaemonAssumption DEF Shape, Go, client, flags, locals, Threads, Held, Charge
<1>1. CASE Quiet
  BY <1>1 DEF Quiet, Busy
<1>2. CASE Accept
  BY <1>2 DEF Accept, On
<1>3. CASE Add
  BY <1>3 DEF Add, AtLimit
<1>4. CASE CreateThread
  BY <1>4 DEF CreateThread
<1>5. CASE CreateFails
  BY <1>5 DEF CreateFails
<1>6. CASE Insert
  BY <1>6 DEF Insert
<1>7. CASE Undo
  BY <1>7 DEF Undo, Undone
<1>8. CASE CloseListenSocket
  BY <1>8 DEF CloseListenSocket
<1>9. CASE NextToJoin
  <2>1. PICK c \in Conns : pos' = [pos EXCEPT !["stop"] = c]
    BY <1>9 DEF NextToJoin, On
  <2>2. pc["stop"] = "join all" /\ pc' = [pc EXCEPT !["stop"] = "joining"]
        /\ place' = place /\ thread' = thread
    BY <1>9 DEF NextToJoin
  <2> QED
    BY <2>1, <2>2
<1>10. CASE JoinNext
  BY <1>10 DEF JoinNext
<1>11. ASSUME NEW c \in Conns, Connect(c) PROVE Charge'
  BY <1>11 DEF Connect
<1>12. ASSUME NEW c \in Conns, Finish(c) PROVE Charge'
  BY <1>12 DEF Finish, Closed, Stage
<1>13. ASSUME NEW c \in Conns, SeeShutdown(c) PROVE Charge'
  BY <1>13 DEF SeeShutdown, Closed
<1>14. ASSUME NEW c \in Conns, Retire(c) PROVE Charge'
  BY <1>14 DEF Retire, Stage
<1>15. ASSUME NEW c \in Conns, Leave(c) PROVE Charge'
  BY <1>15 DEF Leave, Stage
<1>16. ASSUME NEW t \in Threads, Reap(t) PROVE Charge'
  BY <1>16 DEF Reap, On, Mutex, InCleanup
<1>17. ASSUME NEW t \in Threads, Free(t) PROVE Charge'
  BY <1>17 DEF Free, Joined
<1> QED
  BY Kinds, <1>1, <1>2, <1>3, <1>4, <1>5, <1>6, <1>7, <1>8, <1>9, <1>10, 
     <1>11, <1>12, <1>13, <1>14, <1>15, <1>16, <1>17

(* A thread and the place of its connection move on together.              *)
LEMMA StageStep == ASSUME Shape, Held, Charge, Stage, Next PROVE Stage'
<1> USE DaemonAssumption DEF Shape, Go, client, flags, locals, Threads, Stage
<1>1. CASE Quiet
  BY <1>1 DEF Quiet
<1>2. CASE Accept
  BY <1>2 DEF Accept, On
<1>3. CASE Add
  BY <1>3 DEF Add, AtLimit, Held
<1>4. CASE CreateThread
  BY <1>4 DEF CreateThread, Held
<1>5. CASE CreateFails
  BY <1>5 DEF CreateFails
<1>6. CASE Insert
  BY <1>6 DEF Insert, Held
<1>7. CASE Undo
  BY <1>7 DEF Undo, Undone, Held
<1>8. CASE CloseListenSocket
  BY <1>8 DEF CloseListenSocket
<1>9. CASE NextToJoin
  BY <1>9 DEF NextToJoin, On
<1>10. CASE JoinNext
  BY <1>10 DEF JoinNext
<1>11. ASSUME NEW c \in Conns, Connect(c) PROVE Stage'
  BY <1>11 DEF Connect
<1>12. ASSUME NEW c \in Conns, Finish(c) PROVE Stage'
  BY <1>12 DEF Finish, Closed
<1>13. ASSUME NEW c \in Conns, SeeShutdown(c) PROVE Stage'
  BY <1>13 DEF SeeShutdown, Closed
<1>14. ASSUME NEW c \in Conns, Retire(c) PROVE Stage'
  BY <1>14 DEF Retire
<1>15. ASSUME NEW c \in Conns, Leave(c) PROVE Stage'
  BY <1>15 DEF Leave
<1>16. ASSUME NEW t \in Threads, Reap(t) PROVE Stage'
  BY <1>16 DEF Reap, On
<1>17. ASSUME NEW t \in Threads, Free(t) PROVE Stage'
  BY <1>17 DEF Free, Joined, Held
<1> QED
  BY Kinds, <1>1, <1>2, <1>3, <1>4, <1>5, <1>6, <1>7, <1>8, <1>9, <1>10, 
     <1>11, <1>12, <1>13, <1>14, <1>15, <1>16, <1>17

(* The steps of stop() are taken in order.                                 *)
LEMMA StoppingStep == ASSUME Shape, shutdown \in BOOLEAN, Stage, Stopping, Next PROVE Stopping'
<1> USE DaemonAssumption
    DEF Go, client, flags, locals, vars, Threads, Shape, Stopping, InCleanup, On
<1>1. CASE ReadLimit
  BY <1>1 DEF ReadLimit, AtLimit, PollsListenSocket
<1>2. CASE Poll
  BY <1>2 DEF Poll, PollReturns, On
<1>3. CASE Polled
  BY <1>3 DEF Polled
<1>4. CASE ReadSocket
  BY <1>4 DEF ReadSocket
<1>5. CASE AcceptFails
  BY <1>5 DEF AcceptFails
<1>6. CASE Count
  BY <1>6 DEF Count
<1>7. CASE Counted
  BY <1>7 DEF Counted
<1>8. CASE While
  BY <1>8 DEF While
<1>9. CASE Quiesce
  BY <1>9 DEF Quiesce
<1>10. CASE WakeListen
  BY <1>10 DEF WakeListen
<1>11. CASE ReadCount
  BY <1>11 DEF ReadCount
<1>12. CASE Shutdown
  BY <1>12 DEF Shutdown
<1>13. CASE JoinListen
  BY <1>13 DEF JoinListen, ListenJoined
<1>14. CASE AllJoined
  BY <1>14 DEF AllJoined, On
<1>15. CASE WakeAll
  BY <1>15 DEF WakeAll, ToWake, On
<1>16. CASE Accept
  BY <1>16 DEF Accept, On
<1>17. CASE Add
  BY <1>17 DEF Add, AtLimit
<1>18. CASE CreateThread
  BY <1>18 DEF CreateThread
<1>19. CASE CreateFails
  BY <1>19 DEF CreateFails
<1>20. CASE Insert
  BY <1>20 DEF Insert
<1>21. CASE Undo
  BY <1>21 DEF Undo, Undone
<1>22. CASE CloseListenSocket
  BY <1>22 DEF CloseListenSocket
<1>23. CASE NextToJoin
  BY <1>23 DEF NextToJoin, On
<1>24. CASE JoinNext
  BY <1>24 DEF JoinNext
<1>25. ASSUME NEW t \in Threads, Lock(t) PROVE Stopping'
  BY <1>25 DEF Lock
<1>26. ASSUME NEW t \in Threads, Uncount(t) PROVE Stopping'
  BY <1>26 DEF Uncount
<1>27. ASSUME NEW t \in Threads, Uncounted(t) PROVE Stopping'
  BY <1>27 DEF Uncounted
<1>28. ASSUME NEW t \in Threads, Unlock(t) PROVE Stopping'
  BY <1>28 DEF Unlock, On, Caller
<1>29. ASSUME NEW c \in Conns, Connect(c) PROVE Stopping'
  BY <1>29 DEF Connect
<1>30. ASSUME NEW c \in Conns, Finish(c) PROVE Stopping'
  BY <1>30 DEF Finish, Closed
<1>31. ASSUME NEW c \in Conns, SeeShutdown(c) PROVE Stopping'
  BY <1>31 DEF SeeShutdown, Closed
<1>32. ASSUME NEW c \in Conns, Retire(c) PROVE Stopping'
  BY <1>32 DEF Retire, Stage
<1>33. ASSUME NEW c \in Conns, Leave(c) PROVE Stopping'
  BY <1>33 DEF Leave
<1>34. ASSUME NEW t \in Threads, Reap(t) PROVE Stopping'
  <2>1. PICK c \in Conns : place' = [place EXCEPT ![c] = "reaped"]
    BY <1>34 DEF Reap, On
  <2>2. \A d \in Conns : place'[d] \in {"listed", "cleanup"} => place'[d] = place[d]
    BY <2>1
  <2>3. pc[t] = "reap" /\ pc' = [pc EXCEPT ![t] = "join"] /\ shutdown' = shutdown
    BY <1>34 DEF Reap
  <2> QED
    BY <2>2, <2>3
<1>35. ASSUME NEW t \in Threads, Free(t) PROVE Stopping'
  BY <1>35 DEF Free, Joined
<1>36. CASE Stopped
  BY <1>36 DEF Stopped
<1> QED
  BY <1>1, <1>2, <1>3, <1>4, <1>5, <1>6, <1>7, <1>8, <1>9, <1>10, <1>11, 
     <1>12, <1>13, <1>14, <1>15, <1>16, <1>17, <1>18, <1>19, <1>20, <1>21, 
     <1>22, <1>23, <1>24, <1>25, <1>26, <1>27, <1>28, <1>29, <1>30, <1>31, 
     <1>32, <1>33, <1>34, <1>35, <1>36
  DEF Next, ListenStep, ListenLocks, StopStep, StopLocks, ConnectionStep, Cleanup, Threads

(* The inductive invariant holds in every state of the program.            *)
LEMMA Invariant == Spec => []IInv
<1>1. ASSUME Init PROVE IInv
  <2>1. TypeOK
    <3>1. 0 \in 0 .. W - 1
      BY DaemonAssumption
    <3>2. /\ pc \in [Threads -> ListenLabels \cup StopLabels]
          /\ pc["listen"] \in ListenLabels /\ pc["stop"] \in StopLabels
      BY <1>1 DEF Init, Threads, ListenLabels, StopLabels
    <3>3. place \in [Conns -> Places] /\ thread \in [Conns -> Stages]
      BY <1>1 DEF Init, Places, Stages
    <3>4. pos \in [Threads -> Conns \cup {NoConn}] /\ tmp \in [Threads -> 0 .. W - 1]
      BY <1>1, <3>1 DEF Init
    <3> QED
      BY <1>1, <3>1, <3>2, <3>3, <3>4 DEF Init, TypeOK
  <2>2. pc["listen"] = "limit" /\ pc["stop"] = "running" /\ mutex = "free" /\ ~shutdown
    BY <1>1 DEF Init, Threads
  <2>3. \A c \in Conns : place[c] = "outside" /\ thread[c] = "none"
    BY <1>1 DEF Init, Threads
  <2> QED
    BY <2>1, <2>2, <2>3 DEF IInv, Mutex, Held, Charge, Stage, Stopping, InCleanup, Threads
<1>2. IInv /\ [Next]_vars => IInv'
  <2>1. ASSUME IInv, Next PROVE IInv'
    <3>1. Shape /\ shutdown \in BOOLEAN
      BY <2>1 DEF IInv, TypeOK, Shape
    <3> QED
      BY <2>1, <3>1, TypeOKStep, MutexStep, HeldStep, ChargeStep, StageStep, StoppingStep
      DEF IInv
  <2>2. ASSUME IInv, UNCHANGED vars PROVE IInv'
    <3>1. TypeOK'
      BY <2>2 DEF IInv, vars, TypeOK
    <3>2. Mutex' /\ Held' /\ Charge' /\ Stage'
      BY <2>2 DEF IInv, vars, Mutex, Held, Charge, Stage
    <3>3. Stopping'
      BY <2>2 DEF IInv, vars, Stopping, On
    <3> QED
      BY <3>1, <3>2, <3>3 DEF IInv
  <2> QED
    BY <2>1, <2>2
<1>3. Init => IInv
  BY <1>1
<1> QED
  BY <1>2, <1>3, PTL DEF Spec

(* The state has its type, whatever the threads do.                        *)
THEOREM TypeCorrect == Spec => []TypeOK
<1>1. IInv => TypeOK
  BY DEF IInv
<1> QED
  BY Invariant, <1>1, PTL

(* MHD_cleanup_connections frees no connection whose thread still runs,    *)
(* whichever of the two threads calls it.                                  *)
THEOREM ThreadsOutlived == Spec => []NoUseAfterFree
<1>1. IInv => NoUseAfterFree
  BY DEF IInv, Stage, NoUseAfterFree, On, TypeOK, Stages
<1> QED
  BY Invariant, <1>1, PTL

(* When stop() returns every thread has ended and every connection is      *)
(* freed: the daemon and its mutex can go.                                 *)
THEOREM StopTearsDown == Spec => []Teardown
<1>1. ASSUME IInv, pc["stop"] = "done"
      PROVE  /\ pc["listen"] = "ended" /\ mutex = "free" /\ Live = {}
             /\ \A c \in Conns : thread[c] \in {"none", "ended"}
  <2>1. pc["listen"] = "ended" /\ On("listed") = {} /\ On("cleanup") = {}
    BY <1>1 DEF IInv, Stopping
  <2>2. mutex = "free"
    BY <1>1, <2>1 DEF IInv, Mutex, InCleanup, TypeOK, Threads
  <2>3. \A c \in Conns : place[c] \notin {"accepted", "reaped", "listed", "cleanup"}
    BY <1>1, <2>1 DEF IInv, Charge, On, Threads
  <2>4. Live = {}
    BY <2>3 DEF Live
  <2>5. \A c \in Conns : thread[c] \in {"none", "ended"}
    BY <1>1, <2>3 DEF IInv, Stage, TypeOK, Stages
  <2> QED
    BY <2>1, <2>2, <2>4, <2>5
<1>2. IInv => Teardown
  BY <1>1 DEF Teardown
<1> QED
  BY Invariant, <1>2, PTL
-----------------------------------------------------------------------------
(***************************************************************************)
(* The connection limit: there are never more connections than             *)
(* set_max_connections allows and none is accepted to be refused, although *)
(* the counter is changed by two threads without a common lock.  It can be *)
(* wrong only when the listen thread has accepted its last connection.     *)
(***************************************************************************)
Number == Cardinality(Live)

(* The connection being added is not counted yet.                          *)
Adding ==
  IF pc["listen"] \in {"add", "insert", "create", "undo", "count", "counted"} THEN 1 ELSE 0

(* The connection a thread has freed is still counted.                     *)
Freeing(t) == IF pc[t] \in {"uncount", "uncounted"} THEN 1 ELSE 0

Accepting == {"poll", "polled", "accept", "accept4"}

(* The counter can still be trusted: stop() has not been called, or the    *)
(* listen thread is on its way to its last connection.                     *)
Fresh ==
  \/ pc["stop"] = "running"
  \/ ready /\ pc["listen"] \in Accepting \cup {"add", "insert", "create", "undo"}

(* What is invariant of the counter and the limit.                         *)
Limits ==
  /\ socket_fd <=> pc["stop"] = "running"
  /\ Number <= Limit
  /\ Fresh =>
       /\ connections + Adding = Number + Freeing("listen") + Freeing("stop")
       /\ Number + Freeing("listen") + Freeing("stop") <= Limit
       /\ pc["listen"] = "counted" => tmp["listen"] = connections
       /\ \A t \in Threads : pc[t] = "uncounted" => tmp[t] = connections
  /\ ready /\ pc["listen"] \in Accepting => Number + Freeing("stop") < Limit
  /\ pc["listen"] \in {"add", "accept", "accept4"} => ready
  /\ On("refused") = {}

(* The connections the daemon holds are finitely many.                     *)
LEMMA LiveFinite == IsFiniteSet(Live) /\ Number \in Nat
<1>1. Live \subseteq Conns
  BY DEF Live
<1> QED
  BY <1>1, DaemonAssumption, FS_Subset, FS_CardinalityType DEF Number

(* Their number stays if no connection moves.                              *)
LEMMA NothingMoves ==
  ASSUME place' = place PROVE Number' = Number /\ On("refused")' = On("refused")
  BY DEF Number, Live, On

(* One more connection, and one less.                                      *)
LEMMA OneMore ==
  ASSUME NEW c \in Conns, c \notin Live, Live' = Live \cup {c} PROVE Number' = Number + 1
  BY LiveFinite, FS_AddElement DEF Number

LEMMA OneLess ==
  ASSUME NEW c \in Live, Live' = Live \ {c} PROVE Number' = Number - 1
  BY LiveFinite, FS_RemoveElement DEF Number

(* The connection being added is one of them.                              *)
LEMMA NumberOfAdded ==
  ASSUME Held, pc["listen"] \in {"add", "insert", "create", "undo"} PROVE Number > 0
<1>1. pos["listen"] \in Live
  BY DEF Held, Live
<1> QED
  BY <1>1, LiveFinite, FS_EmptySet DEF Number

(* The arithmetic of the counter does not wrap around below the limit.     *)
LEMMA NoWrap ==
  ASSUME NEW n \in 0 .. Limit
  PROVE  /\ n < Limit => (n + 1) % W = n + 1
         /\ n > 0 => (n + W - 1) % W = n - 1
  BY DaemonAssumption

(* Every step keeps to the limit.                                          *)
LEMMA LimitsStep ==
  ASSUME Shape, connections \in 0 .. W - 1, tmp \in [Threads -> 0 .. W - 1],
         ready \in BOOLEAN, socket_fd \in BOOLEAN,
         Mutex, Held, Charge, Stage, Limits, Next
  PROVE  Limits'
<1> USE DaemonAssumption, LiveFinite
    DEF Shape, Go, client, flags, locals, Threads, Limits, Fresh, Adding, Freeing, Accepting
<1>1. CASE ReadLimit
  <2>1. Number' = Number /\ On("refused")' = On("refused")
    BY <1>1, NothingMoves DEF ReadLimit
  <2>2. ready' => pc["stop"] = "running" /\ connections # Limit
    BY <1>1 DEF ReadLimit, AtLimit, PollsListenSocket
  <2>3. ready' => Number < Limit
    BY <1>1, <2>2 DEF ReadLimit
  <2> QED
    BY <1>1, <2>1, <2>2, <2>3 DEF ReadLimit
<1>2. CASE Poll
  BY <1>2, NothingMoves DEF Poll, PollReturns, On
<1>3. CASE Polled
  BY <1>3, NothingMoves DEF Polled
<1>4. CASE ReadSocket
  BY <1>4, NothingMoves DEF ReadSocket
<1>5. CASE AcceptFails
  BY <1>5, NothingMoves DEF AcceptFails
<1>6. CASE Count
  <2>1. Number' = Number /\ On("refused")' = On("refused")
    BY <1>6, NothingMoves DEF Count
  <2>2. /\ pc["listen"] = "count" /\ pc' = [pc EXCEPT !["listen"] = "counted"]
        /\ tmp'["listen"] = connections /\ tmp'["stop"] = tmp["stop"]
        /\ connections' = connections /\ ready' = ready /\ socket_fd' = socket_fd
    BY <1>6 DEF Count
  <2> QED
    BY <2>1, <2>2
<1>7. CASE Counted
  BY <1>7, NothingMoves DEF Counted
<1>8. CASE While
  BY <1>8, NothingMoves DEF While
<1>9. CASE Quiesce
  BY <1>9, NothingMoves DEF Quiesce
<1>10. CASE WakeListen
  BY <1>10, NothingMoves DEF WakeListen
<1>11. CASE ReadCount
  BY <1>11, NothingMoves DEF ReadCount
<1>12. CASE Shutdown
  BY <1>12, NothingMoves DEF Shutdown
<1>13. CASE JoinListen
  BY <1>13, NothingMoves DEF JoinListen, ListenJoined
<1>14. CASE AllJoined
  BY <1>14, NothingMoves DEF AllJoined, On
<1>15. CASE WakeAll
  BY <1>15, NothingMoves DEF WakeAll, ToWake, On
<1>16. CASE Accept
  <2>1. PICK c \in Conns : place[c] = "backlog" /\ place' = [place EXCEPT ![c] = "accepted"]
    BY <1>16 DEF Accept, On
  <2>2. Live' = Live \cup {c} /\ c \notin Live /\ On("refused")' = On("refused")
    BY <2>1 DEF Live, On
  <2>3. Number' = Number + 1
    BY <2>2, OneMore
  <2> QED
    BY <1>16, <2>2, <2>3 DEF Accept
<1>17. CASE Add
  BY <1>17, NothingMoves DEF Add, AtLimit
<1>18. CASE CreateThread
  BY <1>18, NothingMoves DEF CreateThread
<1>19. CASE CreateFails
  BY <1>19, NothingMoves DEF CreateFails
<1>20. CASE Insert
  <2>1. Live' = Live /\ On("refused")' = On("refused")
    BY <1>20 DEF Insert, Held, Live, On
  <2>2. Number' = Number
    BY <2>1 DEF Number
  <2> QED
    BY <1>20, <2>1, <2>2 DEF Insert
<1>21. CASE Undo
  <2> DEFINE c == pos["listen"]
  <2>1. c \in Live /\ Live' = Live \ {c} /\ On("refused")' = On("refused")
    BY <1>21 DEF Undo, Held, Live, On
  <2>2. Number' = Number - 1
    BY <2>1, OneLess
  <2>3. Number \in Nat /\ Number' \in Nat
    BY LiveFinite, <2>1, <2>2, FS_Subset, FS_CardinalityType DEF Number
  <2> QED
    BY <1>21, <2>1, <2>2, <2>3 DEF Undo, Undone
<1>22. CASE CloseListenSocket
  <2>1. Live' = Live /\ On("refused")' = On("refused")
    BY <1>22 DEF CloseListenSocket, Live, On
  <2>2. Number' = Number
    BY <2>1 DEF Number
  <2> QED
    BY <1>22, <2>1, <2>2 DEF CloseListenSocket
<1>23. CASE NextToJoin
  BY <1>23, NothingMoves DEF NextToJoin, On
<1>24. CASE JoinNext
  BY <1>24, NothingMoves DEF JoinNext
<1>25. ASSUME NEW t \in Threads, Lock(t) PROVE Limits'
  BY <1>25, NothingMoves DEF Lock
<1>26. ASSUME NEW t \in Threads, Uncount(t) PROVE Limits'
  <2>1. Number' = Number /\ On("refused")' = On("refused")
    BY <1>26, NothingMoves DEF Uncount
  <2>2. /\ pc[t] = "uncount" /\ pc' = [pc EXCEPT ![t] = "uncounted"]
        /\ tmp'[t] = connections /\ \A u \in Threads \ {t} : tmp'[u] = tmp[u]
        /\ connections' = connections /\ ready' = ready /\ socket_fd' = socket_fd
    BY <1>26 DEF Uncount
  <2>3. Fresh' = Fresh /\ Adding' = Adding
    BY <2>2
  <2>4. \A u \in Threads : Freeing(u)' = Freeing(u)
    BY <2>2
  <2> QED
    BY <2>1, <2>2, <2>3, <2>4
<1>27. ASSUME NEW t \in Threads, Uncounted(t) PROVE Limits'
  <2>1. Number' = Number /\ On("refused")' = On("refused")
    BY <1>27, NothingMoves DEF Uncounted
  <2>2. /\ pc[t] = "uncounted" /\ pc' = [pc EXCEPT ![t] = "reap"] /\ tmp' = tmp
        /\ connections' = (tmp[t] + W - 1) % W /\ ready' = ready /\ socket_fd' = socket_fd
    BY <1>27 DEF Uncounted
  <2>3. Fresh' = Fresh /\ Adding' = Adding /\ Freeing(t) = 1 /\ Freeing(t)' = 0
    BY <2>2
  <2>4. \A u \in Threads \ {t} : Freeing(u)' = 0 /\ Freeing(u) = 0 /\ pc[u]' # "uncounted"
    BY <2>2 DEF Mutex, InCleanup
  <2>5. ASSUME Fresh PROVE connections' = connections - 1 /\ pc["listen"] # "counted"
    <3>1. tmp[t] = connections /\ connections <= Limit
      BY <2>2, <2>3, <2>4, <2>5
    <3>2. pc["listen"] # "counted" /\ Number >= Adding
      <4>1. pc["listen"] \notin {"count", "counted"}
        BY <2>2, <2>5
      <4> QED
        BY <4>1, NumberOfAdded
    <3>3. connections > 0
      BY <2>3, <2>4, <2>5, <3>2
    <3> QED
      BY <2>2, <3>1, <3>2, <3>3, NoWrap
  <2> QED
    BY <2>1, <2>2, <2>3, <2>4, <2>5
<1>28. ASSUME NEW t \in Threads, Unlock(t) PROVE Limits'
  BY <1>28, NothingMoves DEF Unlock, On, Caller
<1>29. ASSUME NEW c \in Conns, Connect(c) PROVE Limits'
  <2>1. Live' = Live /\ On("refused")' = On("refused")
    BY <1>29 DEF Connect, Live, On
  <2>2. Number' = Number
    BY <2>1 DEF Number
  <2> QED
    BY <1>29, <2>1, <2>2 DEF Connect
<1>30. ASSUME NEW c \in Conns, Finish(c) PROVE Limits'
  BY <1>30, NothingMoves DEF Finish, Closed
<1>31. ASSUME NEW c \in Conns, SeeShutdown(c) PROVE Limits'
  BY <1>31, NothingMoves DEF SeeShutdown, Closed
<1>32. ASSUME NEW c \in Conns, Retire(c) PROVE Limits'
  <2>1. Live' = Live /\ On("refused")' = On("refused")
    BY <1>32 DEF Retire, Stage, Live, On
  <2>2. Number' = Number
    BY <2>1 DEF Number
  <2> QED
    BY <1>32, <2>1, <2>2 DEF Retire
<1>33. ASSUME NEW c \in Conns, Leave(c) PROVE Limits'
  BY <1>33, NothingMoves DEF Leave
<1>34. ASSUME NEW t \in Threads, Reap(t) PROVE Limits'
  <2>1. Live' = Live /\ On("refused")' = On("refused")
    BY <1>34 DEF Reap, Live, On
  <2>2. Number' = Number
    BY <2>1 DEF Number
  <2> QED
    BY <1>34, <2>1, <2>2 DEF Reap
<1>35. ASSUME NEW t \in Threads, Free(t) PROVE Limits'
  <2> DEFINE c == pos[t]
  <2>1. c \in Live /\ Live' = Live \ {c} /\ On("refused")' = On("refused")
    BY <1>35 DEF Free, Held, Live, On
  <2>2. Number' = Number - 1
    BY <2>1, OneLess
  <2>3. pc[t] = "join" /\ pc' = [pc EXCEPT ![t] = "uncount"] /\ connections' = connections
        /\ tmp' = tmp /\ ready' = ready /\ socket_fd' = socket_fd
    BY <1>35 DEF Free
  <2>4. \A u \in Threads : pc[u] \in {"uncount", "uncounted"} => FALSE
    BY <2>3 DEF Mutex, InCleanup
  <2> QED
    BY <2>1, <2>2, <2>3, <2>4
<1>36. CASE Stopped
  BY <1>36, NothingMoves DEF Stopped, vars
<1> QED
  BY <1>1, <1>2, <1>3, <1>4, <1>5, <1>6, <1>7, <1>8, <1>9, <1>10, <1>11, 
     <1>12, <1>13, <1>14, <1>15, <1>16, <1>17, <1>18, <1>19, <1>20, <1>21, 
     <1>22, <1>23, <1>24, <1>25, <1>26, <1>27, <1>28, <1>29, <1>30, <1>31, 
     <1>32, <1>33, <1>34, <1>35, <1>36
  DEF Next, ListenStep, ListenLocks, StopStep, StopLocks, ConnectionStep, Cleanup, Threads

(* The counter and the limit agree in every state of the program.          *)
LEMMA LimitsInvariant == Spec => []Limits
<1>1. ASSUME Init PROVE Limits
  <2>1. Live = {} /\ On("refused") = {}
    BY <1>1 DEF Init, Live, On
  <2>2. Number = 0
    BY <2>1, FS_EmptySet DEF Number
  <2>3. pc["listen"] = "limit" /\ pc["stop"] = "running" /\ connections = 0 /\ socket_fd
    BY <1>1 DEF Init, Threads
  <2> QED
    BY <2>1, <2>2, <2>3, DaemonAssumption DEF Limits, Fresh, Adding, Freeing, Accepting, Threads
<1>2. ASSUME IInv, Limits, [Next]_vars PROVE Limits'
  <2>1. CASE Next
    <3>1. /\ Shape /\ connections \in 0 .. W - 1 /\ tmp \in [Threads -> 0 .. W - 1]
          /\ ready \in BOOLEAN /\ socket_fd \in BOOLEAN
      BY <1>2 DEF IInv, TypeOK, Shape
    <3> QED
      BY <1>2, <2>1, <3>1, LimitsStep DEF IInv
  <2>2. CASE UNCHANGED vars
    <3>1. Number' = Number /\ On("refused")' = On("refused")
      BY <2>2, NothingMoves DEF vars
    <3> QED
      BY <1>2, <2>2, <3>1 DEF vars, Limits, Fresh, Adding, Freeing, Accepting
  <2> QED
    BY <1>2, <2>1, <2>2
<1>3. (Init => Limits) /\ (IInv /\ Limits /\ [Next]_vars => Limits')
  BY <1>1, <1>2
<1> QED
  BY <1>3, Invariant, PTL DEF Spec

(* set_max_connections is kept, also while stop() runs and the counter,    *)
(* decremented by its thread, may be wrong.                                *)
THEOREM ConnectionLimit == Spec => []LimitKept
<1>1. Limits => LimitKept
  BY DEF Limits, LimitKept, Number
<1> QED
  BY <1>1, LimitsInvariant, PTL

(* The second check of the limit, in internal_add_connection, never fails. *)
THEOREM NoneRefused == Spec => []NeverRefused
<1>1. Limits => NeverRefused
  BY DEF Limits, NeverRefused
<1> QED
  BY <1>1, LimitsInvariant, PTL

(* Until stop() is called the counter is right.                            *)
THEOREM CounterExact == Spec => []CountExact
<1>1. ASSUME Limits, pc["stop"] = "running"
      PROVE  connections + Adding = Number + Freeing("listen")
  BY <1>1, LiveFinite DEF Limits, Fresh, Freeing
<1>2. Limits => CountExact
  BY <1>1 DEF CountExact, Adding, Freeing, Number
<1> QED
  BY <1>2, LimitsInvariant, PTL
=============================================================================
