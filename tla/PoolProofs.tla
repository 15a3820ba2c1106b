----------------------------- MODULE PoolProofs -----------------------------
(***************************************************************************)
(* The workers of a pool (Pool, PoolStart): until stop() is called every   *)
(* worker counts its connections exactly and the limit that was divided    *)
(* over them holds, when stop() has returned nothing is left, and a start  *)
(* that fails gives the port back.  For any number of workers and          *)
(* connections and any limit, from a start that may fail at any step.      *)
(***************************************************************************)
EXTENDS PoolStart, Integers, FiniteSetTheorems, FunctionTheorems, TLAPS

Number(w) == Cardinality(Live(w))

Adding(w) == IF pc[w] \in {"add", "counted"} THEN 1 ELSE 0
Freeing(w) == IF pc[w] \in {"uncount", "uncounted"} THEN 1 ELSE 0

(* The socket a worker has accepted and not yet added is in its hands.     *)
Hands ==
  /\ \A c \in Conns : place[c] = "accepted" => pc[worker[c]] = "add" /\ pos[worker[c]] = c
  /\ \A w \in Workers : pc[w] = "add" =>
       pos[w] \in Conns /\ place[pos[w]] = "accepted" /\ worker[pos[w]] = w

(* MHD_stop_daemon joins the workers one after the other, and leaves       *)
(* nothing of those it has joined.                                         *)
Gone(w) == pc[w] = "ended" /\ Live(w) = {}
Joining ==
  /\ pc[Stop] = "join" => \A w \in Workers : w < i => Gone(w)
  /\ pc[Stop] = "done" => \A w \in Workers : Gone(w)

(* What worker w knows of its limit before it accepts.                     *)
Room(w) ==
  pc[w] \in {"accept", "add"} \/ (ready[w] /\ pc[w] \in {"poll", "walk"}) =>
    connections[w] < WorkerLimit(w)

(* The counter of worker w, which only that worker changes.                *)
Counter(w) ==
  /\ connections[w] + Adding(w) = Number(w) + Freeing(w)
  /\ Number(w) + Freeing(w) <= WorkerLimit(w)
  /\ pc[w] \in {"counted", "uncounted"} => tmp[w] = connections[w]
  /\ pc[w] = "removing" =>
       pos[w] \in Conns /\ place[pos[w]] = "cleanup" /\ worker[pos[w]] = w

Unstopped == pc[Stop] \in {"starting", "running"}

(* Until stop() is called, and after it.                                   *)
Counting ==
  Unstopped =>
    /\ ~fault /\ \A c \in Conns : place[c] # "refused"
    /\ \A w \in Workers : Room(w) /\ Counter(w)
    /\ pc[Stop] = "starting" => \A w \in Workers : created <= w => pc[w] = "new"

PoolInv ==
  /\ TypeOK /\ created \in 0 .. PoolSize
  /\ ~fault => Hands /\ Joining
  /\ Counting

-----------------------------------------------------------------------------
(* Numbers and sets.                                                       *)
LEMMA Sizes ==
  /\ PoolSize \in Nat /\ PoolSize > 0 /\ Limit \in Nat /\ W \in Nat /\ W > Limit + 1
  /\ Stop \in Nat /\ Stop \notin Workers /\ IsFiniteSet(Conns) /\ NoConn \notin Conns
  /\ \A w \in Workers : w \in Nat /\ w # Stop /\ w < PoolSize /\ w \in Threads
  /\ Stop \in Threads
BY PoolAssumption DEF Workers, Stop, Threads

LEMMA Quotient ==
  /\ Limit \div PoolSize \in Nat /\ Limit % PoolSize \in Nat
  /\ Limit % PoolSize < PoolSize
  /\ Limit = PoolSize * (Limit \div PoolSize) + (Limit % PoolSize)
BY Sizes

(* The share of one worker, and the places of the workers side by side.    *)
LEMMA Place ==
  ASSUME NEW w \in Workers, NEW n \in Nat, n < WorkerLimit(w)
  PROVE  w + PoolSize * n \in Nat /\ w + PoolSize * n < Limit
<1> DEFINE d == Limit \div PoolSize
           r == Limit % PoolSize
<1>1. /\ d \in Nat /\ r \in Nat /\ r < PoolSize /\ Limit = PoolSize * d + r
      /\ PoolSize \in Nat /\ PoolSize > 0 /\ w \in Nat /\ w < PoolSize
  BY Sizes, Quotient
<1>2. WorkerLimit(w) = d + (IF w < r THEN 1 ELSE 0)
  BY DEF WorkerLimit
<1> HIDE DEF d, r
<1>3. PoolSize * n \in Nat
  BY <1>1
<1>4. CASE n < d
  <2>1. n + 1 <= d
    BY <1>1, <1>4
  <2>2. PoolSize * (n + 1) <= PoolSize * d
    BY <1>1, <2>1
  <2>3. PoolSize * (n + 1) = PoolSize * n + PoolSize
    BY <1>1
  <2>4. PoolSize * d \in Nat /\ PoolSize * (n + 1) \in Nat
    BY <1>1
  <2> QED
    BY <1>1, <1>3, <2>2, <2>3, <2>4
<1>5. CASE n >= d
  <2>1. n = d /\ w < r
    BY <1>1, <1>2, <1>5
  <2> QED
    BY <1>1, <1>3, <2>1
<1> QED
  BY <1>1, <1>4, <1>5

LEMMA PlacesApart ==
  ASSUME NEW v \in Workers, NEW w \in Workers, NEW m \in Nat, NEW n \in Nat,
         v + PoolSize * m = w + PoolSize * n
  PROVE  v = w /\ m = n
<1>1. PoolSize \in Nat /\ PoolSize > 0 /\ v \in 0 .. PoolSize - 1 /\ w \in 0 .. PoolSize - 1
  BY Sizes DEF Workers
<1>2. ASSUME NEW a \in Nat, NEW b \in Nat, a < b PROVE PoolSize * a + PoolSize <= PoolSize * b
  <2>1. a + 1 <= b
    BY <1>2
  <2>2. PoolSize * (a + 1) <= PoolSize * b
    BY <1>1, <2>1
  <2>3. PoolSize * (a + 1) = PoolSize * a + PoolSize
    BY <1>1
  <2> QED
    BY <2>2, <2>3
<1>3. PoolSize * m \in Nat /\ PoolSize * n \in Nat
  BY <1>1
<1>4. ~(m < n)
  BY <1>1, <1>2, <1>3
<1>5. ~(n < m)
  BY <1>1, <1>2, <1>3
<1>6. m = n
  BY <1>4, <1>5
<1> QED
  BY <1>1, <1>3, <1>6

LEMMA Share == ASSUME NEW w \in Workers PROVE WorkerLimit(w) \in Nat /\ WorkerLimit(w) <= Limit
<1>1. WorkerLimit(w) \in Nat
  BY Quotient, Sizes DEF WorkerLimit
<1>2. CASE WorkerLimit(w) = 0
  BY <1>2, Sizes
<1>3. CASE WorkerLimit(w) # 0
  <2>1. WorkerLimit(w) - 1 \in Nat /\ WorkerLimit(w) - 1 < WorkerLimit(w)
    BY <1>1, <1>3
  <2>2. w + PoolSize * (WorkerLimit(w) - 1) < Limit
    BY <2>1, Place
  <2>3. PoolSize * (WorkerLimit(w) - 1) >= WorkerLimit(w) - 1
    <3> DEFINE n == WorkerLimit(w) - 1
    <3>1. n \in Nat /\ PoolSize \in Nat /\ PoolSize >= 1
      BY <2>1, Sizes
    <3> HIDE DEF n
    <3>2. (PoolSize - 1) * n \in Nat /\ PoolSize * n = (PoolSize - 1) * n + n
      BY <3>1
    <3>3. PoolSize * n >= n
      BY <3>1, <3>2
    <3> QED
      BY <3>3 DEF n
  <2>4. PoolSize * (WorkerLimit(w) - 1) \in Nat
    BY <2>1, Sizes
  <2> QED
    BY <1>1, <2>1, <2>2, <2>3, <2>4, Sizes
<1> QED
  BY <1>2, <1>3

LEMMA NextIs ==
  ASSUME i \in Workers
  PROVE  NextWorker = (IF i = PoolSize - 1 THEN 0 ELSE i + 1) /\ NextWorker \in Workers
<1>1. i \in Nat /\ i < PoolSize /\ PoolSize \in Nat /\ PoolSize > 0
  BY Sizes
<1>2. CASE i = PoolSize - 1
  BY <1>1, <1>2 DEF NextWorker, Workers
<1>3. CASE i # PoolSize - 1
  BY <1>1, <1>3 DEF NextWorker, Workers
<1> QED
  BY <1>2, <1>3

-----------------------------------------------------------------------------
(* Where the limit of every worker holds, that of the pool holds: the n-th *)
(* connection of worker w is number w + n * PoolSize of at most Limit.     *)
LEMMA LiveFinite == ASSUME NEW w PROVE IsFiniteSet(Live(w)) /\ Number(w) \in Nat
<1>1. Live(w) \subseteq Conns
  BY DEF Live
<1> QED
  BY <1>1, Sizes, FS_Subset, FS_CardinalityType DEF Number

LEMMA PoolLimit ==
  ASSUME \A w \in Workers : Number(w) <= WorkerLimit(w)
  PROVE  Cardinality(UNION {Live(w) : w \in Workers}) <= Limit
<1> DEFINE all == UNION {Live(w) : w \in Workers}
           nth(w) == CHOOSE f : f \in Bijection(Live(w), 1 .. Number(w))
           number == [c \in all |-> worker[c] + PoolSize * (nth(worker[c])[c] - 1)]
<1>1. \A w : nth(w) \in Bijection(Live(w), 1 .. Number(w))
  <2> TAKE w
  <2>1. ExistsBijection(1 .. Number(w), Live(w))
    BY LiveFinite, FS_CardinalityType DEF Number
  <2>2. ExistsBijection(Live(w), 1 .. Number(w))
    BY <2>1, Fun_ExistsBijSymmetric
  <2> QED
    BY <2>2 DEF ExistsBijection
<1> HIDE DEF nth
<1>2. \A c \in all : worker[c] \in Workers /\ c \in Live(worker[c])
  BY DEF Live
<1>3. \A c \in all : nth(worker[c])[c] \in 1 .. Number(worker[c])
  BY <1>1, <1>2 DEF Bijection, Injection
<1>4. \A c \in all : number[c] \in 0 .. Limit - 1
  <2> TAKE c \in all
  <2>1. /\ worker[c] \in Workers /\ nth(worker[c])[c] \in 1 .. Number(worker[c])
        /\ Number(worker[c]) \in Nat /\ Number(worker[c]) <= WorkerLimit(worker[c])
        /\ WorkerLimit(worker[c]) \in Nat
    BY <1>2, <1>3, LiveFinite, Share
  <2>2. nth(worker[c])[c] - 1 \in Nat /\ nth(worker[c])[c] - 1 < WorkerLimit(worker[c])
    BY <2>1
  <2> QED
    BY <2>1, <2>2, Place, Sizes
<1>5. ASSUME NEW b \in all, NEW c \in all, number[b] = number[c] PROVE b = c
  <2>1. /\ worker[b] \in Workers /\ nth(worker[b])[b] - 1 \in Nat
        /\ worker[c] \in Workers /\ nth(worker[c])[c] - 1 \in Nat
    BY <1>2, <1>3, LiveFinite
  <2>2. worker[b] = worker[c] /\ nth(worker[b])[b] - 1 = nth(worker[c])[c] - 1
    BY <1>5, <2>1, PlacesApart
  <2>3. nth(worker[c])[b] = nth(worker[c])[c] /\ b \in Live(worker[c]) /\ c \in Live(worker[c])
    BY <1>2, <1>3, <2>2, LiveFinite
  <2> QED
    BY <1>1, <2>3 DEF Bijection, Injection, IsInjective
<1>6. number \in Injection(all, 0 .. Limit - 1)
  BY <1>4, <1>5 DEF Injection, IsInjective
<1>7. IsFiniteSet(0 .. Limit - 1) /\ Cardinality(0 .. Limit - 1) = Limit
  BY FS_Interval, Sizes
<1> QED
  BY <1>6, <1>7, FS_Injection

-----------------------------------------------------------------------------
LEMMA SameNumber == ASSUME NEW w, Live(w)' = Live(w) PROVE Number(w)' = Number(w)
BY DEF Number

LEMMA OneMore ==
  ASSUME NEW w, NEW c, c \notin Live(w), Live(w)' = Live(w) \cup {c}
  PROVE  Number(w)' = Number(w) + 1
BY LiveFinite, FS_AddElement DEF Number

LEMMA OneLess ==
  ASSUME NEW w, NEW c \in Live(w), Live(w)' = Live(w) \ {c} PROVE Number(w)' = Number(w) - 1
BY LiveFinite, FS_RemoveElement DEF Number

(* What a step of worker w leaves alone.                                   *)
Apart(w) ==
  /\ pc'[Stop] = pc[Stop] /\ i' = i /\ created' = created
  /\ \A v \in Workers \ {w} :
       /\ pc'[v] = pc[v] /\ pos'[v] = pos[v] /\ tmp'[v] = tmp[v]
       /\ connections'[v] = connections[v] /\ ready'[v] = ready[v]
       /\ Live(v)' \subseteq Live(v) /\ (Unstopped => Live(v)' = Live(v))
  /\ Unstopped => \A c \in Conns : place[c] = "cleanup" /\ worker[c] # w =>
       place'[c] = "cleanup" /\ worker'[c] = worker[c]

LEMMA OthersKept ==
  ASSUME PoolInv, ~fault, NEW w \in Workers, Apart(w), pc[w] \notin {"new", "ended"},
         Unstopped => ~fault' /\ (\A c \in Conns : place'[c] # "refused") /\ Room(w)' /\ Counter(w)'
  PROVE  Joining' /\ Counting'
<1>1. \A v \in Workers : Gone(v) => Gone(v)'
  <2> SUFFICES ASSUME NEW v \in Workers, Gone(v) PROVE Gone(v)'
    OBVIOUS
  <2>1. v # w
    BY DEF Gone
  <2> QED
    BY <2>1 DEF Gone, Apart
<1>2. Joining'
  BY <1>1 DEF PoolInv, Joining, Apart
<1>3. ASSUME Unstopped, NEW v \in Workers, v # w PROVE Room(v)' /\ Counter(v)'
  <2>1. Room(v) /\ Counter(v)
    BY <1>3 DEF PoolInv, Counting
  <2>2. /\ pc'[v] = pc[v] /\ pos'[v] = pos[v] /\ tmp'[v] = tmp[v]
        /\ connections'[v] = connections[v] /\ ready'[v] = ready[v] /\ Number(v)' = Number(v)
    BY <1>3, SameNumber DEF Apart
  <2>3. Room(v)'
    BY <2>1, <2>2 DEF Room, WorkerLimit
  <2>4. Adding(v)' = Adding(v) /\ Freeing(v)' = Freeing(v)
    BY <2>2 DEF Adding, Freeing
  <2>5. pc[v] = "removing" =>
          pos'[v] \in Conns /\ place'[pos'[v]] = "cleanup" /\ worker'[pos'[v]] = v
    BY <1>3, <2>1, <2>2 DEF Counter, Apart
  <2>6. Counter(v)'
    BY <2>1, <2>2, <2>4, <2>5 DEF Counter, WorkerLimit
  <2> QED
    BY <2>3, <2>6
<1>4. Counting'
  <2> SUFFICES ASSUME Unstopped' PROVE Counting'
    BY DEF Counting
  <2>1. Unstopped
    BY DEF Unstopped, Apart
  <2>2. pc[Stop] = "starting" => \A v \in Workers : created <= v => pc'[v] = "new"
    <3> SUFFICES ASSUME pc[Stop] = "starting", NEW v \in Workers, created <= v PROVE pc'[v] = "new"
      OBVIOUS
    <3>1. pc[v] = "new"
      BY <2>1 DEF PoolInv, Counting
    <3> QED
      BY <3>1 DEF Apart
  <2> QED
    BY <2>1, <2>2, <1>3 DEF Counting, Apart
<1> QED
  BY <1>2, <1>4

(* What a thread may do to the hands of the others.                        *)
LEMMA HandsKept ==
  ASSUME Hands, NEW t \in Threads, TypeOK,
         \A v \in Workers \ {t} : pc'[v] = pc[v] /\ pos'[v] = pos[v],
         pc[t] # "add", pc'[t] # "add",
         \A c \in Conns : place'[c] = "accepted" <=> place[c] = "accepted",
         \A c \in Conns : place[c] = "accepted" => worker'[c] = worker[c]
  PROVE  Hands'
<1>1. ASSUME NEW c \in Conns, place'[c] = "accepted"
      PROVE  pc'[worker'[c]] = "add" /\ pos'[worker'[c]] = c
  <2>1. /\ place[c] = "accepted" /\ worker'[c] = worker[c] /\ worker[c] \in Workers
        /\ pc[worker[c]] = "add" /\ pos[worker[c]] = c
    BY <1>1 DEF Hands, TypeOK
  <2> QED
    BY <2>1
<1>2. ASSUME NEW w \in Workers, pc'[w] = "add"
      PROVE  pos'[w] \in Conns /\ place'[pos'[w]] = "accepted" /\ worker'[pos'[w]] = w
  <2>1. w # t /\ pc[w] = "add" /\ pos'[w] = pos[w]
    BY <1>2
  <2> QED
    BY <2>1 DEF Hands
<1> QED
  BY <1>1, <1>2 DEF Hands

(* What a step of a worker starts from.                                    *)
LEMMA Start ==
  ASSUME PoolInv, ~fault, NEW w \in Workers
  PROVE  /\ TypeOK /\ Hands /\ Joining /\ created \in 0 .. PoolSize
         /\ w \in Threads /\ w # Stop /\ pc[w] \in WorkerLabels /\ pc[Stop] \in StopLabels
         /\ connections[w] \in 0 .. W - 1
         /\ WorkerLimit(w) \in Nat /\ WorkerLimit(w) <= Limit /\ Number(w) \in Nat
         /\ Unstopped => Room(w) /\ Counter(w) /\ \A c \in Conns : place[c] # "refused"
<1>1. w \in Threads /\ w # Stop
  BY Sizes
<1> QED
  BY <1>1, Share, LiveFinite DEF PoolInv, Counting, TypeOK

-----------------------------------------------------------------------------
LEMMA StepPrepare ==
  ASSUME PoolInv, NEW w \in Workers, Prepare(w), UNCHANGED startVars PROVE PoolInv'
<1> USE DEF Prepare, Go
<1>1. ~fault
  OBVIOUS
<1> USE <1>1, Start
<1>2. TypeOK' /\ created' \in 0 .. PoolSize
  <2>1. Listens(w) \in BOOLEAN
    BY DEF Listens, TypeOK
  <2> QED
    BY <2>1 DEF startVars, flags, stopping, TypeOK, WorkerLabels
<1>3. \A v : Live(v)' = Live(v)
  BY DEF Live
<1>4. Apart(w)
  BY <1>3 DEF Apart, startVars, stopping, TypeOK
<1>5. Hands'
  BY HandsKept DEF TypeOK
<1>6. Unstopped => ~fault' /\ (\A c \in Conns : place'[c] # "refused") /\ Room(w)' /\ Counter(w)'
  <2> SUFFICES ASSUME Unstopped PROVE Room(w)' /\ Counter(w)'
    OBVIOUS
  <2>1. pc'[w] = "poll" /\ ready'[w] = Listens(w) /\ Number(w)' = Number(w)
    BY <1>3, SameNumber DEF TypeOK
  <2>2. Room(w)'
    BY <2>1 DEF Room, Listens, WorkerLimit
  <2>3. Counter(w)'
    BY <2>1 DEF Counter, Adding, Freeing, WorkerLimit
  <2> QED
    BY <2>2, <2>3
<1> QED
  BY <1>2, <1>4, <1>5, <1>6, OthersKept DEF PoolInv

LEMMA StepPollReturns ==
  ASSUME PoolInv, NEW w \in Workers, PollReturns(w), UNCHANGED startVars PROVE PoolInv'
<1> USE DEF PollReturns, Go
<1>1. ~fault
  OBVIOUS
<1> USE <1>1, Start
<1>2. TypeOK' /\ created' \in 0 .. PoolSize
  <2>1. (ready[w] /\ Backlog # {}) \in BOOLEAN
    BY DEF TypeOK
  <2> QED
    BY <2>1 DEF startVars, flags, stopping, TypeOK, WorkerLabels
<1>3. \A v : Live(v)' = Live(v)
  BY DEF Live
<1>4. Apart(w)
  BY <1>3 DEF Apart, startVars, stopping, TypeOK
<1>5. Hands'
  BY HandsKept DEF TypeOK
<1>6. Unstopped => ~fault' /\ (\A c \in Conns : place'[c] # "refused") /\ Room(w)' /\ Counter(w)'
  <2> SUFFICES ASSUME Unstopped PROVE Room(w)' /\ Counter(w)'
    OBVIOUS
  <2>1. pc'[w] \in {"cleanup", "walk"} /\ (ready'[w] => ready[w]) /\ Number(w)' = Number(w)
    BY <1>3, SameNumber DEF TypeOK
  <2>2. Room(w)'
    BY <2>1 DEF Room, WorkerLimit
  <2>3. Counter(w)'
    BY <2>1 DEF Counter, Adding, Freeing, WorkerLimit
  <2> QED
    BY <2>2, <2>3
<1> QED
  BY <1>2, <1>4, <1>5, <1>6, OthersKept DEF PoolInv

LEMMA StepWalkEnds ==
  ASSUME PoolInv, NEW w \in Workers, WalkEnds(w), UNCHANGED startVars PROVE PoolInv'
<1> USE DEF WalkEnds, Go
<1>1. ~fault
  OBVIOUS
<1> USE <1>1, Start
<1>2. TypeOK' /\ created' \in 0 .. PoolSize
  BY DEF startVars, flags, stopping, TypeOK, WorkerLabels
<1>3. \A v : Live(v)' = Live(v)
  BY DEF Live
<1>4. Apart(w)
  BY <1>3 DEF Apart, startVars, stopping, TypeOK
<1>5. Hands'
  BY HandsKept DEF TypeOK
<1>6. Unstopped => ~fault' /\ (\A c \in Conns : place'[c] # "refused") /\ Room(w)' /\ Counter(w)'
  <2> SUFFICES ASSUME Unstopped PROVE Room(w)' /\ Counter(w)'
    OBVIOUS
  <2>1. /\ pc'[w] \in {"cleanup", "accept"} /\ (pc'[w] = "accept" => ready[w])
        /\ Number(w)' = Number(w)
    BY <1>3, SameNumber DEF TypeOK
  <2>2. Room(w)'
    BY <2>1 DEF Room, WorkerLimit
  <2>3. Counter(w)'
    BY <2>1 DEF Counter, Adding, Freeing, WorkerLimit
  <2> QED
    BY <2>2, <2>3
<1> QED
  BY <1>2, <1>4, <1>5, <1>6, OthersKept DEF PoolInv

LEMMA StepFinish ==
  ASSUME PoolInv, NEW w \in Workers, NEW c \in Conns, Finish(w, c), UNCHANGED startVars
  PROVE  PoolInv'
<1> USE DEF Finish, Finished, Go
<1>1. ~fault /\ place[c] = "listed" /\ worker[c] = w
  BY DEF On
<1> USE <1>1, Start
<1>2. TypeOK' /\ created' \in 0 .. PoolSize
  <2>1. (ready[w] /\ Backlog # {}) \in BOOLEAN /\ Changing(w) \in BOOLEAN
    BY DEF TypeOK, Changing
  <2> QED
    BY <2>1 DEF startVars, flags, stopping, TypeOK, WorkerLabels, Places
<1>3. \A v : Live(v)' = Live(v)
  BY DEF Live, TypeOK
<1>4. Apart(w)
  BY <1>3 DEF Apart, startVars, stopping, TypeOK
<1>5. Hands'
  BY HandsKept DEF TypeOK
<1>6. Unstopped => ~fault' /\ (\A d \in Conns : place'[d] # "refused") /\ Room(w)' /\ Counter(w)'
  <2> SUFFICES ASSUME Unstopped
               PROVE  ~fault' /\ (\A d \in Conns : place'[d] # "refused") /\ Room(w)' /\ Counter(w)'
    OBVIOUS
  <2>1. pc'[w] = "walk" /\ (ready'[w] => ready[w]) /\ Number(w)' = Number(w)
    BY <1>3, SameNumber DEF TypeOK
  <2>2. ~fault'
    BY DEF Changing, Unstopped
  <2>3. \A d \in Conns : place'[d] # "refused"
    BY DEF TypeOK
  <2>4. Room(w)'
    BY <2>1 DEF Room, WorkerLimit
  <2>5. Counter(w)'
    BY <2>1 DEF Counter, Adding, Freeing, WorkerLimit
  <2> QED
    BY <2>2, <2>3, <2>4, <2>5
<1> QED
  BY <1>2, <1>4, <1>5, <1>6, OthersKept DEF PoolInv

LEMMA PcType ==
  ASSUME TypeOK, NEW w \in Workers, NEW label \in WorkerLabels, Go(w, label)
  PROVE  /\ pc' \in [Threads -> WorkerLabels \cup StopLabels]
         /\ pc'[Stop] = pc[Stop] /\ pc'[Stop] \in StopLabels
         /\ \A v \in Workers : pc'[v] \in WorkerLabels
<1>1. w \in Threads /\ w # Stop /\ Stop \in Threads /\ Workers \subseteq Threads
  BY Sizes DEF Threads
<1> QED
  BY <1>1 DEF TypeOK, Go

LEMMA StepAccept ==
  ASSUME PoolInv, NEW w \in Workers, Accept(w), UNCHANGED startVars PROVE PoolInv'
<1> USE DEF Accept, Go
<1>1. ~fault /\ ~fault'
  OBVIOUS
<1> USE <1>1, Start
<1>2. TypeOK' /\ created' \in 0 .. PoolSize
  <2>1. UNCHANGED <<connections, flags, tmp, ready, stopping, created, fault>>
    BY DEF startVars, stopping
  <2>2. /\ place' \in [Conns -> Places] /\ worker' \in [Conns -> Workers]
        /\ pos' \in [Threads -> Conns \cup {NoConn}]
    BY DEF TypeOK, Places, Backlog
  <2>3. /\ pc' \in [Threads -> WorkerLabels \cup StopLabels]
        /\ pc'[Stop] \in StopLabels /\ \A v \in Workers : pc'[v] \in WorkerLabels
    <3>1. \E label \in WorkerLabels : Go(w, label)
      BY DEF WorkerLabels
    <3> QED
      BY <3>1, PcType
  <2> QED
    BY <2>1, <2>2, <2>3 DEF flags, stopping, TypeOK
<1>3. CASE pc' = [pc EXCEPT ![w] = "cleanup"] /\ UNCHANGED <<place, worker, pos>>
  <2>1. \A v : Live(v)' = Live(v)
    BY <1>3 DEF Live
  <2>2. Apart(w)
    BY <1>3, <2>1 DEF Apart, startVars, stopping, TypeOK
  <2>3. Hands'
    BY <1>3, HandsKept DEF TypeOK
  <2>4. Unstopped => ~fault' /\ (\A d \in Conns : place'[d] # "refused") /\ Room(w)' /\ Counter(w)'
    <3> SUFFICES ASSUME Unstopped PROVE Room(w)' /\ Counter(w)'
      BY <1>3
    <3>1. pc'[w] = "cleanup" /\ ready' = ready /\ Number(w)' = Number(w)
      BY <1>3, <2>1, SameNumber DEF TypeOK
    <3>2. Room(w)'
      BY <3>1 DEF Room, WorkerLimit
    <3>3. Counter(w)'
      BY <3>1 DEF Counter, Adding, Freeing, WorkerLimit
    <3> QED
      BY <3>2, <3>3
  <2> QED
    BY <1>2, <2>2, <2>3, <2>4, OthersKept DEF PoolInv
<1>4. ASSUME NEW c \in Backlog, place' = [place EXCEPT ![c] = "accepted"],
             worker' = [worker EXCEPT ![c] = w], pos' = [pos EXCEPT ![w] = c],
             pc' = [pc EXCEPT ![w] = "add"]
      PROVE  PoolInv'
  <2>1. c \in Conns /\ place[c] = "backlog"
    BY DEF Backlog
  <2>2. \A d \in Conns \ {c} : place'[d] = place[d] /\ worker'[d] = worker[d]
    BY <1>4 DEF TypeOK
  <2>3. place'[c] = "accepted" /\ worker'[c] = w /\ pc'[w] = "add" /\ pos'[w] = c
    BY <1>4, <2>1 DEF TypeOK
  <2>4. c \notin Live(w) /\ Live(w)' = Live(w) \cup {c}
    BY <2>1, <2>2, <2>3 DEF Live
  <2>5. \A v \in Workers \ {w} : Live(v)' = Live(v)
    BY <2>1, <2>2, <2>3 DEF Live
  <2>6. Number(w)' = Number(w) + 1
    BY <2>4, OneMore
  <2>7. \A v \in Workers \ {w} : pc'[v] = pc[v] /\ pos'[v] = pos[v]
    BY <1>4 DEF TypeOK
  <2>8. Apart(w)
    BY <1>4, <2>1, <2>2, <2>5, <2>7 DEF Apart, startVars, stopping, TypeOK
  <2>9. Hands'
    <3>1. ASSUME NEW d \in Conns, place'[d] = "accepted"
          PROVE  pc'[worker'[d]] = "add" /\ pos'[worker'[d]] = d
      <4>1. CASE d = c
        BY <2>3, <4>1
      <4>2. CASE d # c
        <5>1. /\ pc[worker[d]] = "add" /\ pos[worker[d]] = d
              /\ worker[d] \in Workers /\ worker'[d] = worker[d]
          BY <2>2, <3>1, <4>2 DEF Hands, TypeOK
        <5> QED
          BY <2>7, <5>1
      <4> QED
        BY <4>1, <4>2
    <3>2. ASSUME NEW v \in Workers, pc'[v] = "add"
          PROVE  pos'[v] \in Conns /\ place'[pos'[v]] = "accepted" /\ worker'[pos'[v]] = v
      <4>1. CASE v = w
        BY <2>1, <2>3, <4>1
      <4>2. CASE v # w
        <5>1. /\ pos'[v] = pos[v] /\ pos[v] \in Conns
              /\ place[pos[v]] = "accepted" /\ worker[pos[v]] = v
          BY <2>7, <3>2, <4>2 DEF Hands
        <5> QED
          BY <2>1, <2>2, <5>1
      <4> QED
        BY <4>1, <4>2
    <3> QED
      BY <3>1, <3>2 DEF Hands
  <2>10. Unstopped => ~fault' /\ (\A d \in Conns : place'[d] # "refused") /\ Room(w)' /\ Counter(w)'
    <3> SUFFICES ASSUME Unstopped
                 PROVE  (\A d \in Conns : place'[d] # "refused") /\ Room(w)' /\ Counter(w)'
      OBVIOUS
    <3>1. connections[w] < WorkerLimit(w) /\ connections' = connections
      BY DEF Room
    <3>2. Room(w)'
      BY <2>3, <3>1 DEF Room, WorkerLimit
    <3>3. connections[w] = Number(w)
      BY DEF Counter, Adding, Freeing
    <3>4. Counter(w)'
      BY <2>3, <2>6, <3>1, <3>3 DEF Counter, Adding, Freeing, WorkerLimit
    <3> QED
      BY <2>2, <2>3, <3>2, <3>4
  <2> QED
    BY <1>2, <2>8, <2>9, <2>10, OthersKept DEF PoolInv
<1> QED
  BY <1>3, <1>4

LEMMA StepAdd ==
  ASSUME PoolInv, NEW w \in Workers, Add(w), UNCHANGED startVars PROVE PoolInv'
<1> USE DEF Add, Go
<1>1. ~fault /\ ~fault'
  OBVIOUS
<1> USE <1>1, Start
<1> DEFINE c == pos[w]
<1>2. c \in Conns /\ place[c] = "accepted" /\ worker[c] = w
  BY DEF Hands
<1>3. TypeOK' /\ created' \in 0 .. PoolSize
  <2>1. UNCHANGED <<worker, connections, flags, ready, stopping, created, fault>>
    BY DEF startVars, stopping
  <2>2. place' \in [Conns -> Places] /\ pos' \in [Threads -> Conns \cup {NoConn}]
    BY DEF TypeOK, Places
  <2>3. /\ pc' \in [Threads -> WorkerLabels \cup StopLabels]
        /\ pc'[Stop] \in StopLabels /\ \A v \in Workers : pc'[v] \in WorkerLabels
    <3>1. \E label \in WorkerLabels : Go(w, label)
      BY DEF WorkerLabels
    <3> QED
      BY <3>1, PcType
  <2>4. tmp' \in [Threads -> 0 .. W - 1]
    BY DEF TypeOK
  <2> QED
    BY <2>1, <2>2, <2>3, <2>4 DEF flags, stopping, TypeOK
<1>4. \A d \in Conns \ {c} : place'[d] = place[d]
  BY DEF TypeOK
<1>5. place'[c] \in {"listed", "refused"} /\ worker' = worker /\ pc'[w] # "add"
  BY <1>2 DEF TypeOK
<1>6. \A v \in Workers \ {w} : pc'[v] = pc[v] /\ pos'[v] = pos[v] /\ Live(v)' = Live(v)
  BY <1>2, <1>4, <1>5 DEF Live, TypeOK
<1>7. Apart(w)
  <2>1. \A v \in Workers \ {w} : tmp'[v] = tmp[v]
    BY DEF TypeOK
  <2>2. pc'[Stop] = pc[Stop] /\ UNCHANGED <<i, created, connections, ready>>
    <3>1. \E label \in WorkerLabels : Go(w, label)
      BY DEF WorkerLabels
    <3> QED
      BY <3>1, PcType DEF startVars, stopping
  <2>3. \A d \in Conns : place[d] = "cleanup" => place'[d] = "cleanup" /\ worker'[d] = worker[d]
    BY <1>2, <1>4, <1>5
  <2> QED
    BY <1>6, <2>1, <2>2, <2>3 DEF Apart
<1>8. Hands'
  <2>1. ASSUME NEW d \in Conns, place'[d] = "accepted"
        PROVE  pc'[worker'[d]] = "add" /\ pos'[worker'[d]] = d
    <3>1. d # c /\ place[d] = "accepted"
      BY <1>4, <1>5, <2>1
    <3>2. pc[worker[d]] = "add" /\ pos[worker[d]] = d /\ worker[d] \in Workers
      BY <3>1 DEF Hands, TypeOK
    <3> QED
      BY <1>5, <1>6, <3>1, <3>2
  <2>2. ASSUME NEW v \in Workers, pc'[v] = "add"
        PROVE  pos'[v] \in Conns /\ place'[pos'[v]] = "accepted" /\ worker'[pos'[v]] = v
    <3>1. v # w
      BY <1>5, <2>2
    <3>2. pos'[v] = pos[v] /\ pos[v] \in Conns /\ place[pos[v]] = "accepted" /\ worker[pos[v]] = v
      BY <1>6, <2>2, <3>1 DEF Hands
    <3> QED
      BY <1>2, <1>4, <1>5, <3>1, <3>2
  <2> QED
    BY <2>1, <2>2 DEF Hands
<1>9. Unstopped => ~fault' /\ (\A d \in Conns : place'[d] # "refused") /\ Room(w)' /\ Counter(w)'
  <2> SUFFICES ASSUME Unstopped
               PROVE  (\A d \in Conns : place'[d] # "refused") /\ Room(w)' /\ Counter(w)'
    OBVIOUS
  <2>1. connections[w] < WorkerLimit(w) /\ connections' = connections
    BY DEF Room
  <2>2. place'[c] = "listed" /\ pc'[w] = "counted" /\ tmp'[w] = connections[w]
    BY <1>2, <2>1 DEF TypeOK
  <2>3. Live(w)' = Live(w)
    BY <1>2, <1>4, <1>5, <2>2 DEF Live
  <2>4. Number(w)' = Number(w)
    BY <2>3, SameNumber
  <2>5. Room(w)'
    BY <2>2 DEF Room
  <2>6. Counter(w)'
    BY <2>1, <2>2, <2>4 DEF Counter, Adding, Freeing, WorkerLimit
  <2> QED
    BY <1>4, <2>2, <2>5, <2>6
<1> QED
  BY <1>3, <1>7, <1>8, <1>9, OthersKept DEF PoolInv

LEMMA Wrapped == ASSUME NEW x \in 0 .. W - 1 PROVE x % W = x /\ (x + W) % W = x
BY Sizes

LEMMA InWidth == ASSUME NEW x \in Nat PROVE x % W \in 0 .. W - 1
BY Sizes

LEMMA StepCounted ==
  ASSUME PoolInv, NEW w \in Workers, Counted(w), UNCHANGED startVars PROVE PoolInv'
<1> USE DEF Counted, Go
<1>1. ~fault /\ ~fault'
  OBVIOUS
<1> USE <1>1, Start
<1>2. TypeOK' /\ created' \in 0 .. PoolSize
  <2>1. (tmp[w] + 1) % W \in 0 .. W - 1 /\ 0 \in 0 .. W - 1
    <3>1. tmp[w] + 1 \in Nat
      BY DEF TypeOK
    <3> QED
      BY <3>1, InWidth, Sizes
  <2> QED
    BY <2>1 DEF startVars, flags, stopping, TypeOK, WorkerLabels
<1>3. \A v : Live(v)' = Live(v)
  BY DEF Live
<1>4. Apart(w)
  BY <1>3 DEF Apart, startVars, stopping, TypeOK
<1>5. Hands'
  BY HandsKept DEF TypeOK
<1>6. Unstopped => ~fault' /\ (\A c \in Conns : place'[c] # "refused") /\ Room(w)' /\ Counter(w)'
  <2> SUFFICES ASSUME Unstopped PROVE Room(w)' /\ Counter(w)'
    OBVIOUS
  <2>1. pc'[w] = "cleanup" /\ ready' = ready /\ Number(w)' = Number(w)
    BY <1>3, SameNumber DEF TypeOK
  <2>2. /\ tmp[w] = connections[w] /\ connections[w] + 1 = Number(w) /\ Number(w) <= WorkerLimit(w)
    BY DEF Counter, Adding, Freeing
  <2>3. connections[w] + 1 \in 0 .. W - 1
    BY <2>2, Sizes
  <2>4. connections'[w] = connections[w] + 1
    BY <2>2, <2>3, Wrapped DEF TypeOK
  <2>5. Room(w)'
    BY <2>1 DEF Room
  <2>6. Counter(w)'
    BY <2>1, <2>2, <2>4 DEF Counter, Adding, Freeing, WorkerLimit
  <2> QED
    BY <2>5, <2>6
<1> QED
  BY <1>2, <1>4, <1>5, <1>6, OthersKept DEF PoolInv

-----------------------------------------------------------------------------
(* MHD_cleanup_connections, by a worker and by stop().                     *)
LEMMA CleanupType == ASSUME TypeOK, NEW t \in Threads, Cleanup(t) PROVE TypeOK'
<1>1. /\ Of(t) \in Workers /\ (t # Stop => t \in Workers)
      /\ Stop \in Threads /\ Workers \subseteq Threads
  BY Sizes DEF Of, Threads, TypeOK
<1>2. \A w \in Workers : w # Stop
  BY Sizes
<1> USE DEF Go
<1>3. CASE ReadHead(t)
  <2>1. \A c \in On("cleanup", Of(t)) : c \in Conns
    BY DEF On
  <2> QED
    BY <1>1, <1>2, <1>3, <2>1 DEF ReadHead, TypeOK, WorkerLabels, StopLabels, flags, stopping
<1>4. CASE Free(t)
  <2>1. (place[pos[t]] # "cleanup") \in BOOLEAN /\ 0 \in Workers
    BY Sizes DEF Workers
  <2> QED
    BY <1>1, <1>2, <1>4, <2>1 DEF Free, TypeOK, WorkerLabels, StopLabels, flags, stopping, Places
<1>5. CASE Uncount(t)
  BY <1>1, <1>2, <1>5 DEF Uncount, TypeOK, WorkerLabels, StopLabels, flags, stopping
<1>6. CASE Uncounted(t)
  <2>1. (tmp[t] + W - 1) % W \in 0 .. W - 1 /\ 0 \in 0 .. W - 1
    <3>1. tmp[t] + W - 1 \in Nat
      BY Sizes DEF TypeOK
    <3> QED
      BY <3>1, InWidth, Sizes
  <2> QED
    BY <1>1, <1>2, <1>6, <2>1 DEF Uncounted, TypeOK, WorkerLabels, StopLabels, flags, stopping
<1> QED
  BY <1>3, <1>4, <1>5, <1>6 DEF Cleanup

LEMMA CleanupHands ==
  ASSUME TypeOK, Hands, NEW t \in Threads, Cleanup(t), ~fault' PROVE Hands'
<1> USE DEF Go
<1>1. /\ pc[t] \in {"cleanup", "removing", "uncount", "uncounted"}
      /\ pc'[t] # "add"
  BY DEF Cleanup, ReadHead, Free, Uncount, Uncounted, TypeOK
<1>2. \A v \in Workers \ {t} : pc'[v] = pc[v] /\ pos'[v] = pos[v]
  <2>1. Workers \subseteq Threads
    BY DEF Threads
  <2> QED
    BY <2>1 DEF Cleanup, ReadHead, Free, Uncount, Uncounted, TypeOK
<1>3. \A c \in Conns : /\ place'[c] = "accepted" <=> place[c] = "accepted"
                       /\ place[c] = "accepted" => worker'[c] = worker[c]
  <2>1. CASE Free(t)
    <3>1. \A c \in Conns : c = pos[t] \/ (place'[c] = place[c] /\ worker'[c] = worker[c])
      BY <2>1 DEF Free, TypeOK
    <3>2. pos[t] \in Conns => place[pos[t]] = "cleanup" /\ place'[pos[t]] = "freed"
      BY <2>1 DEF Free, TypeOK
    <3> QED
      BY <3>1, <3>2
  <2>2. CASE ~Free(t)
    BY <2>2 DEF Cleanup, ReadHead, Uncount, Uncounted
  <2> QED
    BY <2>1, <2>2
<1> QED
  BY <1>1, <1>2, <1>3, HandsKept

LEMMA StepCleanup ==
  ASSUME PoolInv, NEW w \in Workers, Cleanup(w), UNCHANGED startVars PROVE PoolInv'
<1> USE DEF Go
<1>1. ~fault
  BY DEF Cleanup, ReadHead, Free, Uncount, Uncounted
<1> USE <1>1, Start
<1>2. TypeOK' /\ created' \in 0 .. PoolSize
  BY CleanupType DEF startVars
<1>3. ~fault' => Hands'
  BY CleanupHands
<1>4. Of(w) = w
  BY DEF Of
<1>5. CASE ReadHead(w) \/ Uncount(w) \/ Uncounted(w)
  <2>1. ~fault'
    BY <1>5 DEF ReadHead, Uncount, Uncounted
  <2>2. UNCHANGED <<place, worker, flags, ready, stopping>>
    BY <1>5 DEF ReadHead, Uncount, Uncounted
  <2>3. \A v : Live(v)' = Live(v)
    BY <2>2 DEF Live
  <2>4. Number(w)' = Number(w)
    BY <2>3, SameNumber
  <2>5. \A v \in Threads \ {w} : /\ pc'[v] = pc[v] /\ pos'[v] = pos[v] /\ tmp'[v] = tmp[v]
                                 /\ v \in Workers => connections'[v] = connections[v]
    BY <1>4, <1>5 DEF ReadHead, Uncount, Uncounted, TypeOK
  <2>6. Apart(w)
    <3>1. Stop \in Threads \ {w} /\ Workers \ {w} \subseteq Threads \ {w}
      BY Sizes DEF Threads
    <3> QED
      BY <2>2, <2>3, <2>5, <3>1 DEF Apart, startVars, stopping
  <2>7. pc[w] \in {"cleanup", "uncount", "uncounted"}
    BY <1>5 DEF ReadHead, Uncount, Uncounted
  <2>8. Unstopped => ~fault' /\ (\A c \in Conns : place'[c] # "refused") /\ Room(w)' /\ Counter(w)'
    <3> SUFFICES ASSUME Unstopped PROVE Room(w)' /\ Counter(w)'
      BY <2>1, <2>2
    <3>1. CASE ReadHead(w)
      <4>1. connections' = connections /\ pc[w] = "cleanup"
            /\ pc'[w] \in {"removing", "ended", "loop"}
            /\ (pc'[w] = "removing" => pos'[w] \in On("cleanup", w))
        BY <1>4, <3>1 DEF ReadHead, TypeOK
      <4>2. Counter(w)'
        BY <2>2, <2>4, <4>1 DEF Counter, Adding, Freeing, WorkerLimit, On
      <4>3. Room(w)'
        BY <4>1 DEF Room
      <4> QED
        BY <4>2, <4>3
    <3>2. CASE Uncount(w)
      <4>1. connections' = connections /\ pc[w] = "uncount" /\ pc'[w] = "uncounted"
            /\ tmp'[w] = connections[w]
        BY <1>4, <3>2 DEF Uncount, TypeOK
      <4>2. Counter(w)'
        BY <2>4, <4>1 DEF Counter, Adding, Freeing, WorkerLimit
      <4>3. Room(w)'
        BY <4>1 DEF Room
      <4> QED
        BY <4>2, <4>3
    <3>3. CASE Uncounted(w)
      <4>1. pc[w] = "uncounted" /\ pc'[w] = "cleanup" /\ connections'[w] = (tmp[w] + W - 1) % W
        BY <1>4, <3>3 DEF Uncounted, TypeOK
      <4>2. /\ tmp[w] = connections[w] /\ connections[w] = Number(w) + 1
            /\ Number(w) + 1 <= WorkerLimit(w)
        BY <4>1 DEF Counter, Adding, Freeing
      <4>3. connections[w] - 1 \in 0 .. W - 1 /\ tmp[w] + W - 1 = (connections[w] - 1) + W
        BY <4>2, Sizes
      <4>4. connections'[w] = connections[w] - 1
        BY <4>1, <4>3, Wrapped
      <4>5. Counter(w)'
        BY <2>4, <4>1, <4>2, <4>4 DEF Counter, Adding, Freeing, WorkerLimit
      <4>6. Room(w)'
        BY <4>1 DEF Room
      <4> QED
        BY <4>5, <4>6
    <3> QED
      BY <1>5, <3>1, <3>2, <3>3
  <2> QED
    BY <1>2, <1>3, <2>1, <2>6, <2>7, <2>8, OthersKept DEF PoolInv
<1>6. CASE Free(w)
  <2>1. /\ pc[w] = "removing" /\ pc'[w] = "uncount" /\ fault' = (place[pos[w]] # "cleanup")
        /\ UNCHANGED <<connections, flags, tmp, ready, stopping>>
    BY <1>6 DEF Free, TypeOK
  <2>2. \A v \in Threads \ {w} : pc'[v] = pc[v] /\ pos'[v] = pos[v]
    BY <1>6 DEF Free, TypeOK
  <2>3. \A c \in Conns : c = pos[w] \/ (place'[c] = place[c] /\ worker'[c] = worker[c])
    BY <1>6 DEF Free, TypeOK
  <2>4. pos[w] \in Conns => place'[pos[w]] = "freed"
    BY <1>6 DEF Free, TypeOK
  <2>5. \A v : Live(v)' \subseteq Live(v)
    BY <2>3, <2>4 DEF Live
  <2>6. Unstopped => pos[w] \in Conns /\ place[pos[w]] = "cleanup" /\ worker[pos[w]] = w
    BY <2>1 DEF Counter
  <2>7. Unstopped => \A v \in Workers \ {w} : Live(v)' = Live(v)
    BY <2>3, <2>4, <2>6 DEF Live
  <2>8. Apart(w)
    <3>1. Stop \in Threads \ {w} /\ Workers \ {w} \subseteq Threads \ {w}
      BY Sizes DEF Threads
    <3> QED
      BY <2>1, <2>2, <2>3, <2>5, <2>6, <2>7, <3>1 DEF Apart, startVars, stopping
  <2>9. Unstopped => ~fault' /\ (\A c \in Conns : place'[c] # "refused") /\ Room(w)' /\ Counter(w)'
    <3> SUFFICES ASSUME Unstopped
                 PROVE  /\ ~fault' /\ \A c \in Conns : place'[c] # "refused"
                        /\ Room(w)' /\ Counter(w)'
      OBVIOUS
    <3>1. pos[w] \in Live(w) /\ Live(w)' = Live(w) \ {pos[w]}
      BY <2>3, <2>4, <2>6 DEF Live
    <3>2. Number(w)' = Number(w) - 1
      BY <3>1, OneLess
    <3>3. Counter(w)'
      BY <2>1, <3>2 DEF Counter, Adding, Freeing, WorkerLimit
    <3>4. Room(w)'
      BY <2>1 DEF Room
    <3> QED
      BY <2>1, <2>3, <2>4, <2>6, <3>3, <3>4
  <2> QED
    BY <1>2, <1>3, <2>1, <2>8, <2>9, OthersKept DEF PoolInv
<1> QED
  BY <1>5, <1>6 DEF Cleanup

-----------------------------------------------------------------------------
(* stop().  What it does between its first and its last step disturbs no   *)
(* hands and has nothing to keep.                                          *)
LEMMA StopType ==
  ASSUME TypeOK, NEW label \in StopLabels, Go(Stop, label)
  PROVE  /\ pc' \in [Threads -> WorkerLabels \cup StopLabels]
         /\ pc'[Stop] = label /\ \A v \in Workers : pc'[v] = pc[v] /\ pc'[v] \in WorkerLabels
<1>1. Stop \in Threads /\ \A v \in Workers : v \in Threads /\ v # Stop
  BY Sizes
<1> QED
  BY <1>1 DEF TypeOK, Go

LEMMA StopKept ==
  ASSUME TypeOK', created' = created, created \in 0 .. PoolSize, ~fault' => Hands',
         pc'[Stop] \notin {"starting", "running", "join", "done"}
  PROVE  PoolInv'
BY DEF PoolInv, Joining, Counting, Unstopped

LEMMA StopHands ==
  ASSUME Hands, TypeOK, NEW label \in StopLabels, Go(Stop, label), UNCHANGED <<pos, worker>>,
         \A c \in Conns : place'[c] = "accepted" <=> place[c] = "accepted"
  PROVE  Hands'
<1>1. Stop \in Threads /\ pc[Stop] # "add" /\ pc'[Stop] # "add"
  BY StopType, Sizes DEF StopLabels, TypeOK
<1> QED
  BY <1>1, HandsKept, StopType

LEMMA StepQuiesce == ASSUME PoolInv, Quiesce, created' = created PROVE PoolInv'
<1> DEFINE label == IF i = PoolSize - 1 THEN "close" ELSE "quiesce"
<1>1. /\ Go(Stop, label) /\ label \in StopLabels /\ ~fault /\ ~fault' /\ i \in Workers
      /\ TypeOK /\ Hands /\ created \in 0 .. PoolSize
  BY DEF Quiesce, Go, StopLabels, PoolInv, TypeOK
<1>2. NextWorker \in Workers
  BY <1>1, NextIs
<1>3. TypeOK'
  BY <1>1, <1>2, StopType DEF Quiesce, TypeOK
<1>4. Hands'
  BY <1>1, StopHands DEF Quiesce
<1>5. pc'[Stop] \in {"close", "quiesce"}
  BY <1>1, StopType
<1> QED
  BY <1>1, <1>3, <1>4, <1>5, StopKept

LEMMA StepCloseListenSocket == ASSUME PoolInv, CloseListenSocket, created' = created PROVE PoolInv'
<1>1. /\ Go(Stop, "cleanup") /\ "cleanup" \in StopLabels /\ ~fault /\ ~fault'
      /\ TypeOK /\ Hands /\ created \in 0 .. PoolSize
  BY DEF CloseListenSocket, Go, StopLabels, PoolInv
<1>2. TypeOK'
  <2>1. place' \in [Conns -> Places]
    BY <1>1 DEF CloseListenSocket, TypeOK, Places
  <2> QED
    BY <1>1, <2>1, StopType DEF CloseListenSocket, stopping, TypeOK
<1>3. Hands'
  BY <1>1, StopHands DEF CloseListenSocket
<1>4. pc'[Stop] = "cleanup"
  BY <1>1, StopType
<1> QED
  BY <1>1, <1>2, <1>3, <1>4, StopKept

LEMMA StepStopCleanup == ASSUME PoolInv, Cleanup(Stop), created' = created PROVE PoolInv'
<1>1. Stop \in Threads /\ TypeOK /\ created \in 0 .. PoolSize
  BY Sizes DEF PoolInv
<1>2. \E label \in {"removing", "info", "uncount", "uncounted", "cleanup"} : Go(Stop, label)
  BY DEF Cleanup, ReadHead, Free, Uncount, Uncounted, Go
<1>3. pc'[Stop] \in {"removing", "info", "uncount", "uncounted", "cleanup"}
  BY <1>1, <1>2, StopType DEF StopLabels
<1>4. ~fault /\ Hands
  BY <1>2 DEF Go, PoolInv
<1>5. TypeOK' /\ (~fault' => Hands')
  BY <1>1, <1>4, CleanupType, CleanupHands
<1> QED
  BY <1>1, <1>3, <1>5, StopKept

LEMMA StepReadCount == ASSUME PoolInv, ReadCount, created' = created PROVE PoolInv'
<1> DEFINE label == IF i = PoolSize - 1 /\ sum + connections[i] = 0 THEN "shutdown" ELSE "cleanup"
<1>1. /\ Go(Stop, label) /\ label \in StopLabels /\ ~fault /\ ~fault' /\ i \in Workers
      /\ TypeOK /\ Hands /\ created \in 0 .. PoolSize
  BY DEF ReadCount, Go, StopLabels, PoolInv, TypeOK
<1>2. NextWorker \in Workers /\ sum' \in Nat
  <2>1. sum \in Nat /\ connections[i] \in Nat
    BY <1>1, Sizes DEF TypeOK
  <2> QED
    BY <1>1, <2>1, NextIs DEF ReadCount
<1>3. TypeOK'
  BY <1>1, <1>2, StopType DEF ReadCount, flags, TypeOK
<1>4. Hands'
  BY <1>1, StopHands DEF ReadCount
<1>5. pc'[Stop] \in {"shutdown", "cleanup"}
  BY <1>1, StopType
<1> QED
  BY <1>1, <1>3, <1>4, <1>5, StopKept

LEMMA StepShutdown == ASSUME PoolInv, Shutdown, created' = created PROVE PoolInv'
<1> DEFINE label == IF i = PoolSize - 1 THEN "join" ELSE "shutdown"
<1>1. /\ Go(Stop, label) /\ label \in StopLabels /\ ~fault /\ ~fault' /\ i \in Workers
      /\ TypeOK /\ Hands /\ created \in 0 .. PoolSize
  BY DEF Shutdown, Go, StopLabels, PoolInv, TypeOK
<1>2. NextWorker \in Workers /\ (i = PoolSize - 1 => i' = 0)
  BY <1>1, NextIs DEF Shutdown
<1>3. TypeOK'
  BY <1>1, <1>2, StopType DEF Shutdown, TypeOK
<1>4. Hands'
  BY <1>1, StopHands DEF Shutdown
<1>5. pc'[Stop] = label
  BY <1>1, StopType
<1>6. Joining'
  <2>1. pc'[Stop] = "join" => i' = 0
    BY <1>2, <1>5
  <2>2. \A w \in Workers : ~(w < 0)
    BY Sizes
  <2> QED
    BY <1>5, <2>1, <2>2 DEF Joining
<1>7. Counting'
  BY <1>5 DEF Counting, Unstopped
<1> QED
  BY <1>1, <1>3, <1>4, <1>6, <1>7 DEF PoolInv

LEMMA StepJoinWorker == ASSUME PoolInv, JoinWorker, created' = created PROVE PoolInv'
<1> DEFINE label == IF i = PoolSize - 1 THEN "done" ELSE "join"
<1>1. /\ Go(Stop, label) /\ label \in StopLabels /\ ~fault /\ ~fault' /\ i \in Workers
      /\ TypeOK /\ Hands /\ Joining /\ created \in 0 .. PoolSize /\ pc[Stop] = "join"
  BY DEF JoinWorker, Go, StopLabels, PoolInv, TypeOK
<1>2. NextWorker \in Workers /\ i' = (IF i = PoolSize - 1 THEN 0 ELSE i + 1)
  BY <1>1, NextIs DEF JoinWorker
<1>3. TypeOK'
  <2>1. place' \in [Conns -> Places]
    BY <1>1 DEF JoinWorker, TypeOK, Places
  <2> QED
    BY <1>1, <1>2, <2>1, StopType DEF JoinWorker, flags, TypeOK
<1>4. Hands'
  <2>1. \A c \in Conns : place'[c] = "accepted" <=> place[c] = "accepted"
    BY DEF JoinWorker, On
  <2> QED
    BY <1>1, <2>1, StopHands DEF JoinWorker
<1>5. pc'[Stop] = label
  BY <1>1, StopType
<1>6. \A v \in Workers : Live(v)' \subseteq Live(v) /\ pc'[v] = pc[v]
  BY <1>1, StopType DEF Live, JoinWorker
<1>7. \A w \in Workers : w < i => Gone(w)'
  BY <1>1, <1>6 DEF Joining, Gone
<1>8. \A w \in Workers : w = i => Gone(w)'
  <2> SUFFICES ASSUME NEW w \in Workers, w = i PROVE Gone(w)'
    OBVIOUS
  <2>1. pc[w] = "ended"
    BY DEF JoinWorker, Joined
  <2>2. \A c \in Conns : worker[c] = w => place[c] # "accepted"
    BY <1>1, <2>1 DEF Hands
  <2>3. Live(w)' = {}
    BY <2>2 DEF JoinWorker, Live, On
  <2> QED
    BY <1>6, <2>1, <2>3 DEF Gone
<1>9. Joining'
  <2>1. CASE i = PoolSize - 1
    <3>1. \A w \in Workers : w < i \/ w = i
      BY <1>1, <2>1, Sizes
    <3> QED
      BY <1>5, <1>7, <1>8, <2>1, <3>1 DEF Joining
  <2>2. CASE i # PoolSize - 1
    <3>1. \A w \in Workers : w < i' => w < i \/ w = i
      BY <1>1, <1>2, <2>2, Sizes
    <3> QED
      BY <1>5, <1>7, <1>8, <2>2, <3>1 DEF Joining
  <2> QED
    BY <2>1, <2>2
<1>10. Counting'
  BY <1>5 DEF Counting, Unstopped
<1> QED
  BY <1>1, <1>3, <1>4, <1>9, <1>10 DEF PoolInv

-----------------------------------------------------------------------------
(* A step that moves no thread, and only connections no worker has.        *)
Waits == {"outside", "backlog", "lost"}

LEMMA AllKept ==
  ASSUME PoolInv, TypeOK',
         UNCHANGED <<worker, connections, threads, ready, stopping, fault, created>>,
         \A c \in Conns : place'[c] = place[c] \/ (place[c] \in Waits /\ place'[c] \in Waits)
  PROVE  PoolInv'
<1> USE DEF threads, stopping
<1>1. \A w : Live(w)' = Live(w)
  BY DEF Live, Waits
<1>2. \A w : Number(w)' = Number(w)
  BY <1>1, SameNumber
<1>3. ~fault => Hands'
  <2>1. \A c \in Conns : place'[c] = "accepted" <=> place[c] = "accepted"
    BY DEF Waits
  <2> QED
    BY <2>1 DEF Hands, PoolInv, TypeOK
<1>4. ~fault => Joining'
  BY <1>1 DEF Joining, Gone, PoolInv
<1>5. Counting'
  <2> SUFFICES ASSUME Unstopped PROVE Counting'
    BY DEF Counting, Unstopped
  <2>1. \A w \in Workers : Room(w)'
    BY DEF PoolInv, Counting, Room, WorkerLimit
  <2>2. ASSUME NEW w \in Workers PROVE Counter(w)'
    <3>1. Counter(w)
      BY DEF PoolInv, Counting
    <3>2. Adding(w)' = Adding(w) /\ Freeing(w)' = Freeing(w)
      BY DEF Adding, Freeing
    <3>3. pc[w] = "removing" => place'[pos[w]] = "cleanup"
      BY <3>1 DEF Counter, Waits
    <3> QED
      BY <1>2, <3>1, <3>2, <3>3 DEF Counter, WorkerLimit
  <2>3. \A c \in Conns : place'[c] # "refused"
    BY DEF PoolInv, Counting, Waits
  <2> QED
    BY <2>1, <2>2, <2>3 DEF PoolInv, Counting
<1> QED
  BY <1>3, <1>4, <1>5 DEF PoolInv

LEMMA StepConnect == ASSUME PoolInv, NEW c \in Conns, Connect(c), UNCHANGED startVars PROVE PoolInv'
<1>1. place' \in [Conns -> Places]
  BY DEF Connect, PoolInv, TypeOK, Places
<1>2. TypeOK'
  BY <1>1 DEF Connect, flags, threads, stopping, PoolInv, TypeOK
<1>3. \A d \in Conns : place'[d] = place[d] \/ (place[d] \in Waits /\ place'[d] \in Waits)
  BY DEF Connect, PoolInv, TypeOK, Waits
<1> QED
  BY <1>2, <1>3, AllKept DEF Connect, startVars

LEMMA StepTake == ASSUME PoolInv, Take PROVE PoolInv'
<1>1. (open \/ step = "listen") \in BOOLEAN
  BY DEF PoolInv, TypeOK
<1>2. TypeOK'
  BY <1>1 DEF Take, threads, stopping, PoolInv, TypeOK
<1>3. \A d \in Conns : place'[d] = place[d] \/ (place[d] \in Waits /\ place'[d] \in Waits)
  BY DEF Take
<1> QED
  BY <1>2, <1>3, AllKept DEF Take

(* The backlog of a socket that is closed is lost.                         *)
LEMMA Closed ==
  ASSUME TypeOK, NEW all, Close(all)
  PROVE  /\ place' \in [Conns -> Places] /\ open' \in BOOLEAN
         /\ \A d \in Conns : place'[d] = place[d] \/ (place[d] \in Waits /\ place'[d] \in Waits)
<1>1. (open /\ "socket" \notin all) \in BOOLEAN
  BY DEF TypeOK
<1> QED
  BY <1>1 DEF Close, TypeOK, Places, Waits

LEMMA StepFails == ASSUME PoolInv, Fails PROVE PoolInv'
<1>1. TypeOK
  BY DEF PoolInv
<1>2. /\ place' \in [Conns -> Places] /\ open' \in BOOLEAN
      /\ \A d \in Conns : place'[d] = place[d] \/ (place[d] \in Waits /\ place'[d] \in Waits)
  BY <1>1, Closed DEF Fails
<1>3. TypeOK'
  BY <1>1, <1>2 DEF Fails, threads, stopping, TypeOK
<1> QED
  BY <1>2, <1>3, AllKept DEF Fails

LEMMA StepSame == ASSUME PoolInv, UNCHANGED <<created, vars>> PROVE PoolInv'
<1>1. TypeOK'
  BY DEF vars, flags, threads, stopping, PoolInv, TypeOK
<1> QED
  BY <1>1, AllKept DEF vars

-----------------------------------------------------------------------------
(* The steps that start the workers.                                       *)
LEMMA StepCreateWorker == ASSUME PoolInv, CreateWorker PROVE PoolInv'
<1>1. pc[Stop] = "starting" /\ created < PoolSize /\ created \in 0 .. PoolSize /\ TypeOK
  BY DEF CreateWorker, WorkersLeft, PoolInv
<1>2. created \in Workers /\ created' = created + 1 /\ created' \in 0 .. PoolSize
  BY <1>1, Sizes DEF Workers, CreateWorker
<1>3. ~fault /\ ~fault' /\ Hands /\ Go(created, "loop") /\ "loop" \in WorkerLabels
  BY DEF CreateWorker, Go, PoolInv, WorkerLabels
<1>4. UNCHANGED <<place, worker, connections, open, wpipe, shutdown, pos, tmp, ready, stopping>>
  BY DEF CreateWorker
<1>5. /\ pc' \in [Threads -> WorkerLabels \cup StopLabels]
      /\ pc'[Stop] = pc[Stop] /\ pc'[Stop] \in StopLabels
      /\ \A v \in Workers : pc'[v] \in WorkerLabels
  BY <1>1, <1>2, <1>3, PcType
<1>6. TypeOK'
  BY <1>1, <1>4, <1>5 DEF CreateWorker, stopping, TypeOK
<1>7. pc[created] = "new"
  BY <1>1, <1>2, Sizes DEF PoolInv, Counting, Unstopped
<1>8. pc'[created] = "loop" /\ \A v \in Workers : v # created => pc'[v] = pc[v]
  BY <1>1, <1>2, <1>3, Sizes DEF Go, TypeOK
<1>9. Hands'
  <2>1. created \in Threads /\ pc'[created] # "add" /\ pc[created] # "add"
    BY <1>2, <1>7, <1>8, Sizes
  <2> QED
    BY <1>1, <1>3, <1>4, <1>8, <2>1, HandsKept
<1>10. Joining'
  BY <1>1, <1>5 DEF Joining
<1>11. \A v : Number(v)' = Number(v)
  BY <1>4 DEF Number, Live
<1>12. ASSUME NEW v \in Workers PROVE Room(v)' /\ Counter(v)'
  <2>1. Room(v) /\ Counter(v)
    BY <1>1 DEF PoolInv, Counting, Unstopped
  <2>2. Adding(v)' = Adding(v) /\ Freeing(v)' = Freeing(v)
    BY <1>7, <1>8 DEF Adding, Freeing
  <2>3. Room(v)'
    BY <1>4, <1>7, <1>8, <2>1 DEF Room, WorkerLimit
  <2>4. Counter(v)'
    BY <1>4, <1>7, <1>8, <1>11, <2>1, <2>2 DEF Counter, WorkerLimit
  <2> QED
    BY <2>3, <2>4
<1>13. Counting'
  <2>1. \A v \in Workers : created' <= v => pc'[v] = "new"
    <3> SUFFICES ASSUME NEW v \in Workers, created' <= v PROVE pc'[v] = "new"
      OBVIOUS
    <3>1. v # created /\ created <= v
      BY <1>2, Sizes
    <3>2. pc[v] = "new"
      BY <1>1, <3>1 DEF PoolInv, Counting, Unstopped
    <3> QED
      BY <1>8, <3>1, <3>2
  <2>2. \A c \in Conns : place'[c] # "refused"
    BY <1>1, <1>4 DEF PoolInv, Counting, Unstopped
  <2> QED
    BY <1>3, <1>12, <2>1, <2>2 DEF Counting
<1> QED
  BY <1>2, <1>6, <1>9, <1>10, <1>13 DEF PoolInv

LEMMA StepStarted == ASSUME PoolInv, Started PROVE PoolInv'
<1>1. pc[Stop] = "starting" /\ created \in 0 .. PoolSize /\ TypeOK
  BY DEF Started, PoolInv
<1>2. ~fault /\ ~fault' /\ Hands /\ Go(Stop, "running") /\ "running" \in StopLabels
  BY DEF Started, Go, PoolInv, StopLabels
<1>3. UNCHANGED <<created, place, worker, connections, flags, pos, tmp, ready, stopping, fault>>
  BY DEF Started
<1>4. TypeOK'
  <2>1. /\ pc' \in [Threads -> WorkerLabels \cup StopLabels]
        /\ pc'[Stop] \in StopLabels /\ \A v \in Workers : pc'[v] \in WorkerLabels
    BY <1>1, <1>2, StopType
  <2> QED
    BY <1>1, <1>2, <1>3, <2>1 DEF flags, stopping, TypeOK
<1>5. pc'[Stop] = "running" /\ \A v \in Workers : pc'[v] = pc[v]
  BY <1>1, <1>2, StopType
<1>6. Hands'
  BY <1>1, <1>2, <1>3, StopHands
<1>7. Joining'
  BY <1>5 DEF Joining
<1>8. \A v : Number(v)' = Number(v)
  BY <1>3 DEF Number, Live
<1>9. ASSUME NEW v \in Workers PROVE Room(v)' /\ Counter(v)'
  <2>1. Room(v) /\ Counter(v)
    BY <1>1 DEF PoolInv, Counting, Unstopped
  <2>2. Adding(v)' = Adding(v) /\ Freeing(v)' = Freeing(v)
    BY <1>5 DEF Adding, Freeing
  <2>3. Room(v)'
    BY <1>3, <1>5, <2>1 DEF Room, WorkerLimit
  <2>4. Counter(v)'
    BY <1>3, <1>5, <1>8, <2>1, <2>2 DEF Counter, WorkerLimit
  <2> QED
    BY <2>3, <2>4
<1>10. Counting'
  BY <1>1, <1>2, <1>3, <1>5, <1>9 DEF PoolInv, Counting, Unstopped
<1> QED
  BY <1>1, <1>3, <1>4, <1>6, <1>7, <1>10 DEF PoolInv

LEMMA StepCreateFails == ASSUME PoolInv, CreateFails PROVE PoolInv'
<1>1. created \in 0 .. PoolSize /\ TypeOK
  BY DEF PoolInv
<1>2. ~fault /\ ~fault' /\ Hands /\ Go(Stop, "failing") /\ "failing" \in StopLabels
  BY DEF CreateFails, Go, PoolInv, StopLabels
<1>3. /\ UNCHANGED <<place, worker, connections, open, pos, tmp, ready, stopping, fault>>
      /\ created' = created
  BY DEF CreateFails, startVars
<1>4. TypeOK'
  <2>1. \A w \in Workers : /\ (shutdown[w] \/ w \in Remaining) \in BOOLEAN
                          /\ (socket_fd[w] /\ w \notin Remaining) \in BOOLEAN
    BY <1>1 DEF TypeOK
  <2>2. /\ shutdown' \in [Workers -> BOOLEAN] /\ socket_fd' \in [Workers -> BOOLEAN]
        /\ wpipe' \in BOOLEAN
    BY <2>1 DEF CreateFails
  <2>3. /\ pc' \in [Threads -> WorkerLabels \cup StopLabels]
        /\ pc'[Stop] \in StopLabels /\ \A v \in Workers : pc'[v] \in WorkerLabels
    BY <1>1, <1>2, StopType
  <2> QED
    BY <1>1, <1>2, <1>3, <2>2, <2>3 DEF stopping, TypeOK
<1>5. Hands'
  BY <1>1, <1>2, <1>3, StopHands
<1>6. pc'[Stop] = "failing"
  BY <1>1, <1>2, StopType
<1> QED
  BY <1>1, <1>3, <1>4, <1>5, <1>6, StopKept

LEMMA StepFreeCreated == ASSUME PoolInv, FreeCreated PROVE PoolInv'
<1>1. TypeOK /\ Hands /\ created \in 0 .. PoolSize /\ pc[Stop] = "failing"
  BY DEF FreeCreated, PoolInv
<1>2. /\ place' \in [Conns -> Places] /\ open' \in BOOLEAN
      /\ \A d \in Conns : place'[d] = place[d] \/ (place[d] \in Waits /\ place'[d] \in Waits)
  BY <1>1, Closed DEF FreeCreated
<1>3. /\ UNCHANGED <<created, worker, connections, socket_fd, wpipe, shutdown, threads, ready,
                    stopping>>
      /\ fault' \in BOOLEAN
  BY DEF FreeCreated
<1>4. TypeOK'
  BY <1>1, <1>2, <1>3 DEF threads, stopping, TypeOK
<1>5. Hands'
  <2>1. \A c \in Conns : place'[c] = "accepted" <=> place[c] = "accepted"
    BY <1>2 DEF Waits
  <2> QED
    BY <1>1, <1>3, <2>1 DEF threads, Hands, TypeOK
<1>6. pc'[Stop] = "failing"
  BY <1>1, <1>3 DEF threads
<1> QED
  BY <1>1, <1>3, <1>4, <1>5, <1>6, StopKept

-----------------------------------------------------------------------------
LEMMA PoolInvInit == StartInit => PoolInv
<1> SUFFICES ASSUME StartInit PROVE PoolInv
  OBVIOUS
<1> USE DEF StartInit
<1>1. 0 \in Workers /\ 0 \in 0 .. W - 1 /\ 0 \in 0 .. PoolSize
  BY Sizes DEF Workers
<1>2. pc[Stop] = "starting" /\ \A w \in Workers : pc[w] = "new"
  BY Sizes
<1>3. TypeOK
  BY <1>1, <1>2 DEF TypeOK, Places, WorkerLabels, StopLabels
<1>4. Hands /\ Joining
  BY <1>2 DEF Hands, Joining
<1>5. ASSUME NEW w \in Workers PROVE Room(w) /\ Counter(w)
  <2>1. Live(w) = {}
    BY DEF Live
  <2>2. Number(w) = 0
    BY <2>1, FS_EmptySet DEF Number
  <2>3. connections[w] = 0 /\ 0 <= WorkerLimit(w)
    BY Share
  <2> QED
    BY <1>2, <2>2, <2>3 DEF Room, Counter, Adding, Freeing
<1> QED
  BY <1>1, <1>2, <1>3, <1>4, <1>5 DEF PoolInv, Counting

LEMMA PoolInvNext == PoolInv /\ [StartNext]_poolVars => PoolInv'
<1> SUFFICES ASSUME PoolInv, [StartNext]_poolVars PROVE PoolInv'
  OBVIOUS
<1>1. CASE Take
  BY <1>1, StepTake
<1>2. CASE Fails
  BY <1>2, StepFails
<1>3. CASE CreateWorker
  BY <1>3, StepCreateWorker
<1>4. CASE Started
  BY <1>4, StepStarted
<1>5. CASE CreateFails
  BY <1>5, StepCreateFails
<1>6. CASE FreeCreated
  BY <1>6, StepFreeCreated
<1>7. CASE TryAgain
  BY <1>7, StepSame DEF TryAgain
<1>8. CASE Quiesce /\ UNCHANGED startVars
  BY <1>8, StepQuiesce DEF startVars
<1>9. CASE Stopping
  <2>1. StopStep /\ created' = created
    BY <1>9 DEF Stopping
  <2> QED
    BY <2>1, StepQuiesce, StepCloseListenSocket, StepStopCleanup, StepReadCount, StepShutdown,
       StepJoinWorker DEF StopStep
<1>10. CASE Running /\ UNCHANGED startVars
  <2>1. ASSUME NEW w \in Workers, WorkerStep(w), UNCHANGED startVars PROVE PoolInv'
    BY <2>1, StepPrepare, StepPollReturns, StepWalkEnds, StepAccept, StepAdd, StepCounted,
       StepCleanup DEF WorkerStep
  <2>2. ASSUME NEW w \in Workers, NEW c \in Conns, Finish(w, c), UNCHANGED startVars PROVE PoolInv'
    BY <2>2, StepFinish
  <2>3. ASSUME NEW c \in Conns, Connect(c), UNCHANGED startVars PROVE PoolInv'
    BY <2>3, StepConnect
  <2> QED
    BY <1>10, <2>1, <2>2, <2>3 DEF Running
<1>11. CASE StartDone
  BY <1>11, StepSame DEF StartDone, poolVars, startVars
<1>12. CASE UNCHANGED poolVars
  BY <1>12, StepSame DEF poolVars, startVars
<1> QED
  BY <1>1, <1>2, <1>3, <1>4, <1>5, <1>6, <1>7, <1>8, <1>9, <1>10, <1>11, <1>12 DEF StartNext

(* The invariant of a pool that is started, used and stopped, whatever     *)
(* step of the start fails.                                                *)
THEOREM PoolHolds == StartSpec => []PoolInv
<1>1. StartInit => PoolInv
  BY PoolInvInit
<1>2. PoolInv /\ [StartNext]_poolVars => PoolInv'
  BY PoolInvNext
<1> QED
  BY <1>1, <1>2, PTL DEF StartSpec

(* Until stop() is called each worker's counter is the number of its       *)
(* connections, but for the one it is adding or freeing.                   *)
THEOREM PoolCounted == StartSpec => []CountExact
<1>1. PoolInv => CountExact
  BY DEF PoolInv, Counting, Unstopped, Counter, Adding, Freeing, Number, CountExact
<1> QED
  BY <1>1, PoolHolds, PTL

(* The limit of set_max_connections holds of all workers together, although *)
(* each compares only its own counter with its own share, and nobody is     *)
(* accepted only to be refused.                                             *)
THEOREM PoolLimited == StartSpec => []LimitKept
<1>1. PoolInv => LimitKept
  <2> SUFFICES ASSUME PoolInv, Unstopped PROVE LimitKept
    BY DEF LimitKept, Unstopped
  <2>1. \A w \in Workers : Number(w) <= WorkerLimit(w)
    <3> TAKE w \in Workers
    <3>1. Number(w) + Freeing(w) <= WorkerLimit(w)
      BY DEF PoolInv, Counting, Counter
    <3>2. Number(w) \in Nat /\ Freeing(w) \in {0, 1} /\ WorkerLimit(w) \in Nat
      BY LiveFinite, Share DEF Freeing
    <3> QED
      BY <3>1, <3>2
  <2>2. \A c \in Conns : place[c] # "refused"
    BY DEF PoolInv, Counting
  <2> QED
    BY <2>1, <2>2, PoolLimit DEF LimitKept
<1> QED
  BY <1>1, PoolHolds, PTL

(* When stop() has returned every worker's thread has ended and none of    *)
(* its connections is left.                                                *)
THEOREM PoolTornDown == StartSpec => []Teardown
<1>1. PoolInv => Teardown
  BY DEF PoolInv, Joining, Gone, Teardown
<1> QED
  BY <1>1, PoolHolds, PTL

-----------------------------------------------------------------------------
(***************************************************************************)
(* What the start holds, step by step.                                     *)
(***************************************************************************)
Named == {"daemon", "wpipe", "pipe_size", "options", "socket", "reuse", "bind", "listen",
          "socket_size", "per_ip_mutex", "cleanup_mutex", "nonblock", "worker_pool", "workers"}

(* The steps before and with listen().                                     *)
Early == {"daemon", "wpipe", "pipe_size", "options", "socket", "reuse", "bind", "listen"}

(* What was taken before step s.                                           *)
Taken(s) ==
  CASE s = "daemon"                                                  -> {}
    [] s = "wpipe"                                                   -> {"daemon"}
    [] s \in {"pipe_size", "options", "socket"}                      -> {"daemon", "wpipe"}
    [] s \in {"reuse", "bind", "listen", "socket_size", "per_ip_mutex"} ->
         {"daemon", "wpipe", "socket"}
    [] s = "cleanup_mutex"           -> {"daemon", "wpipe", "socket", "per_ip_mutex"}
    [] s \in {"nonblock", "worker_pool"} ->
         {"daemon", "wpipe", "socket", "per_ip_mutex", "cleanup_mutex"}
    [] OTHER                         -> Resources

Begun == pc[Stop] \in {"starting", "failing"}

(* Of a server that was started, until stop() returns.                     *)
Deployed ==
  /\ step = "started" /\ \A w \in Workers : pc[w] # "new"
  /\ held = (CASE pc[Stop] \in {"running", "quiesce", "close"} -> Resources
               [] pc[Stop] = "done"                             -> {}
               [] OTHER                                         -> Resources \ {"socket"})

StartInv ==
  /\ step \in Named \cup {"null", "failed", "started"}
  /\ step \in Early \cup {"null"} => ~open
  /\ step \in Named => held = Taken(step)
  /\ ~Begun => Deployed
  /\ pc[Stop] = "starting" => \A w \in Workers : w < created => pc[w] # "new"

LEMMA StepsNamed ==
  /\ DOMAIN Steps = 1 .. 14 /\ ToSet(Steps) = Named
  /\ Steps[1] = "daemon" /\ Steps[2] = "wpipe" /\ Steps[3] = "pipe_size" /\ Steps[4] = "options"
  /\ Steps[5] = "socket" /\ Steps[6] = "reuse" /\ Steps[7] = "bind" /\ Steps[8] = "listen"
  /\ Steps[9] = "socket_size" /\ Steps[10] = "per_ip_mutex" /\ Steps[11] = "cleanup_mutex"
  /\ Steps[12] = "nonblock" /\ Steps[13] = "worker_pool" /\ Steps[14] = "workers"
<1>1. /\ DOMAIN Steps = 1 .. 14
      /\ Steps[1] = "daemon" /\ Steps[2] = "wpipe" /\ Steps[3] = "pipe_size"
      /\ Steps[4] = "options" /\ Steps[5] = "socket" /\ Steps[6] = "reuse" /\ Steps[7] = "bind"
      /\ Steps[8] = "listen" /\ Steps[9] = "socket_size" /\ Steps[10] = "per_ip_mutex"
      /\ Steps[11] = "cleanup_mutex" /\ Steps[12] = "nonblock" /\ Steps[13] = "worker_pool"
      /\ Steps[14] = "workers"
  BY DEF Steps
<1>2. \A k \in 1 .. 14 : Steps[k] \in Named
  BY <1>1 DEF Named
<1>3. \A s \in Named : \E k \in 1 .. 14 : Steps[k] = s
  BY <1>1 DEF Named
<1>4. ToSet(Steps) = Named
  BY <1>1, <1>2, <1>3 DEF ToSet
<1> QED
  BY <1>1, <1>4

LEMMA FollowingIs ==
  ASSUME NEW n \in 1 .. 13
  PROVE  Following(Steps[n]) = Steps[n + 1]
<1>1. \A k \in 1 .. 14 : Steps[k] = Steps[n] => k = n
  BY StepsNamed
<1>2. (CHOOSE k \in DOMAIN Steps : Steps[k] = Steps[n]) = n
  BY <1>1, StepsNamed
<1>3. 1 + n = n + 1
  OBVIOUS
<1> QED
  BY <1>2, <1>3 DEF Following

LEMMA Follows ==
  ASSUME NEW s \in Named, s # "workers"
  PROVE  /\ Following(s) \in Named
         /\ Taken(Following(s)) = Taken(s) \cup ({s} \cap Resources)
         /\ Following(s) \in Early => s \in Early /\ s # "listen"
<1>1. PICK n \in 1 .. 13 : s = Steps[n]
  BY StepsNamed DEF Named
<1>2. Following(s) = Steps[n + 1]
  BY <1>1, FollowingIs
<1>3. Following(s) \in Named
  BY <1>2, StepsNamed DEF Named
<1>4. Taken(Following(s)) = Taken(s) \cup ({s} \cap Resources)
  <2>1. \/ s = "daemon" /\ Following(s) = "wpipe"
        \/ s = "wpipe" /\ Following(s) = "pipe_size"
        \/ s \in {"pipe_size", "options"} /\ Following(s) \in {"options", "socket"}
        \/ s = "socket" /\ Following(s) = "reuse"
        \/ /\ s \in {"reuse", "bind", "listen", "socket_size"}
           /\ Following(s) \in {"bind", "listen", "socket_size", "per_ip_mutex"}
        \/ s = "per_ip_mutex" /\ Following(s) = "cleanup_mutex"
        \/ s = "cleanup_mutex" /\ Following(s) = "nonblock"
        \/ s = "nonblock" /\ Following(s) = "worker_pool"
        \/ s = "worker_pool" /\ Following(s) = "workers"
    BY <1>1, <1>2, StepsNamed
  <2> DEFINE D == {"daemon"}
             P == {"daemon", "wpipe"}
             L == {"daemon", "wpipe", "socket"}
             I == {"daemon", "wpipe", "socket", "per_ip_mutex"}
             C == {"daemon", "wpipe", "socket", "per_ip_mutex", "cleanup_mutex"}
  <2>2. /\ {} \cup ({"daemon"} \cap Resources) = D /\ D \cup ({"wpipe"} \cap Resources) = P
        /\ P \cup ({"socket"} \cap Resources) = L
        /\ L \cup ({"per_ip_mutex"} \cap Resources) = I
        /\ I \cup ({"cleanup_mutex"} \cap Resources) = C
        /\ C \cup ({"worker_pool"} \cap Resources) = Resources
    BY DEF Resources
  <2>3. \A x \in Named \ Resources : \A set : set \cup ({x} \cap Resources) = set
    BY DEF Resources
  <2> QED
    BY <2>1, <2>2, <2>3 DEF Taken, Named, Resources
<1>5. Following(s) \in Early => s \in Early /\ s # "listen"
  BY <1>1, <1>2, StepsNamed DEF Early
<1> QED
  BY <1>3, <1>4, <1>5

(* What the threads do while nothing is started.                           *)
LEMMA WorkersStay ==
  ASSUME TypeOK, NEW w \in Workers, WorkerStep(w) \/ (\E c \in Conns : Finish(w, c))
  PROVE  open' = open /\ pc'[Stop] = pc[Stop] /\ \A v \in Workers : pc[v] # "new" => pc'[v] # "new"
<1>1. w \in Threads /\ w # Stop /\ Of(w) = w
  BY Sizes DEF Of
<1>2. \E label : label # "new" /\ pc' = [pc EXCEPT ![w] = label]
  <2>1. CASE Prepare(w) \/ PollReturns(w) \/ WalkEnds(w) \/ Add(w) \/ Counted(w)
    BY <2>1 DEF Prepare, PollReturns, WalkEnds, Add, Counted, Go
  <2>2. CASE Accept(w)
    BY <2>2 DEF Accept, Go
  <2>3. CASE Cleanup(w)
    BY <1>1, <2>3 DEF Cleanup, ReadHead, Free, Uncount, Uncounted, Go
  <2>4. CASE \E c \in Conns : Finish(w, c)
    BY <2>4 DEF Finish, Go
  <2> QED
    BY <2>1, <2>2, <2>3, <2>4 DEF WorkerStep
<1>3. open' = open
  BY DEF WorkerStep, Prepare, PollReturns, WalkEnds, Accept, Add, Counted, Cleanup, ReadHead,
         Free, Uncount, Uncounted, Finish, flags
<1> QED
  BY <1>1, <1>2, <1>3 DEF TypeOK

LEMMA StopStays ==
  ASSUME TypeOK, StopStep \/ Quiesce
  PROVE  /\ (open' => open) /\ \A v \in Workers : pc'[v] = pc[v]
         /\ pc[Stop] \notin {"starting", "failing", "done"}
         /\ pc'[Stop] \notin {"starting", "failing", "running"}
         /\ pc'[Stop] \in {"quiesce", "close"} <=> pc[Stop] \in {"running", "quiesce"}
<1>1. \E label \in StopLabels : Go(Stop, label)
  BY DEF StopStep, Quiesce, CloseListenSocket, Cleanup, ReadHead, Free, Uncount, Uncounted,
         ReadCount, Shutdown, JoinWorker, Go, StopLabels
<1>2. \A v \in Workers : pc'[v] = pc[v]
  BY <1>1, StopType
<1>3. Stop \in Threads
  BY Sizes
<1>4. open' => open
  BY DEF StopStep, Quiesce, CloseListenSocket, Cleanup, ReadHead, Free, Uncount, Uncounted,
         ReadCount, Shutdown, JoinWorker, flags
<1>5. /\ pc[Stop] \notin {"starting", "failing", "done"}
      /\ pc'[Stop] \notin {"starting", "failing", "running"}
      /\ pc'[Stop] \in {"quiesce", "close"} <=> pc[Stop] \in {"running", "quiesce"}
  <2>1. CASE Quiesce
    BY <1>3, <2>1 DEF Quiesce, Go, TypeOK
  <2>2. CASE CloseListenSocket
    BY <1>3, <2>2 DEF CloseListenSocket, Go, TypeOK
  <2>3. CASE Cleanup(Stop)
    BY <1>3, <2>3 DEF Cleanup, ReadHead, Free, Uncount, Uncounted, Go, TypeOK
  <2>4. CASE ReadCount
    BY <1>3, <2>4 DEF ReadCount, Go, TypeOK
  <2>5. CASE Shutdown
    BY <1>3, <2>5 DEF Shutdown, Go, TypeOK
  <2>6. CASE JoinWorker
    BY <1>3, <2>6 DEF JoinWorker, Go, TypeOK
  <2> QED
    BY <2>1, <2>2, <2>3, <2>4, <2>5, <2>6 DEF StopStep
<1> QED
  BY <1>2, <1>4, <1>5

LEMMA StartInvInit == StartInit => StartInv
<1>1. StartInit => pc[Stop] = "starting" /\ \A w \in Workers : ~(w < created)
  BY Sizes DEF StartInit
<1> QED
  BY <1>1 DEF StartInit, StartInv, Named, Early, Taken, Begun

LEMMA StartInvNext == PoolInv /\ StartInv /\ [StartNext]_poolVars => StartInv'
<1> SUFFICES ASSUME PoolInv, StartInv, [StartNext]_poolVars PROVE StartInv'
  OBVIOUS
<1>1. TypeOK /\ created \in 0 .. PoolSize
  BY DEF PoolInv
<1>2. CASE Take
  <2>1. step \in Named /\ step # "workers"
    BY <1>2 DEF Take, Resources, Named
  <2>2. step' = Following(step) /\ held' = held \cup ({step} \cap Resources)
        /\ open' = (open \/ step = "listen") /\ UNCHANGED <<pc, created>>
    BY <1>2 DEF Take, threads
  <2>3. step' \in Named /\ held' = Taken(step') /\ (step' \in Early => ~open')
    <3>1. /\ Following(step) \in Named
          /\ Taken(Following(step)) = Taken(step) \cup ({step} \cap Resources)
          /\ Following(step) \in Early => step \in Early /\ step # "listen"
      BY <2>1, Follows
    <3> QED
      BY <2>1, <2>2, <3>1 DEF StartInv
  <2>4. Begun /\ Begun'
    BY <2>1, <2>2 DEF StartInv, Deployed, Named, Begun
  <2>5. step' # "null"
    BY <2>3 DEF Named
  <2> QED
    BY <2>2, <2>3, <2>4, <2>5 DEF StartInv, Taken
<1>3. CASE Fails
  <2>1. step' = "null" /\ UNCHANGED <<pc, created>> /\ pc[Stop] = "starting" /\ step \in Named
    BY <1>3, StepsNamed DEF Fails, threads
  <2>2. open' = (open /\ "socket" \notin Undone(step))
    BY <1>3 DEF Fails, Close
  <2>3. step \notin Early => "socket" \in Undone(step)
    BY <2>1 DEF Named, Early, Undone, Resources
  <2>4. ~open'
    BY <2>2, <2>3 DEF StartInv
  <2> QED
    BY <2>1, <2>4 DEF StartInv, Named, Begun
<1>4. CASE CreateWorker
  <2>1. /\ pc[Stop] = "starting" /\ step = "workers" /\ UNCHANGED <<step, held, open>>
        /\ created' = created + 1 /\ created \in Workers /\ pc' = [pc EXCEPT ![created] = "loop"]
    BY <1>1, <1>4, Sizes DEF CreateWorker, WorkersLeft, Go, Workers
  <2>2. /\ pc'[Stop] = "starting" /\ pc'[created] = "loop"
        /\ \A v \in Workers : v # created => pc'[v] = pc[v]
    BY <1>1, <2>1, Sizes DEF TypeOK
  <2>3. \A w \in Workers : w < created' => pc'[w] # "new"
    <3> SUFFICES ASSUME NEW w \in Workers, w < created', w # created PROVE pc[w] # "new"
      BY <2>2
    <3>1. w < created
      BY <1>1, <2>1, Sizes
    <3> QED
      BY <2>1, <3>1 DEF StartInv
  <2> QED
    BY <2>1, <2>2, <2>3 DEF StartInv, Begun, Taken
<1>5. CASE Started
  <2>1. /\ pc[Stop] = "starting" /\ step = "workers" /\ step' = "started" /\ UNCHANGED <<held, open>>
        /\ pc'[Stop] = "running" /\ \A v \in Workers : pc'[v] = pc[v]
    BY <1>1, <1>5, StopType DEF Started, flags, StopLabels
  <2>2. \A w \in Workers : w < created
    BY <1>1, <1>5, Sizes DEF Started, WorkersLeft
  <2>3. \A w \in Workers : pc'[w] # "new"
    BY <2>1, <2>2 DEF StartInv
  <2>4. held' = Resources
    BY <2>1 DEF StartInv, Named, Taken
  <2> QED
    BY <2>1, <2>3, <2>4 DEF StartInv, Named, Early, Begun, Deployed
<1>6. CASE CreateFails
  <2>1. /\ UNCHANGED <<step, held, open, created>> /\ pc'[Stop] = "failing"
    BY <1>1, <1>6, StopType DEF CreateFails, startVars, StopLabels
  <2> QED
    BY <2>1 DEF StartInv, Begun, Taken
<1>7. CASE FreeCreated
  <2>1. step' = "null" /\ ~open' /\ pc'[Stop] = "failing"
    BY <1>7 DEF FreeCreated, Close, Resources, threads
  <2> QED
    BY <2>1 DEF StartInv, Named, Begun
<1>8. CASE TryAgain
  <2>1. step = "null" /\ UNCHANGED <<created, open, pc>>
    BY <1>8 DEF TryAgain, vars, flags, threads
  <2>2. ~open /\ Begun /\ Begun'
    BY <2>1 DEF StartInv, Deployed, Begun
  <2>3. (step' = "daemon" /\ held' = {}) \/ step' = "failed"
    BY <1>8 DEF TryAgain
  <2> QED
    BY <2>1, <2>2, <2>3 DEF StartInv, Named, Early, Taken
<1>9. ASSUME StopStep \/ Quiesce, UNCHANGED <<step, created>>,
             held' = CASE pc[Stop] = "close" -> held \ {"socket"}
                       [] pc'[Stop] = "done" -> held \ Freed
                       [] OTHER              -> held
      PROVE  StartInv'
  <2>1. /\ (open' => open) /\ \A v \in Workers : pc'[v] = pc[v]
        /\ pc[Stop] \notin {"starting", "failing", "done"}
        /\ pc'[Stop] \notin {"starting", "failing", "running"}
        /\ pc'[Stop] \in {"quiesce", "close"} <=> pc[Stop] \in {"running", "quiesce"}
    BY <1>1, <1>9, StopStays
  <2>2. Deployed /\ step = "started" /\ step' = "started"
    BY <1>9, <2>1 DEF StartInv, Deployed, Begun
  <2>3. pc[Stop] = "close" => pc'[Stop] # "done"
    <3>1. pc[Stop] = "close" => CloseListenSocket
      BY <1>9 DEF StopStep, Quiesce, Cleanup, ReadHead, Free, Uncount, Uncounted, ReadCount,
                  Shutdown, JoinWorker
    <3>2. CloseListenSocket => pc'[Stop] = "cleanup"
      BY <1>1, StopType DEF CloseListenSocket, StopLabels
    <3> QED
      BY <3>1, <3>2
  <2>4. pc[Stop] \in {"running", "quiesce"} => pc'[Stop] # "done"
    BY <2>1
  <2>5. held' = (CASE pc'[Stop] \in {"running", "quiesce", "close"} -> Resources
                   [] pc'[Stop] = "done"                             -> {}
                   [] OTHER                                          -> Resources \ {"socket"})
    <3>1. CASE pc[Stop] \in {"running", "quiesce"}
      BY <1>9, <2>1, <2>2, <2>4, <3>1 DEF Deployed
    <3>2. CASE pc[Stop] = "close"
      BY <1>9, <2>1, <2>2, <2>3, <3>2 DEF Deployed
    <3>3. CASE pc[Stop] \notin {"running", "quiesce", "close"}
      <4>1. held = Resources \ {"socket"}
        BY <2>1, <2>2, <3>3 DEF Deployed
      <4>2. CASE pc'[Stop] = "done"
        BY <1>9, <3>3, <4>1, <4>2 DEF Freed
      <4>3. CASE pc'[Stop] # "done"
        BY <1>9, <2>1, <3>3, <4>1, <4>3
      <4> QED
        BY <4>2, <4>3
    <3> QED
      BY <3>1, <3>2, <3>3
  <2>6. Deployed'
    BY <2>1, <2>2, <2>5 DEF Deployed
  <2> QED
    BY <2>1, <2>2, <2>6 DEF StartInv, Named, Early
<1>10. CASE Quiesce /\ UNCHANGED startVars
  <2>1. pc[Stop] # "close" /\ pc'[Stop] # "done"
    <3>1. pc'[Stop] \in {"close", "quiesce"}
      BY <1>1, <1>10, Sizes DEF Quiesce, Go, TypeOK
    <3> QED
      BY <1>10, <3>1 DEF Quiesce
  <2> QED
    BY <1>9, <1>10, <2>1 DEF startVars
<1>11. CASE Stopping
  BY <1>9, <1>11 DEF Stopping
<1>12. CASE Running /\ UNCHANGED startVars
  <2>1. open' = open /\ pc'[Stop] = pc[Stop] /\ \A v \in Workers : pc[v] # "new" => pc'[v] # "new"
    <3>1. CASE \E c \in Conns : Connect(c)
      BY <3>1 DEF Connect, flags, threads
    <3>2. CASE \E w \in Workers : WorkerStep(w) \/ \E c \in Conns : Finish(w, c)
      BY <1>1, <3>2, WorkersStay
    <3> QED
      BY <1>12, <3>1, <3>2 DEF Running
  <2> QED
    BY <1>12, <2>1 DEF startVars, StartInv, Begun, Deployed, Taken
<1>13. CASE UNCHANGED poolVars
  BY <1>13 DEF poolVars, startVars, vars, flags, threads, StartInv, Begun, Deployed, Taken
<1> QED
  BY <1>2, <1>3, <1>4, <1>5, <1>6, <1>7, <1>8, <1>10, <1>11, <1>12, <1>13
  DEF StartNext, StartDone

(* What MHD_start_daemon_va holds at each of its steps, and stop() at each  *)
(* of its own.                                                              *)
THEOREM StartHolds == StartSpec => []StartInv
<1>1. StartInit => StartInv
  BY StartInvInit
<1>2. PoolInv /\ StartInv /\ [StartNext]_poolVars => StartInv'
  BY StartInvNext
<1> QED
  BY <1>1, <1>2, PoolHolds, PTL DEF StartSpec

(* Whatever step of the start fails, the socket no longer listens when      *)
(* start() tries again, for any number of workers.                          *)
THEOREM FailureFreesPort == StartSpec => []PortFreed
<1>1. StartInv => PortFreed
  BY DEF StartInv, PortFreed
<1> QED
  BY <1>1, StartHolds, PTL

(* A server that was started has all of its workers and all they use, and   *)
(* has given everything back when stop() returns.                           *)
THEOREM StartedWhole == StartSpec => []HeldWhole
<1>1. StartInv => HeldWhole
  BY DEF StartInv, Begun, Deployed, HeldWhole
<1> QED
  BY <1>1, StartHolds, PTL
=============================================================================
