---------------------------- MODULE WorkerProofs ----------------------------
(***************************************************************************)
(* The worker of a pool (PollLoop): its list of timeouts stays sorted, and *)
(* the walk over the connections never looks behind the end of the array   *)
(* that poll() has filled, although connections close while it runs.  For  *)
(* any number of connections, any limit and any timeout.                   *)
(***************************************************************************)
EXTENDS PollLoop, TLAPS

Distinct(list) == \A k, l \in DOMAIN list : list[k] = list[l] => k = l

(* Every connection of the worker is once in either list, and is none that *)
(* waits to be accepted.                                                   *)
Once == Distinct(connections) /\ Distinct(normal_timeout) /\ waiting \cap Listed = {}

(* How many connections the walk has still to visit, the next one          *)
(* included, is at most how many slots the index has still to go through.  *)
Ahead ==
  /\ pc = "poll" => Len(p) = Len(connections)
  /\ pc = "walk" => next \in Listed \cup {NoConn}
  /\ pc = "walk" /\ mode = "poll" /\ next # NoConn =>
       Len(connections) - Position(connections, next) <= Len(p) - i
  /\ i >= 1

WorkerInv == TypeOK /\ Once /\ NormalSorted /\ Ahead

-----------------------------------------------------------------------------
(* A list without one of its members, and with a new one in front.         *)
LEMMA InList ==
  ASSUME NEW S, NEW list \in Seq(S), NEW c
  PROVE  c \in ToSet(list) <=> \E k \in 1 .. Len(list) : list[k] = c
BY DEF ToSet

LEMMA PositionIs ==
  ASSUME NEW S, NEW list \in Seq(S), NEW c \in ToSet(list)
  PROVE  Position(list, c) \in 1 .. Len(list) /\ list[Position(list, c)] = c
BY InList DEF Position

LEMMA PositionOf ==
  ASSUME NEW S, NEW list \in Seq(S), Distinct(list), NEW k \in 1 .. Len(list)
  PROVE  Position(list, list[k]) = k
<1>1. list[k] \in ToSet(list)
  BY DEF ToSet
<1> QED
  BY <1>1, PositionIs DEF Distinct

LEMMA WithoutOne ==
  ASSUME NEW S, NEW list \in Seq(S), Distinct(list), NEW c \in ToSet(list)
  PROVE  /\ Without(list, c) \in Seq(S)
         /\ Len(Without(list, c)) = Len(list) - 1
         /\ Distinct(Without(list, c))
         /\ ToSet(Without(list, c)) = ToSet(list) \ {c}
         /\ \A k \in 1 .. Len(list) - 1 :
              Without(list, c)[k] = list[IF k < Position(list, c) THEN k ELSE k + 1]
<1> DEFINE at == Position(list, c)
           w == Without(list, c)
           index(k) == IF k < at THEN k ELSE k + 1
<1>1. at \in 1 .. Len(list) /\ list[at] = c
  BY PositionIs
<1>2. Len(list) - 1 \in Nat /\ w = [k \in 1 .. Len(list) - 1 |-> list[index(k)]]
  BY <1>1 DEF Without
<1> HIDE DEF at, w
<1>3. \A k \in 1 .. Len(list) - 1 : index(k) \in 1 .. Len(list) /\ index(k) # at
  BY <1>1
<1>4. w \in Seq(S) /\ Len(w) = Len(list) - 1 /\ DOMAIN w = 1 .. Len(list) - 1
  <2>1. \A k \in 1 .. Len(list) - 1 : w[k] \in S
    BY <1>2, <1>3
  <2> QED
    BY <1>2, <2>1
<1>5. Distinct(w)
  <2> SUFFICES ASSUME NEW k \in 1 .. Len(list) - 1, NEW l \in 1 .. Len(list) - 1, w[k] = w[l]
               PROVE  k = l
    BY <1>4 DEF Distinct
  <2>1. list[index(k)] = list[index(l)]
    BY <1>2
  <2>2. index(k) = index(l)
    BY <2>1, <1>3 DEF Distinct
  <2> QED
    BY <2>2, <1>1
<1>6. ToSet(w) = ToSet(list) \ {c}
  <2>1. ASSUME NEW d \in ToSet(w) PROVE d \in ToSet(list) \ {c}
    <3>1. PICK k \in 1 .. Len(list) - 1 : w[k] = d
      BY <1>4, <2>1 DEF ToSet
    <3>2. d = list[index(k)]
      BY <3>1, <1>2
    <3>3. d \in ToSet(list)
      BY <3>2, <1>3, InList
    <3>4. d # c
      BY <3>2, <1>3, <1>1 DEF Distinct
    <3> QED
      BY <3>3, <3>4
  <2>2. ASSUME NEW d \in ToSet(list), d # c PROVE d \in ToSet(w)
    <3>1. PICK l \in 1 .. Len(list) : list[l] = d
      BY <2>2, InList
    <3>2. l # at
      BY <3>1, <2>2, <1>1
    <3>3. PICK k \in 1 .. Len(list) - 1 : index(k) = l
      <4>1. CASE l < at
        <5>1. l \in 1 .. Len(list) - 1 /\ index(l) = l
          BY <4>1, <1>1
        <5> QED
          BY <5>1
      <4>2. CASE l > at
        <5>1. l - 1 \in 1 .. Len(list) - 1 /\ index(l - 1) = l
          BY <4>2, <1>1
        <5> QED
          BY <5>1
      <4> QED
        BY <3>2, <4>1, <4>2, <1>1
    <3>4. w[k] = d
      BY <3>1, <3>3, <1>2
    <3> QED
      BY <3>4, <1>4 DEF ToSet
  <2> QED
    BY <2>1, <2>2
<1> QED
  BY <1>2, <1>4, <1>5, <1>6 DEF at, w

LEMMA InFront ==
  ASSUME NEW S, NEW list \in Seq(S), NEW c \in S
  PROVE  /\ <<c>> \o list \in Seq(S)
         /\ Len(<<c>> \o list) = Len(list) + 1
         /\ ToSet(<<c>> \o list) = ToSet(list) \cup {c}
         /\ c \notin ToSet(list) /\ Distinct(list) => Distinct(<<c>> \o list)
         /\ (<<c>> \o list)[1] = c
         /\ \A k \in 1 .. Len(list) : (<<c>> \o list)[k + 1] = list[k]
<1> DEFINE f == <<c>> \o list
<1>1. f \in Seq(S) /\ Len(f) = Len(list) + 1 /\ f[1] = c
  OBVIOUS
<1>2. \A k \in 2 .. Len(list) + 1 : f[k] = list[k - 1] /\ k - 1 \in 1 .. Len(list)
  OBVIOUS
<1> HIDE DEF f
<1>3. \A k \in 1 .. Len(list) : f[k + 1] = list[k]
  <2> TAKE k \in 1 .. Len(list)
  <2>1. k + 1 \in 2 .. Len(list) + 1 /\ (k + 1) - 1 = k
    OBVIOUS
  <2> QED
    BY <2>1, <1>2
<1>4. ToSet(f) = ToSet(list) \cup {c}
  <2>1. ASSUME NEW d \in ToSet(f) PROVE d \in ToSet(list) \cup {c}
    <3>1. PICK k \in 1 .. Len(list) + 1 : f[k] = d
      BY <2>1, <1>1, InList
    <3>2. CASE k = 1
      BY <3>1, <3>2, <1>1
    <3>3. CASE k # 1
      BY <3>1, <3>3, <1>2, InList
    <3> QED
      BY <3>2, <3>3
  <2>2. c \in ToSet(f)
    BY <1>1, InList
  <2>3. ASSUME NEW d \in ToSet(list) PROVE d \in ToSet(f)
    <3>1. PICK k \in 1 .. Len(list) : list[k] = d
      BY <2>3, InList
    <3>2. f[k + 1] = d /\ k + 1 \in 1 .. Len(f)
      BY <3>1, <1>1, <1>3
    <3> QED
      BY <3>2, <1>1, InList
  <2> QED
    BY <2>1, <2>2, <2>3
<1>5. ASSUME c \notin ToSet(list), Distinct(list) PROVE Distinct(f)
  <2> SUFFICES ASSUME NEW k \in 1 .. Len(list) + 1, NEW l \in 1 .. Len(list) + 1, f[k] = f[l]
               PROVE  k = l
    BY <1>1 DEF Distinct
  <2>1. \A m \in 2 .. Len(list) + 1 : f[m] \in ToSet(list)
    BY <1>2, InList
  <2>2. CASE k = 1 \/ l = 1
    BY <2>1, <2>2, <1>1, <1>5
  <2>3. CASE k # 1 /\ l # 1
    <3>1. list[k - 1] = list[l - 1] /\ k - 1 \in 1 .. Len(list) /\ l - 1 \in 1 .. Len(list)
      BY <2>3, <1>2
    <3> QED
      BY <3>1, <1>5 DEF Distinct
  <2> QED
    BY <2>2, <2>3
<1> QED
  BY <1>1, <1>3, <1>4, <1>5 DEF f

-----------------------------------------------------------------------------
(* Sorted by the time of the last activity, whatever a says of it.         *)
SortedBy(list, a) == \A k, l \in DOMAIN list : k < l => a[list[k]] <= a[list[l]]

LEMMA SortedWithout ==
  ASSUME NEW list \in Seq(Conns), Distinct(list), NEW c \in ToSet(list), NEW a, SortedBy(list, a)
  PROVE  SortedBy(Without(list, c), a)
<1> DEFINE w == Without(list, c)
           index(k) == IF k < Position(list, c) THEN k ELSE k + 1
<1>1. DOMAIN w = 1 .. Len(list) - 1 /\ \A k \in 1 .. Len(list) - 1 : w[k] = list[index(k)]
  BY WithoutOne
<1>2. Position(list, c) \in 1 .. Len(list)
  BY PositionIs
<1> HIDE DEF w
<1> SUFFICES ASSUME NEW k \in 1 .. Len(list) - 1, NEW l \in 1 .. Len(list) - 1, k < l
             PROVE  a[w[k]] <= a[w[l]]
  BY <1>1 DEF SortedBy, w
<1>3. index(k) \in DOMAIN list /\ index(l) \in DOMAIN list /\ index(k) < index(l)
  BY <1>2
<1> QED
  BY <1>1, <1>3 DEF SortedBy

LEMMA SortedInFront ==
  ASSUME NEW list \in Seq(Conns), NEW c \in Conns, c \notin ToSet(list),
         NEW a \in [Conns -> 0 .. MaxAge], SortedBy(list, a)
  PROVE  SortedBy(<<c>> \o list, [a EXCEPT ![c] = 0])
<1> DEFINE f == <<c>> \o list
           b == [a EXCEPT ![c] = 0]
<1>1. DOMAIN f = 1 .. Len(list) + 1 /\ f[1] = c
  BY InFront
<1>2. \A k \in 2 .. Len(list) + 1 : k - 1 \in DOMAIN list /\ f[k] = list[k - 1]
  OBVIOUS
<1>3. \A k \in DOMAIN list : list[k] \in Conns /\ list[k] # c
  BY InList
<1> HIDE DEF f
<1> SUFFICES ASSUME NEW k \in 1 .. Len(list) + 1, NEW l \in 1 .. Len(list) + 1, k < l
             PROVE  b[f[k]] <= b[f[l]]
  BY <1>1 DEF SortedBy, f
<1>4. l \in 2 .. Len(list) + 1 /\ b[f[l]] = a[list[l - 1]] /\ b[f[l]] \in 0 .. MaxAge
  <2>1. l \in 2 .. Len(list) + 1
    OBVIOUS
  <2>2. f[l] = list[l - 1] /\ list[l - 1] \in Conns /\ list[l - 1] # c
    BY <2>1, <1>2, <1>3
  <2> QED
    BY <2>1, <2>2
<1>5. CASE k = 1
  <2>1. b[f[k]] = 0
    BY <1>1, <1>5
  <2> QED
    BY <2>1, <1>4, PollLoopAssumption
<1>6. CASE k # 1
  <2>1. k \in 2 .. Len(list) + 1
    BY <1>6
  <2>2. b[f[k]] = a[list[k - 1]]
    BY <2>1, <1>2, <1>3
  <2>3. k - 1 \in DOMAIN list /\ l - 1 \in DOMAIN list /\ k - 1 < l - 1
    BY <2>1, <1>2, <1>4
  <2>4. a[list[k - 1]] <= a[list[l - 1]]
    BY <2>3 DEF SortedBy
  <2> QED
    BY <2>2, <2>4, <1>4
<1> QED
  BY <1>5, <1>6

-----------------------------------------------------------------------------
LEMMA Bounds == MaxAge \in Nat /\ Timeout \in Nat /\ Timeout < MaxAge /\ 0 \in 0 .. MaxAge
<1>1. MaxAge \in Nat /\ Timeout \in Nat /\ Timeout < MaxAge
  BY PollLoopAssumption
<1> QED
  BY <1>1

(* What the handlers of a connection may do to the lists: take it off      *)
(* them, move it to the head of its list, or leave them as they are.       *)
Touch(c) ==
  /\ normal_timeout' = Moved(c) /\ age' = [age EXCEPT ![c] = 0]
  /\ UNCHANGED <<connections, cleanup>>

LEMMA HandleMoves ==
  ASSUME NEW c, NEW events, NEW own \in BOOLEAN, Handle(c, events, own)
  PROVE  Unlink(c) \/ Touch(c) \/ UNCHANGED <<lists, age>>
<1>1. CASE event_loop_info[c] = "CLEANUP"
  BY <1>1 DEF Handle
<1>2. CASE event_loop_info[c] # "CLEANUP" /\ events # {}
  <2>1. Active(c, events, own)
    BY <1>2 DEF Handle
  <2> QED
    BY <2>1 DEF Active, Touch
<1>3. CASE event_loop_info[c] # "CLEANUP" /\ events = {}
  <2>1. Inactive(c)
    BY <1>3 DEF Handle
  <2> QED
    BY <2>1 DEF Inactive
<1> QED
  BY <1>1, <1>2, <1>3

(* What the state of the lists is made of.                                 *)
ListsTyped ==
  /\ connections \in Seq(Conns) /\ normal_timeout \in Seq(Conns)
  /\ waiting \subseteq Conns /\ cleanup \subseteq Conns
  /\ age \in [Conns -> 0 .. MaxAge]

ConnTyped ==
  event_loop_info \in [Conns -> Infos] /\ room \in [Conns -> BOOLEAN]

LEMMA HandleConn ==
  ASSUME ConnTyped, NEW c \in Conns, NEW events, NEW own \in BOOLEAN, Handle(c, events, own)
  PROVE  ConnTyped'
<1>1. CASE Unlink(c)
  BY <1>1 DEF Unlink, ConnTyped, Infos
<1>2. CASE event_loop_info[c] # "CLEANUP" /\ Active(c, events, own) /\ ~Unlink(c)
  <2>1. CASE own
    <3>1. PICK info \in {"READ", "WRITE"} \cup (IF c \in Stallers THEN {"BLOCK"} ELSE {}) :
            /\ event_loop_info' = [event_loop_info EXCEPT ![c] = info]
            /\ room' = [room EXCEPT ![c] =
                 IF info = "READ" THEN c \in Roomy
                 ELSE @ /\ ~(event_loop_info[c] # "READ" /\ "in" \in events)]
      BY <1>2, <2>1 DEF Active
    <3>2. info \in Infos
      BY DEF Infos
    <3>3. room' \in [Conns -> BOOLEAN]
      <4> DEFINE other == room[c] /\ ~(event_loop_info[c] # "READ" /\ "in" \in events)
                 new == IF info = "READ" THEN c \in Roomy ELSE other
      <4>1. new \in BOOLEAN
        <5>1. other = TRUE \/ other = FALSE
          BY Zenon DEF ConnTyped
        <5>2. (c \in Roomy) \in BOOLEAN
          BY SMT
        <5> HIDE DEF other
        <5> QED
          BY <5>1, <5>2, Zenon
      <4>2. room' = [room EXCEPT ![c] = new]
        BY <3>1
      <4> HIDE DEF new
      <4> QED
        BY <4>1, <4>2 DEF ConnTyped
    <3> QED
      BY <3>1, <3>2, <3>3 DEF ConnTyped
  <2>2. CASE ~own
    BY <1>2, <2>2 DEF Active, ConnTyped
  <2> QED
    BY <2>1, <2>2
<1>3. CASE Inactive(c)
  BY <1>3 DEF Inactive, ConnTyped, Infos
<1> QED
  BY <1>1, <1>2, <1>3 DEF Handle

-----------------------------------------------------------------------------
(* The lists after a connection was taken off them, or moved.              *)
LEMMA AfterUnlink ==
  ASSUME ListsTyped, Once, NormalSorted, NEW c \in Listed, Unlink(c), waiting' = waiting
  PROVE  ListsTyped' /\ Once' /\ NormalSorted'
<1>1. c \in Conns /\ c \in ToSet(connections) /\ c \in ToSet(normal_timeout)
  <2>1. c \in ToSet(connections) /\ c \in ToSet(normal_timeout)
    BY DEF Listed, NormalSorted
  <2> QED
    BY <2>1, InList DEF ListsTyped
<1>2. /\ connections' \in Seq(Conns) /\ Len(connections') = Len(connections) - 1
      /\ Distinct(connections') /\ ToSet(connections') = ToSet(connections) \ {c}
  BY <1>1, WithoutOne DEF Unlink, Once, ListsTyped
<1>3. /\ normal_timeout' \in Seq(Conns) /\ Len(normal_timeout') = Len(normal_timeout) - 1
      /\ Distinct(normal_timeout') /\ ToSet(normal_timeout') = ToSet(normal_timeout) \ {c}
  BY <1>1, WithoutOne DEF Unlink, Once, ListsTyped
<1>4. ListsTyped'
  <2>1. age' \in [Conns -> 0 .. MaxAge]
    BY <1>1, Bounds DEF Unlink, ListsTyped
  <2> QED
    BY <2>1, <1>1, <1>2, <1>3 DEF Unlink, ListsTyped
<1>5. Once'
  BY <1>2, <1>3 DEF Once, Listed, Distinct
<1>6. SortedBy(normal_timeout', age')
  <2>1. SortedBy(normal_timeout, age)
    BY DEF NormalSorted, SortedBy
  <2>2. SortedBy(normal_timeout', age)
    BY <2>1, <1>1, SortedWithout DEF Unlink, Once, ListsTyped
  <2>3. \A k \in DOMAIN normal_timeout' : age'[normal_timeout'[k]] = age[normal_timeout'[k]]
    <3> TAKE k \in DOMAIN normal_timeout'
    <3>1. normal_timeout'[k] \in ToSet(normal_timeout')
      BY <1>3, InList
    <3>2. normal_timeout'[k] \in Conns /\ normal_timeout'[k] # c
      BY <3>1, <1>3
    <3> QED
      BY <3>2 DEF Unlink, ListsTyped
  <2> QED
    BY <2>2, <2>3 DEF SortedBy
<1> QED
  BY <1>2, <1>3, <1>4, <1>5, <1>6 DEF NormalSorted, SortedBy, Listed

LEMMA AfterTouch ==
  ASSUME ListsTyped, Once, NormalSorted, NEW c \in Listed, Touch(c), waiting' = waiting
  PROVE  ListsTyped' /\ Once' /\ NormalSorted'
<1> DEFINE w == Without(normal_timeout, c)
<1>1. c \in Conns /\ c \in ToSet(normal_timeout)
  <2>1. c \in ToSet(connections) /\ c \in ToSet(normal_timeout)
    BY DEF Listed, NormalSorted
  <2> QED
    BY <2>1, InList DEF ListsTyped
<1>2. w \in Seq(Conns) /\ Len(w) = Len(normal_timeout) - 1 /\ Distinct(w)
      /\ ToSet(w) = ToSet(normal_timeout) \ {c}
  BY <1>1, WithoutOne DEF Once, ListsTyped
<1>3. SortedBy(w, age)
  <2>1. SortedBy(normal_timeout, age)
    BY DEF NormalSorted, SortedBy
  <2> QED
    BY <2>1, <1>1, SortedWithout DEF Once, ListsTyped
<1>4. normal_timeout' = <<c>> \o w
  BY DEF Touch, Moved
<1> HIDE DEF w
<1>5. /\ normal_timeout' \in Seq(Conns) /\ Len(normal_timeout') = Len(w) + 1
      /\ Distinct(normal_timeout') /\ ToSet(normal_timeout') = ToSet(w) \cup {c}
  BY <1>1, <1>2, <1>4, InFront
<1>6. SortedBy(normal_timeout', age')
  BY <1>1, <1>2, <1>3, <1>4, SortedInFront DEF Touch, ListsTyped
<1>7. age' \in [Conns -> 0 .. MaxAge]
  BY <1>1, Bounds DEF Touch, ListsTyped
<1>8. Len(normal_timeout') = Len(normal_timeout) /\ ToSet(normal_timeout') = ToSet(normal_timeout)
  BY <1>1, <1>2, <1>5 DEF ListsTyped
<1> QED
  BY <1>5, <1>6, <1>7, <1>8 DEF Touch, ListsTyped, Once, NormalSorted, SortedBy, Listed, Distinct

LEMMA HandleKeeps ==
  ASSUME ListsTyped, Once, NormalSorted, waiting' = waiting,
         NEW c \in Listed, NEW events, NEW own \in BOOLEAN, Handle(c, events, own)
  PROVE  ListsTyped' /\ Once' /\ NormalSorted'
<1>1. CASE UNCHANGED <<lists, age>>
  BY <1>1 DEF lists, ListsTyped, Once, NormalSorted, Listed, Distinct
<1> QED
  BY <1>1, HandleMoves, AfterUnlink, AfterTouch

-----------------------------------------------------------------------------
(* The walk goes on to the connection behind, wherever it is by then.      *)
LEMMA WalkOn ==
  ASSUME ListsTyped, Once, next \in Listed, next' = After(next),
         Unlink(next) \/ connections' = connections
  PROVE  /\ next' \in Listed' \cup {NoConn}
         /\ next' # NoConn =>
              Len(connections') - Position(connections', next')
                = Len(connections) - Position(connections, next) - 1
<1> DEFINE at == Position(connections, next)
<1>1. at \in 1 .. Len(connections)
  BY PositionIs DEF Listed, ListsTyped
<1>2. CASE at = Len(connections)
  BY <1>2 DEF After
<1>3. CASE at # Len(connections)
  <2>1. at \in 1 .. Len(connections) - 1 /\ at + 1 \in 1 .. Len(connections)
    BY <1>1, <1>3
  <2>2. next' = connections[at + 1]
    BY <1>3 DEF After
  <2>3. CASE Unlink(next)
    <3> DEFINE w == Without(connections, next)
    <3>1. /\ connections' = w /\ w \in Seq(Conns) /\ Len(w) = Len(connections) - 1 /\ Distinct(w)
          /\ w[at] = connections[at + 1]
      BY <2>1, <2>3, WithoutOne DEF Unlink, Listed, ListsTyped, Once
    <3> HIDE DEF w
    <3>2. at \in 1 .. Len(w) /\ Position(w, w[at]) = at
      BY <2>1, <3>1, PositionOf
    <3>3. next' \in ToSet(w)
      BY <3>1, <3>2, <2>2, InList
    <3> QED
      BY <1>1, <2>2, <3>1, <3>2, <3>3 DEF Listed
  <2>4. CASE connections' = connections
    <3>1. Position(connections, connections[at + 1]) = at + 1
      BY <2>1, PositionOf DEF ListsTyped, Once
    <3>2. next' \in ToSet(connections)
      BY <2>1, <2>2, InList DEF ListsTyped
    <3> QED
      BY <1>1, <2>2, <2>4, <3>1, <3>2 DEF Listed, ListsTyped
  <2> QED
    BY <2>3, <2>4
<1> QED
  BY <1>2, <1>3

(* A walk starts at the head of the list.                                  *)
LEMMA WalkStarts ==
  ASSUME NEW list \in Seq(Conns), Distinct(list), StartWalk(list)
  PROVE  /\ pc' = "walk" /\ i' = 1 /\ next' \in ToSet(list) \cup {NoConn}
         /\ next' # NoConn => Len(list) - Position(list, next') = Len(list) - 1
<1>1. CASE list = <<>>
  BY <1>1 DEF StartWalk
<1>2. CASE list # <<>>
  <2>1. next' = list[1] /\ 1 \in 1 .. Len(list)
    BY <1>2 DEF StartWalk
  <2>2. next' \in ToSet(list) /\ Position(list, next') = 1
    BY <2>1, InList, PositionOf
  <2> QED
    BY <2>2 DEF StartWalk
<1> QED
  BY <1>1, <1>2

Slots == [fd: Conns, revents: SUBSET {"in", "out"}]

LEMMA SlotWith ==
  ASSUME NEW slot \in Slots, NEW r \in SUBSET {"in", "out"}
  PROVE  [slot EXCEPT !.revents = r] \in Slots
BY DEF Slots

LEMMA SlotUsed ==
  ASSUME p \in Seq(Slots), NEW k \in 1 .. Len(p)
  PROVE  [p EXCEPT ![k].revents = {}] \in Seq(Slots) /\ Len([p EXCEPT ![k].revents = {}]) = Len(p)
<1>1. [p[k] EXCEPT !.revents = {}] \in Slots
  <2>1. p[k] \in Slots
    OBVIOUS
  <2> QED
    BY <2>1, SlotWith
<1> QED
  BY <1>1

-----------------------------------------------------------------------------
LEMMA WorkerInvInit == Init => WorkerInv
<1> SUFFICES ASSUME Init PROVE WorkerInv
  OBVIOUS
<1> USE DEF Init
<1>1. TypeOK
  <2>1. age \in [Conns -> 0 .. MaxAge] /\ wait \in 0 .. Forever
    BY Bounds DEF Forever
  <2>2. mode \in {"poll", "select"}
    BY PollLoopAssumption
  <2>3. room \in [Conns -> BOOLEAN]
    <3>1. \A c \in Conns : (c \in Roomy) \in BOOLEAN
      BY SMT
    <3> QED
      BY <3>1
  <2> QED
    BY <2>1, <2>2, <2>3 DEF TypeOK, Infos
<1>2. Once
  <2>1. Listed = {}
    BY DEF Listed, ToSet
  <2> QED
    BY <2>1 DEF Once, Distinct
<1>3. NormalSorted
  BY DEF NormalSorted, Listed
<1>4. Ahead
  BY DEF Ahead
<1> QED
  BY <1>1, <1>2, <1>3, <1>4 DEF WorkerInv

(* Steps that leave the lists alone.                                       *)
LEMMA ListsStay ==
  ASSUME Once, NormalSorted, UNCHANGED <<lists, age, waiting>>
  PROVE  Once' /\ NormalSorted'
BY DEF lists, Once, NormalSorted, Listed, Distinct

LEMMA StepPrepare == ASSUME WorkerInv, Prepare PROVE WorkerInv'
<1>1. Once' /\ NormalSorted'
  BY ListsStay DEF WorkerInv, Prepare, conn
<1>2. p' \in Seq(Slots) /\ Len(p') = Len(connections)
  <2>1. connections \in Seq(Conns)
    BY DEF WorkerInv, TypeOK
  <2>2. \A k \in 1 .. Len(connections) : connections[k] \in Conns /\ Awaited(connections[k]) \in SUBSET {"in", "out"}
    BY <2>1 DEF Awaited
  <2>3. p' = [k \in 1 .. Len(connections) |->
               [fd |-> connections[k], revents |-> Awaited(connections[k])]]
    BY <2>1 DEF Prepare, Polled
  <2>4. \A k \in 1 .. Len(connections) :
          [fd |-> connections[k], revents |-> Awaited(connections[k])] \in Slots
    BY <2>2 DEF Slots
  <2> QED
    BY <2>1, <2>3, <2>4
<1>3. wait' \in 0 .. Forever
  <2>1. wait' = GetTimeout
    BY DEF Prepare
  <2>2. normal_timeout # <<>> => age[Head(normal_timeout)] \in 0 .. MaxAge
    BY DEF WorkerInv, TypeOK
  <2> QED
    BY <2>1, <2>2, Bounds DEF GetTimeout, Deadline, Forever
<1>4. TypeOK'
  BY <1>2, <1>3 DEF WorkerInv, TypeOK, Prepare, lists, conn, walk, Slots
<1>5. Ahead'
  BY <1>2 DEF WorkerInv, Ahead, Prepare, lists, walk
<1> QED
  BY <1>1, <1>4, <1>5 DEF WorkerInv

LEMMA StepTick == ASSUME WorkerInv, Tick PROVE WorkerInv'
<1>1. age \in [Conns -> 0 .. MaxAge] /\ normal_timeout \in Seq(Conns)
  BY DEF WorkerInv, TypeOK
<1>2. age' \in [Conns -> 0 .. MaxAge]
  BY <1>1, Bounds DEF Tick, Older
<1>3. NormalSorted'
  <2>1. \A k \in DOMAIN normal_timeout : normal_timeout[k] \in Conns /\ normal_timeout[k] \in Listed
    BY <1>1, InList DEF WorkerInv, NormalSorted
  <2>2. ASSUME NEW k \in DOMAIN normal_timeout, NEW l \in DOMAIN normal_timeout, k < l
        PROVE  age'[normal_timeout[k]] <= age'[normal_timeout[l]]
    <3>1. age[normal_timeout[k]] <= age[normal_timeout[l]]
      BY <2>2 DEF WorkerInv, NormalSorted
    <3>2. age'[normal_timeout[k]] = Older(normal_timeout[k]) /\ age'[normal_timeout[l]] = Older(normal_timeout[l])
      BY <2>1 DEF Tick
    <3>3. age[normal_timeout[k]] \in 0 .. MaxAge /\ age[normal_timeout[l]] \in 0 .. MaxAge
      BY <1>1, <2>1
    <3> QED
      BY <3>1, <3>2, <3>3, Bounds DEF Older
  <2> QED
    BY <2>2 DEF WorkerInv, NormalSorted, Tick, lists, Listed
<1>4. wait' \in 0 .. Forever
  BY Bounds DEF WorkerInv, TypeOK, Tick, Forever
<1>5. TypeOK'
  BY <1>2, <1>4 DEF WorkerInv, TypeOK, Tick, lists, walk
<1>6. Once' /\ Ahead'
  BY DEF WorkerInv, Tick, Once, Ahead, Listed, lists, walk, Distinct
<1> QED
  BY <1>3, <1>5, <1>6 DEF WorkerInv

LEMMA StepPollReturns == ASSUME WorkerInv, PollReturns PROVE WorkerInv'
<1>1. PICK ready \in [DOMAIN p -> SUBSET {"in", "out"}], accepts \in BOOLEAN : Return(ready, accepts)
  BY DEF PollReturns
<1> USE <1>1 DEF Return
<1>2. Once' /\ NormalSorted'
  BY ListsStay DEF WorkerInv, conn
<1>3. p' \in Seq(Slots) /\ Len(p') = Len(p)
  <2>1. p \in Seq(Slots)
    BY DEF WorkerInv, TypeOK, Slots
  <2>2. \A k \in 1 .. Len(p) : [p[k] EXCEPT !.revents = ready[k]] \in Slots
    <3> TAKE k \in 1 .. Len(p)
    <3>1. p[k] \in Slots /\ ready[k] \in SUBSET {"in", "out"}
      BY <2>1
    <3> QED
      BY <3>1, SlotWith
  <2>3. p' = [k \in 1 .. Len(p) |-> [p[k] EXCEPT !.revents = ready[k]]]
    BY <2>1
  <2> QED
    BY <2>1, <2>2, <2>3
<1>4. wait' \in 0 .. Forever
  BY Bounds DEF Forever
<1>5. connections' = connections /\ connections \in Seq(Conns) /\ Distinct(connections)
      /\ normal_timeout' = normal_timeout /\ mode' = mode /\ Len(p) = Len(connections)
  BY DEF WorkerInv, TypeOK, Once, Ahead, lists
<1>6. CASE mode = "poll"
  <2>1. StartWalk(connections)
    BY <1>6
  <2>2. /\ pc' = "walk" /\ i' = 1 /\ next' \in ToSet(connections) \cup {NoConn}
        /\ next' # NoConn => Len(connections) - Position(connections, next') = Len(connections) - 1
    BY <2>1, <1>5, WalkStarts
  <2>3. next' \in Conns \cup {NoConn} /\ i' \in Nat
    BY <2>2, <1>5, InList
  <2>4. TypeOK'
    BY <1>3, <1>4, <1>5, <2>2, <2>3 DEF WorkerInv, TypeOK, lists, conn, Slots
  <2>5. Ahead'
    BY <1>3, <1>5, <2>2 DEF Ahead, Listed
  <2> QED
    BY <1>2, <2>4, <2>5 DEF WorkerInv
<1>7. CASE mode # "poll"
  <2>1. TypeOK'
    BY <1>3, <1>4, <1>5, <1>7 DEF WorkerInv, TypeOK, lists, conn, walk, Slots
  <2>2. Ahead'
    BY <1>7 DEF WorkerInv, Ahead, walk
  <2> QED
    BY <1>2, <2>1, <2>2 DEF WorkerInv
<1> QED
  BY <1>6, <1>7

-----------------------------------------------------------------------------
(* One turn of either walk: what it does to the lists and where it goes.   *)
LEMMA VisitKeeps ==
  ASSUME WorkerInv, pc = "walk", next # NoConn, waiting' = waiting, pc' = pc, mode' = mode,
         next' = After(next),
         Skip \/ (\E events : \E own \in BOOLEAN : Handle(next, events, own))
  PROVE  /\ ListsTyped' /\ ConnTyped' /\ Once' /\ NormalSorted'
         /\ next' \in Listed' \cup {NoConn} /\ next' \in Conns \cup {NoConn}
         /\ next' # NoConn =>
              Len(connections') - Position(connections', next')
                = Len(connections) - Position(connections, next) - 1
<1>1. ListsTyped /\ ConnTyped /\ Once /\ NormalSorted /\ next \in Listed /\ next \in Conns
  BY DEF WorkerInv, TypeOK, ListsTyped, ConnTyped, Ahead
<1>2. /\ ListsTyped' /\ ConnTyped' /\ Once' /\ NormalSorted'
      /\ Unlink(next) \/ connections' = connections
  <2>1. CASE Skip
    BY <1>1, <2>1, ListsStay DEF Skip, lists, conn, ListsTyped, ConnTyped
  <2>2. ASSUME NEW events, NEW own \in BOOLEAN, Handle(next, events, own)
        PROVE  /\ ListsTyped' /\ ConnTyped' /\ Once' /\ NormalSorted'
               /\ Unlink(next) \/ connections' = connections
    BY <1>1, <2>2, HandleKeeps, HandleConn, HandleMoves DEF Touch, lists
  <2> QED
    BY <2>1, <2>2
<1>3. next' \in Listed' => next' \in Conns
  BY <1>2, InList DEF Listed, ListsTyped
<1> QED
  BY <1>1, <1>2, <1>3, WalkOn

LEMMA StepVisit == ASSUME WorkerInv, Visit PROVE WorkerInv'
<1>1. /\ pc = "walk" /\ mode = "poll" /\ next # NoConn /\ next' = After(next)
      /\ waiting' = waiting /\ pc' = pc /\ mode' = mode /\ listen' = listen /\ wait' = wait
  BY DEF Visit
<1>2. Skip \/ (\E events : \E own \in BOOLEAN : Handle(next, events, own))
  <2>1. CASE event_loop_info[next] \in {"READ", "WRITE"}
    BY <2>1 DEF Visit
  <2>2. CASE event_loop_info[next] = "BLOCK"
    <3>1. Handle(next, p[i].revents \cap {"in"}, p[i].fd = next)
      BY <2>2 DEF Visit
    <3>2. (p[i].fd = next) \in BOOLEAN
      BY SMT
    <3> QED
      BY <3>1, <3>2
  <2>3. CASE event_loop_info[next] \notin {"READ", "WRITE", "BLOCK"}
    <3>1. Handle(next, {}, TRUE)
      BY <2>3 DEF Visit
    <3> QED
      BY <3>1
  <2> QED
    BY <2>1, <2>2, <2>3
<1>3. /\ ListsTyped' /\ ConnTyped' /\ Once' /\ NormalSorted'
      /\ next' \in Listed' \cup {NoConn} /\ next' \in Conns \cup {NoConn}
      /\ next' # NoConn =>
           Len(connections') - Position(connections', next')
             = Len(connections) - Position(connections, next) - 1
  BY <1>1, <1>2, VisitKeeps
<1>4. /\ p \in Seq(Slots) /\ i \in Nat /\ i >= 1
      /\ Len(connections) - Position(connections, next) <= Len(p) - i
      /\ connections \in Seq(Conns) /\ Position(connections, next) \in 1 .. Len(connections)
  BY <1>1, PositionIs DEF WorkerInv, TypeOK, Ahead, Slots, Listed
<1>5. p' \in Seq(Slots) /\ Len(p') = Len(p) /\ i' \in Nat /\ i <= i' /\ i' <= i + 1
  <2>1. CASE Advance(next)
    <3>1. i \in 1 .. Len(p)
      BY <1>4, <2>1 DEF Advance, Matches
    <3>2. p' = [p EXCEPT ![i].revents = {}] /\ i' = i + 1
      BY <2>1 DEF Visit
    <3> QED
      BY <1>4, <3>1, <3>2, SlotUsed
  <2>2. CASE ~Advance(next)
    BY <1>4, <2>2 DEF Visit
  <2> QED
    BY <2>1, <2>2
<1>6. TypeOK'
  BY <1>1, <1>3, <1>5 DEF WorkerInv, TypeOK, ListsTyped, ConnTyped, Slots
<1>7. Ahead'
  BY <1>1, <1>3, <1>4, <1>5 DEF Ahead
<1> QED
  BY <1>3, <1>6, <1>7 DEF WorkerInv

LEMMA StepVisitSelect == ASSUME WorkerInv, VisitSelect PROVE WorkerInv'
<1>1. /\ pc = "walk" /\ mode = "select" /\ next # NoConn /\ next' = After(next)
      /\ waiting' = waiting /\ pc' = pc /\ mode' = mode /\ p' = p /\ listen' = listen /\ wait' = wait
      /\ i' = i /\ Handle(next, Lookup(next), TRUE)
  BY DEF VisitSelect
<1>2. \E events : \E own \in BOOLEAN : Handle(next, events, own)
  BY <1>1
<1>3. /\ ListsTyped' /\ ConnTyped' /\ Once' /\ NormalSorted'
      /\ next' \in Listed' \cup {NoConn} /\ next' \in Conns \cup {NoConn}
  BY <1>1, <1>2, VisitKeeps
<1>4. TypeOK'
  BY <1>1, <1>3 DEF WorkerInv, TypeOK, ListsTyped, ConnTyped
<1>5. Ahead'
  BY <1>1, <1>3 DEF WorkerInv, Ahead
<1> QED
  BY <1>3, <1>4, <1>5 DEF WorkerInv

(* AcceptEnds, for the list as it is after an accept.                      *)
LEMMA AfterAccept ==
  ASSUME WorkerInv, pc = "accept", mode' = mode, p' = p,
         ListsTyped', Once', AcceptEnds(connections')
  PROVE  /\ pc' \in {"walk", "cleanup"} /\ i' \in Nat /\ next' \in Conns \cup {NoConn}
         /\ Ahead'
<1>1. CASE mode = "poll"
  BY <1>1 DEF AcceptEnds, WorkerInv, TypeOK, Ahead, walk
<1>2. CASE mode # "poll"
  <2>1. StartWalk(connections') /\ connections' \in Seq(Conns) /\ Distinct(connections')
    BY <1>2 DEF AcceptEnds, ListsTyped, Once, Distinct
  <2>2. pc' = "walk" /\ i' = 1 /\ next' \in ToSet(connections') \cup {NoConn}
    BY <2>1, WalkStarts
  <2>3. next' \in Conns \cup {NoConn}
    BY <2>1, <2>2, InList
  <2> QED
    BY <1>2, <2>2, <2>3 DEF Ahead, Listed
<1> QED
  BY <1>1, <1>2

LEMMA StepAccept == ASSUME WorkerInv, Accept PROVE WorkerInv'
<1>1. PICK c \in waiting :
        /\ waiting' = waiting \ {c}
        /\ IF Count = Limit
             THEN UNCHANGED <<lists, age>>
             ELSE /\ connections' = <<c>> \o connections
                  /\ normal_timeout' = <<c>> \o normal_timeout
                  /\ age' = [age EXCEPT ![c] = 0]
                  /\ UNCHANGED cleanup
  BY DEF Accept
<1>2. ListsTyped /\ c \in Conns
  BY DEF WorkerInv, TypeOK, ListsTyped
<1>3. ListsTyped' /\ Once' /\ NormalSorted'
  <2>1. CASE Count = Limit
    BY <1>1, <1>2, <2>1 DEF WorkerInv, lists, ListsTyped, Once, NormalSorted, Listed, Distinct
  <2>2. CASE Count # Limit
    <3>1. c \notin ToSet(connections) /\ c \notin ToSet(normal_timeout)
      BY DEF WorkerInv, Once, NormalSorted, Listed
    <3> connections \in Seq(Conns) /\ Distinct(connections)
      BY <1>2 DEF WorkerInv, Once, ListsTyped
    <3> normal_timeout \in Seq(Conns) /\ Distinct(normal_timeout)
      BY <1>2 DEF WorkerInv, Once, ListsTyped
    <3> /\ connections' = <<c>> \o connections
        /\ normal_timeout' = <<c>> \o normal_timeout
      BY <1>1, <2>2
    <3>2. /\ connections' \in Seq(Conns) /\ Len(connections') = Len(connections) + 1
          /\ Distinct(connections') /\ ToSet(connections') = ToSet(connections) \cup {c}
      BY <1>2, <3>1, InFront
    <3>3. /\ normal_timeout' \in Seq(Conns) /\ Len(normal_timeout') = Len(normal_timeout) + 1
          /\ Distinct(normal_timeout') /\ ToSet(normal_timeout') = ToSet(normal_timeout) \cup {c}
      BY <1>2, <3>1, InFront
    <3>4. SortedBy(normal_timeout', age')
      <4>1. SortedBy(normal_timeout, age)
        BY DEF WorkerInv, NormalSorted, SortedBy
      <4> QED
        BY <1>1, <1>2, <2>2, <3>1, <4>1, SortedInFront DEF ListsTyped
    <3>5. age' \in [Conns -> 0 .. MaxAge]
      BY <1>1, <1>2, <2>2, Bounds DEF ListsTyped
    <3>6. ListsTyped'
      BY <1>1, <1>2, <2>2, <3>2, <3>3, <3>5 DEF ListsTyped
    <3>7. Once'
      BY <1>1, <3>2, <3>3 DEF WorkerInv, Once, Listed, Distinct
    <3>8. NormalSorted'
      BY <3>2, <3>3, <3>4 DEF WorkerInv, NormalSorted, SortedBy, Listed
    <3> QED
      BY <3>6, <3>7, <3>8
  <2> QED
    BY <2>1, <2>2
<1>4. /\ pc' \in {"walk", "cleanup"} /\ i' \in Nat /\ next' \in Conns \cup {NoConn}
      /\ Ahead'
  BY <1>3, AfterAccept DEF Accept
<1>5. TypeOK'
  BY <1>3, <1>4 DEF WorkerInv, TypeOK, Accept, ListsTyped
<1> QED
  BY <1>3, <1>4, <1>5 DEF WorkerInv

LEMMA StepAcceptNothing == ASSUME WorkerInv, AcceptNothing PROVE WorkerInv'
<1>1. UNCHANGED <<mode, waiting, lists, conn, p, listen, wait>> /\ pc = "accept"
  BY DEF AcceptNothing
<1>2. ListsTyped' /\ Once' /\ NormalSorted'
  BY <1>1, ListsStay DEF WorkerInv, TypeOK, ListsTyped, lists, conn
<1>3. connections' = connections
  BY <1>1 DEF lists
<1>4. /\ pc' \in {"walk", "cleanup"} /\ i' \in Nat /\ next' \in Conns \cup {NoConn}
      /\ Ahead'
  BY <1>1, <1>2, <1>3, AfterAccept DEF AcceptNothing
<1>5. TypeOK'
  BY <1>1, <1>2, <1>4 DEF WorkerInv, TypeOK, ListsTyped, conn
<1> QED
  BY <1>2, <1>4, <1>5 DEF WorkerInv

(* The steps that only go on in the loop.                                  *)
LEMMA StepOn == ASSUME WorkerInv, WalkEnds \/ Interrupted \/ Cleanup PROVE WorkerInv'
<1>1. Once' /\ NormalSorted'
  BY DEF WorkerInv, WalkEnds, Interrupted, Cleanup, lists, conn, Once, NormalSorted, Listed, Distinct
<1>2. TypeOK'
  <2>1. CASE WalkEnds \/ Interrupted
    BY <2>1 DEF WorkerInv, TypeOK, WalkEnds, Interrupted, lists, conn, walk
  <2>2. CASE Cleanup
    BY <2>2, Bounds DEF WorkerInv, TypeOK, Cleanup, conn, Forever
  <2> QED
    BY <2>1, <2>2
<1>3. Ahead'
  BY DEF WorkerInv, Ahead, WalkEnds, Interrupted, Cleanup, walk
<1> QED
  BY <1>1, <1>2, <1>3 DEF WorkerInv

LEMMA WorkerInvNext == WorkerInv /\ [Next]_vars => WorkerInv'
<1> SUFFICES ASSUME WorkerInv, [Next]_vars PROVE WorkerInv'
  OBVIOUS
<1>1. CASE Worker
  BY <1>1, StepPrepare, StepPollReturns, StepVisit, StepVisitSelect, StepOn, StepAccept,
     StepAcceptNothing DEF Worker
<1>2. CASE Tick
  BY <1>2, StepTick
<1>3. CASE Interrupted
  BY <1>3, StepOn
<1>4. CASE UNCHANGED vars
  <2>1. Once' /\ NormalSorted'
    BY <1>4, ListsStay DEF WorkerInv, vars, conn
  <2>2. TypeOK' /\ Ahead'
    BY <1>4 DEF WorkerInv, vars, lists, conn, walk, TypeOK, Ahead, Listed
  <2> QED
    BY <2>1, <2>2 DEF WorkerInv
<1> QED
  BY <1>1, <1>2, <1>3, <1>4 DEF Next

(* The lists, the array and the walk agree in every state of the worker.   *)
THEOREM WorkerHolds == Spec => []WorkerInv
<1> QED
  BY WorkerInvInit, WorkerInvNext, PTL DEF Spec

(* The list of timeouts holds every connection of the worker, in the order *)
(* of its last activity, whatever the handlers do while they are visited.  *)
THEOREM TimeoutsSorted == Spec => []NormalSorted
<1>1. WorkerInv => NormalSorted
  BY DEF WorkerInv
<1> QED
  BY <1>1, WorkerHolds, PTL

(* MHD_poll_all does not read behind the end of its array.                 *)
THEOREM IndexBounded == Spec => []IndexInside
<1>1. WorkerInv => IndexInside
  <2> SUFFICES ASSUME WorkerInv, pc = "walk", next # NoConn, mode = "poll" PROVE i <= Len(p)
    BY DEF IndexInside
  <2>1. /\ Position(connections, next) \in 1 .. Len(connections) /\ i \in Nat
        /\ connections \in Seq(Conns) /\ p \in Seq(Slots)
    BY PositionIs DEF WorkerInv, TypeOK, Ahead, Listed, Slots
  <2>2. Len(connections) - Position(connections, next) <= Len(p) - i
    BY DEF WorkerInv, Ahead
  <2> QED
    BY <2>1, <2>2
<1> QED
  BY <1>1, WorkerHolds, PTL
=============================================================================
