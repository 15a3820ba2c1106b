---------------------------- MODULE MemoryProofs ----------------------------
(***************************************************************************)
(* The memory of a connection (RequestMemory): what is in use at the same  *)
(* time never overlaps, a connection that waits for more of a request can  *)
(* read some of it, and it is kept for another request only when the       *)
(* client can tell.  For any pool, alignment, increment, sizes of records, *)
(* heads and bodies.                                                       *)
(***************************************************************************)
EXTENDS RequestMemory, TLAPS

-----------------------------------------------------------------------------
(* What the division of ROUND_TO_ALIGN yields.                             *)
LEMMA Quotient ==
  ASSUME NEW n \in Nat, NEW d \in Nat \ {0}
  PROVE  n \div d \in Nat /\ (n \div d) * d <= n /\ n < (n \div d) * d + d
  OBVIOUS

LEMMA Rounded ==
  ASSUME NEW n \in Nat
  PROVE  /\ RoundToAlign(n) \in Nat /\ n <= RoundToAlign(n)
         /\ n > 0 => RoundToAlign(n) >= 2
<1>1. n + Align - 1 \in Nat /\ Align \in Nat \ {0}
  BY PoolAssumption
<1>2. QED  BY <1>1, Quotient, PoolAssumption DEF RoundToAlign

LEMMA RoundedZero == RoundToAlign(0) = 0
<1>1. (Align - 1) \div Align = 0
  BY PoolAssumption
<1>2. QED  BY <1>1, PoolAssumption DEF RoundToAlign

LEMMA RoundedFits ==
  ASSUME NEW n \in 0 .. PoolSize
  PROVE  RoundToAlign(n) <= PoolSize
<1> DEFINE q == PoolSize \div Align
<1>1. PoolSize = q * Align /\ q \in Nat
  BY PoolAssumption
<1>2. (n + Align - 1) \div Align <= q
  BY <1>1, PoolAssumption
<1>3. QED  BY <1>1, <1>2, PoolAssumption DEF RoundToAlign

LEMMA Monotone ==
  ASSUME NEW a \in Nat, NEW b \in Nat, NEW r \in Nat, a <= b
  PROVE  a * r \in Nat /\ a * r <= b * r
  OBVIOUS

-----------------------------------------------------------------------------
(***************************************************************************)
(* The operations of the pool.  The free part, pos .. end - 1, only gives  *)
(* bytes away at its ends, and gets bytes back at its front.               *)
(***************************************************************************)
Pools == {p \in [pos : Nat, end : Nat] : p.pos <= p.end /\ p.end <= PoolSize}

LEMMA FrontAllocated ==
  ASSUME NEW p \in Pools, NEW size \in Nat
  PROVE  LET got == AllocateFront(p, size)
         IN  \/ got.at = Null /\ got.pool = p
             \/ /\ got.at = p.pos /\ got.pool \in Pools /\ got.pool.end = p.end
                /\ got.pool.pos = p.pos + RoundToAlign(size)
                /\ p.pos + size <= got.pool.pos
                /\ size > 0 => p.pos + 2 <= got.pool.pos
<1> DEFINE asize == RoundToAlign(size)
<1>1. asize \in Nat /\ size <= asize /\ (size > 0 => asize >= 2)
  BY Rounded
<1>2. CASE p.pos + asize > p.end
  BY <1>2 DEF AllocateFront
<1>3. CASE ~(p.pos + asize > p.end)
  <2>1. AllocateFront(p, size) = [pool |-> [p EXCEPT !.pos = @ + asize], at |-> p.pos]
    BY <1>3 DEF AllocateFront
  <2>2. [p EXCEPT !.pos = @ + asize] \in Pools
    BY <1>1, <1>3 DEF Pools
  <2>3. QED  BY <1>1, <2>1, <2>2 DEF Pools
<1>4. QED  BY <1>2, <1>3

LEMMA EndAllocated ==
  ASSUME NEW p \in Pools, NEW size \in Nat
  PROVE  LET got == AllocateEnd(p, size)
         IN  \/ got.at = Null /\ got.pool = p
             \/ /\ got.pool \in Pools /\ got.pool.pos = p.pos
                /\ got.at = got.pool.end /\ got.at \in Nat
                /\ got.pool.end = p.end - RoundToAlign(size)
                /\ got.at + size <= p.end
<1> DEFINE asize == RoundToAlign(size)
<1>1. asize \in Nat /\ size <= asize
  BY Rounded
<1>2. CASE p.pos + asize > p.end
  BY <1>2 DEF AllocateEnd
<1>3. CASE ~(p.pos + asize > p.end)
  <2>1. AllocateEnd(p, size) = [pool |-> [p EXCEPT !.end = @ - asize], at |-> p.end - asize]
    BY <1>3 DEF AllocateEnd
  <2>2. p.end - asize \in Nat /\ p.pos <= p.end - asize /\ p.end - asize <= PoolSize
    BY <1>1, <1>3, PoolAssumption DEF Pools
  <2>3. [p EXCEPT !.end = @ - asize] \in Pools
    BY <2>2 DEF Pools
  <2>4. QED  BY <1>1, <2>1, <2>2, <2>3 DEF Pools
<1>4. QED  BY <1>2, <1>3

(* A block is refused, or it stays as it is, or it is the last one and its *)
(* end moves, or it gets a place at the start of the free part.            *)
Placings(p, old, old_size, new_size, got) ==
  LET asize == RoundToAlign(new_size)
  IN  \/ got.at = Null /\ got.pool = p
      \/ got.at = old /\ got.pool = p /\ asize <= old_size
      \/ /\ got.at = old /\ old + old_size = p.pos /\ old_size <= p.pos
         /\ got.pool \in Pools /\ got.pool.end = p.end /\ got.pool.pos = old + asize
      \/ /\ got.at = p.pos /\ asize > old_size /\ got.pool \in Pools
         /\ got.pool.end = p.end /\ got.pool.pos = p.pos + asize
         /\ ~IsLast(p, old, old_size)

LEMMA Reallocated ==
  ASSUME NEW p \in Pools, NEW old \in Int, NEW old_size \in Nat, NEW new_size \in Nat
  PROVE  Placings(p, old, old_size, new_size, Reallocate(p, old, old_size, new_size))
<1> USE DEF Placings
<1> DEFINE asize == RoundToAlign(new_size)
           got == Reallocate(p, old, old_size, new_size)
<1>1. asize \in Nat /\ new_size <= asize
  BY Rounded
<1>2. CASE p.end < old_size \/ p.end < asize
  <2>1. got = [pool |-> p, at |-> Null]
    BY <1>1, <1>2 DEF Reallocate, Pools
  <2>2. QED  BY <2>1
<1>3. CASE p.end >= old_size /\ p.end >= asize /\ IsLast(p, old, old_size)
  <2>1. got = IF p.pos + asize - old_size <= p.end
                THEN [pool |-> [p EXCEPT !.pos = @ + asize - old_size], at |-> old]
                ELSE [pool |-> p, at |-> Null]
    BY <1>1, <1>3 DEF Reallocate, Pools
  <2>2. CASE p.pos + asize - old_size <= p.end
    <3>1. [p EXCEPT !.pos = @ + asize - old_size] \in Pools
      BY <1>1, <1>3, <2>2 DEF Pools, IsLast
    <3>2. QED  BY <1>1, <1>3, <2>1, <2>2, <3>1 DEF Pools, IsLast
  <2>3. QED  BY <2>1, <2>2
<1>4. CASE p.end >= old_size /\ p.end >= asize /\ ~IsLast(p, old, old_size) /\ asize <= old_size
  <2>1. got = [pool |-> p, at |-> old]
    BY <1>1, <1>4 DEF Reallocate, Pools
  <2>2. QED  BY <1>4, <2>1
<1>5. CASE p.end >= old_size /\ p.end >= asize /\ ~IsLast(p, old, old_size) /\ asize > old_size
  <2>1. got = AllocateFront(p, new_size)
    BY <1>1, <1>5 DEF Reallocate, Pools
  <2>2. QED  BY <1>5, <2>1, FrontAllocated
<1>6. QED  BY <1>1, <1>2, <1>3, <1>4, <1>5 DEF Pools

-----------------------------------------------------------------------------
(***************************************************************************)
(* The parts of the inductive invariant that speak of the memory.          *)
(***************************************************************************)
Memories ==
  [pool : Pools, at : Int, size : Nat, offset : Nat, scanned : Nat, shrunk : BOOLEAN,
   lines : SUBSET Nat, records : SUBSET Nat, last : [at : Int, size : Nat],
   write : [at : Int, size : Nat]]

(* The read buffer has a place as soon as it has a size.                   *)
Sized(m) ==
  /\ m.offset <= m.size
  /\ m.at = Null => m.size = 0
  /\ m.at # Null => 0 <= m.at /\ m.at + m.size <= PoolSize

(* The lines lie in front of the free part, behind a buffer that has been  *)
(* shrunk; the name of a header that is being read is one of them.         *)
LinesKept(m) ==
  /\ \A b \in m.lines : b < m.pool.pos
  /\ m.shrunk => \A b \in m.lines : b < m.at
  /\ m.last.at # Null => 0 <= m.last.at /\ m.last.size > 0
  /\ \A b \in Block(m.last.at, m.last.size) : b \in m.lines

RecordsKept(m) == \A b \in m.records : m.pool.end <= b /\ b < PoolSize

WriteKept(m) ==
  m.write.size > 0 =>
    /\ 0 <= m.write.at /\ m.write.at + m.write.size <= m.pool.end
    /\ ~m.shrunk => m.write.at + m.write.size <= m.pool.pos
    /\ \A b \in m.lines : b < m.write.at \/ m.write.at + m.write.size <= b

(* The read buffer and the write buffer lie in either order.  The byte     *)
(* after the read buffer is special, because the shrinking takes it for a  *)
(* part of the buffer: when it is the last one that is taken, or would be  *)
(* with the write buffer gone, nothing lies in it.                         *)
WriteBehind(m) ==
  m.at + m.size <= m.write.at /\ m.pool.pos # m.at + m.size + 1
WriteBefore(m) ==
  m.write.at + m.write.size <= m.at /\ m.write.at + m.write.size < m.pool.pos

ReadKept(m) ==
  m.at # Null /\ ~m.shrunk =>
    /\ m.at + m.size <= m.pool.pos
    /\ \A b \in m.lines : b < m.at \/ m.at + m.size <= b
    /\ m.write.size > 0 => WriteBehind(m) \/ WriteBefore(m)
    /\ m.at + m.size \in m.lines =>
         /\ m.pool.pos # m.at + m.size + 1
         /\ m.write.size > 0 => m.write.at # m.at + m.size + 1

Placed(m) ==
  m \in Memories /\ Sized(m) /\ LinesKept(m) /\ RecordsKept(m) /\ WriteKept(m) /\ ReadKept(m)

USE DEF Null

LEMMA NewPlaced == Placed(NewMemory)
<1>1. Created \in Pools
  BY PoolAssumption DEF Pools, Created
<1>2. NewMemory \in Memories
  BY <1>1 DEF Memories, NewMemory, NoLast, NoBuffer
<1>3. QED
  BY <1>2 DEF Placed, Sized, LinesKept, RecordsKept, WriteKept, ReadKept, NewMemory, NoLast,
              NoBuffer, Block, Memories

(* Growing the read buffer, in place or to the start of the free part.     *)
LEMMA GrownPlaced ==
  ASSUME NEW m, Placed(m)
  PROVE  Placed(Grown(m)) /\ Grown(m).shrunk = m.shrunk /\ Grown(m).offset = m.offset
<1>1. m \in Memories /\ m.pool \in Pools /\ m.at \in Int /\ m.size \in Nat
  BY DEF Placed, Memories
<1> DEFINE new == GrownSize(m)  got == Growth(m)  asize == RoundToAlign(new)
<1>2. new \in Nat /\ (new > m.size \/ (new = 0 /\ m.size = 0))
  <2>1. PoolSize \div 2 \in Nat
    BY PoolAssumption
  <2>2. QED  BY <1>1, <2>1, MemoryAssumption DEF GrownSize
<1> DEFINE growth == Reallocate(m.pool, m.at, m.size, new)
<1>9. got = growth
  BY DEF Growth
<1> HIDE DEF new, got
<1>3. asize \in Nat /\ new <= asize /\ (new > 0 => asize >= 2)
  BY <1>2, Rounded
<1>4. CASE got.at = Null
  BY <1>4 DEF Grown, CanGrow, got
<1>5. CASE got.at # Null
  <2>1. Grown(m) = [m EXCEPT !.pool = got.pool, !.at = got.at, !.size = new]
    BY <1>5 DEF Grown, CanGrow, got, new
  <2>2. \/ got.at = m.at /\ got.pool = m.pool /\ asize <= m.size
        \/ /\ got.at = m.at /\ m.at + m.size = m.pool.pos
           /\ got.pool \in Pools /\ got.pool.end = m.pool.end /\ got.pool.pos = m.at + asize
        \/ /\ got.at = m.pool.pos /\ asize > m.size /\ got.pool \in Pools
           /\ got.pool.end = m.pool.end /\ got.pool.pos = m.pool.pos + asize
    <3>1. Placings(m.pool, m.at, m.size, new, got)
      BY <1>1, <1>2, <1>9, Reallocated
    <3>2. QED  BY <1>5, <3>1 DEF Placings
  <2>3. /\ got.pool \in Pools /\ got.at \in Nat /\ got.at + new <= PoolSize
        /\ got.pool.end = m.pool.end /\ m.pool.pos <= got.pool.pos
    BY <1>1, <1>2, <1>3, <1>5, <2>2, PoolAssumption DEF Placed, Sized, Pools
  <2> DEFINE g == Grown(m)
  <2>0. got.at \in Int /\ new \in Nat
    BY <1>2, <2>3
  <2>a. g \in Memories
    BY <1>1, <2>0, <2>1, <2>3 DEF Memories
  <2>4. /\ g \in Memories /\ g.pool = got.pool /\ g.at = got.at /\ g.size = new
        /\ g.offset = m.offset /\ g.shrunk = m.shrunk /\ g.lines = m.lines
        /\ g.records = m.records /\ g.last = m.last /\ g.write = m.write
    BY <1>1, <2>1, <2>a DEF Memories
  <2> HIDE DEF g, new, got, asize
  <2>5. Sized(g)
    BY <1>1, <1>2, <2>3, <2>4 DEF Placed, Sized, Memories
  <2>6. LinesKept(g) /\ RecordsKept(g) /\ WriteKept(g)
    BY <1>1, <2>2, <2>3, <2>4 DEF Placed, LinesKept, RecordsKept, WriteKept, Memories, Pools
  <2>7. ReadKept(g)
    BY <1>1, <1>2, <1>3, <1>5, <2>2, <2>3, <2>4
    DEF Placed, Sized, LinesKept, WriteKept, ReadKept, WriteBehind, WriteBefore, Memories, Pools
  <2>8. QED  BY <1>2, <2>4, <2>5, <2>6, <2>7 DEF Placed, g, new
<1>6. QED  BY <1>4, <1>5

(* What is read is in the buffer, what is given away is no longer.         *)
LEMMA FilledPlaced ==
  ASSUME NEW m, Placed(m), NEW n \in 0 .. m.size, NEW s \in Nat
  PROVE  Placed([m EXCEPT !.offset = n]) /\ Placed([m EXCEPT !.scanned = s])
<1>1. m \in Memories /\ n \in Nat
  BY DEF Placed, Memories
<1>2. [m EXCEPT !.offset = n] \in Memories /\ [m EXCEPT !.scanned = s] \in Memories
  BY <1>1 DEF Memories
<1>3. QED
  BY <1>1, <1>2
  DEF Placed, Sized, LinesKept, RecordsKept, WriteKept, ReadKept, WriteBehind, WriteBefore, Memories

(* A line of n bytes leaves the read buffer and stays where it is.         *)
LEMMA WithoutLinePlaced ==
  ASSUME NEW m, Placed(m), ~m.shrunk, NEW n \in 1 .. m.offset
  PROVE  LET g == WithoutLine(m, n)
         IN  /\ Placed(g) /\ ~g.shrunk /\ g.pool = m.pool /\ g.last = m.last
             /\ g.at # Null /\ g.at = m.at + n /\ g.size = m.size - n /\ m.at + n <= m.pool.pos
             /\ g.lines = m.lines \cup Block(m.at, n)
<1> DEFINE g == WithoutLine(m, n)
<1>1. /\ m \in Memories /\ n \in Nat \ {0} /\ m.at \in Nat /\ m.size \in Nat /\ n <= m.size
      /\ m.offset \in Nat /\ m.pool \in Pools /\ m.offset - n \in Nat /\ m.size - n \in Nat
      /\ m.at + n <= m.pool.pos
  BY DEF Placed, Sized, Memories, ReadKept, Pools
<1> DEFINE lines == m.lines \cup Block(m.at, n)
<1>2. /\ \A b \in lines : b \in Nat /\ (b \in m.lines \/ (m.at <= b /\ b < m.at + n))
      /\ \A b \in m.lines : b \in lines
  BY <1>1 DEF Block, Memories
<1>11. lines \in SUBSET Nat /\ m.at + n \in Int
  BY <1>1, <1>2
<1>3. g \in Memories
  <2> HIDE DEF lines
  <2>1. g = [m EXCEPT !.at = m.at + n, !.size = m.size - n, !.offset = m.offset - n,
                      !.scanned = 0, !.lines = lines]
    BY DEF WithoutLine, lines
  <2> DEFINE at == m.at + n  size == m.size - n  offset == m.offset - n
  <2>2. at \in Int /\ size \in Nat /\ offset \in Nat /\ lines \in SUBSET Nat
    BY <1>1, <1>11
  <2> HIDE DEF at, size, offset
  <2>3. [m EXCEPT !.at = at, !.size = size, !.offset = offset, !.scanned = 0, !.lines = lines]
           \in Memories
    BY <1>1, <2>2 DEF Memories
  <2>4. QED  BY <2>1, <2>3 DEF at, size, offset
<1>4. /\ g.pool = m.pool /\ g.at = m.at + n /\ g.size = m.size - n
      /\ g.offset = m.offset - n /\ g.shrunk = m.shrunk /\ g.lines = lines
      /\ g.records = m.records /\ g.last = m.last /\ g.write = m.write
  BY <1>1 DEF Memories, WithoutLine
<1> HIDE DEF g, lines
<1>5. Sized(g)
  BY <1>1, <1>4 DEF Placed, Sized
<1>6. LinesKept(g)
  BY <1>1, <1>2, <1>4 DEF Placed, LinesKept, Pools
<1>7. RecordsKept(g)
  BY <1>4 DEF Placed, RecordsKept
<1>8. WriteKept(g)
  BY <1>1, <1>2, <1>4
  DEF Placed, WriteKept, ReadKept, WriteBehind, WriteBefore, Memories, Pools
<1>9. ReadKept(g)
  BY <1>1, <1>2, <1>4
  DEF Placed, LinesKept, WriteKept, ReadKept, WriteBehind, WriteBefore, Memories, Pools
<1>10. QED  BY <1>1, <1>3, <1>4, <1>5, <1>6, <1>7, <1>8, <1>9 DEF Placed, g, lines

(* The name of the line, which lies in it, becomes the last.               *)
LEMMA WithLastPlaced ==
  ASSUME NEW m, Placed(m), ~m.shrunk, NEW n \in 1 .. m.offset, n >= 2, NEW name \in 0 .. n - 2
  PROVE  LET g == WithLast(m, n, name)
         IN  Placed(g) /\ ~g.shrunk /\ g.pool = m.pool
<1> DEFINE w == WithoutLine(m, n)
           last == [at |-> m.at, size |-> name + 1]
           g == WithLast(m, n, name)
<1>1. /\ Placed(w) /\ ~w.shrunk /\ w.pool = m.pool /\ w.lines = m.lines \cup Block(m.at, n)
  BY WithoutLinePlaced
<1>2. m \in Memories /\ m.at \in Nat
  BY DEF Placed, Sized, Memories, Pools
<1>3. Block(m.at, name + 1) \subseteq Block(m.at, n) /\ last \in [at : Int, size : Nat]
  BY <1>2 DEF Block
<1> HIDE DEF w
<1>4. g = [w EXCEPT !.last = last] /\ w \in Memories
  BY <1>1 DEF WithLast, w, Placed
<1> HIDE DEF g
<1>5. g \in Memories
  BY <1>3, <1>4 DEF Memories
<1>6. /\ g.pool = w.pool /\ g.at = w.at /\ g.size = w.size
      /\ g.offset = w.offset /\ g.shrunk = w.shrunk /\ g.lines = w.lines
      /\ g.records = w.records /\ g.last = last /\ g.write = w.write
  BY <1>4 DEF Memories
<1>7. LinesKept(g)
  BY <1>1, <1>2, <1>3, <1>6 DEF Placed, LinesKept
<1>8. QED
  BY <1>1, <1>5, <1>6, <1>7
  DEF Placed, Sized, RecordsKept, WriteKept, ReadKept, WriteBehind, WriteBefore, g

(* Records and copies are taken from the end of the free part.             *)
LEMMA EndTaken ==
  ASSUME NEW m, Placed(m), ~m.shrunk, NEW g \in Memories,
         g.at = m.at, g.size = m.size, g.offset = m.offset, g.shrunk = m.shrunk,
         g.lines = m.lines, g.last = m.last, g.write = m.write,
         g.pool.pos = m.pool.pos, g.pool.end <= m.pool.end,
         \A b \in g.records : b \in m.records \/ (g.pool.end <= b /\ b < m.pool.end)
  PROVE  Placed(g)
<1>1. m \in Memories /\ m.pool \in Pools /\ g.pool \in Pools
  BY DEF Placed, Memories
<1>2. Sized(g) /\ LinesKept(g) /\ ReadKept(g)
  BY DEF Placed, Sized, LinesKept, ReadKept, WriteBehind, WriteBefore
<1>3. WriteKept(g)
  BY <1>1 DEF Placed, WriteKept, Memories, Pools
<1>4. RecordsKept(g)
  BY <1>1, PoolAssumption DEF Placed, RecordsKept, Memories, Pools
<1>5. QED  BY <1>2, <1>3, <1>4 DEF Placed

LEMMA WithRecordsPlaced ==
  ASSUME NEW m, Placed(m), ~m.shrunk, NEW k \in Nat
  PROVE  /\ Placed(WithRecords(m, k)) /\ ~WithRecords(m, k).shrunk
<1> DEFINE free == m.pool.end - m.pool.pos
           size == RoundToAlign(RecordSize)
           bytes == FittingRecords(m, k) * size
           end == m.pool.end - bytes
           block == Block(end, bytes)
           g == WithRecords(m, k)
<1>1. m \in Memories /\ m.pool \in Pools /\ free \in Nat
  BY DEF Placed, Memories, Pools
<1>2. size \in Nat \ {0}
  BY Rounded, MemoryAssumption
<1>3. free \div size \in Nat /\ (free \div size) * size <= free
  BY <1>1, <1>2, Quotient
<1>4. FittingRecords(m, k) \in Nat /\ FittingRecords(m, k) <= free \div size
  BY <1>3 DEF FittingRecords, Least
<1>5. bytes \in Nat /\ bytes <= free
  <2> HIDE DEF size, free
  <2>1. bytes \in Nat /\ bytes <= (free \div size) * size
    BY <1>2, <1>3, <1>4, Monotone
  <2>2. QED  BY <1>1, <1>2, <1>3, <2>1
<1>6. /\ g = [m EXCEPT !.pool.end = end, !.records = m.records \cup block]
      /\ m.pool.end \in Nat /\ m.pool.pos \in Nat /\ m.records \subseteq Nat
  BY <1>1 DEF WithRecords, Memories, Pools
<1> HIDE DEF size, bytes
<1>7. end \in Nat /\ m.pool.pos <= end /\ end <= m.pool.end
  BY <1>5, <1>6
<1>8. \A b \in block : b \in Nat /\ end <= b /\ b < m.pool.end
  BY <1>5, <1>6, <1>7 DEF Block
<1> HIDE DEF end, block, g
<1>9. [m.pool EXCEPT !.end = end] \in Pools
  BY <1>1, <1>7, PoolAssumption DEF Pools
<1>10. /\ g.pool = [m.pool EXCEPT !.end = end] /\ g.records = m.records \cup block
       /\ g.at = m.at /\ g.size = m.size /\ g.offset = m.offset /\ g.shrunk = m.shrunk
       /\ g.lines = m.lines /\ g.last = m.last /\ g.write = m.write /\ g.scanned = m.scanned
  BY <1>1, <1>6 DEF Memories
<1>11. g \in Memories
  <2>1. g = [m EXCEPT !.pool = [m.pool EXCEPT !.end = end], !.records = m.records \cup block]
    BY <1>1, <1>6 DEF Memories
  <2>2. m.records \cup block \in SUBSET Nat
    BY <1>6, <1>8
  <2>3. QED  BY <1>1, <1>9, <2>1, <2>2 DEF Memories
<1>12. g.pool.pos = m.pool.pos /\ g.pool.end = end
  BY <1>1, <1>10 DEF Pools
<1>13. QED  BY <1>7, <1>8, <1>10, <1>11, <1>12, EndTaken DEF g

LEMMA WithCopyPlaced ==
  ASSUME NEW m, Placed(m), ~m.shrunk, NEW size \in Nat
  PROVE  Placed(WithCopy(m, size)) /\ ~WithCopy(m, size).shrunk
<1> DEFINE got == AllocateEnd(m.pool, size)
           block == Block(got.at, size)
           g == WithCopy(m, size)
<1>1. m \in Memories /\ m.pool \in Pools /\ m.records \subseteq Nat
  BY DEF Placed, Memories
<1>2. g = [m EXCEPT !.pool = got.pool, !.records = m.records \cup block]
  BY DEF WithCopy
<1>3. \/ got.at = Null /\ got.pool = m.pool
      \/ /\ got.pool \in Pools /\ got.pool.pos = m.pool.pos
         /\ got.at = got.pool.end /\ got.at \in Nat
         /\ got.at + size <= m.pool.end
  BY <1>1, EndAllocated
<1> HIDE DEF got
<1>4. /\ got.pool \in Pools /\ got.pool.pos = m.pool.pos /\ got.pool.end <= m.pool.end
      /\ \A b \in block : b \in Nat /\ got.pool.end <= b /\ b < m.pool.end
  BY <1>1, <1>3 DEF Block, Pools
<1> HIDE DEF block, g
<1>5. m.records \cup block \in SUBSET Nat
  BY <1>1, <1>4
<1>6. g \in Memories
  BY <1>1, <1>2, <1>4, <1>5 DEF Memories
<1>7. /\ g.pool = got.pool /\ g.records = m.records \cup block
      /\ g.at = m.at /\ g.size = m.size /\ g.offset = m.offset /\ g.shrunk = m.shrunk
      /\ g.lines = m.lines /\ g.last = m.last /\ g.write = m.write /\ g.scanned = m.scanned
  BY <1>1, <1>2 DEF Memories
<1>8. QED  BY <1>4, <1>6, <1>7, EndTaken DEF g

(* The head of a reply, a chunk or its end gets the start of the free part.*)
LEMMA WritePlaced ==
  ASSUME NEW m, Placed(m), NEW size \in Nat \ {0}, AllocateFront(m.pool, size).at # Null
  PROVE  LET got == AllocateFront(m.pool, size)
             g == [m EXCEPT !.pool = got.pool, !.write = [at |-> got.at, size |-> size]]
         IN  Placed(g) /\ g.shrunk = m.shrunk
<1> DEFINE got == AllocateFront(m.pool, size)
           write == [at |-> got.at, size |-> size]
           g == [m EXCEPT !.pool = got.pool, !.write = write]
<1>1. m \in Memories /\ m.pool \in Pools
  BY DEF Placed, Memories
<1>2. /\ got.at = m.pool.pos /\ got.pool \in Pools /\ got.pool.end = m.pool.end
      /\ m.pool.pos + size <= got.pool.pos /\ m.pool.pos + 2 <= got.pool.pos
  BY <1>1, FrontAllocated
<1> HIDE DEF got
<1>3. got.at \in Int /\ write \in [at : Int, size : Nat] /\ write.at = got.at /\ write.size = size
  BY <1>1, <1>2 DEF Pools
<1> HIDE DEF write
<1>4. g \in Memories
  BY <1>1, <1>2, <1>3 DEF Memories
<1>5. /\ g.pool = got.pool /\ g.at = m.at /\ g.size = m.size /\ g.offset = m.offset
      /\ g.shrunk = m.shrunk /\ g.lines = m.lines /\ g.records = m.records
      /\ g.last = m.last /\ g.write = write
  BY <1>1 DEF Memories
<1> HIDE DEF g
<1>6. Sized(g) /\ RecordsKept(g)
  BY <1>2, <1>5 DEF Placed, Sized, RecordsKept
<1>7. LinesKept(g)
  BY <1>1, <1>2, <1>5 DEF Placed, LinesKept, Memories, Pools
<1>8. WriteKept(g)
  BY <1>1, <1>2, <1>3, <1>5 DEF Placed, LinesKept, WriteKept, Memories, Pools
<1>9. ReadKept(g)
  BY <1>1, <1>2, <1>3, <1>5
  DEF Placed, LinesKept, ReadKept, WriteBehind, WriteBefore, Memories, Pools
<1>10. QED  BY <1>4, <1>5, <1>6, <1>7, <1>8, <1>9 DEF Placed, g, write, got

(* A request without a version gets an empty buffer at the end.            *)
LEMMA HeadPlaced ==
  ASSUME NEW m, Placed(m), NEW r, NEW size \in Nat
  PROVE  LET g == WithHeadBuffer(m, r, size)
         IN  Placed(g) /\ g.shrunk = m.shrunk
<1> DEFINE g == WithHeadBuffer(m, r, size)
<1>1. CASE ~HeadFits(m, r, size)
  BY <1>1 DEF WithHeadBuffer
<1>2. CASE HeadFits(m, r, size) /\ r.version # ""
  <2>1. AllocateFront(m.pool, size + 1).at # Null
    BY <1>2 DEF HeadFits, HeadBuffer
  <2>2. g = [m EXCEPT !.pool = AllocateFront(m.pool, size + 1).pool,
                      !.write = [at |-> AllocateFront(m.pool, size + 1).at, size |-> size + 1]]
    BY <1>2 DEF WithHeadBuffer, HeadBuffer
  <2>3. size + 1 \in Nat \ {0}
    OBVIOUS
  <2>4. QED  BY <2>1, <2>2, <2>3, WritePlaced
<1>3. CASE HeadFits(m, r, size) /\ r.version = ""
  <2> DEFINE got == AllocateEnd(m.pool, 0)
             write == [at |-> got.at, size |-> 0]
  <2>1. m \in Memories /\ m.pool \in Pools
    BY DEF Placed, Memories
  <2>2. got = [pool |-> m.pool, at |-> m.pool.end]
    <3>1. [m.pool EXCEPT !.end = m.pool.end - 0] = m.pool
      BY <2>1 DEF Pools
    <3>2. QED  BY <2>1, <3>1, RoundedZero DEF AllocateEnd, Pools
  <2>3. g = [m EXCEPT !.pool = m.pool, !.write = write]
    <3>1. HeadBuffer(m, r, size) = got
      BY <1>3 DEF HeadBuffer
    <3>2. g = [m EXCEPT !.pool = got.pool, !.write = [at |-> got.at, size |-> 0]]
      BY <1>3, <3>1 DEF WithHeadBuffer
    <3>3. got.pool = m.pool
      BY <2>2
    <3>4. QED  BY <3>2, <3>3
  <2>4. write \in [at : Int, size : Nat] /\ write.size = 0
    BY <2>1, <2>2 DEF Pools
  <2> HIDE DEF got, write, g
  <2>5. g \in Memories
    BY <2>1, <2>3, <2>4 DEF Memories
  <2>6. /\ g.pool = m.pool /\ g.at = m.at /\ g.size = m.size /\ g.offset = m.offset
        /\ g.shrunk = m.shrunk /\ g.lines = m.lines /\ g.records = m.records
        /\ g.last = m.last /\ g.write = write
    BY <2>1, <2>3 DEF Memories
  <2>7. QED
    BY <2>4, <2>5, <2>6
    DEF Placed, Sized, LinesKept, RecordsKept, WriteKept, ReadKept, WriteBehind, WriteBefore, g
<1>4. QED  BY <1>1, <1>2, <1>3

(* What the read handler gives back: never a byte of what else is kept.    *)
LEMMA ShrunkPlaced ==
  ASSUME NEW m, Placed(m), m.offset > 0
  PROVE  Placed(Shrunk(m))
<1> DEFINE got == Reallocate(m.pool, m.at, m.size + 1, m.offset)
           asize == RoundToAlign(m.offset)
           part == m.shrunk \/ m.at + m.size > got.pool.pos
           g == Shrunk(m)
<1>1. /\ m \in Memories /\ m.pool \in Pools /\ m.at \in Nat /\ m.size \in Nat
      /\ m.offset \in Nat \ {0} /\ m.offset <= m.size
  BY DEF Placed, Sized, Memories
<1>2. Placings(m.pool, m.at, m.size + 1, m.offset, got)
  BY <1>1, Reallocated
<1>3. asize \in Nat /\ asize >= 2 /\ asize >= m.offset
  BY <1>1, Rounded
<1>4. g = [m EXCEPT !.pool = got.pool, !.shrunk = part]
  BY DEF Shrunk
<1> HIDE DEF got, g
<1>5. \/ got.pool = m.pool
      \/ /\ m.at + m.size + 1 = m.pool.pos
         /\ got.pool \in Pools /\ got.pool.end = m.pool.end /\ got.pool.pos = m.at + asize
      \/ /\ got.pool \in Pools /\ got.pool.end = m.pool.end /\ got.pool.pos = m.pool.pos + asize
  BY <1>1, <1>2 DEF Placings
<1> HIDE DEF asize
<1>6. got.pool \in Pools /\ got.pool.end = m.pool.end /\ part \in BOOLEAN
  BY <1>1, <1>5
<1>7. part <=> m.shrunk \/ m.at + m.size > got.pool.pos
  OBVIOUS
<1> HIDE DEF part
<1>8. g \in Memories
  BY <1>1, <1>4, <1>6 DEF Memories
<1>9. /\ g.pool = got.pool /\ g.at = m.at /\ g.size = m.size /\ g.offset = m.offset
      /\ g.lines = m.lines /\ g.records = m.records
      /\ g.last = m.last /\ g.write = m.write
  BY <1>1, <1>4 DEF Memories
<1>14. g.shrunk <=> m.shrunk \/ m.at + m.size > got.pool.pos
  BY <1>1, <1>4, <1>7 DEF Memories
<1>10. Sized(g) /\ RecordsKept(g)
  BY <1>6, <1>9 DEF Placed, Sized, RecordsKept
<1>11. CASE m.at + m.size + 1 = m.pool.pos /\ got.pool.pos = m.at + asize
  <2>1. \A b \in m.lines : b < m.at
    BY <1>1, <1>11 DEF Placed, LinesKept, ReadKept, Memories, Pools
  <2>2. m.write.size > 0 /\ ~m.shrunk => m.write.at + m.write.size <= m.at
    BY <1>1, <1>11 DEF Placed, ReadKept, WriteBehind, WriteBefore, Memories, Pools
  <2>3. LinesKept(g)
    BY <1>1, <1>3, <1>9, <1>11, <1>14, <2>1 DEF Placed, LinesKept, Memories
  <2>4. WriteKept(g)
    BY <1>1, <1>3, <1>6, <1>14, <1>9, <1>11, <2>1, <2>2 DEF Placed, WriteKept, Memories
  <2>5. ReadKept(g)
    <3>1. SUFFICES ASSUME ~g.shrunk
                   PROVE  /\ m.at + m.size <= got.pool.pos
                          /\ m.write.size > 0 =>
                               m.write.at + m.write.size <= m.at /\ m.at < got.pool.pos
      BY <1>1, <1>6, <1>9, <2>1 DEF ReadKept, WriteBefore, Memories, Pools
    <3>2. ~m.shrunk /\ m.at + m.size <= got.pool.pos
      BY <1>1, <1>6, <1>14, <3>1 DEF Pools
    <3>3. QED  BY <1>1, <1>3, <1>11, <2>2, <3>2
  <2>6. QED  BY <1>8, <1>10, <2>3, <2>4, <2>5 DEF Placed, g
<1>12. CASE got.pool = m.pool \/ got.pool.pos = m.pool.pos + asize
  <2>1. m.pool.pos <= got.pool.pos /\ (got.pool = m.pool \/ m.pool.pos + 2 <= got.pool.pos)
    BY <1>1, <1>3, <1>6, <1>12 DEF Pools
  <2>2. g.shrunk <=> m.shrunk
    BY <1>1, <1>6, <1>14, <2>1 DEF Placed, ReadKept, Memories, Pools
  <2>3. LinesKept(g)
    BY <1>1, <1>6, <1>9, <2>1, <2>2 DEF Placed, LinesKept, Memories, Pools
  <2>4. WriteKept(g)
    BY <1>1, <1>6, <1>9, <2>1, <2>2 DEF Placed, WriteKept, Memories, Pools
  <2>5. ReadKept(g)
    <3>1. SUFFICES ASSUME m.at # Null, ~m.shrunk
                   PROVE  ReadKept(g)
      BY <1>9, <2>2 DEF ReadKept
    <3>2. ReadKept(m) /\ m.pool.pos \in Nat /\ got.pool.pos \in Nat
      BY <1>1, <1>6 DEF Placed, Pools
    <3>3. m.write.at \in Int /\ m.write.size \in Nat
      BY <1>1 DEF Memories
    <3>4. got.pool.pos = m.pool.pos \/ got.pool.pos >= m.at + m.size + 2
      BY <1>1, <2>1, <3>1, <3>2 DEF ReadKept
    <3>5. QED
      BY <1>1, <1>9, <2>1, <3>1, <3>2, <3>3, <3>4 DEF ReadKept, WriteBehind, WriteBefore
  <2>6. QED  BY <1>8, <1>10, <2>3, <2>4, <2>5 DEF Placed, g
<1>13. QED  BY <1>5, <1>11, <1>12 DEF g

(* A sent buffer is given back if nothing was taken after it.              *)
LEMMA WriteDonePlaced ==
  ASSUME NEW m, Placed(m)
  PROVE  LET got == Reallocate(m.pool, m.write.at, m.write.size, 0)
             g == [m EXCEPT !.pool = got.pool, !.write = NoBuffer]
         IN  Placed(g) /\ g.shrunk = m.shrunk
<1> DEFINE got == Reallocate(m.pool, m.write.at, m.write.size, 0)
           g == [m EXCEPT !.pool = got.pool, !.write = NoBuffer]
<1>1. /\ m \in Memories /\ m.pool \in Pools /\ m.write.at \in Int /\ m.write.size \in Nat
      /\ NoBuffer \in [at : Int, size : Nat] /\ NoBuffer.size = 0
  BY DEF Placed, Memories, NoBuffer
<1>2. Placings(m.pool, m.write.at, m.write.size, 0, got)
  BY <1>1, Reallocated
<1> HIDE DEF got
<1>3. \/ got.pool = m.pool
      \/ /\ m.write.at + m.write.size = m.pool.pos
         /\ got.pool \in Pools /\ got.pool.end = m.pool.end /\ got.pool.pos = m.write.at
  BY <1>1, <1>2, RoundedZero DEF Placings
<1>4. got.pool \in Pools /\ got.pool.end = m.pool.end
  BY <1>1, <1>3
<1>5. g \in Memories
  BY <1>1, <1>4 DEF Memories
<1>6. /\ g.pool = got.pool /\ g.at = m.at /\ g.size = m.size /\ g.offset = m.offset
      /\ g.shrunk = m.shrunk /\ g.lines = m.lines /\ g.records = m.records
      /\ g.last = m.last /\ g.write.size = 0
  BY <1>1 DEF Memories
<1> HIDE DEF g
<1>7. Sized(g) /\ RecordsKept(g) /\ WriteKept(g)
  BY <1>4, <1>6 DEF Placed, Sized, RecordsKept, WriteKept
<1>8. LinesKept(g)
  BY <1>1, <1>3, <1>4, <1>6 DEF Placed, LinesKept, WriteKept, Memories, Pools
<1>9. ReadKept(g)
  BY <1>1, <1>3, <1>4, <1>6
  DEF Placed, WriteKept, ReadKept, WriteBehind, WriteBefore, Memories, Pools
<1>10. QED  BY <1>5, <1>6, <1>7, <1>8, <1>9 DEF Placed, g, got

(* A continued line is extended in place only when it is the last block,   *)
(* which is then not next to the read buffer; else it gets a new place.    *)
LEMMA ContinuationPlaced ==
  ASSUME NEW m, Placed(m), ~m.shrunk, m.at # Null, NEW text \in Nat, Continued(m, text).at # Null,
         IsLast(m.pool, m.last.at, m.last.size) => m.at + m.size < m.pool.pos
  PROVE  Placed(WithContinuation(m, text)) /\ ~WithContinuation(m, text).shrunk
<1> DEFINE got == Continued(m, text)
           size == m.last.size + text
           asize == RoundToAlign(size)
           lines == m.lines \cup Block(got.at, size)
           last == [at |-> got.at, size |-> size]
           g == WithContinuation(m, text)
<1>1. /\ m \in Memories /\ m.pool \in Pools /\ m.at \in Nat /\ m.size \in Nat
      /\ m.last.at \in Int /\ m.last.size \in Nat /\ size \in Nat /\ m.lines \subseteq Nat
  BY DEF Placed, Sized, Memories
<1>2. Placings(m.pool, m.last.at, m.last.size, size, got)
  BY <1>1, Reallocated DEF Continued
<1>3. asize \in Nat /\ asize >= size /\ (size > 0 => asize >= 2) /\ (size = 0 => asize = 0)
  BY <1>1, Rounded, RoundedZero
<1>4. g = [m EXCEPT !.pool = got.pool, !.last = last, !.lines = lines]
  BY DEF WithContinuation
<1>0. got.at # Null
  OBVIOUS
<1> HIDE DEF got, g
<1>5. \/ got.at = m.last.at /\ got.pool = m.pool /\ asize <= m.last.size
      \/ /\ got.at = m.last.at /\ m.last.at + m.last.size = m.pool.pos /\ m.last.size <= m.pool.pos
         /\ got.pool \in Pools /\ got.pool.end = m.pool.end /\ got.pool.pos = m.last.at + asize
      \/ /\ got.at = m.pool.pos /\ asize > m.last.size /\ got.pool \in Pools
         /\ got.pool.end = m.pool.end /\ got.pool.pos = m.pool.pos + asize
  BY <1>0, <1>2 DEF Placings
<1>6. got.at \in Nat /\ got.at # Null /\ size > 0
  BY <1>0, <1>1, <1>3, <1>5 DEF Placed, LinesKept, Pools
<1>7. \A b \in Block(got.at, size) : b \in Nat /\ got.at <= b /\ b < got.at + size
  BY <1>1, <1>6 DEF Block
<1>8. \A b \in Nat : m.last.at # Null /\ m.last.at <= b /\ b < m.last.at + m.last.size => b \in m.lines
  BY <1>1 DEF Placed, LinesKept, Block
<1> HIDE DEF asize
<1>9. /\ got.pool \in Pools /\ got.pool.end = m.pool.end /\ m.pool.pos <= got.pool.pos
      /\ \A b \in Block(got.at, size) :
           b \in m.lines \/ (m.pool.pos <= b /\ b < got.pool.pos)
      /\ \/ got.pool.pos = m.pool.pos
         \/ m.at + m.size < m.pool.pos
         \/ m.pool.pos + 2 <= got.pool.pos
  <2>1. CASE got.at = m.last.at /\ got.pool = m.pool /\ asize <= m.last.size
    BY <1>1, <1>3, <1>6, <1>7, <1>8, <2>1 DEF Pools
  <2>2. CASE /\ got.at = m.last.at /\ m.last.at + m.last.size = m.pool.pos /\ m.last.size <= m.pool.pos
             /\ got.pool \in Pools /\ got.pool.end = m.pool.end /\ got.pool.pos = m.last.at + asize
    <3>1. IsLast(m.pool, m.last.at, m.last.size)
      BY <1>1, <2>2 DEF IsLast, Pools
    <3>2. m.at + m.size < m.pool.pos
      BY <3>1
    <3>3. QED  BY <1>1, <1>3, <1>6, <1>7, <1>8, <2>2, <3>2 DEF Pools
  <2>3. CASE /\ got.at = m.pool.pos /\ asize > m.last.size /\ got.pool \in Pools
             /\ got.pool.end = m.pool.end /\ got.pool.pos = m.pool.pos + asize
    BY <1>1, <1>3, <1>6, <1>7, <2>3 DEF Pools
  <2>4. QED  BY <1>5, <2>1, <2>2, <2>3
<1>10. lines \in SUBSET Nat /\ last \in [at : Int, size : Nat] /\ last.at = got.at /\ last.size = size
  BY <1>1, <1>6, <1>7
<1>11. /\ \A b \in lines : b \in m.lines \/ (m.pool.pos <= b /\ b < got.pool.pos)
       /\ \A b \in m.lines : b \in lines
       /\ \A b \in Block(got.at, size) : b \in lines
  BY <1>9
<1> HIDE DEF lines, last, size
<1>12. g \in Memories
  BY <1>1, <1>4, <1>9, <1>10 DEF Memories
<1>13. /\ g.pool = got.pool /\ g.at = m.at /\ g.size = m.size /\ g.offset = m.offset
       /\ g.shrunk = m.shrunk /\ g.lines = lines /\ g.records = m.records
       /\ g.last = last /\ g.write = m.write
  BY <1>1, <1>4 DEF Memories
<1>14. Sized(g) /\ RecordsKept(g)
  BY <1>9, <1>13 DEF Placed, Sized, RecordsKept
<1>15. /\ m.pool.pos \in Nat /\ got.pool.pos \in Nat /\ m.pool.end \in Nat
       /\ m.write.at \in Int /\ m.write.size \in Nat
       /\ LinesKept(m) /\ WriteKept(m) /\ ReadKept(m) /\ Placed(m)
  BY <1>1, <1>9 DEF Placed, Memories, Pools
<1>16. LinesKept(g)
  <2>1. \A b \in lines : b < got.pool.pos
    BY <1>1, <1>9, <1>11, <1>15 DEF LinesKept
  <2>2. Block(g.last.at, g.last.size) = Block(got.at, size)
    BY <1>10, <1>13
  <2>3. g.last.at >= 0 /\ g.last.size > 0
    BY <1>6, <1>10, <1>13
  <2>4. QED  BY <1>11, <1>13, <2>1, <2>2, <2>3 DEF LinesKept
<1>17. WriteKept(g)
  <2>1. SUFFICES ASSUME m.write.size > 0
                 PROVE  WriteKept(g)
    BY <1>13 DEF WriteKept
  <2>2. /\ 0 <= m.write.at /\ m.write.at + m.write.size <= m.pool.end
        /\ m.write.at + m.write.size <= m.pool.pos
        /\ \A b \in m.lines : b < m.write.at \/ m.write.at + m.write.size <= b
    BY <1>15, <2>1 DEF WriteKept
  <2>3. \A b \in lines : b < m.write.at \/ m.write.at + m.write.size <= b
    BY <1>10, <1>11, <1>15, <2>2
  <2>4. m.write.at + m.write.size <= got.pool.pos
    BY <1>9, <1>15, <2>2
  <2>5. QED  BY <1>9, <1>13, <2>2, <2>3, <2>4 DEF WriteKept
<1>18. ReadKept(g)
  <2> DEFINE at == m.at + m.size
  <2>1. /\ at \in Nat /\ at <= m.pool.pos
        /\ \A b \in m.lines : b < m.at \/ at <= b
        /\ m.write.size > 0 => WriteBehind(m) \/ WriteBefore(m)
        /\ at \in m.lines =>
             m.pool.pos # at + 1 /\ (m.write.size > 0 => m.write.at # at + 1)
    BY <1>1, <1>15 DEF ReadKept
  <2>2. got.pool.pos = m.pool.pos \/ at + 2 <= got.pool.pos
    BY <1>1, <1>9, <1>15, <2>1
  <2>3. \A b \in lines : b < m.at \/ at <= b
    BY <1>1, <1>10, <1>11, <1>15, <2>1
  <2>4. m.write.size > 0 => m.write.at + m.write.size <= m.pool.pos
    BY <1>15 DEF WriteKept
  <2>5. CASE at \in lines /\ at \notin m.lines
    <3>1. m.pool.pos <= at /\ at < got.pool.pos
      BY <1>11, <2>5
    <3>2. at + 2 <= got.pool.pos
      BY <1>15, <2>1, <2>2, <3>1
    <3>3. m.write.size > 0 => m.write.at # at + 1
      BY <1>15, <2>1, <2>4, <3>1
    <3>4. m.write.size > 0 => WriteBehind(g) \/ WriteBefore(g)
      BY <1>1, <1>9, <1>13, <1>15, <2>1, <3>2 DEF WriteBehind, WriteBefore
    <3>5. QED  BY <1>9, <1>13, <1>15, <2>1, <2>3, <3>2, <3>3, <3>4 DEF ReadKept
  <2>6. CASE at \in lines => at \in m.lines
    <3>1. m.write.size > 0 => WriteBehind(g) \/ WriteBefore(g)
      BY <1>1, <1>9, <1>13, <1>15, <2>1, <2>2 DEF WriteBehind, WriteBefore
    <3>2. at \in lines =>
             got.pool.pos # at + 1 /\ (m.write.size > 0 => m.write.at # at + 1)
      BY <1>15, <2>1, <2>2, <2>6
    <3>3. at <= got.pool.pos
      BY <1>9, <1>15, <2>1
    <3>4. QED  BY <1>13, <2>1, <2>3, <3>1, <3>2, <3>3 DEF ReadKept
  <2>7. QED  BY <2>5, <2>6
<1>19. QED  BY <1>12, <1>13, <1>14, <1>16, <1>17, <1>18 DEF Placed, g

(* A line continues one that was found before it in the read buffer.       *)
LEMMA ContinuedBefore ==
  ASSUME NEW m, Placed(m), ~m.shrunk, NEW n \in 1 .. m.offset
  PROVE  LET g == WithoutLine(m, n)
         IN  IsLast(g.pool, g.last.at, g.last.size) => g.at + g.size < g.pool.pos
<1> DEFINE g == WithoutLine(m, n)
<1>1. /\ g.pool = m.pool /\ g.last = m.last /\ g.at = m.at + n /\ g.size = m.size - n
  BY WithoutLinePlaced
<1>2. /\ m \in Memories /\ m.pool \in Pools /\ m.at \in Nat /\ m.size \in Nat \ {0} /\ n \in Nat
      /\ m.last.at \in Int /\ m.last.size \in Nat /\ m.at + m.size <= m.pool.pos
  BY DEF Placed, Sized, ReadKept, Memories, Pools
<1>3. SUFFICES ASSUME m.pool.pos >= m.last.size, m.pool.pos - m.last.size = m.last.at
               PROVE  m.at + m.size < m.pool.pos
  BY <1>1, <1>2 DEF IsLast
<1>4. m.last.at # Null /\ m.last.size > 0
  BY <1>2, <1>3 DEF Placed, LinesKept, Pools
<1>5. m.pool.pos - 1 \in m.lines
  BY <1>2, <1>3, <1>4 DEF Placed, LinesKept, Block, Pools
<1>6. m.pool.pos - 1 < m.at \/ m.at + m.size <= m.pool.pos - 1
  BY <1>2, <1>5 DEF Placed, ReadKept
<1>7. QED  BY <1>2, <1>6 DEF Pools

(* The next request starts with what is left in the buffer.                *)
LEMMA KeptPlaced ==
  ASSUME NEW m, Placed(m)
  PROVE  Placed(Kept(m)) /\ ~Kept(m).shrunk
<1> DEFINE got == Reset(m.pool, m.at, m.size)
           g == Kept(m)
<1>1. /\ m \in Memories /\ m.pool \in Pools /\ m.at \in Int /\ m.size \in Nat /\ m.offset \in Nat
      /\ m.size \in 0 .. PoolSize
  BY PoolAssumption DEF Placed, Sized, Memories
<1>2. RoundToAlign(m.size) \in Nat /\ m.size <= RoundToAlign(m.size)
      /\ RoundToAlign(m.size) <= PoolSize
  BY <1>1, Rounded, RoundedFits
<1>3. /\ got.pool \in Pools /\ (m.at = Null => got.at = Null)
      /\ m.at # Null => got.at = 0 /\ m.size <= got.pool.pos
  <2>1. CASE m.at = Null
    <3>1. got = [pool |-> [m.pool EXCEPT !.end = PoolSize], at |-> Null]
      BY <2>1 DEF Reset
    <3>2. [m.pool EXCEPT !.end = PoolSize] \in Pools
      BY <1>1, PoolAssumption DEF Pools
    <3>3. QED  BY <2>1, <3>1, <3>2
  <2>2. CASE m.at # Null
    <3>1. got = [pool |-> [pos |-> RoundToAlign(m.size), end |-> PoolSize], at |-> 0]
      BY <2>2 DEF Reset
    <3>2. [pos |-> RoundToAlign(m.size), end |-> PoolSize] \in Pools
      BY <1>2, PoolAssumption DEF Pools
    <3>3. QED  BY <1>2, <2>2, <3>1, <3>2
  <2>3. QED  BY <2>1, <2>2
<1>4. g = [NewMemory EXCEPT !.pool = got.pool, !.at = got.at, !.size = m.size, !.offset = m.offset]
  BY DEF Kept
<1> HIDE DEF got, g
<1>5. NewMemory \in Memories /\ got.at \in Int
  BY <1>3, NewPlaced DEF Placed
<1>6. g \in Memories
  BY <1>1, <1>3, <1>4, <1>5 DEF Memories
<1>7. /\ g.pool = got.pool /\ g.at = got.at /\ g.size = m.size /\ g.offset = m.offset
      /\ g.shrunk = FALSE /\ g.lines = {} /\ g.records = {}
      /\ g.last = NoLast /\ g.write = NoBuffer
  BY <1>4 DEF NewMemory
<1>8. Block(g.last.at, g.last.size) = {} /\ g.last.at = Null /\ g.write.size = 0
  BY <1>7 DEF NoLast, NoBuffer, Block
<1>9. Sized(g)
  BY <1>1, <1>3, <1>7 DEF Placed, Sized
<1>10. LinesKept(g) /\ RecordsKept(g) /\ WriteKept(g)
  BY <1>7, <1>8 DEF LinesKept, RecordsKept, WriteKept
<1>11. ReadKept(g)
  BY <1>1, <1>3, <1>7, <1>8 DEF ReadKept
<1>12. ~g.shrunk
  BY <1>7
<1>13. QED  BY <1>6, <1>9, <1>10, <1>11, <1>12 DEF Placed, g

-----------------------------------------------------------------------------
(***************************************************************************)
(* The inductive invariant: the memory as above, and what the states of a  *)
(* connection say of its memory and of its reply.                          *)
(***************************************************************************)
Requests ==
  [version : Versions \cup {"NULL", "1.0"}, wish : Wishes \cup {"none"},
   upload : {"none", "length", "chunked", "encoded"}, remaining : Nat]
Replies ==
  [kind : {"none", "error", "empty", "known", "unknown"}, connection : Given \cup {"none"},
   chunked : BOOLEAN, announced : Given \cup {"none", "close", "keep-alive"}]

(* The states after the head and the body of the request.                  *)
ReplyStates ==
  WriteStates \cup
  {"HEADERS_SENT", "BODY_UNREADY", "CHUNKED_BODY_UNREADY", "BODY_SENT", "FOOTERS_SENT"}
LateStates == ReplyStates \cup {"FOOTERS_RECEIVED", "CLOSED"}

Types == read_closed \in BOOLEAN /\ request \in Requests /\ reply \in Replies
Fitted == Placed(memory)
ShrunkLate == memory.shrunk => state \in LateStates
SocketStates == phase # "idle" => state \in ReadStates \cup LateStates
Room == phase = "wait" /\ state \in RoomStates => HasRoom

(* What the head of the reply said of a connection that may be kept.       *)
Told(p, r) ==
  KeepalivePossible(r) /\ p.connection # "close" /\ r.wish # "close" =>
    (p.kind # "unknown" \/ p.chunked) /\ p.announced # "close"

Informed == ~read_closed /\ state \in ReplyStates => Told(reply, request)

IInv == Types /\ Fitted /\ ShrunkLate /\ SocketStates /\ Room /\ Informed

(* While a request is read, nothing has been shrunk.                       *)
LEMMA StatesApart ==
  /\ LateStates \cap (HeaderStates \cup FooterStates \cup
                      {"CONTINUE_SENDING", "CONTINUE_SENT", "HEADERS_RECEIVED",
                       "HEADERS_PROCESSED"}) = {}
  /\ RoomStates \cap LateStates = {} /\ RoomStates \subseteq ReadStates
  /\ ReplyStates \subseteq LateStates /\ ReadStates \cap LateStates = {}
BY DEF LateStates, ReplyStates, WriteStates, ReadStates, HeaderStates, FooterStates, RoomStates

LEMMA WithHeadTold ==
  ASSUME NEW p \in Replies, NEW r \in Requests
  PROVE  WithHead(p, r) \in Replies /\ Told(WithHead(p, r), r)
<1> DEFINE open == p.kind = "unknown" /\ p.connection # "close" /\ r.wish # "close"
           mustClose == open /\ ~KeepalivePossible(r)
           mustKeep == p.connection = "none" /\ ~mustClose /\ KeepalivePossible(r)
           h == WithHead(p, r)
<1>1. CASE r.version = ""
  <2>1. h = [p EXCEPT !.chunked = r.upload = "chunked"]
    BY <1>1 DEF WithHead
  <2>2. (r.upload = "chunked") \in BOOLEAN
    OBVIOUS
  <2>3. h \in Replies
    BY <2>1, <2>2 DEF Replies
  <2>4. ~KeepalivePossible(r)
    BY <1>1 DEF KeepalivePossible
  <2>5. QED  BY <2>3, <2>4 DEF Told
<1>2. CASE r.version # ""
  <2> DEFINE chunked == open /\ KeepalivePossible(r)
             announced == CASE mustClose -> "close"
                            [] mustKeep -> "keep-alive"
                            [] OTHER -> p.connection
  <2>1. h = [p EXCEPT !.chunked = chunked, !.announced = announced]
    BY <1>2 DEF WithHead
  <2>2. chunked \in BOOLEAN
    OBVIOUS
  <2>3. announced = IF mustClose THEN "close" ELSE IF mustKeep THEN "keep-alive" ELSE p.connection
    OBVIOUS
  <2>4. announced \in Given \cup {"none", "close", "keep-alive"}
    BY <2>3 DEF Replies
  <2>5. KeepalivePossible(r) /\ p.connection # "close" /\ r.wish # "close" =>
          (p.kind # "unknown" \/ chunked) /\ announced # "close"
    BY <2>3
  <2> HIDE DEF chunked, announced, h
  <2>6. h \in Replies
    BY <2>1, <2>2, <2>4 DEF Replies
  <2>7. h.kind = p.kind /\ h.connection = p.connection /\ h.announced = announced /\ (h.chunked <=> chunked)
    BY <2>1, <2>2 DEF Replies
  <2>8. QED  BY <2>5, <2>6, <2>7 DEF Told, h
<1>3. QED  BY <1>1, <1>2

LEMMA VersionedTyped ==
  ASSUME NEW r \in Requests
  PROVE  Versioned(r) \in Requests
BY DEF Versioned, Requests

(* An error is answered by a connection that reads no further.             *)
LEMMA ErrorQueuedTyped ==
  ASSUME reply \in Replies, NEW r \in Requests, ErrorQueued(r)
  PROVE  read_closed' = TRUE /\ reply' \in Replies
<1>1. ErrorReply \in Replies
  BY DEF ErrorReply, NoReply, Replies
<1>2. QED  BY <1>1, VersionedTyped, WithHeadTold DEF ErrorQueued, Queued

LEMMA TransmitErrorStep ==
  ASSUME reply \in Replies, NEW r \in Requests, NEW m, Placed(m), TransmitError(m, r)
  PROVE  /\ Types' /\ Fitted' /\ read_closed' = TRUE /\ state' \in {"HEADERS_SENDING", "CLOSED"}
         /\ state' \in LateStates
<1>1. read_closed' = TRUE /\ reply' \in Replies /\ request' \in Requests
  BY ErrorQueuedTyped, VersionedTyped DEF TransmitError
<1>2. Fitted' /\ state' \in {"HEADERS_SENDING", "CLOSED"}
  BY HeadPlaced, MemoryAssumption DEF TransmitError, Fitted
<1>3. QED  BY <1>1, <1>2 DEF Types, LateStates, ReplyStates, WriteStates

(* What such an answer leaves.                                             *)
LEMMA RefusedStep ==
  ASSUME Types', Fitted', read_closed' = TRUE, state' \in LateStates
  PROVE  IInv'
BY StatesApart DEF IInv, ShrunkLate, SocketStates, Room, Informed

(* What other steps leave, that do not wait for the socket.                *)
LEMMA Stepped ==
  ASSUME Types', Fitted', ShrunkLate', phase' # "wait",
         phase' = "idle" \/ state' \in ReadStates \cup LateStates, Informed'
  PROVE  IInv'
BY DEF IInv, SocketStates, Room

LEMMA GoesOn ==
  ASSUME IInv, Fitted', ShrunkLate', phase' # "wait",
         phase' = "idle" \/ state' \in ReadStates \cup LateStates,
         UNCHANGED <<read_closed, request, reply>>, state' \in ReplyStates => state \in ReplyStates
  PROVE  IInv'
<1>1. Types' /\ Informed'
  BY DEF IInv, Types, Informed
<1>2. QED  BY <1>1, Stepped

(* A step that leaves the memory alone.                                    *)
LEMMA MemoryLeft ==
  ASSUME IInv, memory' = memory, state \in LateStates => state' \in LateStates
  PROVE  Fitted' /\ ShrunkLate'
BY DEF IInv, Fitted, ShrunkLate

BeforeLate == HeaderStates \cup FooterStates \cup
              {"CONTINUE_SENDING", "CONTINUE_SENT", "HEADERS_RECEIVED", "HEADERS_PROCESSED"}

LEMMA NotShrunk ==
  ASSUME IInv, state \in BeforeLate
  PROVE  /\ Placed(memory) /\ ~memory.shrunk /\ memory.offset \in Nat /\ memory.size \in Nat
         /\ memory.offset <= memory.size
BY StatesApart DEF IInv, ShrunkLate, Fitted, BeforeLate, Placed, Memories, Sized

LEMMA ReadStep ==
  ASSUME IInv, Read
  PROVE  IInv'
<1> DEFINE m == BeforeRead(memory)
<1>1. Placed(memory) /\ memory.offset \in Nat
  BY DEF IInv, Fitted, Placed, Memories
<1>2. Placed(m) /\ m.shrunk = memory.shrunk /\ m.offset = memory.offset
  BY <1>1, GrownPlaced DEF BeforeRead
<1>3. m \in Memories /\ m.size \in Nat /\ m.offset \in Nat /\ m.offset <= m.size
  BY <1>2 DEF Placed, Memories, Sized
<1> HIDE DEF m
<1>4. PICK n \in 0 .. m.size - m.offset :
        LET filled == [m EXCEPT !.offset = @ + n]
        IN  /\ memory' = IF n > 0 /\ state \notin ReadStates THEN Shrunk(filled) ELSE filled
            /\ state' = IF n > 0 /\ state \in ReadStates /\ read_closed THEN "CLOSED" ELSE state
  BY DEF Read, m
<1> DEFINE filled == [m EXCEPT !.offset = m.offset + n]
<1>5. m.offset + n \in 0 .. m.size
  BY <1>3
<1>6. Placed(filled) /\ filled.offset = m.offset + n /\ filled.shrunk = m.shrunk
  BY <1>2, <1>3, <1>5, FilledPlaced DEF Memories
<1>7. memory' = IF n > 0 /\ state \notin ReadStates THEN Shrunk(filled) ELSE filled
  BY <1>4
<1>8. state' = state \/ state' = "CLOSED"
  BY <1>4
<1>9. state \in ReadStates \cup LateStates /\ phase' = "idle"
  BY DEF Read, Waiting, IInv, SocketStates
<1> HIDE DEF filled
<1>10. Fitted'
  BY <1>3, <1>6, <1>7, ShrunkPlaced DEF Fitted
<1>11. ShrunkLate'
  BY <1>2, <1>6, <1>7, <1>8, <1>9, StatesApart DEF IInv, ShrunkLate, LateStates
<1>12. state' \in ReplyStates => state \in ReplyStates
  BY <1>8 DEF ReplyStates, WriteStates
<1>13. QED  BY <1>9, <1>10, <1>11, <1>12, GoesOn DEF Read

(* Steps that only change the phase and the state.                         *)
LEMMA QuietSteps ==
  ASSUME IInv,
         \/ Lost \/ CalledAgain \/ WriteContinue \/ ContinueSending \/ WriteBody \/ MalformedBody
         \/ NoAnswer \/ Sending \/ HeadersSent \/ ReadyBody
  PROVE  IInv'
<1>1. /\ UNCHANGED <<read_closed, memory, request, reply>> /\ phase' # "wait"
      /\ state' \in ReplyStates => state \in ReplyStates
      /\ state \in LateStates => state' \in LateStates
      /\ phase' = "idle" \/ state' \in ReadStates \cup LateStates
  BY DEF Lost, CalledAgain, WriteContinue, ContinueSending, WriteBody, MalformedBody, NoAnswer,
         Sending, HeadersSent, ReadyBody, Waiting, Idle, Continue, Break, LateStates, ReplyStates,
         ReadStates, WriteStates
<1>2. QED  BY <1>1, MemoryLeft, GoesOn

LEMMA NoLineStep ==
  ASSUME IInv, NoLine
  PROVE  IInv'
<1> DEFINE searched == [memory EXCEPT !.scanned = memory.offset]
<1>1. state \in BeforeLate /\ state \in ReadStates
  BY DEF NoLine, Idle, BeforeLate, ReadStates
<1>2. Placed(memory) /\ ~memory.shrunk /\ memory.offset \in Nat
  BY <1>1, NotShrunk
<1>3. 0 \in 0 .. memory.size /\ memory \in Memories
  BY <1>2 DEF Placed, Memories
<1>4. Placed(searched) /\ ~searched.shrunk
  BY <1>2, <1>3, FilledPlaced DEF Memories
<1>5. Placed(Grown(searched)) /\ ~Grown(searched).shrunk
  BY <1>4, GrownPlaced
<1>6. CASE memory.offset > 0 /\ Full(memory) /\ ~CanGrow(memory)
  <2>1. TransmitError(searched, request)
    BY <1>6 DEF NoLine
  <2>2. QED  BY <1>4, <2>1, TransmitErrorStep, RefusedStep DEF IInv, Types
<1>7. CASE ~(memory.offset > 0 /\ Full(memory) /\ ~CanGrow(memory))
  <2>1. /\ memory' = IF memory.offset > 0 /\ Full(memory) THEN Grown(searched) ELSE searched
        /\ (phase' = "idle" /\ state' = "CLOSED") \/ (phase' = "settle" /\ state' = state)
        /\ UNCHANGED <<read_closed, request, reply>>
    BY <1>7 DEF NoLine, Continue, Break
  <2>2. Placed(memory') /\ ~memory'.shrunk
    BY <1>4, <1>5, <2>1
  <2>3. state' \in ReplyStates => state \in ReplyStates
    BY <2>1 DEF ReplyStates, WriteStates
  <2>4. QED  BY <1>1, <2>1, <2>2, <2>3, GoesOn DEF Fitted, ShrunkLate
<1>8. QED  BY <1>6, <1>7

(* A line that is taken from the read buffer, and how it may be recorded.  *)
LEMMA LineTaken ==
  ASSUME IInv, state \in BeforeLate, NEW n \in 1 .. memory.offset
  PROVE  /\ Placed(WithoutLine(memory, n)) /\ ~WithoutLine(memory, n).shrunk
         /\ \A name \in 0 .. n - 2 :
              n >= 2 => Placed(WithLast(memory, n, name)) /\ ~WithLast(memory, n, name).shrunk
BY NotShrunk, WithoutLinePlaced, WithLastPlaced

LEMMA RequestLineStep ==
  ASSUME IInv, RequestLine
  PROVE  IInv'
<1>1. state \in BeforeLate /\ phase' = "idle" /\ state' = "URL_RECEIVED"
  BY DEF RequestLine, Idle, Continue, BeforeLate, HeaderStates
<1>2. PICK n \in 1 .. memory.offset, k \in 0 .. MaxPart, v \in Versions :
        /\ request' = [request EXCEPT !.version = v]
        /\ LET m == WithRecords(WithoutLine(memory, n), k)
           IN  IF FittingRecords(WithoutLine(memory, n), k) = k
                 THEN memory' = m /\ UNCHANGED <<read_closed, reply>>
                 ELSE /\ ErrorQueued(request)
                      /\ \E size \in HeadSizes :
                           memory' = WithHeadBuffer(m, Versioned(request), size)
  BY DEF RequestLine
<1> DEFINE m == WithRecords(WithoutLine(memory, n), k)
<1>3. Placed(m) /\ ~m.shrunk
  <2>1. Placed(WithoutLine(memory, n)) /\ ~WithoutLine(memory, n).shrunk /\ k \in Nat
    BY <1>1, LineTaken
  <2>2. QED  BY <2>1, WithRecordsPlaced
<1> HIDE DEF m
<1>4. Placed(memory') /\ ~memory'.shrunk
  BY <1>2, <1>3, HeadPlaced, MemoryAssumption DEF m
<1>5. read_closed' \in BOOLEAN /\ reply' \in Replies
  BY <1>2, ErrorQueuedTyped DEF IInv, Types
<1>6. request' \in Requests
  BY <1>2 DEF IInv, Types, Requests
<1>7. Informed'
  BY <1>1 DEF Informed, ReplyStates, WriteStates
<1>8. QED  BY <1>1, <1>4, <1>5, <1>6, <1>7, Stepped DEF Types, Fitted, ShrunkLate

LEMMA FirstLineStep ==
  ASSUME IInv, BadRequestLine \/ FirstLine
  PROVE  IInv'
<1>1. state \in BeforeLate /\ phase' = "idle" /\ state' \notin ReplyStates
  BY DEF BadRequestLine, FirstLine, Idle, Continue, PartState, BeforeLate, HeaderStates,
         FooterStates, ReplyStates, WriteStates
<1>2. Placed(memory') /\ ~memory'.shrunk
  <2>1. CASE BadRequestLine
    BY <1>1, <2>1, LineTaken DEF BadRequestLine
  <2>2. CASE FirstLine
    <3>1. PICK n \in 1 .. memory.offset :
            TextLineOf(n) /\ \E name \in Names(n) : memory' = WithLast(memory, n, name)
      BY <2>2 DEF FirstLine
    <3>2. PICK name \in Names(n) : memory' = WithLast(memory, n, name)
      BY <3>1
    <3>3. n >= 2 /\ name \in 0 .. n - 2
      BY <3>1, <3>2, MemoryAssumption DEF TextLineOf, Names, Least
    <3>4. QED  BY <1>1, <3>2, <3>3, LineTaken
  <2>3. QED  BY <2>1, <2>2
<1>3. UNCHANGED <<read_closed, request, reply>>
  BY DEF BadRequestLine, FirstLine
<1>4. QED  BY <1>1, <1>2, <1>3, GoesOn DEF Fitted, ShrunkLate

LEMMA MalformedFirstLineStep ==
  ASSUME IInv, MalformedFirstLine
  PROVE  IInv'
<1>1. state \in BeforeLate
  BY DEF MalformedFirstLine, Idle, BeforeLate, HeaderStates, FooterStates
<1>2. PICK n \in 1 .. memory.offset : TransmitError(WithoutLine(memory, n), request)
  BY DEF MalformedFirstLine
<1>3. Placed(WithoutLine(memory, n))
  BY <1>1, LineTaken
<1>4. QED  BY <1>2, <1>3, TransmitErrorStep, RefusedStep DEF IInv, Types

LEMMA ContinuationLineStep ==
  ASSUME IInv, ContinuationLine
  PROVE  IInv'
<1>1. state \in BeforeLate /\ phase' = "idle"
  BY DEF ContinuationLine, Idle, Continue, BeforeLate, HeaderStates, FooterStates
<1>2. PICK n \in 1 .. memory.offset :
        /\ TextLineOf(n)
        /\ \E text \in 0 .. Least(n - 2, MaxPart) :
             LET m == WithoutLine(memory, n)
             IN  IF Continued(m, text).at = Null
                   THEN TransmitError(m, request)
                   ELSE /\ memory' = WithContinuation(m, text)
                        /\ UNCHANGED <<state, read_closed, request, reply>>
  BY DEF ContinuationLine
<1> DEFINE m == WithoutLine(memory, n)
<1>3. Placed(m) /\ ~m.shrunk /\ m.at # Null
  BY <1>1, NotShrunk, WithoutLinePlaced
<1>4. IsLast(m.pool, m.last.at, m.last.size) => m.at + m.size < m.pool.pos
  BY <1>1, NotShrunk, ContinuedBefore
<1>5. PICK text \in 0 .. Least(n - 2, MaxPart) :
        IF Continued(m, text).at = Null
          THEN TransmitError(m, request)
          ELSE /\ memory' = WithContinuation(m, text)
               /\ UNCHANGED <<state, read_closed, request, reply>>
  BY <1>2
<1> HIDE DEF m
<1>6. CASE Continued(m, text).at = Null
  BY <1>3, <1>5, <1>6, TransmitErrorStep, RefusedStep DEF IInv, Types
<1>7. CASE Continued(m, text).at # Null
  <2>1. text \in Nat
    OBVIOUS
  <2>2. Placed(memory') /\ ~memory'.shrunk
    BY <1>3, <1>4, <1>5, <1>7, <2>1, ContinuationPlaced
  <2>3. QED  BY <1>1, <1>5, <1>7, <2>2, GoesOn DEF Fitted, ShrunkLate
<1>8. QED  BY <1>6, <1>7

LEMMA RefusedTwiceStep ==
  ASSUME IInv, NEW m, Placed(m), RefusedTwice(m)
  PROVE  IInv'
<1>1. read_closed' = TRUE /\ Types'
  BY ErrorQueuedTyped, VersionedTyped DEF IInv, Types, RefusedTwice
<1>2. PICK size \in HeadSizes :
        LET once == WithHeadBuffer(m, Versioned(request), size)
        IN  /\ memory' = WithHeadBuffer(once, Versioned(request), size)
            /\ state' = IF HeadFits(once, Versioned(request), size)
                          THEN "HEADERS_SENDING" ELSE "CLOSED"
  BY DEF RefusedTwice
<1>3. Placed(memory')
  BY <1>2, HeadPlaced, MemoryAssumption
<1>4. state' \in LateStates
  BY <1>2 DEF LateStates, ReplyStates, WriteStates
<1>5. QED  BY <1>1, <1>3, <1>4, RefusedStep DEF Fitted

LEMMA NextLineStep ==
  ASSUME IInv, NextLine
  PROVE  IInv'
<1>1. state \in BeforeLate /\ phase' = "idle"
  BY DEF NextLine, Idle, Continue, BeforeLate, HeaderStates, FooterStates
<1>2. PICK n \in 1 .. memory.offset :
        LET m == WithoutLine(memory, n)
        IN  /\ TextLineOf(n)
            /\ IF FittingRecords(m, 1) = 0
                 THEN RefusedTwice(m)
                 ELSE \/ /\ \E name \in Names(n) :
                              memory' = WithRecords(WithLast(memory, n, name), 1)
                         /\ UNCHANGED <<state, read_closed, request, reply>>
                      \/ TransmitError(WithRecords(m, 1), request)
  BY DEF NextLine
<1> DEFINE m == WithoutLine(memory, n)
<1>3. Placed(m) /\ ~m.shrunk
  BY <1>1, LineTaken
<1>4. Placed(WithRecords(m, 1))
  BY <1>3, WithRecordsPlaced
<1>5. \/ RefusedTwice(m)
      \/ /\ \E name \in Names(n) : memory' = WithRecords(WithLast(memory, n, name), 1)
         /\ UNCHANGED <<state, read_closed, request, reply>>
      \/ TransmitError(WithRecords(m, 1), request)
  BY <1>2
<1> HIDE DEF m
<1>6. CASE RefusedTwice(m)
  BY <1>3, <1>6, RefusedTwiceStep
<1>7. CASE TransmitError(WithRecords(m, 1), request)
  BY <1>4, <1>7, TransmitErrorStep, RefusedStep DEF IInv, Types
<1>8. CASE /\ \E name \in Names(n) : memory' = WithRecords(WithLast(memory, n, name), 1)
           /\ UNCHANGED <<state, read_closed, request, reply>>
  <2>1. PICK name \in Names(n) : memory' = WithRecords(WithLast(memory, n, name), 1)
    BY <1>8
  <2>2. n >= 2 /\ name \in 0 .. n - 2
    BY <1>2, <2>1, MemoryAssumption DEF TextLineOf, Names, Least
  <2>3. Placed(WithLast(memory, n, name)) /\ ~WithLast(memory, n, name).shrunk
    BY <1>1, <2>2, LineTaken
  <2>4. Placed(memory') /\ ~memory'.shrunk
    BY <2>1, <2>3, WithRecordsPlaced
  <2>5. QED  BY <1>1, <1>8, <2>4, GoesOn DEF Fitted, ShrunkLate
<1>9. QED  BY <1>5, <1>6, <1>7, <1>8

LEMMA EmptyLineStep ==
  ASSUME IInv, EmptyLine
  PROVE  IInv'
<1> DEFINE after == IF state \in FooterStates THEN "FOOTERS_RECEIVED" ELSE "HEADERS_RECEIVED"
<1>1. state \in BeforeLate /\ phase' = "idle" /\ after \notin ReplyStates
  BY DEF EmptyLine, Idle, Continue, BeforeLate, HeaderStates, FooterStates, ReplyStates, WriteStates
<1>2. PICK n \in 1 .. memory.offset :
        LET m == WithoutLine(memory, n)
        IN  IF state \in {"URL_RECEIVED", "BODY_RECEIVED"}
              THEN memory' = m /\ state' = after /\ UNCHANGED <<read_closed, request, reply>>
              ELSE IF FittingRecords(m, 1) = 0
                     THEN RefusedTwice(m)
                     ELSE /\ memory' = WithRecords(m, 1) /\ state' = after
                          /\ UNCHANGED <<read_closed, request, reply>>
  BY DEF EmptyLine
<1> DEFINE m == WithoutLine(memory, n)
<1>3. Placed(m) /\ ~m.shrunk
  BY <1>1, LineTaken
<1>4. Placed(WithRecords(m, 1)) /\ ~WithRecords(m, 1).shrunk
  BY <1>3, WithRecordsPlaced
<1>5. \/ RefusedTwice(m)
      \/ /\ memory' = m \/ memory' = WithRecords(m, 1)
         /\ state' = after /\ UNCHANGED <<read_closed, request, reply>>
  BY <1>2
<1> HIDE DEF m, after
<1>6. CASE RefusedTwice(m)
  BY <1>3, <1>6, RefusedTwiceStep
<1>7. CASE /\ memory' = m \/ memory' = WithRecords(m, 1)
           /\ state' = after /\ UNCHANGED <<read_closed, request, reply>>
  <2>1. Placed(memory') /\ ~memory'.shrunk
    BY <1>3, <1>4, <1>7
  <2>2. QED  BY <1>1, <1>7, <2>1, GoesOn DEF Fitted, ShrunkLate
<1>8. QED  BY <1>5, <1>6, <1>7

LEMMA ParseHeadersStep ==
  ASSUME IInv, ParseHeaders
  PROVE  IInv'
<1>1. state \in BeforeLate /\ phase' = "idle" /\ request' \in Announced
  BY DEF ParseHeaders, Idle, Continue, BeforeLate
<1>2. request' \in Requests
  <2>1. \/ request' = request
        \/ \E w \in Wishes, n \in 0 .. MaxBody : request' = Announcing(w, "length", n)
        \/ \E w \in Wishes, u \in {"chunked", "encoded"} : request' = Announcing(w, u, Unknown)
    BY <1>1 DEF Announced
  <2>2. \A w \in Wishes, u \in {"length", "chunked", "encoded"}, n \in Nat : Announcing(w, u, n) \in Requests
    BY DEF IInv, Types, Requests, Announcing
  <2>3. Unknown \in Nat /\ 0 .. MaxBody \subseteq Nat
    BY MemoryAssumption DEF Unknown
  <2>4. QED  BY <2>1, <2>2, <2>3 DEF IInv, Types
<1>3. Placed(memory) /\ ~memory.shrunk
  BY <1>1, NotShrunk
<1>4. CASE UNCHANGED <<memory, read_closed, reply>> /\ state' \in AfterHeaders
  BY <1>1, <1>2, <1>3, <1>4, Stepped
  DEF AfterHeaders, IInv, Types, Fitted, ShrunkLate, Informed, ReplyStates, WriteStates
<1>5. CASE \E size \in 1 .. MaxPart + 1, k \in 0 .. MaxPart :
             LET m == WithRecords(WithCopy(memory, size), k)
             IN  IF CookieFits(size, k)
                   THEN /\ memory' = m /\ state' \in AfterHeaders
                        /\ UNCHANGED <<read_closed, reply>>
                   ELSE /\ ErrorQueued(request')
                        /\ \E head \in HeadSizes :
                             /\ memory' = WithHeadBuffer(m, request', head)
                             /\ IF HeadFits(m, request', head)
                                  THEN state' \in AfterHeaders ELSE state' = "CLOSED"
  <2>1. PICK size \in 1 .. MaxPart + 1, k \in 0 .. MaxPart :
               LET m == WithRecords(WithCopy(memory, size), k)
               IN  \/ /\ memory' = m /\ state' \in {"HEADERS_PROCESSED", "CLOSED"}
                      /\ UNCHANGED <<read_closed, reply>>
                   \/ /\ ErrorQueued(request')
                      /\ \E head \in HeadSizes :
                           /\ memory' = WithHeadBuffer(m, request', head)
                           /\ state' \in {"HEADERS_PROCESSED", "CLOSED"}
    BY <1>5 DEF AfterHeaders
  <2> DEFINE m == WithRecords(WithCopy(memory, size), k)
  <2>2. size \in Nat /\ k \in Nat
    OBVIOUS
  <2>3. Placed(m) /\ ~m.shrunk
    BY <1>3, <2>2, WithCopyPlaced, WithRecordsPlaced
  <2> HIDE DEF m
  <2>4. Placed(memory') /\ ~memory'.shrunk
    BY <2>1, <2>3, HeadPlaced, MemoryAssumption DEF m
  <2>5. read_closed' \in BOOLEAN /\ reply' \in Replies
    BY <1>2, <2>1, ErrorQueuedTyped DEF IInv, Types
  <2>6. state' \notin ReplyStates
    BY <2>1 DEF ReplyStates, WriteStates
  <2>7. QED  BY <1>1, <1>2, <2>4, <2>5, <2>6, Stepped DEF Types, Fitted, ShrunkLate, Informed
<1>6. QED  BY <1>4, <1>5 DEF ParseHeaders

LEMMA CallFirstStep ==
  ASSUME IInv, CallFirst
  PROVE  IInv'
<1>1. /\ phase' # "wait" /\ memory' = memory /\ state' \notin ReplyStates
      /\ phase' = "idle" \/ state' \in ReadStates
      /\ state \notin LateStates /\ UNCHANGED <<read_closed, reply>>
  BY DEF CallFirst, Idle, Continue, Break, LateStates, ReplyStates, WriteStates, ReadStates
<1>2. request' \in Requests
  BY DEF CallFirst, IInv, Types, Requests
<1>3. QED  BY <1>1, <1>2, MemoryLeft, Stepped DEF IInv, Types, Informed

LEMMA BodyStep ==
  ASSUME IInv, Body
  PROVE  IInv'
<1>1. state = "CONTINUE_SENT" /\ state \in BeforeLate /\ state \in ReadStates
  BY DEF Body, Idle, BeforeLate, ReadStates
<1>2. /\ Placed(memory) /\ ~memory.shrunk /\ memory.offset \in Nat /\ memory.size \in Nat
      /\ memory.offset <= memory.size /\ request.remaining \in Nat /\ request \in Requests
  BY <1>1, NotShrunk DEF IInv, Types, Requests
<1>3. \A used \in Consumed : used[1] \in 0 .. memory.offset /\ used[2] \in Nat
  <2>1. Unknown \in Nat /\ MaxBody \in Nat
    BY MemoryAssumption DEF Unknown
  <2>2. CASE memory.offset = 0 \/ reply.kind # "none"
    BY <1>2, <2>2 DEF Consumed
  <2>3. CASE /\ ~(memory.offset = 0 \/ reply.kind # "none")
             /\ request.upload = "length" /\ request.remaining \in 1 .. MaxBody
    <3> DEFINE n == Least(request.remaining, memory.offset)
    <3>1. Consumed = {<<n, request.remaining - n>>}
      BY <2>3 DEF Consumed
    <3>2. n \in 0 .. memory.offset /\ request.remaining - n \in Nat
      BY <1>2 DEF Least
    <3>. HIDE DEF n
    <3>3. QED  BY <3>1, <3>2
  <2>4. CASE /\ ~(memory.offset = 0 \/ reply.kind # "none")
             /\ ~(request.upload = "length" /\ request.remaining \in 1 .. MaxBody)
    <3>1. ASSUME NEW used \in Consumed
          PROVE  \/ used = <<memory.offset, Unknown>>
                 \/ used = <<memory.offset - 1, Unknown>>
                 \/ \E n \in 1 .. memory.offset : used = <<n, 0>>
      BY <2>4 DEF Consumed
    <3>2. QED  BY <1>2, <2>1, <2>4, <3>1
  <2>5. QED  BY <2>2, <2>3, <2>4
<1>4. PICK used \in Consumed :
        /\ memory' = [memory EXCEPT !.offset = @ - used[1]]
        /\ request' = [request EXCEPT !.remaining = used[2]]
        /\ \/ phase' = "idle" /\ state' \in {"BODY_RECEIVED", "FOOTERS_RECEIVED"}
           \/ phase' = "settle" /\ state' = state
  BY DEF Body, Continue, Break
<1>5. memory.offset - used[1] \in 0 .. memory.size
  BY <1>2, <1>3
<1>6. Placed(memory') /\ ~memory'.shrunk
  <2>1. memory' = [memory EXCEPT !.offset = memory.offset - used[1]]
    BY <1>4
  <2>2. Placed(memory')
    BY <1>2, <1>5, <2>1, FilledPlaced
  <2>3. QED  BY <1>2, <2>1, <2>2 DEF Placed, Memories
<1>7. request' \in Requests
  BY <1>2, <1>3, <1>4 DEF Requests
<1>8. state' \notin ReplyStates
  BY <1>1, <1>4 DEF ReplyStates, WriteStates
<1>9. QED
  BY <1>1, <1>4, <1>6, <1>7, <1>8, Stepped DEF Body, IInv, Types, Fitted, ShrunkLate, Informed

LEMMA AnswerStep ==
  ASSUME IInv, Answer
  PROVE  IInv'
<1>1. PICK r \in Responses, size \in HeadSizes :
        /\ reply' = WithHead(Queued(r), request)
        /\ memory' = WithHeadBuffer(memory, request, size)
        /\ \/ phase' = "settle" /\ state' = "HEADERS_SENDING"
           \/ phase' = "idle" /\ state' = "CLOSED"
  BY DEF Answer, Break, Continue
<1>2. Queued(r) \in Replies
  <2>1. \A k \in {"empty", "known", "unknown"}, g \in Given : Response(k, g) \in Replies
    BY DEF Response, NoReply, Replies
  <2>2. r \in Replies
    BY <2>1 DEF Responses
  <2>3. QED  BY <2>2 DEF Queued, IInv, Types
<1>3. reply' \in Replies /\ Told(reply', request)
  BY <1>1, <1>2, WithHeadTold DEF IInv, Types
<1>4. Placed(memory')
  BY <1>1, HeadPlaced, MemoryAssumption DEF IInv, Fitted
<1>5. UNCHANGED <<read_closed, request>> /\ state' \in LateStates
  BY <1>1 DEF Answer, LateStates, ReplyStates, WriteStates
<1>6. QED
  BY <1>1, <1>3, <1>4, <1>5, Stepped DEF IInv, Types, Fitted, ShrunkLate, Informed, Told

LEMMA WriteDoneStep ==
  ASSUME IInv, WriteHeaders \/ WriteChunk \/ WriteFooters
  PROVE  IInv'
<1>1. /\ memory' = [memory EXCEPT
                     !.pool = Reallocate(memory.pool, memory.write.at, memory.write.size, 0).pool,
                     !.write = NoBuffer]
      /\ UNCHANGED <<read_closed, request, reply>> /\ phase' = "idle"
      /\ state \in ReplyStates /\ state' \in LateStates
  BY DEF WriteHeaders, WriteChunk, WriteFooters, WriteDone, LateStates, ReplyStates, WriteStates
<1>2. Placed(memory')
  BY <1>1, WriteDonePlaced DEF IInv, Fitted
<1>3. QED  BY <1>1, <1>2, GoesOn DEF Fitted, ShrunkLate

LEMMA ReadyChunkStep ==
  ASSUME IInv, ReadyChunk
  PROVE  IInv'
<1>1. /\ UNCHANGED <<read_closed, request, reply>> /\ phase' = "idle"
      /\ state \in ReplyStates /\ state' \in LateStates
  BY DEF ReadyChunk, Idle, Continue, LateStates, ReplyStates, WriteStates
<1>2. Placed(memory')
  <2>1. CASE memory' = memory
    BY <2>1 DEF IInv, Fitted
  <2>2. CASE \E size \in FittingChunks :
               LET got == AllocateFront(memory.pool, size)
               IN  memory' = [memory EXCEPT !.pool = got.pool,
                                            !.write = [at |-> got.at, size |-> size]]
    <3>1. \A size \in FittingChunks :
            size \in Nat \ {0} /\ AllocateFront(memory.pool, size).at # Null
      BY PoolAssumption, MemoryAssumption DEF FittingChunks, ChunkSizes
    <3>2. QED  BY <2>2, <3>1, WritePlaced DEF IInv, Fitted
  <2>3. QED  BY <2>1, <2>2 DEF ReadyChunk
<1>3. QED  BY <1>1, <1>2, GoesOn DEF Fitted, ShrunkLate

LEMMA BodySentStep ==
  ASSUME IInv, BodySent
  PROVE  IInv'
<1>1. /\ UNCHANGED <<read_closed, request, reply>> /\ phase' = "idle"
      /\ state \in ReplyStates /\ state' \in LateStates
      /\ memory' = WithHeadBuffer(memory, request, 2)
  BY DEF BodySent, Idle, Continue, LateStates, ReplyStates, WriteStates
<1>2. Placed(memory')
  BY <1>1, HeadPlaced DEF IInv, Fitted
<1>3. QED  BY <1>1, <1>2, GoesOn DEF Fitted, ShrunkLate

LEMMA FinishStep ==
  ASSUME IInv, Finish \/ Cleanup
  PROVE  IInv'
<1>1. request' \in Requests /\ reply' \in Replies /\ read_closed' \in BOOLEAN
  <2>1. NoRequest \in Requests /\ NoReply \in Replies
    BY DEF NoRequest, NoReply, Requests, Replies
  <2>2. request' = NoRequest /\ reply' = NoReply /\ (read_closed' = read_closed \/ read_closed' = FALSE)
    BY DEF Finish, Cleanup
  <2>3. QED  BY <2>1, <2>2 DEF IInv, Types
<1>2. Placed(memory') /\ ~memory'.shrunk
  <2>1. Placed(NewMemory) /\ ~NewMemory.shrunk
    BY NewPlaced DEF NewMemory
  <2>2. QED  BY <2>1, KeptPlaced DEF Finish, Cleanup, IInv, Fitted
<1>3. state' \in {"CLOSED", "INIT"} /\ (phase' # "idle" => state' = "CLOSED")
  BY DEF Finish, Cleanup, Continue
<1>4. state' \notin ReplyStates /\ ("CLOSED" \notin RoomStates) /\ "CLOSED" \in LateStates
  BY <1>3 DEF ReplyStates, WriteStates, RoomStates, HeaderStates, LateStates
<1>5. QED
  BY <1>1, <1>2, <1>3, <1>4
  DEF IInv, Types, Fitted, ShrunkLate, SocketStates, Room, Informed

(* A buffer that grows has room for the next read.                         *)
LEMMA GrownHasRoom ==
  ASSUME NEW m, Placed(m), CanGrow(m)
  PROVE  Grown(m).size > m.size /\ ~Full(Grown(m))
<1> DEFINE new == GrownSize(m)
           asize == RoundToAlign(new)
<1>1. /\ m \in Memories /\ m.pool \in Pools /\ m.size \in Nat /\ m.at \in Int
      /\ m.offset \in Nat /\ m.offset <= m.size
  BY DEF Placed, Memories, Sized
<1>2. new \in Nat /\ (new > m.size \/ (new = 0 /\ m.size = 0 /\ PoolSize < 2))
  BY <1>1, PoolAssumption, MemoryAssumption DEF GrownSize
<1>3. new > m.size
  BY <1>2, PoolAssumption
<1>4. Grown(m) = [m EXCEPT !.pool = Growth(m).pool, !.at = Growth(m).at, !.size = new]
  BY DEF Grown
<1> HIDE DEF new
<1>5. Grown(m).size = new /\ Grown(m).offset = m.offset
  BY <1>1, <1>4 DEF Memories
<1>6. QED  BY <1>1, <1>2, <1>3, <1>5 DEF Full

LEMMA SettleStep ==
  ASSUME IInv, Settle
  PROVE  IInv'
<1>1. /\ phase = "settle" /\ state \in ReadStates \cup LateStates /\ Placed(memory)
      /\ memory.offset \in Nat /\ memory.size \in Nat
  BY DEF Settle, IInv, SocketStates, Fitted, Placed, Memories
<1>2. CASE state \in RoomStates /\ Full(memory) /\ ~CanGrow(memory)
  <2>1. TransmitError(memory, request)
    BY <1>2 DEF Settle, RoomStates, HeaderStates, FooterStates
  <2>2. QED  BY <1>1, <2>1, TransmitErrorStep, RefusedStep DEF IInv, Types
<1>3. CASE state \in RoomStates /\ Full(memory) /\ CanGrow(memory)
  <2>1. /\ phase' = "wait" /\ memory' = Grown(memory)
        /\ UNCHANGED <<state, read_closed, request, reply>>
    BY <1>3 DEF Settle, RoomStates, HeaderStates, FooterStates
  <2>2. Placed(memory') /\ (memory'.shrunk <=> memory.shrunk) /\ ~Full(memory')
    BY <1>1, <1>3, <2>1, GrownPlaced, GrownHasRoom
  <2>3. HasRoom'
    <3>1. ~Full(BeforeRead(memory'))
      BY <2>2, GrownHasRoom DEF BeforeRead, Grown
    <3>2. QED  BY <3>1 DEF HasRoom
  <2>4. QED
    BY <1>1, <2>1, <2>2, <2>3
    DEF IInv, Types, Fitted, ShrunkLate, SocketStates, Room, Informed
<1>4. CASE ~(state \in RoomStates /\ Full(memory)) /\ state \in FooterStates /\ read_closed
  <2>1. /\ phase' = "idle" /\ state' = "CLOSED" /\ UNCHANGED <<read_closed, memory, request, reply>>
    BY <1>4 DEF Settle
  <2>2. state' \notin ReplyStates /\ state' \in LateStates
    BY <2>1 DEF ReplyStates, WriteStates, LateStates
  <2>3. QED  BY <2>1, <2>2, MemoryLeft, GoesOn
<1>5. CASE ~(state \in RoomStates /\ Full(memory)) /\ ~(state \in FooterStates /\ read_closed)
  <2>1. phase' = "wait" /\ UNCHANGED <<state, read_closed, memory, request, reply>>
    BY <1>5 DEF Settle
  <2>2. state \in RoomStates => HasRoom
    BY <1>1, <1>5, GrownHasRoom DEF HasRoom, BeforeRead, Grown
  <2>3. HasRoom' <=> HasRoom
    BY <2>1 DEF HasRoom
  <2>4. QED
    BY <1>1, <2>1, <2>2, <2>3
    DEF IInv, Types, Fitted, ShrunkLate, SocketStates, Room, Informed
<1>6. QED  BY <1>2, <1>3, <1>4, <1>5

LEMMA Initially ==
  ASSUME Init
  PROVE  IInv
<1>1. Types
  BY DEF Init, Types, NoRequest, NoReply, Requests, Replies
<1>2. Placed(memory) /\ ~memory.shrunk
  BY NewPlaced DEF Init, NewMemory
<1>3. state \notin LateStates /\ state \in ReadStates
  BY DEF Init, LateStates, ReplyStates, WriteStates, ReadStates, HeaderStates
<1>4. HasRoom
  <2> DEFINE half == PoolSize \div 2
  <2>1. half \in Nat \ {0} /\ half <= PoolSize
    BY PoolAssumption
  <2>2. half < RoundToAlign(half) + 1 /\ RoundToAlign(half) <= PoolSize /\ RoundToAlign(half) \in Nat
    BY <2>1, Rounded, RoundedFits
  <2> HIDE DEF half
  <2>3. GrownSize(memory) = half
    BY DEF Init, NewMemory, GrownSize, half
  <2>4. Growth(memory) = Reallocate(Created, Null, 0, half)
    BY <2>3 DEF Init, NewMemory, Growth
  <2>5. Growth(memory) = AllocateFront(Created, half)
    BY <2>1, <2>2, <2>4, PoolAssumption DEF Reallocate, IsLast, Created
  <2>6. AllocateFront(Created, half).at = 0
    BY <2>2, PoolAssumption DEF AllocateFront, Created
  <2>7. CanGrow(memory) /\ memory.offset = 0 /\ memory.size = 0
    BY <2>5, <2>6 DEF CanGrow, Init, NewMemory
  <2>8. QED  BY <1>2, <2>7, GrownHasRoom, MemoryAssumption DEF HasRoom, BeforeRead
<1>5. QED
  BY <1>1, <1>2, <1>3, <1>4, StatesApart
  DEF IInv, Types, Fitted, ShrunkLate, SocketStates, Room, Informed

LEMMA Stuttered ==
  ASSUME IInv, UNCHANGED vars
  PROVE  IInv'
<1>1. HasRoom' <=> HasRoom
  BY DEF vars, HasRoom
<1>2. QED
  BY <1>1 DEF vars, IInv, Types, Fitted, ShrunkLate, SocketStates, Room, Informed

LEMMA Preserved ==
  ASSUME IInv, [Next]_vars
  PROVE  IInv'
<1>1. CASE Done \/ UNCHANGED vars
  BY <1>1, Stuttered DEF Done
<1>2. CASE Next /\ ~Done
  BY <1>2, ReadStep, QuietSteps, WriteDoneStep, NoLineStep, RequestLineStep, FirstLineStep,
     MalformedFirstLineStep, ContinuationLineStep, NextLineStep, EmptyLineStep, ParseHeadersStep,
     CallFirstStep, BodyStep, AnswerStep, ReadyChunkStep, BodySentStep, FinishStep, SettleStep
  DEF Next
<1>3. QED  BY <1>1, <1>2

-----------------------------------------------------------------------------
LEMMA Apart ==
  ASSUME IInv
  PROVE  AreasApart
<1>1. /\ memory \in Memories /\ memory.pool \in Pools /\ Sized(memory) /\ LinesKept(memory)
      /\ RecordsKept(memory) /\ WriteKept(memory) /\ ReadKept(memory)
  BY DEF IInv, Fitted, Placed, Memories
<1>2. /\ memory.at \in Int /\ memory.size \in Nat /\ memory.write.at \in Int
      /\ memory.write.size \in Nat /\ memory.lines \subseteq Nat /\ memory.records \subseteq Nat
      /\ memory.pool.pos \in Nat /\ memory.pool.end \in Nat
      /\ memory.pool.pos <= memory.pool.end /\ memory.pool.end <= PoolSize
  BY <1>1 DEF Memories, Pools
<1>3. \A b \in WriteBytes :
        /\ b \in Int /\ memory.write.size > 0
        /\ memory.write.at <= b /\ b < memory.write.at + memory.write.size
  BY <1>2 DEF WriteBytes, Block
<1>4. \A b \in ReadBytes :
        /\ b \in Int /\ memory.at # Null
        /\ memory.at <= b /\ b < memory.at + memory.size
  BY <1>2 DEF ReadBytes, Block
<1>5. /\ WriteBytes \cap memory.lines = {} /\ WriteBytes \cap memory.records = {}
      /\ memory.lines \cap memory.records = {}
  BY <1>1, <1>2, <1>3 DEF WriteKept, LinesKept, RecordsKept
<1>6. /\ WriteBytes \subseteq 0 .. PoolSize - 1 /\ memory.lines \subseteq 0 .. PoolSize - 1
      /\ memory.records \subseteq 0 .. PoolSize - 1
  BY <1>1, <1>2, <1>3, PoolAssumption DEF WriteKept, LinesKept, RecordsKept
<1> DEFINE buffer == IF memory.shrunk THEN {} ELSE ReadBytes
<1>7. /\ buffer \cap WriteBytes = {} /\ buffer \cap memory.lines = {}
      /\ buffer \cap memory.records = {} /\ buffer \subseteq 0 .. PoolSize - 1
  BY <1>1, <1>2, <1>3, <1>4, PoolAssumption
  DEF ReadKept, WriteBehind, WriteBefore, RecordsKept, Sized
<1> DEFINE areas == <<buffer, WriteBytes, memory.lines, memory.records>>
<1>8. /\ DOMAIN areas = {1, 2, 3, 4} /\ areas[1] = buffer /\ areas[2] = WriteBytes
      /\ areas[3] = memory.lines /\ areas[4] = memory.records
  OBVIOUS
<1> HIDE DEF areas, buffer
<1>9. \A i \in DOMAIN areas : areas[i] \subseteq 0 .. PoolSize - 1
  BY <1>6, <1>7, <1>8
<1>10. ASSUME NEW i \in DOMAIN areas, NEW j \in DOMAIN areas, i # j
       PROVE  areas[i] \cap areas[j] = {}
  <2>1. CASE i = 1 \/ j = 1
    BY <1>7, <1>8, <1>10, <2>1
  <2>2. CASE i # 1 /\ j # 1
    BY <1>5, <1>8, <1>10, <2>2
  <2>3. QED  BY <2>1, <2>2
<1>11. QED  BY <1>9, <1>10 DEF AreasApart, areas, buffer

LEMMA RoomAlways ==
  ASSUME IInv
  PROVE  RoomToRead
BY DEF IInv, Room, RoomToRead, Reads, RoomStates

LEMMA FinishesClear ==
  ASSUME IInv, Next, Idle({"FOOTERS_SENT"}), state' = "INIT"
  PROVE  (reply.kind # "unknown" \/ reply.chunked) /\ reply.announced # "close"
<1>1. state = "FOOTERS_SENT" /\ phase = "idle" /\ state \in ReplyStates /\ reply \in Replies
  BY DEF Idle, ReplyStates, IInv, Types
<1>2. Finish
  BY <1>1
  DEF Next, Read, Waiting, Lost, CalledAgain, WriteHeaders, WriteBody, WriteChunk, WriteFooters,
      NoLine, RequestLine, BadRequestLine, FirstLine, MalformedFirstLine, ContinuationLine, NextLine,
      EmptyLine, ParseHeaders, CallFirst, WriteContinue, ContinueSending, Body, MalformedBody,
      Answer, NoAnswer, Sending, HeadersSent, ReadyBody, ReadyChunk, BodySent, Cleanup, Settle, Done, Idle, HeaderStates, FooterStates,
      WriteStates
<1>3. ~Closes
  BY <1>2 DEF Finish
<1>4. Told(reply, request)
  BY <1>1, <1>3 DEF IInv, Informed, Closes
<1>5. QED  BY <1>3, <1>4 DEF Closes, ResponseCloses, Told

(* The inductive invariant holds in every state of a connection: it holds  *)
(* of the empty pool and every step preserves it.                          *)
LEMMA Invariant == Spec => []IInv
<1>1. Init => IInv
  BY Initially
<1>2. IInv /\ [Next]_vars => IInv'
  BY Preserved
<1>3. QED  BY <1>1, <1>2, PTL DEF Spec

(* For every pool, alignment, increment and size of a record: the read     *)
(* buffer, the lines that the headers point into, their records and the    *)
(* write buffer never overlap and lie in the pool, over all the growing,   *)
(* shrinking, giving back and resetting of memorypool.cpp.                 *)
THEOREM AreasStayApart == Spec => []AreasApart
<1>1. IInv => AreasApart
  BY Apart
<1>2. QED  BY <1>1, Invariant, PTL

(* For every pool: a connection that waits for more of a head or a body    *)
(* has room for at least one byte of it when the read handler is called.   *)
THEOREM RoomIsThere == Spec => []RoomToRead
<1>1. IInv => RoomToRead
  BY RoomAlways
<1>2. QED  BY <1>1, Invariant, PTL

(* For every request and response: keepalive_possible() and the header     *)
(* that build_header_response() writes agree on a connection that is kept  *)
(* for the next request.                                                   *)
THEOREM KeptOnlyWhenClear == Spec => KeptWhenClear
<1>1. IInv /\ [Next]_vars =>
        [Idle({"FOOTERS_SENT"}) /\ state' = "INIT" =>
           /\ reply.kind # "unknown" \/ reply.chunked
           /\ reply.announced # "close"]_vars
  BY FinishesClear
<1>2. QED  BY <1>1, Invariant, PTL DEF Spec, KeptWhenClear
=============================================================================
