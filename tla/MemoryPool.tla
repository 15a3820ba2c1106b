---------------------------- MODULE MemoryPool ----------------------------
(***************************************************************************)
(* The memory pool of a connection (memorypool.cpp): one piece of memory,  *)
(* taken from the front by the buffers and from the end by small records.  *)
(* A place in it is an offset, Null is the NULL pointer.  An operation     *)
(* returns the pool after it and the place it returns.                     *)
(***************************************************************************)
EXTENDS Integers

CONSTANTS
  PoolSize,   \* size of the pool (64 KB)
  Align       \* ALIGN_SIZE (16)

(* ALIGN_SIZE is twice the size of a pointer, so it is more than one byte. *)
ASSUME PoolAssumption ==
  Align \in Nat \ {0, 1} /\ PoolSize \in Nat \ {0} /\ PoolSize % Align = 0

Null == -1
Places == 0 .. PoolSize

RoundToAlign(n) == ((n + Align - 1) \div Align) * Align

Created == [pos |-> 0, end |-> PoolSize]

AllocateFront(p, size) ==
  LET asize == RoundToAlign(size)
  IN  IF p.pos + asize > p.end
        THEN [pool |-> p, at |-> Null]
        ELSE [pool |-> [p EXCEPT !.pos = @ + asize], at |-> p.pos]

AllocateEnd(p, size) ==
  LET asize == RoundToAlign(size)
  IN  IF p.pos + asize > p.end
        THEN [pool |-> p, at |-> Null]
        ELSE [pool |-> [p EXCEPT !.end = @ - asize], at |-> p.end - asize]

(* A block is the last one when it ends where the free memory starts: by   *)
(* the size it is said to have, which need not be the rounded one.         *)
IsLast(p, old, old_size) == p.pos >= old_size /\ p.pos - old_size = old

MutReallocate(p, old, old_size, new_size) ==   \* bug: any block is extended in place
  LET asize == RoundToAlign(new_size)
  IN  CASE old # Null /\ old + asize <= p.end ->
             [pool |-> [p EXCEPT !.pos = IF @ < old + asize THEN old + asize ELSE @], at |-> old]
        [] asize <= old_size -> [pool |-> p, at |-> old]
        [] OTHER -> AllocateFront(p, new_size)

Reallocate(p, old, old_size, new_size) ==
  LET asize == RoundToAlign(new_size)
  IN  CASE p.end < old_size \/ p.end < asize -> [pool |-> p, at |-> Null]
        [] p.end >= old_size /\ p.end >= asize /\ IsLast(p, old, old_size) ->
             IF p.pos + asize - old_size <= p.end
               THEN [pool |-> [p EXCEPT !.pos = @ + asize - old_size], at |-> old]
               ELSE [pool |-> p, at |-> Null]
        [] p.end >= old_size /\ ~IsLast(p, old, old_size) /\ asize <= old_size ->
             [pool |-> p, at |-> old]
        [] OTHER -> AllocateFront(p, new_size)

(* Everything is forgotten but one block, which moves to the front. *)
Reset(p, keep, size) ==
  IF keep = Null
    THEN [pool |-> [p EXCEPT !.end = PoolSize], at |-> Null]
    ELSE [pool |-> [pos |-> RoundToAlign(size), end |-> PoolSize], at |-> 0]
============================================================================
