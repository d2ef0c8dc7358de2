------------------------------ MODULE IdAlloc ------------------------------
(***************************************************************************)
(* The idAllocator of internal/dataplane/idalloc.go (and its reserve, in   *)
(* adopt.go) as operators on the struct's value.  An allocator is a record *)
(*    max   the capacity (MaxVIPs or MaxBackends)                          *)
(*    ids   the partial function key -> id                                 *)
(*    free  the freed ids, a stack whose top is its last element           *)
(*    next  the high-water mark: ids at or above it were never handed out  *)
(* An operation that can fail comes as a pair: a predicate saying when it  *)
(* succeeds and the allocator it then leaves.                              *)
(***************************************************************************)
EXTENDS Integers, Sequences

Image(f) == {f[x] : x \in DOMAIN f}

\* newIDAllocator
NewIds(max) == [max |-> max, ids |-> [k \in {} |-> 0], free |-> << >>, next |-> 0]

\* Get: key's id, for a key that holds one
Holds(a, key) == key \in DOMAIN a.ids

IdOf(a, key) == a.ids[key]

\* Alloc succeeds unless the key is new, nothing was freed and max is reached.
CanAlloc(a, key) ==
  \/ Holds(a, key)
  \/ a.free # << >>
  \/ a.next < a.max

Give(ids, key, id) == [k \in DOMAIN ids \cup {key} |-> IF k = key THEN id ELSE ids[k]]

\* Mutant: a key that holds an id is given another one.
AllocAnew(a, key) ==
  IF a.free # << >>
  THEN LET n == Len(a.free)
       IN [a EXCEPT !.ids = Give(a.ids, key, a.free[n]), !.free = SubSeq(a.free, 1, n - 1)]
  ELSE [a EXCEPT !.ids = Give(a.ids, key, a.next), !.next = a.next + 1]

Alloc(a, key) ==
  IF Holds(a, key) THEN a
  ELSE IF a.free # << >>
       THEN LET n == Len(a.free)
            IN [a EXCEPT !.ids = Give(a.ids, key, a.free[n]), !.free = SubSeq(a.free, 1, n - 1)]
       ELSE [a EXCEPT !.ids = Give(a.ids, key, a.next), !.next = a.next + 1]

\* Mutant: the key keeps the id that goes back to the free list.
ReleaseKeepsKey(a, key) ==
  IF Holds(a, key) THEN [a EXCEPT !.free = Append(a.free, a.ids[key])] ELSE a

Release(a, key) ==
  IF Holds(a, key)
  THEN [a EXCEPT !.ids = [k \in DOMAIN a.ids \ {key} |-> a.ids[k]],
                 !.free = Append(a.free, a.ids[key])]
  ELSE a

\* reserve(key, id) refuses an id out of range, held by another key, or a key
\* that holds another id.
CanReserve(a, key, id) ==
  /\ id < a.max
  /\ IF Holds(a, key) THEN a.ids[key] = id ELSE id \notin Image(a.ids)

\* The ids from the high-water mark up to (not including) id, oldest first.
Skipped(a, id) == [i \in 1 .. id - a.next |-> a.next + i - 1]

\* The free list without its first occurrence of id.
Without(free, id) ==
  IF \E i \in 1 .. Len(free) : free[i] = id
  THEN LET i == CHOOSE j \in 1 .. Len(free) :
                   free[j] = id /\ \A k \in 1 .. j - 1 : free[k] # id
       IN [j \in 1 .. Len(free) - 1 |-> IF j < i THEN free[j] ELSE free[j + 1]]
  ELSE free

\* Mutant: a reserved id stays on the free list.
ReserveKeepsFree(a, key, id) ==
  IF Holds(a, key) THEN a
  ELSE IF id >= a.next
       THEN [a EXCEPT !.ids = Give(a.ids, key, id),
                      !.free = a.free \o Skipped(a, id),
                      !.next = id + 1]
       ELSE [a EXCEPT !.ids = Give(a.ids, key, id)]

Reserve(a, key, id) ==
  IF Holds(a, key) THEN a
  ELSE IF id >= a.next
       THEN [a EXCEPT !.ids = Give(a.ids, key, id),
                      !.free = a.free \o Skipped(a, id),
                      !.next = id + 1]
       ELSE [a EXCEPT !.ids = Give(a.ids, key, id), !.free = Without(a.free, id)]

\* adoptOneLocked's roll-back: the keys it claimed released one after the other.
Unclaimed(a, claimed) ==
  [a EXCEPT !.ids = [b \in DOMAIN a.ids \ Image(claimed) |-> a.ids[b]],
            !.free = a.free \o [i \in DOMAIN claimed |-> a.ids[claimed[i]]]]

=============================================================================
