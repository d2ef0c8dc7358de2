------------------------------ MODULE Extents ------------------------------
(***************************************************************************)
(* The slot space of maglev_table as its users see it: a set of free       *)
(* slots.  Alloc hands out the lowest run of slots that is long enough,    *)
(* Free gives a run back, reserve takes a given run.  ExtentAllocator has  *)
(* the allocator's real representation, a sorted and coalesced list.       *)
(***************************************************************************)
EXTENDS Integers

\* extent
Extent(offset, size) == [offset |-> offset, size |-> size]

NoExtent == Extent(0, 0)

Slots(e) == e.offset .. e.offset + e.size - 1

\* newExtentAllocator
WholeTable(total) == 0 .. total - 1

\* The offsets at which a run of size free slots starts.
Fits(pool, size) == {o \in pool : o .. o + size - 1 \subseteq pool}

CanTake(pool, size) == Fits(pool, size) # {}

\* Alloc: the extent it returns; what stays free is pool \ Slots of it.
Taken(pool, size) ==
  Extent(CHOOSE o \in Fits(pool, size) : \A p \in Fits(pool, size) : o <= p, size)

\* reserve succeeds on a non-empty extent all of whose slots are free.
CanClaim(pool, e) == e.size # 0 /\ Slots(e) \subseteq pool

=============================================================================
