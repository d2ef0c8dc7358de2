----------------------------- MODULE ExtentPool -----------------------------
(***************************************************************************)
(* What extentAllocator promises the dataplane: extents handed out are     *)
(* disjoint, an extent given back is free again slot by slot, and Alloc    *)
(* fails only when no run of free slots is long enough, however the space  *)
(* was cut up before.                                                      *)
(***************************************************************************)
EXTENDS HeldExtents

VARIABLE pool   \* the free slots

PoolInit ==
  /\ pool = WholeTable(Total)
  /\ held = {}

AllocExtent(size) ==
  /\ CanTake(pool, size)
  /\ held' = held \cup {Taken(pool, size)}
  /\ pool' = pool \ Slots(Taken(pool, size))

AllocFails(size) ==
  /\ ~CanTake(pool, size)
  /\ UNCHANGED <<pool, held>>

FreeExtent(e) ==
  /\ held' = held \ {e}
  /\ pool' = pool \cup Slots(e)

ReserveExtent(e) ==
  /\ CanClaim(pool, e)
  /\ held' = held \cup {e}
  /\ pool' = pool \ Slots(e)

PoolNext ==
  \/ \E size \in Sizes : AllocExtent(size) \/ AllocFails(size)
  \/ \E e \in held : FreeExtent(e)
  \/ \E offset \in 0 .. Total, size \in 0 .. Total : ReserveExtent(Extent(offset, size))

PoolSpec == PoolInit /\ [][PoolNext]_<<pool, held>>

-----------------------------------------------------------------------------

PoolTypeOK ==
  /\ pool \subseteq WholeTable(Total)
  /\ \A e \in held :
       /\ e = Extent(e.offset, e.size)
       /\ e.offset \in Nat /\ e.size \in Nat \ {0}
       /\ e.offset + e.size <= Total

\* Every slot is free or in an extent handed out, and never both: space is
\* neither lost to fragmentation bookkeeping nor handed out twice.
NoLeak ==
  /\ pool \cap UNION {Slots(e) : e \in held} = {}
  /\ pool \cup UNION {Slots(e) : e \in held} = WholeTable(Total)

=============================================================================
