---------------------------- MODULE IdAllocator ----------------------------
(***************************************************************************)
(* One idAllocator under any sequence of its four operations: Alloc and    *)
(* Release as UpsertVIP and RemoveVIP call them, reserve (and the Release  *)
(* that rolls it back) as adoptOneLocked calls it.  Every caller holds     *)
(* Dataplane.mu, so an operation is one step.                              *)
(***************************************************************************)
EXTENDS IdAlloc

CONSTANTS
  Key,   \* the strings ids are handed to ("addr:port:proto" or "addr:port")
  Max    \* the capacity

ASSUME MaxAssumption == Max \in Nat

VARIABLE alloc

Init == alloc = NewIds(Max)

DoAlloc(key) ==
  /\ CanAlloc(alloc, key)
  /\ alloc' = Alloc(alloc, key)

DoRelease(key) == alloc' = Release(alloc, key)

DoReserve(key, id) ==
  /\ CanReserve(alloc, key, id)
  /\ alloc' = Reserve(alloc, key, id)

Next ==
  \E key \in Key :
     \/ DoAlloc(key)
     \/ DoRelease(key)
     \/ \E id \in 0 .. Max : DoReserve(key, id)

Spec == Init /\ [][Next]_alloc

-----------------------------------------------------------------------------

Ids == 0 .. Max - 1

TypeOK ==
  /\ DOMAIN alloc = {"max", "ids", "free", "next"}
  /\ alloc.max = Max
  /\ DOMAIN alloc.ids \subseteq Key
  /\ \A k \in DOMAIN alloc.ids : alloc.ids[k] \in Ids
  /\ alloc.free \in Seq(Ids)
  /\ alloc.next \in 0 .. Max

\* No two keys hold one id: two VIPs never share a service_config_map slot and
\* two backends never share a backend_map slot, whatever was released, reused
\* or reserved before.
NoSharedId ==
  \A k, l \in DOMAIN alloc.ids : alloc.ids[k] = alloc.ids[l] => k = l

\* The free list names no id twice and none that a key holds; with the held ids
\* it is everything below the high-water mark, so no id is lost to churn
\* ("Freed IDs are reused before growing", idalloc.go).
Partition ==
  /\ \A i, j \in 1 .. Len(alloc.free) : alloc.free[i] = alloc.free[j] => i = j
  /\ Image(alloc.free) \cap Image(alloc.ids) = {}
  /\ Image(alloc.free) \cup Image(alloc.ids) = 0 .. alloc.next - 1

\* A key keeps the id it holds for as long as it holds one: the maps written
\* under that id are never orphaned by another key's operation.
StableIds ==
  [][\A k \in DOMAIN alloc.ids \cap DOMAIN alloc'.ids : alloc'.ids[k] = alloc.ids[k]]_alloc

=============================================================================
