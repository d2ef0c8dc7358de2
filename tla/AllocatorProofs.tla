-------------------------- MODULE AllocatorProofs --------------------------
(***************************************************************************)
(* The properties of both allocators, for every capacity, every set of     *)
(* keys and every set of extent sizes.                                     *)
(***************************************************************************)
EXTENDS IdAllocator, ExtentPool, AllocatorFacts, WellFoundedInduction

(***************************************************************************)
(* The id allocator.  Its inductive invariant is AllocatorFacts'           *)
(* WellFormed: Alloc hands out the top of the free list, so that no id is  *)
(* shared rests on the free list naming no held id and no id twice, and    *)
(* that on everything freed or held lying below the high-water mark.       *)
(***************************************************************************)
IInv ==
  /\ WellFormed(alloc)
  /\ alloc.max = Max
  /\ DOMAIN alloc.ids \subseteq Key

\* What each operation keeps of the other keys' ids.
Keeps == \A k \in DOMAIN alloc.ids \cap DOMAIN alloc'.ids : alloc'.ids[k] = alloc.ids[k]

LEMMA InitIInv == Init => IInv
  <1> SUFFICES ASSUME Init PROVE IInv
    OBVIOUS
  <1>1. WellFormed(NewIds(Max)) /\ DOMAIN NewIds(Max).ids = {}
    BY MaxAssumption, NewFacts
  <1>2. NewIds(Max).max = Max
    BY DEF NewIds
  <1> QED BY <1>1, <1>2 DEF Init, IInv

LEMMA NextIInv == IInv /\ [Next]_alloc => IInv' /\ Keeps
  <1> SUFFICES ASSUME IInv, [Next]_alloc PROVE IInv' /\ Keeps
    OBVIOUS
  <1>0. WellFormed(alloc) /\ alloc.max = Max /\ DOMAIN alloc.ids \subseteq Key
    BY DEF IInv
  <1>1. CASE UNCHANGED alloc
    BY <1>0, <1>1 DEF IInv, Keeps
  <1>2. ASSUME NEW key \in Key, DoAlloc(key) PROVE IInv' /\ Keeps
    <2>1. CanAlloc(alloc, key) /\ alloc' = Alloc(alloc, key)
      BY <1>2 DEF DoAlloc
    <2>2. /\ WellFormed(Alloc(alloc, key)) /\ Alloc(alloc, key).max = alloc.max
          /\ DOMAIN Alloc(alloc, key).ids = DOMAIN alloc.ids \cup {key}
          /\ \A k \in DOMAIN alloc.ids : Alloc(alloc, key).ids[k] = alloc.ids[k]
      BY <1>0, <2>1, AllocFacts
    <2> QED BY <1>0, <2>1, <2>2 DEF IInv, Keeps
  <1>3. ASSUME NEW key \in Key, DoRelease(key) PROVE IInv' /\ Keeps
    <2>1. alloc' = Release(alloc, key)
      BY <1>3 DEF DoRelease
    <2>2. /\ WellFormed(Release(alloc, key)) /\ Release(alloc, key).max = alloc.max
          /\ DOMAIN Release(alloc, key).ids = DOMAIN alloc.ids \ {key}
          /\ \A k \in DOMAIN alloc.ids \ {key} : Release(alloc, key).ids[k] = alloc.ids[k]
      BY <1>0, ReleaseFacts
    <2> QED BY <1>0, <2>1, <2>2 DEF IInv, Keeps
  <1>4. ASSUME NEW key \in Key, NEW id \in 0 .. Max, DoReserve(key, id) PROVE IInv' /\ Keeps
    <2>1. id \in Nat /\ CanReserve(alloc, key, id) /\ alloc' = Reserve(alloc, key, id)
      BY <1>4, MaxAssumption DEF DoReserve
    <2>2. /\ WellFormed(Reserve(alloc, key, id)) /\ Reserve(alloc, key, id).max = alloc.max
          /\ DOMAIN Reserve(alloc, key, id).ids = DOMAIN alloc.ids \cup {key}
          /\ \A k \in DOMAIN alloc.ids : Reserve(alloc, key, id).ids[k] = alloc.ids[k]
      BY <1>0, <2>1, ReserveFacts
    <2> QED BY <1>0, <2>1, <2>2 DEF IInv, Keeps
  <1> QED BY <1>1, <1>2, <1>3, <1>4 DEF Next

LEMMA Inductive == Spec => []IInv
  BY InitIInv, NextIInv, PTL DEF Spec

LEMMA IInvType == IInv => TypeOK
  <1> SUFFICES ASSUME IInv PROVE TypeOK
    OBVIOUS
  <1>1. alloc.next \in 0 .. Max
    BY DEF IInv, WellFormed
  <1>2. 0 .. alloc.next - 1 \subseteq Ids
    BY <1>1, MaxAssumption DEF Ids
  <1>3. \A k \in DOMAIN alloc.ids : alloc.ids[k] \in Ids
    BY <1>2, SMTT(60) DEF IInv, WellFormed, Image
  <1>4. alloc.free \in Seq(Ids)
    <2>1. alloc.free \in Seq(Nat) /\ Image(alloc.free) \subseteq Ids
      BY <1>2 DEF IInv, WellFormed
    <2>2. \A i \in 1 .. Len(alloc.free) : alloc.free[i] \in Ids
      BY <2>1, SeqImage
    <2> QED BY <2>1, <2>2, SMTT(60)
  <1>5. DOMAIN alloc = {"max", "ids", "free", "next"}
    BY DEF IInv, WellFormed
  <1> QED BY <1>1, <1>3, <1>4, <1>5 DEF IInv, TypeOK

\* Whatever operations the dataplane performs, the allocator keeps its shape:
\* every id it hands out is below the capacity it was created with.
THEOREM TypeCorrect == Spec => []TypeOK
  BY Inductive, IInvType, PTL

\* No two keys ever hold one id, for every capacity and every set of keys.
THEOREM IdsNeverShared == Spec => []NoSharedId
  <1>1. IInv => NoSharedId
    BY DEF IInv, WellFormed, Injective, NoSharedId
  <1> QED BY <1>1, Inductive, PTL

\* The free list and the held ids always partition the ids below the
\* high-water mark.
THEOREM NothingLost == Spec => []Partition
  <1>1. IInv => Partition
    BY DEF IInv, WellFormed, NoRepeat, Partition
  <1> QED BY <1>1, Inductive, PTL

\* No operation changes the id of a key that holds one before and after it.
THEOREM IdsStable == Spec => StableIds
  <1>1. IInv /\ [Next]_alloc => [Keeps]_alloc
    BY NextIInv
  <1> QED BY <1>1, Inductive, PTL DEF Spec, StableIds, Keeps

-----------------------------------------------------------------------------
(***************************************************************************)
(* The extent pool.  Its inductive invariant is the conjunction of its     *)
(* type, Disjoint and NoLeak: an extent taken from the free slots meets no *)
(* held one because a slot is never both.                                  *)
(***************************************************************************)

\* The naturals are well founded: the premise Taken's lemma leaves open.
LEMMA LeastExists == Least
  <1> SUFFICES ASSUME NEW S \in SUBSET Nat, S # {}
               PROVE  \E o \in S : \A p \in S : o <= p
    BY DEF Least
  <1>1. IsWellFoundedOn(OpToRel(<, Nat), Nat)
    BY NatLessThanWellFounded, Zenon
  <1>2. PICK o \in S : \A p \in S : ~(<<p, o>> \in OpToRel(<, Nat))
    BY <1>1, WFMin, Zenon
  <1>3. ASSUME NEW p \in S, ~(o <= p) PROVE FALSE
    <2>1. p \in Nat /\ o \in Nat
      OBVIOUS
    <2>2. p < o
      BY <1>3, <2>1
    <2>3. <<p, o>> \in OpToRel(<, Nat)
      BY <2>1, <2>2 DEF OpToRel
    <2> QED BY <1>2, <2>3, Zenon
  <1> QED BY <1>3

PoolInv == PoolTypeOK /\ Disjoint /\ NoLeak

LEMMA TakeKeeps ==
  ASSUME PoolInv, NEW e, e = Extent(e.offset, e.size),
         e.offset \in Nat, e.size \in Nat \ {0}, e.offset + e.size <= Total,
         Slots(e) \subseteq pool,
         held' = held \cup {e}, pool' = pool \ Slots(e)
  PROVE  PoolInv'
  <1>1. \A f \in held : Slots(f) \cap Slots(e) = {}
    BY DEF PoolInv, NoLeak
  <1>2. PoolTypeOK'
    BY DEF PoolInv, PoolTypeOK
  <1>3. Disjoint'
    BY <1>1 DEF PoolInv, Disjoint
  <1>4. NoLeak'
    BY <1>1 DEF PoolInv, NoLeak
  <1> QED BY <1>2, <1>3, <1>4 DEF PoolInv

LEMMA PoolNextKeeps == PoolInv /\ [PoolNext]_<<pool, held>> => PoolInv'
  <1> SUFFICES ASSUME PoolInv, [PoolNext]_<<pool, held>> PROVE PoolInv'
    OBVIOUS
  <1> USE TotalAssumption, SizesAssumption
  <1>1. ASSUME NEW size \in Sizes, AllocExtent(size) PROVE PoolInv'
    <2> DEFINE e == Taken(pool, size)
    <2>1. size \in Nat \ {0} /\ CanTake(pool, size) /\ pool \in SUBSET WholeTable(Total)
      BY <1>1 DEF AllocExtent, PoolInv, PoolTypeOK
    <2>2. /\ e = Extent(e.offset, size) /\ e.offset \in Nat /\ e.size = size
          /\ Slots(e) \subseteq pool /\ e.offset + size <= Total
      BY <2>1, LeastExists, TakenFacts
    <2>3. held' = held \cup {e} /\ pool' = pool \ Slots(e)
      BY <1>1 DEF AllocExtent
    <2> HIDE DEF e
    <2> QED BY <2>1, <2>2, <2>3, TakeKeeps
  <1>2. ASSUME NEW size \in Sizes, AllocFails(size) PROVE PoolInv'
    BY <1>2 DEF AllocFails, PoolInv, PoolTypeOK, Disjoint, NoLeak
  <1>3. ASSUME NEW e \in held, FreeExtent(e) PROVE PoolInv'
    <2>1. PoolTypeOK'
      <3>1. e.offset \in Nat /\ e.size \in Nat /\ e.offset + e.size <= Total
        BY DEF PoolInv, PoolTypeOK
      <3>2. Slots(e) \subseteq WholeTable(Total)
        BY <3>1 DEF Slots, WholeTable
      <3> QED BY <1>3, <3>2 DEF PoolInv, PoolTypeOK, FreeExtent
    <2>2. Disjoint'
      BY <1>3 DEF PoolInv, Disjoint, FreeExtent
    <2>3. NoLeak'
      BY <1>3 DEF PoolInv, NoLeak, Disjoint, FreeExtent
    <2> QED BY <2>1, <2>2, <2>3 DEF PoolInv
  <1>4. ASSUME NEW offset \in 0 .. Total, NEW size \in 0 .. Total,
               ReserveExtent(Extent(offset, size))
        PROVE  PoolInv'
    <2> DEFINE e == Extent(offset, size)
    <2>1. e.offset = offset /\ e.size = size /\ size \in Nat \ {0} /\ offset \in Nat
      BY <1>4 DEF ReserveExtent, CanClaim, Extent
    <2>2. Slots(e) \subseteq pool /\ held' = held \cup {e} /\ pool' = pool \ Slots(e)
      BY <1>4 DEF ReserveExtent, CanClaim
    <2>3. offset + size - 1 \in Slots(e)
      BY <2>1 DEF Slots
    <2>4. e.offset + e.size <= Total
      BY <2>1, <2>2, <2>3 DEF PoolInv, PoolTypeOK, WholeTable
    <2> HIDE DEF e
    <2>5. e = Extent(e.offset, e.size)
      BY <2>1 DEF e
    <2> QED BY <2>1, <2>2, <2>4, <2>5, TakeKeeps
  <1>5. CASE UNCHANGED <<pool, held>>
    BY <1>5 DEF PoolInv, PoolTypeOK, Disjoint, NoLeak
  <1> QED BY <1>1, <1>2, <1>3, <1>4, <1>5 DEF PoolNext

LEMMA PoolInductive == PoolSpec => []PoolInv
  <1>1. PoolInit => PoolInv
    BY TotalAssumption DEF PoolInit, PoolInv, PoolTypeOK, Disjoint, NoLeak
  <1> QED BY <1>1, PoolNextKeeps, PTL DEF PoolSpec

\* Extents handed out never overlap, for every table size and every sequence
\* of Alloc, FreeExtent and reserve.
THEOREM ExtentsNeverOverlap == PoolSpec => []Disjoint
  <1>1. PoolInv => Disjoint
    BY DEF PoolInv
  <1> QED BY <1>1, PoolInductive, PTL

\* Every slot of the table is at all times either free or in exactly the
\* extents handed out.
THEOREM SpaceAccounted == PoolSpec => []NoLeak
  <1>1. PoolInv => NoLeak
    BY DEF PoolInv
  <1> QED BY <1>1, PoolInductive, PTL
=============================================================================
