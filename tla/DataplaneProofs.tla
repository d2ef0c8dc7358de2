-------------------------- MODULE DataplaneProofs ---------------------------
(***************************************************************************)
(* What holds of Dataplane in every reachable state, for any VIPs,         *)
(* backends, specs, table sizes and numbers of calls, failed writes and    *)
(* crashes.  Inv (in DataplaneFacts) is inductive: SyncProofs,             *)
(* EntryProofs, TableProofs and AdoptProofs have its steps, and its start  *)
(* is here.                                                                *)
(***************************************************************************)
EXTENDS Dataplane, SyncProofs, EntryProofs, TableProofs, AdoptProofs, FiniteSetTheorems, WellFoundedInduction

-----------------------------------------------------------------------------
(* The facts about numbers and finite sets that Inv carries along. *)

\* A set of numbers has a least one.
LEMMA LeastExists == Least
  <1> SUFFICES ASSUME NEW S \in SUBSET Nat, S # {}
               PROVE  \E o \in S : \A p \in S : o <= p
    BY DEF Least
  <1>1. IsWellFoundedOn(OpToRel(<, Nat), Nat)
    BY NatLessThanWellFounded, Zenon
  <1>2. PICK o \in S : \A p \in S : ~(<<p, o>> \in OpToRel(<, Nat))
    BY <1>1, WFMin, Zenon
  <1>3. ASSUME NEW p \in S, ~(o <= p) PROVE FALSE
    <2>1. p \in Nat /\ o \in Nat
      BY Zenon
    <2>2. p < o
      BY <1>3, <2>1
    <2>3. <<p, o>> \in OpToRel(<, Nat)
      BY <2>1, <2>2 DEF OpToRel
    <2> QED BY <1>2, <2>3, Zenon
  <1> QED BY <1>3

LEMMA Finite == \A S \in SUBSET Key : IsFiniteSet(S)
  <1>1. IsFiniteSet(Key)
    BY VipAssumption, FS_AddElement DEF Key
  <1> QED BY <1>1, FS_Subset, Zenon

LEMMA Listed == Enumerated
  <1> SUFFICES ASSUME NEW S \in SUBSET Key, NEW s \in Listings(S)
               PROVE  /\ Len(s) \in Nat /\ DOMAIN s = 1 .. Len(s)
                      /\ \A i \in 1 .. Len(s) : s[i] \in S
                      /\ \A i, j \in 1 .. Len(s) : i # j => s[i] # s[j]
                      /\ \A x \in S : \E i \in 1 .. Len(s) : s[i] = x
    BY Zenon DEF Enumerated
  <1> DEFINE n == Cardinality(S)
  <1>1. IsFiniteSet(S) /\ n \in Nat
    BY Finite, FS_CardinalityType, Zenon
  <1>2. s \in [1 .. n -> S] /\ \A i, j \in 1 .. n : i # j => s[i] # s[j]
    BY DEF Listings
  <1>3. Len(s) = n /\ DOMAIN s = 1 .. n
    BY <1>1, <1>2, SeqOf, Zenon
  <1>4. IsFiniteSet(1 .. n) /\ Cardinality(1 .. n) = n
    BY <1>1, FS_Interval
  <1>5. s \in Injection(1 .. n, S)
    BY <1>2, Zenon DEF Injection, IsInjective
  <1>6. s \in Surjection(1 .. n, S)
    BY <1>1, <1>4, <1>5, FS_Injection
  <1>7. \A x \in S : \E i \in 1 .. n : s[i] = x
    BY <1>6 DEF Surjection
  <1> QED BY <1>1, <1>2, <1>3, <1>7

LEMMA GroundsHold == Grounds
  <1>1. Cardinality({}) = 0
    BY FS_EmptySet
  <1>2. ASSUME NEW S \in SUBSET Key, NEW v \in Key \ S
        PROVE  Cardinality(S) \in Nat /\ Cardinality(S \cup {v}) = Cardinality(S) + 1
    BY Finite, FS_CardinalityType, FS_AddElement
  <1>3. \A S \in SUBSET Key : Cardinality(S) \in Nat
    BY Finite, FS_CardinalityType
  <1> QED BY <1>1, <1>2, <1>3, LeastExists, Listed DEF Grounds, Countable

-----------------------------------------------------------------------------
(* Every step. *)

LEMMA StepKeeps ==
  ASSUME Inv, Step
  PROVE  Inv'
  <1>1. ASSUME NEW b \in Backend, ReleaseGone(b) \/ SyncBackend(b) \/ SyncBackendFault(b)
        PROVE  Inv'
    BY <1>1, SyncKeeps, Zenon
  <1>2. ASSUME BeginUpsert \/ BeginRemove \/ DeleteVip \/ ZeroService
               \/ \E b \in Backend : DropBackend(b)
        PROVE  Inv'
    BY <1>2, EntryKeeps, Zenon
  <1>3. ASSUME BuildTableStep \/ WriteSlot \/ WriteSlotFault \/ WriteService \/ WriteVip
               \/ WriteFault \/ RefuseVip
        PROVE  Inv'
    BY <1>3, TableKeeps, Zenon
  <1>4. ASSUME BeginAdopt \/ RegisterAdopted \/ \E b \in Backend : ClaimBackend(b)
        PROVE  Inv'
    BY <1>4, AdoptKeeps, Zenon
  <1>5. CASE BootDone \/ Started
    BY <1>5, BootKeeps
  <1> QED BY <1>1, <1>2, <1>3, <1>4, <1>5 DEF Step

LEMMA NextKeeps == Inv /\ [Next]_vars => Inv'
  <1> SUFFICES ASSUME Inv, [Next]_vars PROVE Inv'
    BY Zenon
  <1>1. CASE UNCHANGED vars
    BY <1>1, StutterTypes, StutterBooks DEF Inv
  <1> QED BY <1>1, StepKeeps, CallKeeps, BootKeeps DEF Next, Quiet

LEMMA Invariant == Spec => []Inv
  BY GroundsHold, InitKeeps, NextKeeps, PTL DEF Spec

-----------------------------------------------------------------------------

\* The services, backends and their states, the two ID allocators, the queue of
\* work of whoever holds mu and its place in it, and the pinned maps always have
\* their types: every id the program writes to a map is within that map, every
\* extent within maglev_table, and every reference count is positive.
THEOREM TypeCorrect == Spec => []TypeOK
  <1>1. Inv => TypeOK
    BY DEF Inv, TypeInv
  <1> QED BY Invariant, <1>1, PTL

\* A packet for one VIP never finds another VIP's service: at every point of every
\* update, removal, reload, failed write, crash and adoption no two vip_map
\* entries share a service id, and an entry the dataplane knows leads to its own.
THEOREM ServiceIdsNeverShared == Spec => []ServiceIdsUnique
  <1>1. Inv => ServiceIdsUnique
    BY Zenon DEF Inv, Books, IdsInv, Owned, Distinct, Matched, ServiceIdsUnique, Holds, IdOf
  <1> QED BY Invariant, <1>1, PTL

\* Extents never overlap and no slot of maglev_table is ever lost: the free slots,
\* those of an extent being filled or adopted and those of the entries' extents
\* partition the table through failed rebuilds, given-up adoptions and restarts.
THEOREM TableNeverLost == Spec => []TablePartitioned
  <1>1. ASSUME Inv PROVE TablePartitioned
    <2>1. TableInv /\ pool \subseteq Slot
      BY <1>1 DEF Inv, Books, TypeInv, TypeOK
    <2> QED BY <2>1 DEF TableInv, TablePartitioned
  <1>2. Inv => TablePartitioned
    BY <1>1
  <1> QED BY Invariant, <1>2, PTL

\* A backend some VIP lists is alive under its id, in memory and in the maps,
\* whatever was done to other VIPs and whatever failed; and so long as no map write
\* has failed its reference count is the number of VIPs that list it, through
\* sharing, removal, failed updates and adoption.
THEOREM BackendsNeverLost == Spec => []BackendsKept
  <1>1. ASSUME Inv PROVE RefCountExact
    BY <1>1, Zenon DEF Inv, Books, BackInv, Counted, RefCountExact
  <1>2. ASSUME Inv PROVE ListedBackendsLive
    <2>1. \A v \in DOMAIN services : \A b \in Refs(v) : Refers(v, b, services[v].ids[b])
      BY Zenon DEF Refers
    <2> QED BY <1>2, <2>1 DEF Inv, Books, BackInv, Live, Alive, ListedBackendsLive, Holds, IdOf
  <1>3. Inv => BackendsKept
    BY <1>1, <1>2 DEF BackendsKept
  <1> QED BY Invariant, <1>3, PTL

=============================================================================
