---------------------------- MODULE TableProofs -----------------------------
(***************************************************************************)
(* upsertVIPLocked from the rebuild of its table on, and a restart, which  *)
(* starts over from what the maps hold, keep the invariants of             *)
(* DataplaneFacts.                                                         *)
(***************************************************************************)
EXTENDS DataplaneTable, DataplaneAdopt, DataplaneFacts

-----------------------------------------------------------------------------
(* rebuildMaglevLocked. *)

\* The same when it has left nothing.
LEMMA FailClean ==
  ASSUME TypeInv, todo # << >>, Fail, UNCHANGED <<memory, maps>>
  PROVE  TypeInv'
  <1>1. UNCHANGED <<services, sids, unclaimed, vipMap, svcMap, maglev, health,
                    pool, bids, states, backendMap>>
    BY DEF memory, maps
  <1>2. /\ pool' \subseteq Slot /\ WellFormed(bids') /\ bids' \in AllocType(Backend, MaxBackends)
        /\ IsPartialMap(states', BackendId, StateType) /\ IsPartialMap(backendMap', BackendId, InfoType)
    BY <1>1 DEF TypeInv, TypeOK, InfoType
  <1> QED BY <1>1, <1>2, FailStep, Zenon

LEMMA ClassForTyped ==
  ASSUME TypeInv, NEW n
  PROVE  ClassFor(n) \in Nat \ {0}
  <1> DEFINE want == IF n * PerBackend < MinWant THEN MinWant ELSE n * PerBackend
             fits == {i \in DOMAIN SizeClasses : SizeClasses[i] >= want}
             c == CHOOSE i \in fits : \A j \in fits : i <= j
  <1>1. /\ Len(SizeClasses) \in 1 .. Len(SizeClasses) /\ DOMAIN SizeClasses = 1 .. Len(SizeClasses)
        /\ \A i \in 1 .. Len(SizeClasses) : SizeClasses[i] \in Nat \ {0}
    BY SizeAssumption
  <1>2. ASSUME fits # {} PROVE c \in 1 .. Len(SizeClasses)
    <2>1. fits \in SUBSET Nat
      BY <1>1
    <2>2. \E i \in fits : \A j \in fits : i <= j
      BY <1>2, <2>1, Zenon DEF TypeInv, Grounds, Least
    <2>3. c \in fits
      BY <2>2, Zenon
    <2> QED BY <1>1, <2>3, Zenon
  <1>3. ClassFor(n) = IF fits = {} THEN SizeClasses[Len(SizeClasses)] ELSE SizeClasses[c]
    BY DEF ClassFor
  <1> HIDE DEF fits, c
  <1> QED BY <1>1, <1>2, <1>3, Zenon

LEMMA TargetTyped ==
  ASSUME TypeInv, NEW size \in Nat \ {0}, CanTake(pool, size)
  PROVE  /\ Taken(pool, size) \in ExtentType /\ Taken(pool, size).size = size
         /\ Slots(Taken(pool, size)) \subseteq pool
  <1> DEFINE t == Taken(pool, size)
  <1>0. Least
    BY Zenon DEF TypeInv, Grounds
  <1>1. pool \in SUBSET WholeTable(MaglevM) /\ MaglevM \in Nat
    BY SizeAssumption, Zenon DEF TypeInv, TypeOK, Slot, WholeTable
  <1>2. /\ t = Extent(t.offset, size) /\ t.offset \in Nat /\ t.size = size
        /\ t.offset + size <= MaglevM /\ Slots(t) \subseteq pool
    BY <1>0, <1>1, TakenFacts, SMTT(60)
  <1> HIDE DEF t
  <1>3. Extent(t.offset, size) \in ExtentType
    BY <1>1, <1>2 DEF Extent, ExtentType
  <1> QED BY <1>2, <1>3, Zenon DEF t

\* What the steps after the table leave in place.
LEMMA LateStages ==
  ASSUME TypeInv, todo # << >>, job.op \in Upserting, job.v \in DOMAIN services,
         UNCHANGED todo, DOMAIN services' = DOMAIN services, work'.pc \in {"service", "vip"}
  PROVE  Placed' /\ Covered' /\ InTable' /\ Claiming' /\ Weighing'
  <1>1. job' = job
    BY DEF job
  <1> QED BY <1>1, StillWeighing, Zenon DEF Placed, Covered, InTable, Claiming

LEMMA BuildTableTypes ==
  ASSUME TypeInv, BuildTableStep
  PROVE  TypeInv'
  <1>1. doing(Upserting, "sync") /\ work.left = {}
    BY Zenon DEF BuildTableStep
  <1>2. /\ todo # << >> /\ job.op \in Upserting /\ work.pc = "sync"
        /\ job.v \in DOMAIN services /\ entry = services[job.v]
        /\ entry \in EntryType
    BY <1>1, SyncFacts, Zenon
  <1>3. UNCHANGED <<services, states, sids, bids, unclaimed, vipMap, svcMap, maglev, backendMap, health>>
    BY Zenon DEF BuildTableStep, maps
  <1>4. work \in WorkType /\ work.slot = 0 /\ DOMAIN given \subseteq DOMAIN entry.ids
    BY <1>1, <1>2, Zenon DEF TypeInv, TypeOK, Covered
  <1> DEFINE size == ClassFor(Cardinality(DOMAIN entry.ids))
             grow == size > entry.ext.size
             target == IF grow THEN Taken(pool, size) ELSE entry.ext
  <1>5. CASE ~work.changed /\ ~weightsChanged
    <2>1. work' = [work EXCEPT !.pc = "service"] /\ UNCHANGED <<pool, todo, hist>>
      BY <1>5, Zenon DEF BuildTableStep, tally, marks
    <2>2. work' \in WorkType /\ work'.pc = "service"
      BY <1>4, <2>1, Zenon DEF WorkType
    <2>3. Placed' /\ Covered' /\ InTable' /\ Claiming' /\ Weighing'
      BY <1>2, <1>3, <2>1, <2>2, LateStages, Zenon
    <2>4. TypeOK'
      BY <1>3, <2>1, <2>2, Zenon DEF TypeInv, TypeOK
    <2> QED BY <1>3, <2>3, <2>4, Zenon DEF TypeInv
  <1>6. CASE /\ ~(~work.changed /\ ~weightsChanged)
             /\ (grow => CanTake(pool, size)) /\ Buildable(desired, target.size)
    <2> DEFINE table == BuildTable(desired, target.size)
               old == [i \in 0 .. target.size - 1 |-> maglev[target.offset + i]]
    <2>1. /\ pool' = IF grow THEN pool \ Slots(target) ELSE pool
          /\ work' = [work EXCEPT !.pc = "slots", !.target = target, !.table = table, !.old = old]
          /\ UNCHANGED <<todo, hist>>
      BY <1>6, Zenon DEF BuildTableStep, tally, marks
    <2>2. size \in Nat \ {0}
      BY ClassForTyped, Zenon
    <2>3. target \in ExtentType /\ target.size \in Nat \ {0}
      <3>1. entry.ext \in ExtentType
        BY <1>2, EntryFields, Zenon
      <3>2. entry.ext.size \in Nat
        BY <3>1, ExtentFields, Zenon
      <3>3. CASE grow
        <4>1. Taken(pool, size) \in ExtentType /\ Taken(pool, size).size = size
          BY <1>6, <2>2, <3>3, TargetTyped, Zenon
        <4> QED BY <2>2, <3>3, <4>1, Zenon
      <3>4. CASE ~grow
        <4> HIDE DEF size
        <4> QED BY <2>2, <3>1, <3>2, <3>4
      <3> QED BY <3>3, <3>4, Zenon
    <2> HIDE DEF size, grow, target
    <2>4. target.offset \in Nat /\ target.size \in 0 .. MaglevM /\ target.offset + target.size <= MaglevM
      BY <2>3, ExtentFields, Zenon
    <2>5. desired \in PartialMap(Backend, Weight) /\ DOMAIN desired = DOMAIN given
      BY <1>2, DesiredTyped, Zenon DEF SpecType
    <2>6. table \in [0 .. target.size - 1 -> DOMAIN desired]
      BY <1>6, <2>4, <2>5, BuildTableAssumption, Zenon
    <2>7. DOMAIN desired \subseteq Backend
      BY <2>5, PartialMapIff, Zenon DEF IsPartialMap
    <2>8. old \in [0 .. target.size - 1 -> BackendId]
      <3>1. \A i \in 0 .. target.size - 1 : target.offset + i \in Slot
        BY <2>4, SizeAssumption, SMTT(60) DEF Slot
      <3>2. maglev \in [Slot -> BackendId]
        BY Zenon DEF TypeInv, TypeOK
      <3> QED BY <3>1, <3>2, Zenon
    <2> HIDE DEF table, old
    <2>9. table \in TableType(Backend) /\ old \in TableType(BackendId)
      <3>1. table \in [0 .. target.size - 1 -> Backend]
        BY <2>6, <2>7, Zenon
      <3> QED BY <2>4, <2>8, <3>1, Zenon DEF TableType
    <2>10. /\ work' \in WorkType /\ work'.pc = "slots" /\ work'.target = target
           /\ work'.table = table /\ work'.slot = 0
      BY <1>4, <2>1, <2>3, <2>9, Zenon DEF WorkType
    <2>11. job' = job /\ entry' = entry
      BY <1>3, <2>1, Zenon DEF job, entry
    <2>12. InTable'
      <3>1. table \in [0 .. target.size - 1 -> DOMAIN entry.ids] /\ 0 < target.size
        BY <1>4, <2>3, <2>5, <2>6
      <3> QED BY <2>10, <2>11, <3>1, Zenon DEF InTable
    <2>13. Placed' /\ Covered' /\ Claiming'
      BY <1>2, <1>3, <2>1, <2>10, <2>11, Zenon DEF Placed, Covered, Claiming
    <2>14. Weighing'
      BY <1>3, <2>1, StillWeighing, Zenon
    <2>15. TypeOK'
      BY <1>3, <2>1, <2>10 DEF TypeInv, TypeOK
    <2> QED BY <1>3, <2>12, <2>13, <2>14, <2>15, Zenon DEF TypeInv
  <1>7. CASE /\ ~(~work.changed /\ ~weightsChanged)
             /\ ~((grow => CanTake(pool, size)) /\ Buildable(desired, target.size))
    <2>1. Fail /\ UNCHANGED pool
      BY <1>7, Zenon DEF BuildTableStep
    <2>2. UNCHANGED <<memory, maps>>
      BY <1>3, <2>1 DEF memory, maps
    <2> QED BY <1>2, <2>1, <2>2, FailClean, Zenon
  <1> QED BY <1>5, <1>6, <1>7, Zenon

\* An entry's extent changes and nothing else of it.
WithExt(v, ext) == [services EXCEPT ![v].ext = ext]

LEMMA SetExt ==
  ASSUME TypeInv, NEW v \in DOMAIN services, NEW ext, services' = WithExt(v, ext)
  PROVE  /\ ext \in ExtentType => IsPartialMap(services', Key, EntryType)
         /\ DOMAIN services' = DOMAIN services
         /\ services'[v].ext = ext
         /\ \A w \in DOMAIN services :
              /\ services'[w].sid = services[w].sid /\ services'[w].up = services[w].up
              /\ services'[w].ids = services[w].ids
              /\ w # v => services'[w].ext = services[w].ext
  <1> DEFINE e == [services[v] EXCEPT !.ext = ext]
  <1>1. IsPartialMap(services, Key, EntryType) /\ services[v] \in EntryType
    BY ServiceTyped, Zenon DEF TypeInv, TypeOK, Key
  <1>2. services' = [services EXCEPT ![v] = e]
    BY Zenon DEF WithExt
  <1>3. /\ e.ids = services[v].ids /\ e.ext = ext
        /\ e.sid = services[v].sid /\ e.up = services[v].up
    BY <1>1, Zenon DEF EntryType
  <1>4. ext \in ExtentType => e \in EntryType
    BY <1>1, EntryTyped, Zenon
  <1> HIDE DEF e
  <1>5. e \in EntryType => IsPartialMap(services', Key, EntryType)
    BY <1>1, <1>2, Zenon DEF IsPartialMap
  <1>6. /\ DOMAIN services' = DOMAIN services
        /\ \A w \in DOMAIN services : services'[w] = IF w = v THEN e ELSE services[w]
    BY <1>1, <1>2 DEF IsPartialMap
  <1> QED BY <1>3, <1>4, <1>5, <1>6, Zenon

LEMMA InRange ==
  ASSUME NEW m \in Nat, NEW offset \in Nat, NEW size \in Nat, NEW slot \in Nat,
         offset + size <= m, slot + 1 < size
  PROVE  slot + 1 \in 0 .. m
  OBVIOUS

LEMMA WriteSlotTypes ==
  ASSUME TypeInv, WriteSlot
  PROVE  TypeInv'
  <1>1. doing(Upserting, "slots")
    BY Zenon DEF WriteSlot
  <1>2. /\ todo # << >> /\ job.op \in Upserting /\ work.pc = "slots"
        /\ job.v \in DOMAIN services /\ entry = services[job.v] /\ entry \in EntryType
        /\ IsPartialMap(entry.ids, Backend, BackendId)
    BY <1>1, SyncFacts, Zenon
  <1>3. UNCHANGED <<states, sids, bids, unclaimed, todo, vipMap, svcMap, backendMap, health, hist>>
    BY Zenon DEF WriteSlot, tally, marks
  <1>4. /\ work \in WorkType
        /\ work.table \in [0 .. work.target.size - 1 -> DOMAIN entry.ids]
        /\ work.slot < work.target.size
    BY <1>2, Zenon DEF TypeInv, TypeOK, InTable
  <1>5. /\ work.target \in ExtentType /\ work.slot \in Nat
    BY <1>4 DEF WorkType
  <1>6. /\ work.target.offset \in Nat /\ work.target.size \in Nat
        /\ work.target.offset + work.target.size <= MaglevM
    BY <1>5, ExtentFields, Zenon
  <1>7. maglev' \in [Slot -> BackendId]
    <2>1. work.slot \in 0 .. work.target.size - 1
      BY <1>4, <1>5, <1>6
    <2>2. entry.ids[work.table[work.slot]] \in BackendId
      BY <1>2, <1>4, <2>1, Zenon DEF IsPartialMap
    <2> QED BY <2>2, Zenon DEF WriteSlot, TypeInv, TypeOK
  <1>8. job' = job
    BY <1>3, Zenon DEF job
  <1>9. CASE work.slot + 1 < work.target.size
    <2>1. work' = [work EXCEPT !.slot = @ + 1] /\ UNCHANGED <<services, pool>>
      BY <1>9, Zenon DEF WriteSlot
    <2>2. work.slot + 1 \in 0 .. MaglevM
      <3>1. MaglevM \in Nat
        BY SizeAssumption, Zenon
      <3> QED BY <1>5, <1>6, <1>9, <3>1, InRange, Zenon
    <2>3. /\ work' \in WorkType /\ work'.pc = "slots" /\ work'.slot = work.slot + 1
          /\ work'.target = work.target /\ work'.table = work.table
      BY <1>2, <1>4, <2>1, <2>2, Zenon DEF WorkType
    <2>4. entry' = entry
      BY <1>8, <2>1, Zenon DEF entry
    <2>5. Placed' /\ Covered' /\ Claiming' /\ InTable'
      BY <1>2, <1>3, <1>4, <1>8, <1>9, <2>1, <2>3, <2>4, Zenon DEF Placed, Covered, Claiming, InTable
    <2>6. Weighing'
      BY <1>3, <2>1, StillWeighing, Zenon
    <2>7. TypeOK'
      BY <1>3, <1>7, <2>1, <2>3, Zenon DEF TypeInv, TypeOK
    <2> QED BY <1>3, <2>5, <2>6, <2>7, Zenon DEF TypeInv
  <1>10. CASE ~(work.slot + 1 < work.target.size)
    <2>1. /\ work' = [work EXCEPT !.pc = "service"]
          /\ services' = WithExt(job.v, work.target)
          /\ pool' = IF work.target = entry.ext THEN pool ELSE pool \cup Slots(entry.ext)
      BY <1>10, Zenon DEF WriteSlot, WithExt
    <2>2. work' \in WorkType /\ work'.pc = "service"
      BY <1>4, <2>1, Zenon DEF WorkType
    <2>3. IsPartialMap(services', Key, EntryType) /\ DOMAIN services' = DOMAIN services
      BY <1>2, <1>5, <2>1, SetExt, Zenon
    <2>4. pool' \subseteq Slot
      <3>1. Slots(entry.ext) \subseteq Slot
        BY <1>2, EntryFields, ExtentFields, Zenon
      <3> QED BY <2>1, <3>1, Zenon DEF TypeInv, TypeOK
    <2>5. Placed' /\ Covered' /\ InTable' /\ Claiming' /\ Weighing'
      BY <1>2, <1>3, <2>2, <2>3, LateStages, Zenon
    <2>6. TypeOK'
      BY <1>3, <1>7, <2>2, <2>3, <2>4 DEF TypeInv, TypeOK, Key
    <2> QED BY <1>3, <2>5, <2>6, Zenon DEF TypeInv
  <1> QED BY <1>9, <1>10, Zenon

LEMMA WriteSlotFaultTypes ==
  ASSUME TypeInv, WriteSlotFault
  PROVE  TypeInv'
  <1>1. todo # << >> /\ Fail
    BY Zenon DEF WriteSlotFault, Fault, doing
  <1>2. UNCHANGED <<services, sids, unclaimed, vipMap, svcMap, maglev, health, bids, states, backendMap>>
    BY ZenonT(90) DEF WriteSlotFault, maps
  <1>3. pool' \subseteq Slot
    <2>1. work.target \in ExtentType
      BY Zenon DEF TypeInv, TypeOK, WorkType
    <2>2. Slots(work.target) \subseteq Slot
      BY <2>1, ExtentFields
    <2> QED BY <2>2, ZenonT(90) DEF WriteSlotFault, TypeInv, TypeOK
  <1>4. /\ WellFormed(bids') /\ bids' \in AllocType(Backend, MaxBackends)
        /\ IsPartialMap(states', BackendId, StateType) /\ IsPartialMap(backendMap', BackendId, InfoType)
    BY <1>2 DEF TypeInv, TypeOK, InfoType
  <1> QED BY <1>1, <1>2, <1>3, <1>4, FailStep, Zenon

\* A rebuild moves extents: service ids and references stay as they are.
LEMMA RebuildRest ==
  ASSUME TypeInv, Books, todo # << >>, job.op # "adopt", Adopted',
         UNCHANGED <<states, sids, bids, vipMap, backendMap, health>>, faults' \in {faults, faults + 1},
         work.pc \in {"sync", "slots"}, work'.pc \in {"idle", "slots", "service"},
         DOMAIN services' = DOMAIN services,
         \A v \in DOMAIN services :
           /\ services'[v].sid = services[v].sid /\ services'[v].up = services[v].up
           /\ services'[v].ids = services[v].ids,
         TableInv'
  PROVE  Books'
  <1>1. IdsInv'
    BY SameIds, Zenon DEF Books
  <1>2. \A v, b, id : Refers(v, b, id)' <=> Refers(v, b, id)
    BY RefersPlain
  <1>3. Dropping' /\ Claimed' /\ BackInv /\ UNCHANGED <<states, bids, backendMap, health>>
    BY Zenon DEF Dropping, Claimed, Books
  <1>4. BackInv'
    BY <1>2, <1>3, BackKept
  <1> QED BY <1>1, <1>4, Zenon DEF Books

LEMMA BuildTableBooks ==
  ASSUME TypeInv, Books, BuildTableStep
  PROVE  Books'
  <1>1. /\ doing(Upserting, "sync")
        /\ UNCHANGED <<services, states, sids, bids, vipMap, backendMap, health>>
    BY Zenon DEF BuildTableStep, maps
  <1>2. /\ todo # << >> /\ job.op # "adopt" /\ work.pc = "sync" /\ work \in WorkType
        /\ job.v \in DOMAIN services /\ entry = services[job.v] /\ entry \in EntryType
    BY <1>1, SyncFacts, Zenon DEF TypeInv, TypeOK
  <1> DEFINE size == ClassFor(Cardinality(DOMAIN entry.ids))
             grow == size > entry.ext.size
             target == IF grow THEN Taken(pool, size) ELSE entry.ext
  <1>3. CASE ~work.changed /\ ~weightsChanged
    <2>1. work' = [work EXCEPT !.pc = "service"] /\ UNCHANGED <<pool, todo, tally>>
      BY <1>3, Zenon DEF BuildTableStep
    <2>2. work'.pc = "service" /\ Adopted'
      BY <1>2, <2>1, Continued, Zenon DEF WorkType, Books
    <2>3. Unmoved
      BY <1>1, <2>1, Zenon DEF Unmoved, tally, marks
    <2> QED BY <1>2, <2>2, <2>3, UnmovedBooks, Zenon DEF Calm
  <1>4. CASE /\ ~(~work.changed /\ ~weightsChanged)
             /\ (grow => CanTake(pool, size)) /\ Buildable(desired, target.size)
    <2>1. PICK table, old :
            /\ pool' = IF grow THEN pool \ Slots(target) ELSE pool
            /\ work' = [work EXCEPT !.pc = "slots", !.target = target, !.table = table, !.old = old]
            /\ UNCHANGED <<todo, tally>>
      BY <1>4, Zenon DEF BuildTableStep
    <2>2. work'.pc = "slots" /\ work'.target = target /\ UNCHANGED faults /\ job' = job
      BY <1>2, <2>1, Zenon DEF WorkType, tally, marks, job
    <2>3. size \in Nat \ {0} /\ entry.ext \in ExtentType
      BY <1>2, ClassForTyped, EntryFields, Zenon
    <2>4. Adopted'
      BY <1>2, <2>1, Continued, Zenon DEF Books
    <2>5. TableInv /\ Pending = {}
      BY <1>2, Unpending, Zenon DEF Books
    <2>6. TableInv'
      <3> HIDE DEF size
      <3>1. CASE grow
        <4>1. target = Taken(pool, size) /\ target.size = size /\ Slots(target) \subseteq pool
          BY <1>4, <2>3, <3>1, TargetTyped, Zenon
        <4>2. target # entry.ext /\ pool' = pool \ Slots(target) /\ pool \subseteq Slot
          BY <2>1, <2>3, <3>1, <4>1, ExtentFields DEF TypeInv, TypeOK
        <4> HIDE DEF target, grow
        <4>3. Pending' = Slots(target)
          BY <1>1, <1>2, <2>2, <4>2, Zenon DEF Pending
        <4> QED BY <1>1, <2>5, <4>1, <4>2, <4>3, Zenon DEF TableInv
      <3>2. CASE ~grow
        <4>1. Pending' = {} /\ pool' = pool
          BY <1>1, <1>2, <2>1, <2>2, <3>2, Zenon DEF Pending
        <4> QED BY <1>1, <2>5, <4>1, TableKept, Zenon
      <3> QED BY <3>1, <3>2, Zenon
    <2> QED BY <1>1, <1>2, <2>2, <2>4, <2>6, RebuildRest, Zenon
  <1>5. CASE /\ ~(~work.changed /\ ~weightsChanged)
             /\ ~((grow => CanTake(pool, size)) /\ Buildable(desired, target.size))
    <2>1. Fail /\ UNCHANGED <<pool, faults>>
      BY <1>5, Zenon DEF BuildTableStep
    <2>2. Unmoved
      BY <1>1, <2>1 DEF Unmoved
    <2> QED BY <1>2, <2>1, <2>2, EndedBooks, Zenon DEF Calm
  <1> QED BY <1>3, <1>4, <1>5, Zenon

\* The last slot: what was pending is the entry's, what was the entry's is free.
\* The entry's extent is exchanged for the one an operation has filled.
LEMMA Exchanged ==
  ASSUME TableInv, NEW u \in DOMAIN services, NEW new, Pending = Slots(new), Pending' = {},
         pool' = pool \cup Slots(services[u].ext), DOMAIN services' = DOMAIN services, services'[u].ext = new,
         \A w \in DOMAIN services : w # u => services'[w].ext = services[w].ext
  PROVE  TableInv'
  <1> QED BY Zenon DEF TableInv

LEMMA WriteSlotBooks ==
  ASSUME TypeInv, Books, WriteSlot
  PROVE  Books'
  <1>1. /\ doing(Upserting, "slots") /\ UNCHANGED <<todo, faults>>
        /\ UNCHANGED <<states, sids, bids, vipMap, backendMap, health>>
    BY Zenon DEF WriteSlot, tally, marks
  <1>2. /\ todo # << >> /\ job.op # "adopt" /\ work.pc = "slots" /\ work \in WorkType
        /\ job.v \in DOMAIN services /\ entry = services[job.v] /\ job' = job
    BY <1>1, SyncFacts, Zenon DEF TypeInv, TypeOK, job
  <1>3. Adopted' /\ TableInv
    BY <1>1, <1>2, Continued, Zenon DEF Books
  <1>4. CASE work.slot + 1 < work.target.size
    <2>1. work' = [work EXCEPT !.slot = @ + 1] /\ UNCHANGED <<services, pool>>
      BY <1>4, Zenon DEF WriteSlot
    <2>2. work'.pc = work.pc /\ work'.target = work.target
      BY <1>2, <2>1, Zenon DEF WorkType
    <2>3. Pending' = Pending
      BY <1>2, <2>1, <2>2 DEF Pending
    <2>4. TableInv'
      BY <1>3, <2>1, <2>3, TableKept, Zenon
    <2> QED BY <1>1, <1>2, <1>3, <2>1, <2>2, <2>4, RebuildRest, Zenon
  <1>5. CASE ~(work.slot + 1 < work.target.size)
    <2>1. /\ work' = [work EXCEPT !.pc = "service"]
          /\ services' = WithExt(job.v, work.target)
          /\ pool' = IF work.target = entry.ext THEN pool ELSE pool \cup Slots(entry.ext)
      BY <1>5, Zenon DEF WriteSlot, WithExt
    <2>2. work'.pc = "service"
      BY <1>2, <2>1, Zenon DEF WorkType
    <2>3. /\ DOMAIN services' = DOMAIN services /\ services'[job.v].ext = work.target
          /\ \A w \in DOMAIN services :
               /\ services'[w].sid = services[w].sid /\ services'[w].up = services[w].up
               /\ services'[w].ids = services[w].ids
               /\ w # job.v => services'[w].ext = services[w].ext
      BY <1>2, <2>1, SetExt, Zenon
    <2>4. Pending' = {}
      BY <2>2, Unpending, Zenon
    <2>5. TableInv'
      <3>1. CASE work.target = entry.ext
        <4>1. Pending = {}
          BY <1>2, <3>1, Zenon DEF Pending
        <4> QED BY <1>2, <1>3, <2>1, <2>3, <2>4, <3>1, <4>1, TableKept, Zenon
      <3>2. CASE work.target # entry.ext
        <4>1. Pending = Slots(work.target) /\ pool' = pool \cup Slots(entry.ext)
          BY <1>2, <2>1, <3>2, Zenon DEF Pending
        <4> QED BY <1>2, <1>3, <2>3, <2>4, <4>1, Exchanged, Zenon
      <3> QED BY <3>1, <3>2, Zenon
    <2> QED BY <1>1, <1>2, <1>3, <2>2, <2>3, <2>5, RebuildRest, Zenon
  <1> QED BY <1>4, <1>5, Zenon

LEMMA WriteSlotFaultBooks ==
  ASSUME TypeInv, Books, WriteSlotFault
  PROVE  Books'
  <1>1. /\ doing(Upserting, "slots") /\ Fail /\ faults' = faults + 1
        /\ UNCHANGED <<services, states, sids, bids, vipMap, backendMap, health>>
        /\ pool' = IF work.target = entry.ext THEN pool ELSE pool \cup Slots(work.target)
    BY Zenon DEF WriteSlotFault, Fault, maps
  <1>2. /\ todo # << >> /\ job.op # "adopt" /\ work.pc = "slots"
        /\ job.v \in DOMAIN services /\ entry = services[job.v]
    BY <1>1, SyncFacts, Zenon
  <1>3. Adopted' /\ work'.pc = "idle"
    BY <1>1, <1>2, Ended, Zenon DEF Books
  <1>4. Pending' = {} /\ pool' = pool \cup Pending
    BY <1>1, <1>2, <1>3, Zenon DEF Pending
  <1>5. TableInv'
    BY <1>1, <1>4 DEF Books, TableInv
  <1> QED BY <1>1, <1>2, <1>3, <1>5, RebuildRest, Zenon

-----------------------------------------------------------------------------
(* The service and the VIP are published. *)

LEMMA WriteServiceTypes ==
  ASSUME TypeInv, WriteService
  PROVE  TypeInv'
  <1>1. doing(Upserting, "service")
    BY Zenon DEF WriteService
  <1>2. /\ todo # << >> /\ job.op \in Upserting /\ job.v \in DOMAIN services /\ entry \in EntryType
    BY <1>1, SyncFacts, Zenon
  <1>3. /\ UNCHANGED <<services, states, sids, bids, pool, unclaimed, todo,
                       vipMap, maglev, backendMap, health, hist>>
    BY Zenon DEF WriteService, memory, tally, marks
  <1>4. work' \in WorkType /\ work'.pc = "vip"
    <2>1. work \in WorkType /\ work' = [work EXCEPT !.pc = "vip"]
      BY DEF WriteService, TypeInv, TypeOK
    <2> QED BY <2>1, Zenon DEF WorkType
  <1>5. svcMap' \in [ServiceId -> ExtentType]
    <2>1. entry.ext \in ExtentType
      BY <1>2, EntryFields, Zenon
    <2> QED BY <2>1, ZenonT(90) DEF WriteService, TypeInv, TypeOK
  <1>6. Placed' /\ Covered' /\ InTable' /\ Claiming' /\ Weighing'
    BY <1>2, <1>3, <1>4, LateStages, Zenon
  <1>7. TypeOK'
    BY <1>3, <1>4, <1>5 DEF TypeInv, TypeOK
  <1> QED BY <1>3, <1>6, <1>7, Zenon DEF TypeInv

LEMMA WriteVipTypes ==
  ASSUME TypeInv, WriteVip
  PROVE  TypeInv'
  <1>1. doing(Upserting, "vip") /\ job.v # Zero
    BY Zenon DEF WriteVip
  <1>2. /\ todo # << >> /\ job.op \in Upserting /\ job.v \in DOMAIN services
        /\ entry = services[job.v] /\ entry \in EntryType /\ job.v \in Key
    BY <1>1, SyncFacts, Zenon
  <1>3. UNCHANGED <<states, sids, bids, pool, svcMap, maglev, backendMap, health>>
    BY Zenon DEF WriteVip
  <1> DEFINE e == [entry EXCEPT !.spec = given, !.vip = desired, !.up = TRUE]
  <1>4. services' = [services EXCEPT ![job.v] = e]
    BY <1>2, Zenon DEF WriteVip
  <1>5. e \in EntryType
    <2>1. given \in SpecType /\ desired \in SpecType
      BY <1>2, GivenTyped, DesiredTyped, Zenon
    <2> QED BY <1>2, <2>1, EntryTyped, ZenonT(90)
  <1> HIDE DEF e
  <1>6. IsPartialMap(services', Key, EntryType) /\ DOMAIN services' = DOMAIN services
    BY <1>4, <1>5, Zenon DEF TypeInv, TypeOK, IsPartialMap, Key
  <1>7. IsPartialMap(vipMap', Vip, ServiceId)
    <2>1. job.v \in Vip /\ entry.sid \in ServiceId
      BY <1>1, <1>2, EntryFields, Zenon DEF Key
    <2>2. IsPartialMap(vipMap, Vip, ServiceId) /\ vipMap' = Give(vipMap, job.v, entry.sid)
      BY Zenon DEF WriteVip, TypeInv, TypeOK
    <2> QED BY <2>1, <2>2, GiveMap, Zenon
  <1>8. unclaimed' \subseteq Key /\ hist' \in HistType
    BY Zenon DEF WriteVip, TypeInv, TypeOK, Key, HistType
  <1>9. /\ todo' \in Seq(JobType) /\ work' \in WorkType
        /\ Placed' /\ Covered' /\ InTable' /\ Claiming' /\ Weighing'
    BY <1>2, <1>6, Finished, ZenonT(90) DEF WriteVip
  <1>10. TypeOK'
    BY <1>3, <1>6, <1>7, <1>8, <1>9 DEF TypeInv, TypeOK, HistType, Key
  <1> QED BY <1>3, <1>9, <1>10, Zenon DEF TypeInv

LEMMA WriteFaultTypes ==
  ASSUME TypeInv, WriteFault \/ RefuseVip
  PROVE  TypeInv'
  <1>1. todo # << >> /\ Fail /\ UNCHANGED <<memory, maps>>
    BY DEF WriteFault, RefuseVip, Fault, doing
  <1> QED BY <1>1, FailClean, Zenon

LEMMA PublishBooks ==
  ASSUME TypeInv, Books, WriteService \/ WriteFault \/ RefuseVip
  PROVE  Books'
  <1>1. PICK pc \in {"service", "vip"} : doing(Upserting, pc)
    BY Zenon DEF WriteService, WriteFault, RefuseVip
  <1>2. todo # << >> /\ job.op # "adopt" /\ work.pc \in Calm /\ work \in WorkType
    BY <1>1, SyncFacts, Zenon DEF TypeInv, TypeOK, Calm
  <1>3. UNCHANGED <<services, sids, bids, states, pool, vipMap, backendMap, health>>
    BY Zenon DEF WriteService, WriteFault, RefuseVip, memory, maps
  <1>4. CASE WriteService
    <2>1. UNCHANGED <<todo, faults>> /\ work' = [work EXCEPT !.pc = "vip"]
      BY <1>4, Zenon DEF WriteService, tally, marks
    <2>2. work'.pc \in Calm /\ Adopted'
      BY <1>2, <2>1, Continued, Zenon DEF WorkType, Calm, Books
    <2>3. Unmoved
      BY <1>3, <2>1, Zenon DEF Unmoved
    <2> QED BY <1>2, <2>2, <2>3, UnmovedBooks, Zenon
  <1>5. CASE WriteFault \/ RefuseVip
    <2>1. Fail /\ faults' \in {faults, faults + 1}
      BY <1>5, Zenon DEF WriteFault, RefuseVip, Fault
    <2>2. Unmoved
      BY <1>3, <2>1 DEF Unmoved
    <2> QED BY <1>2, <2>1, <2>2, EndedBooks, Zenon
  <1> QED BY <1>4, <1>5, Zenon

\* Every other VIP in vip_map has an entry, hence a service id of its own.
LEMMA WriteVipBooks ==
  ASSUME TypeInv, Books, WriteVip
  PROVE  Books'
  <1>1. doing(Upserting, "vip") /\ UNCHANGED <<states, sids, bids, pool, backendMap, health, faults>>
    BY Zenon DEF WriteVip
  <1>2. /\ todo # << >> /\ job.op # "adopt" /\ work.pc = "vip" /\ job.v \in DOMAIN services
        /\ entry = services[job.v] /\ entry \in EntryType /\ IdsInv /\ TableInv /\ BackInv
    BY <1>1, SyncFacts, Zenon DEF Upserting, Books
  <1>3. Adopted /\ DOMAIN vipMap \subseteq DOMAIN services
    BY <1>2, OnceAdopted, Zenon
  <1>4. Adopted' /\ work'.pc = "idle"
    BY <1>2, Ended, Zenon DEF WriteVip
  <1> DEFINE e == [entry EXCEPT !.spec = given, !.vip = desired, !.up = TRUE]
  <1>5. services' = [services EXCEPT ![job.v] = e]
    BY <1>2, Zenon DEF WriteVip
  <1>6. e.sid = entry.sid /\ e.up /\ e.ids = entry.ids /\ e.ext = entry.ext
    BY <1>2, Zenon DEF EntryType
  <1> HIDE DEF e
  <1>7. /\ DOMAIN services' = DOMAIN services /\ services'[job.v] = e
        /\ \A w \in DOMAIN services : w # job.v => services'[w] = services[w]
    BY <1>2, <1>5, Zenon DEF TypeInv, TypeOK, IsPartialMap
  <1>8. /\ DOMAIN vipMap' = DOMAIN vipMap \cup {job.v} /\ vipMap'[job.v] = entry.sid
        /\ \A w \in DOMAIN vipMap : w # job.v => vipMap'[w] = vipMap[w]
    BY Zenon DEF WriteVip, Give
  <1>9. Owned'
    BY <1>1, <1>2, <1>6, <1>7, ZenonT(60) DEF IdsInv, Owned
  <1>10. ASSUME NEW w \in DOMAIN vipMap, w # job.v PROVE vipMap[w] # entry.sid
    <2>1. w \in DOMAIN services /\ vipMap[w] = services[w].sid
      BY <1>2, <1>3, Zenon DEF IdsInv, Matched
    <2>2. /\ w \in DOMAIN sids.ids /\ vipMap[w] = sids.ids[w]
          /\ job.v \in DOMAIN sids.ids /\ entry.sid = sids.ids[job.v]
      BY <1>2, <2>1, Zenon DEF IdsInv, Owned
    <2>3. Injective(sids.ids)
      BY Zenon DEF TypeInv, WellFormed
    <2> QED BY <1>10, <2>2, <2>3, Zenon DEF Injective
  <1>11. Distinct'
    BY <1>2, <1>8, <1>10 DEF IdsInv, Distinct
  <1>12. Matched'
    BY <1>2, <1>6, <1>7, <1>8, ZenonT(60) DEF IdsInv, Matched
  <1>13. Known' /\ Adopting' /\ Midway'
    BY <1>2, <1>3, <1>4, <1>7, <1>8, Zenon DEF Adopted, Known, Adopting, Midway
  <1>14. \A w \in DOMAIN services : services'[w].ids = services[w].ids /\ services'[w].ext = services[w].ext
    BY <1>2, <1>6, <1>7, Zenon
  <1>15. TableInv'
    BY <1>1, <1>2, <1>4, <1>7, <1>14, TableKept, Unpending, Zenon
  <1>16. \A v, b, id : Refers(v, b, id)' <=> Refers(v, b, id)
    BY <1>2, <1>4, <1>7, <1>14, RefersPlain
  <1>17. BackInv'
    <2>1. UNCHANGED <<states, bids, backendMap, health>> /\ Dropping' /\ Claimed'
      BY <1>1, <1>4 DEF Dropping, Claimed
    <2> QED BY <1>1, <1>2, <1>16, <2>1, BackKept, Zenon
  <1> QED BY <1>9, <1>11, <1>12, <1>13, <1>15, <1>17, Zenon DEF Books, IdsInv

-----------------------------------------------------------------------------
(* A restart. *)

LEMMA Joined ==
  ASSUME NEW S, NEW s \in Seq(S), NEW t \in Seq(S)
  PROVE  /\ s \o t \in Seq(S) /\ Len(s \o t) = Len(s) + Len(t)
         /\ \A i \in 1 .. Len(s) : (s \o t)[i] = s[i]
         /\ \A i \in Len(s) + 1 .. Len(s) + Len(t) : (s \o t)[i] = t[i - Len(s)]
  OBVIOUS

LEMMA RestartTypes ==
  ASSUME TypeInv, Restart
  PROVE  TypeInv'
  <1>1. PICK order \in Listings(DOMAIN vipMap), config \in IF Kubernetes THEN {Empty} ELSE Configs :
          todo' = [i \in DOMAIN order |-> Adopt(order[i], vipMap[order[i]])] \o <<Boot(config)>>
    BY Zenon DEF Restart
  <1> DEFINE a == [i \in DOMAIN order |-> Adopt(order[i], vipMap[order[i]])]
  <1>2. DOMAIN vipMap \subseteq Vip /\ DOMAIN vipMap \in SUBSET Key
        /\ \A v \in DOMAIN vipMap : vipMap[v] \in ServiceId
    BY Zenon DEF TypeInv, TypeOK, IsPartialMap, Key
  <1>3. /\ Len(order) \in Nat /\ DOMAIN order = 1 .. Len(order)
        /\ \A i \in 1 .. Len(order) : order[i] \in DOMAIN vipMap
    BY <1>2, ListingFacts, Zenon
  <1>4. a \in [1 .. Len(order) -> BootJobs]
    BY <1>2, <1>3, PlainOnes, Zenon
  <1>5. a \in Seq(BootJobs)
    BY <1>3, <1>4, SeqOf, Zenon
  <1>6. <<Boot(config)>> \in Seq(BootJobs)
    <2>1. config \in Configs \cup {Empty}
      BY Zenon
    <2>2. Boot(config) \in BootJobs
      BY <2>1, PlainOnes, Zenon
    <2> QED BY <2>2
  <1>7. todo' \in Seq(BootJobs)
    <2> DEFINE boot == <<Boot(config)>>
    <2>1. todo' = a \o boot /\ boot \in Seq(BootJobs)
      BY <1>1, <1>6, Zenon
    <2> HIDE DEF a, boot
    <2> QED BY <1>5, <2>1
  <1>8. todo' \in Seq(JobType) /\ Weighing'
    BY <1>7, PlainQueue, Zenon
  <1>9. work' \in WorkType /\ Placed' /\ Covered' /\ InTable' /\ Claiming'
    BY IdleTyped, IdleStages, Zenon DEF Restart
  <1>10. /\ WellFormed(sids') /\ sids' \in AllocType(Key, MaxVIPs)
         /\ WellFormed(bids') /\ bids' \in AllocType(Backend, MaxBackends)
    BY NewIdsTyped, SizeAssumption, Zenon DEF Restart
  <1>11. /\ IsPartialMap(services', Key, EntryType) /\ IsPartialMap(states', BackendId, StateType)
    BY EmptyMap, Zenon DEF Restart
  <1>12. pool' \subseteq Slot /\ unclaimed' \subseteq Key /\ hist' \in HistType
    BY Zenon DEF Restart, WholeTable, Slot, HistType, Key
  <1>13. UNCHANGED <<vipMap, svcMap, maglev, backendMap, health>>
    BY DEF Restart, maps
  <1>14. TypeOK'
    BY <1>8, <1>9, <1>10, <1>11, <1>12, <1>13 DEF TypeInv, TypeOK, HistType, Key
  <1> QED BY <1>8, <1>9, <1>10, <1>14, Zenon DEF TypeInv

LEMMA RestartBooks ==
  ASSUME TypeInv, Books, Restart
  PROVE  Books'
  <1>1. PICK order \in Listings(DOMAIN vipMap), config \in IF Kubernetes THEN {Empty} ELSE Configs :
          todo' = [i \in DOMAIN order |-> Adopt(order[i], vipMap[order[i]])] \o <<Boot(config)>>
    BY Zenon DEF Restart
  <1> DEFINE a == [i \in DOMAIN order |-> Adopt(order[i], vipMap[order[i]])]
             n == Len(order)
  <1>2. DOMAIN vipMap \subseteq Vip /\ DOMAIN vipMap \in SUBSET Key
        /\ \A v \in DOMAIN vipMap : vipMap[v] \in ServiceId
    BY Zenon DEF TypeInv, TypeOK, IsPartialMap, Key
  <1>3. /\ n \in Nat /\ DOMAIN order = 1 .. n
        /\ \A i \in 1 .. n : order[i] \in DOMAIN vipMap
        /\ \A i, j \in 1 .. n : i # j => order[i] # order[j]
        /\ \A v \in DOMAIN vipMap : \E i \in 1 .. n : order[i] = v
    BY <1>2, ListingFacts, Zenon
  <1>4. a \in [1 .. n -> BootJobs]
    BY <1>2, <1>3, PlainOnes, Zenon
  <1>5. /\ a \in Seq(BootJobs) /\ Len(a) = n
        /\ \A i \in 1 .. n : /\ a[i].op = "adopt" /\ a[i].v = order[i]
                             /\ a[i].sid = vipMap[order[i]]
    <2>1. a \in Seq(BootJobs) /\ Len(a) = n
      BY <1>3, <1>4, SeqOf, Zenon
    <2>2. \A i \in 1 .. n : a[i] = Adopt(order[i], vipMap[order[i]])
      BY <1>3, Zenon
    <2>3. \A v, sid : Adopt(v, sid).op = "adopt" /\ Adopt(v, sid).v = v /\ Adopt(v, sid).sid = sid
      BY Zenon DEF Adopt
    <2> HIDE DEF a
    <2> QED BY <2>1, <2>2, <2>3
  <1>6. /\ Len(todo') = n + 1 /\ todo'[n + 1].op = "boot"
        /\ \A i \in 1 .. n : todo'[i] = a[i]
    <2> DEFINE boot == <<Boot(config)>>
    <2>1. Boot(config) \in BootJobs /\ Boot(config).op = "boot"
      <3>1. config \in Configs \cup {Empty}
        BY Zenon
      <3> QED BY <3>1, PlainOnes, Zenon DEF Boot
    <2>2. boot \in Seq(BootJobs) /\ Len(boot) = 1 /\ boot[1].op = "boot"
      BY <2>1
    <2>3. todo' = a \o boot
      BY <1>1, Zenon
    <2> HIDE DEF a, boot
    <2>4. /\ Len(todo') = Len(a) + Len(boot)
          /\ \A i \in 1 .. Len(a) : todo'[i] = a[i]
          /\ \A i \in Len(a) + 1 .. Len(a) + Len(boot) : todo'[i] = boot[i - Len(a)]
      <3>1. a \in Seq(BootJobs) /\ boot \in Seq(BootJobs)
        BY <1>5, <2>2, Zenon
      <3>2. /\ Len(a \o boot) = Len(a) + Len(boot)
            /\ \A i \in 1 .. Len(a) : (a \o boot)[i] = a[i]
            /\ \A i \in Len(a) + 1 .. Len(a) + Len(boot) : (a \o boot)[i] = boot[i - Len(a)]
        BY <3>1, Joined
      <3> QED BY <2>3, <3>2, Zenon
    <2>5. n + 1 \in Len(a) + 1 .. Len(a) + Len(boot) /\ (n + 1) - Len(a) = 1
      BY <1>3, <1>5, <2>2
    <2>6. todo'[n + 1] = boot[1]
      BY <2>4, <2>5, Zenon
    <2> QED BY <1>5, <2>2, <2>4, <2>6, Zenon
  <1>7. /\ UNCHANGED <<vipMap, faults>> /\ DOMAIN services' = {} /\ DOMAIN states' = {}
        /\ work'.pc = "idle" /\ pool' = Slot
    BY Zenon DEF Restart, maps, Empty, Idle, WholeTable, Slot
  <1> HIDE DEF a, n
  <1>8. \A i \in 1 .. n : /\ todo'[i].op = "adopt" /\ todo'[i].v = order[i]
                          /\ todo'[i].sid = vipMap[order[i]]
    BY <1>5, <1>6
  <1>9. Owned' /\ Matched' /\ Midway'
    BY <1>7, Zenon DEF Owned, Matched, Midway
  <1>10. Distinct'
    BY <1>7, Zenon DEF Books, IdsInv, Distinct
  <1>11. Known'
    <2> SUFFICES ASSUME NEW v \in DOMAIN vipMap
                 PROVE  \E i \in 1 .. Len(todo') : todo'[i].op = "adopt" /\ todo'[i].v = v
      BY <1>7, Zenon DEF Known
    <2>1. PICK i \in 1 .. n : order[i] = v
      BY <1>3, Zenon
    <2>2. i \in 1 .. Len(todo')
      BY <1>3, <1>6
    <2> QED BY <1>8, <2>1, <2>2, Zenon
  <1>12. Adopting'
    <2> SUFFICES ASSUME NEW i \in 1 .. Len(todo'), todo'[i].op = "adopt"
                 PROVE  /\ todo'[i].v \in DOMAIN vipMap
                        /\ todo'[i].sid = vipMap[todo'[i].v]
                        /\ \A j \in 1 .. i - 1 : todo'[j].op = "adopt" /\ todo'[j].v # todo'[i].v
      BY <1>7, Zenon DEF Adopting
    <2>1. i \in 1 .. n
      BY <1>3, <1>6
    <2>2. \A j \in 1 .. i - 1 : j \in 1 .. n /\ j # i
      BY <1>3, <2>1
    <2> QED BY <1>3, <1>8, <2>1, <2>2
  <1>13. TableInv'
    <2>1. Pending' = {}
      BY <1>7, Unpending, Zenon
    <2> QED BY <1>7, <2>1, Zenon DEF TableInv
  <1>14. BackInv'
    BY <1>7 DEF Books, BackInv, Live, Named, Counted, Dropping, Claimed, Refers
  <1> QED BY <1>9, <1>10, <1>11, <1>12, <1>13, <1>14, Zenon DEF Books, IdsInv

-----------------------------------------------------------------------------
(* The rest of the start. *)

LEMMA BootDoneTypes ==
  ASSUME TypeInv, BootDone
  PROVE  TypeInv'
  <1>1. todo # << >> /\ job.op = "boot" /\ work.pc = "idle"
    BY Zenon DEF BootDone, doing
  <1>2. UNCHANGED <<services, states, sids, bids, pool, work,
                    vipMap, svcMap, maglev, backendMap, health, hist>>
    BY Zenon DEF BootDone, maps
  <1>3. todo' \in Seq(PlainJobs) /\ unclaimed' \subseteq Key
    <2>1. CASE job.config = Empty
      <3>1. << >> \in Seq(PlainJobs)
        OBVIOUS
      <3> QED BY <2>1, <3>1, Zenon DEF BootDone, TypeInv, TypeOK, IsPartialMap, Key
    <2>2. CASE job.config # Empty
      <3>1. job.config \in PartialMap(Vip, Specs)
        BY <1>1, <2>2, JobFacts, JobFields, WeightAssumption, Zenon DEF TypeInv
      <3>2. Reload(job.config, <<Ready>>) /\ UNCHANGED unclaimed
        BY <2>2, Zenon DEF BootDone
      <3> QED BY <3>1, <3>2, ReloadJobs, Zenon DEF TypeInv, TypeOK, Key
    <2> QED BY <2>1, <2>2, Zenon
  <1>4. todo' \in Seq(JobType) /\ Weighing'
    BY <1>3, PlainQueue, Zenon
  <1>5. Placed' /\ Covered' /\ InTable' /\ Claiming'
    BY <1>1, <1>2, IdleStages, Zenon
  <1>6. TypeOK'
    BY <1>2, <1>3, <1>4 DEF TypeInv, TypeOK, Key
  <1> QED BY <1>2, <1>4, <1>5, <1>6, Zenon DEF TypeInv

LEMMA StartedTypes ==
  ASSUME TypeInv, Started
  PROVE  TypeInv'
  <1>1. todo # << >> /\ job.op = "ready"
    BY Zenon DEF Started, doing
  <1>2. CASE confOK
    <2>1. UNCHANGED <<services, states, sids, bids, pool, unclaimed,
                      vipMap, svcMap, maglev, backendMap, health, hist>>
      BY <1>2, Zenon DEF Started, memory, maps, tally, marks
    <2>2. /\ todo' \in Seq(JobType) /\ work' \in WorkType
          /\ Placed' /\ Covered' /\ InTable' /\ Claiming' /\ Weighing'
      BY <1>1, <1>2, <2>1, Finished, Zenon DEF Started
    <2>3. TypeOK'
      BY <2>1, <2>2, Zenon DEF TypeInv, TypeOK
    <2> QED BY <2>1, <2>2, <2>3, Zenon DEF TypeInv
  <1>3. CASE ~confOK
    BY <1>3, RestartTypes DEF Started
  <1> QED BY <1>2, <1>3, Zenon

LEMMA BootBooks ==
  ASSUME TypeInv, Books, BootDone \/ Started
  PROVE  Books'
  <1>1. todo # << >> /\ job.op \in {"boot", "ready"} /\ job.op # "adopt" /\ work.pc = "idle"
    BY Zenon DEF BootDone, Started, doing
  <1>2. work.pc \in Calm
    BY <1>1, Zenon DEF Calm
  <1>3. CASE BootDone
    <2>1. UNCHANGED <<services, sids, bids, states, pool, vipMap, backendMap, health, work, faults>>
      BY <1>3, Zenon DEF BootDone, maps
    <2>2. Unmoved
      BY <2>1, Zenon DEF Unmoved
    <2>3. Adopted'
      <3>1. CASE job.config = Empty
        BY <1>3, <3>1 DEF BootDone, Adopted
      <3>2. CASE job.config # Empty
        <4>1. job.op = "boot"
          BY <1>3, Zenon DEF BootDone, doing
        <4>2. job.config \in PartialMap(Vip, Specs)
          BY <1>1, <3>2, <4>1, JobFacts, JobFields, WeightAssumption, Zenon DEF TypeInv
        <4>3. Reload(job.config, <<Ready>>)
          BY <1>3, <3>2, Zenon DEF BootDone
        <4> QED BY <4>2, <4>3, ReloadJobs, PlainAdopted, Zenon
      <3> QED BY <3>1, <3>2, Zenon
    <2> QED BY <1>1, <1>2, <2>1, <2>2, <2>3, UnmovedBooks, Zenon
  <1>4. CASE Started /\ confOK
    <2>1. Finish(<< >>) /\ UNCHANGED <<services, sids, bids, states, pool, vipMap, backendMap, health, faults>>
      BY <1>4, Zenon DEF Started, memory, maps, tally, marks
    <2>2. Unmoved
      BY <2>1 DEF Unmoved
    <2> QED BY <1>1, <1>2, <2>1, <2>2, EndedBooks, Zenon
  <1>5. CASE Started /\ ~confOK
    BY <1>5, RestartBooks DEF Started
  <1> QED BY <1>3, <1>4, <1>5, Zenon

LEMMA BootKeeps ==
  ASSUME Inv, BootDone \/ Started \/ Crash
  PROVE  Inv'
  <1>1. CASE BootDone
    BY <1>1, BootDoneTypes, BootBooks, Zenon DEF Inv
  <1>2. CASE Started
    BY <1>2, StartedTypes, BootBooks DEF Inv
  <1>3. CASE Crash
    BY <1>3, RestartTypes, RestartBooks DEF Inv, Crash
  <1> QED BY <1>1, <1>2, <1>3, Zenon

-----------------------------------------------------------------------------
(* Together. *)

\* upsertVIPLocked from its table on keeps the invariant.
LEMMA TableKeeps ==
  ASSUME Inv, \/ BuildTableStep \/ WriteSlot \/ WriteSlotFault
              \/ WriteService \/ WriteVip \/ WriteFault \/ RefuseVip
  PROVE  Inv'
  <1>1. CASE BuildTableStep
    BY <1>1, BuildTableTypes, BuildTableBooks, Zenon DEF Inv
  <1>2. CASE WriteSlot
    BY <1>2, WriteSlotTypes, WriteSlotBooks, Zenon DEF Inv
  <1>3. CASE WriteSlotFault
    BY <1>3, WriteSlotFaultTypes, WriteSlotFaultBooks, Zenon DEF Inv
  <1>4. CASE WriteService
    BY <1>4, WriteServiceTypes, PublishBooks, Zenon DEF Inv
  <1>5. CASE WriteVip
    BY <1>5, WriteVipTypes, WriteVipBooks, Zenon DEF Inv
  <1>6. CASE WriteFault \/ RefuseVip
    BY <1>6, WriteFaultTypes, PublishBooks DEF Inv
  <1> QED BY <1>1, <1>2, <1>3, <1>4, <1>5, <1>6, Zenon

=============================================================================
