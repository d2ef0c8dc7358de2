----------------------------- MODULE SyncProofs -----------------------------
(***************************************************************************)
(* upsertVIPLocked giving up, rewriting and acquiring its backends keeps   *)
(* the invariants of DataplaneFacts.                                       *)
(***************************************************************************)
EXTENDS DataplaneSync, DataplaneFacts

-----------------------------------------------------------------------------
(* The backends of an update. *)

\* An entry's backends change and nothing else of it.
WithIds(v, ids) == [services EXCEPT ![v].ids = ids]

LEMMA SetIds ==
  ASSUME TypeInv, NEW v \in DOMAIN services, NEW ids, services' = WithIds(v, ids)
  PROVE  /\ ids \in PartialMap(Backend, BackendId) => IsPartialMap(services', Key, EntryType)
         /\ DOMAIN services' = DOMAIN services
         /\ services'[v].ids = ids
         /\ \A w \in DOMAIN services :
              /\ services'[w].sid = services[w].sid /\ services'[w].up = services[w].up
              /\ services'[w].ext = services[w].ext /\ services'[w].spec = services[w].spec
              /\ w # v => services'[w].ids = services[w].ids
  <1> DEFINE e == [services[v] EXCEPT !.ids = ids]
  <1>1. IsPartialMap(services, Key, EntryType) /\ services[v] \in EntryType
    BY ServiceTyped, Zenon DEF TypeInv, TypeOK, Key
  <1>2. services' = [services EXCEPT ![v] = e]
    BY Zenon DEF WithIds
  <1>3. /\ e.ids = ids /\ e.spec = services[v].spec /\ e.ext = services[v].ext
        /\ e.sid = services[v].sid /\ e.up = services[v].up
    BY <1>1, Zenon DEF EntryType
  <1>4. ids \in PartialMap(Backend, BackendId) => e \in EntryType
    BY <1>1, EntryTyped, Zenon
  <1> HIDE DEF e
  <1>5. e \in EntryType => IsPartialMap(services', Key, EntryType)
    BY <1>1, <1>2, Zenon DEF IsPartialMap
  <1>6. /\ DOMAIN services' = DOMAIN services
        /\ \A w \in DOMAIN services : services'[w] = IF w = v THEN e ELSE services[w]
    BY <1>1, <1>2 DEF IsPartialMap
  <1> QED BY <1>3, <1>4, <1>5, <1>6, Zenon

LEMMA AllocBackend ==
  ASSUME TypeInv, NEW b \in Backend, CanAlloc(bids, b)
  PROVE  /\ WellFormed(Alloc(bids, b)) /\ Alloc(bids, b) \in AllocType(Backend, MaxBackends)
         /\ IdOf(Alloc(bids, b), b) \in BackendId
         /\ DOMAIN bids.ids \subseteq DOMAIN Alloc(bids, b).ids
  <1>1. /\ WellFormed(Alloc(bids, b)) /\ Alloc(bids, b).max = MaxBackends
        /\ DOMAIN Alloc(bids, b).ids = DOMAIN bids.ids \cup {b}
        /\ Alloc(bids, b).ids[b] \in 0 .. MaxBackends - 1
    BY AllocFacts, AllocFields, Zenon DEF TypeInv
  <1>2. Alloc(bids, b) \in AllocType(Backend, MaxBackends)
    BY <1>1, AllocTyped, AllocFields, Zenon
  <1> QED BY <1>1, <1>2, Zenon DEF IdOf, BackendId

\* What every step of the sync stage leaves in place.
LEMMA SyncStages ==
  ASSUME TypeInv, todo # << >>, job.op \in Upserting, job.v \in DOMAIN services,
         UNCHANGED todo, DOMAIN services' = DOMAIN services,
         services'[job.v].spec = services[job.v].spec,
         work'.pc = "sync", work'.slot = 0,
         DOMAIN given \subseteq DOMAIN services'[job.v].ids \cup work'.left
  PROVE  Placed' /\ Covered' /\ InTable' /\ Claiming' /\ Weighing'
  <1>1. job' = job
    BY Zenon DEF job
  <1>2. given' = given
    BY <1>1, Zenon DEF given, entry
  <1>3. Covered'
    BY <1>1, <1>2 DEF Covered, entry
  <1> QED BY <1>1, <1>3, StillWeighing, Zenon DEF Placed, InTable, Claiming

LEMMA ReleaseGoneTypes ==
  ASSUME TypeInv, NEW b, ReleaseGone(b)
  PROVE  TypeInv'
  <1>1. doing(Upserting, "sync") /\ b \in gone /\ ReleaseBackend(b, entry.ids[b])
    BY Zenon DEF ReleaseGone
  <1>2. /\ todo # << >> /\ job.op \in Upserting /\ work.pc = "sync"
        /\ job.v \in DOMAIN services /\ entry = services[job.v]
        /\ IsPartialMap(entry.ids, Backend, BackendId)
    BY <1>1, SyncFacts, Zenon
  <1> DEFINE ids == Drop(entry.ids, b)
  <1>3. ids \in PartialMap(Backend, BackendId) /\ DOMAIN ids = DOMAIN entry.ids \ {b}
    <2>1. IsPartialMap(entry.ids, Backend, BackendId)
      BY <1>2, Zenon
    <2>2. IsPartialMap(ids, Backend, BackendId) /\ DOMAIN ids = DOMAIN entry.ids \ {b}
      BY <2>1, Zenon DEF Drop, IsPartialMap
    <2> QED BY <2>2, PartialMapIff, Zenon
  <1>4. services' = WithIds(job.v, ids)
    BY <1>2, Zenon DEF ReleaseGone, WithIds
  <1> HIDE DEF ids
  <1>5. /\ IsPartialMap(services', Key, EntryType) /\ DOMAIN services' = DOMAIN services
        /\ services'[job.v].ids = ids /\ services'[job.v].spec = services[job.v].spec
    BY <1>2, <1>3, <1>4, SetIds, Zenon
  <1>6. work' \in WorkType /\ work'.pc = "sync" /\ work'.slot = 0 /\ work'.left = work.left
    <2>1. work \in WorkType /\ work.slot = 0 /\ work' = [work EXCEPT !.changed = TRUE]
      BY <1>2, Zenon DEF ReleaseGone, TypeInv, TypeOK, Covered
    <2> QED BY <1>2, <2>1, Zenon DEF WorkType
  <1>7. b \notin DOMAIN given /\ DOMAIN given \subseteq DOMAIN entry.ids \cup work.left
    BY <1>1, <1>2, DesiredTyped, Zenon DEF gone, TypeInv, Covered
  <1>8. UNCHANGED <<sids, pool, unclaimed, todo, vipMap, svcMap, maglev, hist>>
    BY Zenon DEF ReleaseGone, tally, marks
  <1>9. Placed' /\ Covered' /\ InTable' /\ Claiming' /\ Weighing'
    BY <1>2, <1>3, <1>5, <1>6, <1>7, <1>8, SyncStages, Zenon
  <1>10. /\ IsPartialMap(states', BackendId, StateType)
         /\ IsPartialMap(backendMap', BackendId, [name : Backend, mac : BOOLEAN])
         /\ health' \in [BackendId -> {"down", "healthy", "draining"}]
         /\ WellFormed(bids') /\ bids' \in AllocType(Backend, MaxBackends)
    BY <1>1, ReleaseTyped, Zenon
  <1>11. TypeOK'
    BY <1>5, <1>6, <1>8, <1>10 DEF TypeInv, TypeOK, Key
  <1> QED BY <1>8, <1>9, <1>10, <1>11, Zenon DEF TypeInv

LEMMA InfoTyped ==
  ASSUME NEW b \in Backend, NEW mac \in BOOLEAN
  PROVE  Info(b, mac) \in InfoType
  BY DEF Info, InfoType

LEMMA RewriteTyped ==
  ASSUME TypeInv, NEW b \in Backend, NEW id \in BackendId
  PROVE  /\ IsPartialMap([states EXCEPT ![id] = Seen(@)], BackendId, StateType)
         /\ IsPartialMap(Give(backendMap, id,
                              Info(b, (id \in DOMAIN states /\ states[id].mac) \/ job.v \in MacVips)),
                         BackendId, InfoType)
  <1>1. IsPartialMap(states, BackendId, StateType) /\ IsPartialMap(backendMap, BackendId, InfoType)
    BY Zenon DEF TypeInv, TypeOK, InfoType
  <1>2. \A st \in StateType : Seen(st) \in StateType
    BY Zenon DEF Seen, StateType
  <1>3. IsPartialMap([states EXCEPT ![id] = Seen(@)], BackendId, StateType)
    BY <1>1, <1>2, Zenon DEF IsPartialMap
  <1> DEFINE mac == (id \in DOMAIN states /\ states[id].mac) \/ job.v \in MacVips
  <1>4. mac \in BOOLEAN
    BY Zenon
  <1> HIDE DEF mac
  <1>5. Info(b, mac) \in InfoType
    BY <1>4, InfoTyped, Zenon
  <1>6. IsPartialMap(Give(backendMap, id, Info(b, mac)), BackendId, InfoType)
    BY <1>1, <1>5, GiveMap, Zenon
  <1> QED BY <1>3, <1>6, Zenon DEF mac

LEMMA AcquireTyped ==
  ASSUME TypeInv, NEW b \in Backend, NEW id \in BackendId, NEW st, st = Seen(Acquired(b, id))
  PROVE  /\ IsPartialMap(Give(states, id, st), BackendId, StateType)
         /\ IsPartialMap(Give(backendMap, id, Info(b, st.mac)), BackendId, InfoType)
         /\ [health EXCEPT ![id] = HealthOf(st)] \in [BackendId -> {"down", "healthy", "draining"}]
  <1>1. /\ IsPartialMap(states, BackendId, StateType) /\ IsPartialMap(backendMap, BackendId, InfoType)
        /\ health \in [BackendId -> {"down", "healthy", "draining"}]
    BY Zenon DEF TypeInv, TypeOK, InfoType
  <1>2. st \in StateType /\ st.mac \in BOOLEAN
    BY AcquiredTyped, Zenon
  <1>3. Info(b, st.mac) \in InfoType
    BY <1>2, InfoTyped, Zenon
  <1>4. [health EXCEPT ![id] = HealthOf(st)] \in [BackendId -> {"down", "healthy", "draining"}]
    BY <1>1, HealthTyped
  <1> QED BY <1>1, <1>2, <1>3, <1>4, GiveMap, Zenon

LEMMA SyncBackendTypes ==
  ASSUME TypeInv, NEW b \in Backend, SyncBackend(b)
  PROVE  TypeInv'
  <1>1. doing(Upserting, "sync") /\ b \in work.left
    BY Zenon DEF SyncBackend
  <1>2. /\ todo # << >> /\ job.op \in Upserting /\ work.pc = "sync"
        /\ job.v \in DOMAIN services /\ entry = services[job.v]
        /\ IsPartialMap(entry.ids, Backend, BackendId)
    BY <1>1, SyncFacts, Zenon
  <1>3. UNCHANGED <<sids, pool, unclaimed, vipMap, svcMap, maglev>>
    BY Zenon DEF SyncBackend
  <1>4. DOMAIN given \subseteq DOMAIN entry.ids \cup work.left
    BY <1>2, Zenon DEF TypeInv, Covered
  <1>5. ASSUME UNCHANGED <<todo, hist>>,
               work' = [work EXCEPT !.left = @ \ {b}, !.changed = @ \/ b \notin DOMAIN entry.ids]
        PROVE  work' \in WorkType /\ work'.pc = "sync" /\ work'.slot = 0 /\ work'.left = work.left \ {b}
    <2>1. work \in WorkType /\ work.slot = 0 /\ (work.changed \/ b \notin DOMAIN entry.ids) \in BOOLEAN
      BY <1>2, Zenon DEF TypeInv, TypeOK, Covered
    <2>2. work.left \ {b} \in SUBSET Backend
      BY <2>1, Zenon DEF WorkType
    <2> QED BY <1>2, <1>5, <2>1, <2>2, Zenon DEF WorkType
  <1>6. CASE b \in DOMAIN entry.ids
    <2> DEFINE id == entry.ids[b]
    <2>1. /\ RewriteInfo(b) /\ UNCHANGED <<todo, hist>>
          /\ work' = [work EXCEPT !.left = @ \ {b}, !.changed = @ \/ b \notin DOMAIN entry.ids]
      BY <1>6, Zenon DEF SyncBackend, tally, marks
    <2>2. id \in BackendId
      BY <1>2, <1>6, Zenon DEF IsPartialMap
    <2>3. /\ states' = [states EXCEPT ![id] = Seen(@)]
          /\ backendMap' = Give(backendMap, id,
                             Info(b, (id \in DOMAIN states /\ states[id].mac) \/ job.v \in MacVips))
          /\ UNCHANGED <<services, bids, health>>
      BY <2>1, Zenon DEF RewriteInfo
    <2> HIDE DEF id
    <2>4. IsPartialMap(states', BackendId, StateType) /\ IsPartialMap(backendMap', BackendId, InfoType)
      BY <2>2, <2>3, RewriteTyped, ZenonT(90)
    <2>5. work' \in WorkType /\ work'.pc = "sync" /\ work'.slot = 0 /\ work'.left = work.left \ {b}
      BY <1>5, <2>1, Zenon
    <2>6. Placed' /\ Covered' /\ InTable' /\ Claiming' /\ Weighing'
      BY <1>2, <1>4, <1>6, <2>1, <2>3, <2>5, SyncStages, Zenon
    <2>7. TypeOK'
      BY <1>3, <2>1, <2>3, <2>4, <2>5, Zenon DEF TypeInv, TypeOK, InfoType
    <2> QED BY <1>3, <2>3, <2>6, <2>7, Zenon DEF TypeInv
  <1>7. CASE b \notin DOMAIN entry.ids /\ CanAlloc(bids, b)
    <2> DEFINE id == IdOf(Alloc(bids, b), b)
               st == Seen(Acquired(b, id))
               ids == Give(entry.ids, b, id)
    <2>1. /\ AcquireBackend(b) /\ UNCHANGED <<todo, hist>>
          /\ work' = [work EXCEPT !.left = @ \ {b}, !.changed = @ \/ b \notin DOMAIN entry.ids]
      BY <1>7, Zenon DEF SyncBackend, tally, marks
    <2>2. /\ bids' = Alloc(bids, b) /\ states' = Give(states, id, st)
          /\ backendMap' = Give(backendMap, id, Info(b, st.mac))
          /\ health' = [health EXCEPT ![id] = HealthOf(st)]
          /\ services' = WithIds(job.v, ids)
      BY <1>2, <2>1, Zenon DEF AcquireBackend, WithIds
    <2>3. WellFormed(bids') /\ bids' \in AllocType(Backend, MaxBackends) /\ id \in BackendId
      BY <1>7, <2>2, AllocBackend, ZenonT(90)
    <2>4. /\ IsPartialMap(states', BackendId, StateType) /\ IsPartialMap(backendMap', BackendId, InfoType)
          /\ health' \in [BackendId -> {"down", "healthy", "draining"}]
      <3> HIDE DEF id, st
      <3> QED BY <2>2, <2>3, AcquireTyped, Zenon DEF st
    <2>5. ids \in PartialMap(Backend, BackendId) /\ DOMAIN ids = DOMAIN entry.ids \cup {b}
      <3>1. IsPartialMap(ids, Backend, BackendId) /\ DOMAIN ids = DOMAIN entry.ids \cup {b}
        BY <1>2, <2>3, Zenon DEF IsPartialMap, Give
      <3> QED BY <3>1, PartialMapIff, Zenon
    <2> HIDE DEF ids, id, st
    <2>6. /\ IsPartialMap(services', Key, EntryType) /\ DOMAIN services' = DOMAIN services
          /\ services'[job.v].ids = ids /\ services'[job.v].spec = services[job.v].spec
      BY <1>2, <2>2, <2>5, SetIds, Zenon
    <2>7. work' \in WorkType /\ work'.pc = "sync" /\ work'.slot = 0 /\ work'.left = work.left \ {b}
      BY <1>5, <2>1, Zenon
    <2>8. Placed' /\ Covered' /\ InTable' /\ Claiming' /\ Weighing'
      BY <1>2, <1>4, <2>1, <2>5, <2>6, <2>7, SyncStages, Zenon
    <2>9. TypeOK'
      BY <1>3, <2>1, <2>3, <2>4, <2>6, <2>7, Zenon DEF TypeInv, TypeOK, InfoType, Key
    <2> QED BY <1>3, <2>3, <2>8, <2>9, Zenon DEF TypeInv
  <1>8. CASE ~(b \in DOMAIN entry.ids \/ CanAlloc(bids, b))
    <2>1. Fail /\ UNCHANGED <<services, states, bids, backendMap, health>>
      BY <1>8, Zenon DEF SyncBackend
    <2>2. /\ todo' \in Seq(JobType) /\ work' \in WorkType /\ hist' \in HistType
          /\ Placed' /\ Covered' /\ InTable' /\ Claiming' /\ Weighing'
      BY <1>2, <2>1, Failed, Zenon
    <2>3. TypeOK'
      BY <1>3, <2>1, <2>2 DEF TypeInv, TypeOK, HistType, Key
    <2> QED BY <1>3, <2>1, <2>2, <2>3, Zenon DEF TypeInv
  <1> QED BY <1>6, <1>7, <1>8, Zenon

LEMMA SyncBackendFaultTypes ==
  ASSUME TypeInv, NEW b \in Backend, SyncBackendFault(b)
  PROVE  TypeInv'
  <1>1. doing(Upserting, "sync")
    BY Zenon DEF SyncBackendFault
  <1>2. todo # << >> /\ IsPartialMap(entry.ids, Backend, BackendId)
    BY <1>1, SyncFacts, Zenon
  <1>3. UNCHANGED <<services, sids, pool, unclaimed, vipMap, svcMap, maglev, health>> /\ Fail
    BY ZenonT(90) DEF SyncBackendFault, Fault
  <1>4. /\ pool \subseteq Slot /\ WellFormed(bids) /\ bids \in AllocType(Backend, MaxBackends)
        /\ IsPartialMap(states, BackendId, StateType) /\ IsPartialMap(backendMap, BackendId, InfoType)
    BY Zenon DEF TypeInv, TypeOK, InfoType
  <1>5. CASE b \in DOMAIN entry.ids
    <2> DEFINE id == entry.ids[b]
    <2>1. id \in BackendId
      BY <1>2, <1>5, Zenon DEF IsPartialMap
    <2>2. states' = [states EXCEPT ![id] = Seen(@)] /\ UNCHANGED <<bids, backendMap>>
      BY <1>5, Zenon DEF SyncBackendFault
    <2> HIDE DEF id
    <2>3. IsPartialMap(states', BackendId, StateType)
      BY <2>1, <2>2, RewriteTyped, ZenonT(90)
    <2> QED BY <1>2, <1>3, <1>4, <2>2, <2>3, FailStep, Zenon
  <1>6. CASE b \notin DOMAIN entry.ids
    <2> DEFINE id == IdOf(Alloc(bids, b), b)
               st == Seen(Acquired(b, id))
    <2>1. /\ CanAlloc(bids, b) /\ bids' = Alloc(bids, b) /\ states' = Give(states, id, st)
          /\ backendMap' \in {Give(backendMap, id, Info(b, st.mac)), backendMap}
      BY <1>6, ZenonT(90) DEF SyncBackendFault, AcquireFault
    <2>2. WellFormed(bids') /\ bids' \in AllocType(Backend, MaxBackends) /\ id \in BackendId
      BY <2>1, AllocBackend, Zenon
    <2>3. /\ IsPartialMap(states', BackendId, StateType) /\ IsPartialMap(backendMap', BackendId, InfoType)
      <3> HIDE DEF id, st
      <3> QED BY <1>4, <2>1, <2>2, AcquireTyped DEF st
    <2> QED BY <1>2, <1>3, <1>4, <2>2, <2>3, FailStep, Zenon
  <1> QED BY <1>5, <1>6, Zenon

\* None of this touches service ids or extents.
LEMMA SyncRest ==
  ASSUME TypeInv, Books, todo # << >>, job.op # "adopt", work.pc = "sync", Adopted',
         work'.pc \in {"sync", "idle"}, UNCHANGED <<sids, vipMap, pool>>, DOMAIN services' = DOMAIN services,
         \A w \in DOMAIN services :
           /\ services'[w].sid = services[w].sid /\ services'[w].up = services[w].up
           /\ services'[w].ext = services[w].ext,
         BackInv'
  PROVE  Books'
  <1>1. IdsInv'
    BY SameIds DEF Books
  <1>2. TableInv'
    BY TableKept, Unpending DEF Books
  <1> QED BY <1>1, <1>2, Zenon DEF Books

LEMMA ReleaseGoneBooks ==
  ASSUME TypeInv, Books, NEW b, ReleaseGone(b)
  PROVE  Books'
  <1>1. doing(Upserting, "sync") /\ b \in DOMAIN entry.ids /\ ReleaseBackend(b, entry.ids[b])
    BY Zenon DEF ReleaseGone, gone
  <1>2. /\ todo # << >> /\ job.op # "adopt" /\ work.pc = "sync" /\ work \in WorkType
        /\ job.v \in DOMAIN services /\ entry = services[job.v]
    BY <1>1, SyncFacts, Zenon DEF TypeInv, TypeOK
  <1>3. /\ services' = WithIds(job.v, Drop(entry.ids, b)) /\ work' = [work EXCEPT !.changed = TRUE]
        /\ UNCHANGED <<todo, sids, vipMap, pool, faults>>
    BY <1>2, Zenon DEF ReleaseGone, WithIds, tally, marks
  <1>4. /\ DOMAIN services' = DOMAIN services /\ services'[job.v].ids = Drop(entry.ids, b)
        /\ \A w \in DOMAIN services :
             /\ services'[w].sid = services[w].sid /\ services'[w].up = services[w].up
             /\ services'[w].ext = services[w].ext
             /\ w # job.v => services'[w].ids = services[w].ids
    BY <1>2, <1>3, SetIds, ZenonT(60)
  <1>5. work'.pc = "sync"
    BY <1>2, <1>3, Zenon DEF WorkType
  <1>6. BackInv'
    <2>1. /\ DOMAIN services'[job.v].ids = DOMAIN entry.ids \ {b}
          /\ \A c \in DOMAIN services'[job.v].ids : services'[job.v].ids[c] = entry.ids[c]
      BY <1>4, Zenon DEF Drop
    <2>2. \A v, c, i :
            /\ Refers(v, c, i) <=>
                 v \in DOMAIN services /\ c \in DOMAIN services[v].ids /\ services[v].ids[c] = i
            /\ Refers(v, c, i)' <=>
                 v \in DOMAIN services' /\ c \in DOMAIN services'[v].ids /\ services'[v].ids[c] = i
      BY <1>2, <1>5, RefersPlain, Zenon
    <2>3. \A v, c, i : Refers(v, c, i)' <=> Refers(v, c, i) /\ ~(v = job.v /\ c = b)
      BY <1>2, <1>4, <2>1, <2>2
    <2>4. Refers(job.v, b, entry.ids[b])
      BY <1>1, <1>2, <2>2
    <2>5. Dropping' /\ Claimed'
      BY <1>5, Zenon DEF Dropping, Claimed
    <2> QED BY <1>1, <1>2, <1>3, <2>3, <2>4, <2>5, Released, Zenon DEF Books
  <1>7. Adopted'
    BY <1>2, <1>3, Continued DEF Books
  <1> QED BY <1>2, <1>3, <1>4, <1>5, <1>6, <1>7, SyncRest, Zenon

\* One backend's state, info and health are written, under its own id.
LEMMA Touched ==
  ASSUME TypeInv, BackInv, NEW b, NEW id \in BackendId,
         WellFormed(bids'), b \in DOMAIN bids'.ids, bids'.ids[b] = id,
         \A c \in DOMAIN bids.ids : c \in DOMAIN bids'.ids /\ bids'.ids[c] = bids.ids[c],
         DOMAIN states' = DOMAIN states \cup {id}, states'[id].name = b,
         \A i \in DOMAIN states : HealthOf(states'[i]) = HealthOf(states[i]) /\ (i # id => states'[i] = states[i]),
         \A i \in DOMAIN backendMap :
           /\ i \in DOMAIN backendMap'
           /\ backendMap'[i] = backendMap[i] \/ (i = id /\ backendMap'[i].name = b),
         \A i \in BackendId : health'[i] = health[i] \/ (i = id /\ health'[i] = HealthOf(states'[i]))
  PROVE  /\ \A c, i : Alive(c, i) => Alive(c, i)'
         /\ Named'
  <1>1. \A c \in DOMAIN bids.ids : bids.ids[c] = id => c = b
    BY Zenon DEF WellFormed, Injective
  <1>2. \A i \in DOMAIN states : i \in BackendId
    BY Zenon DEF TypeInv, TypeOK, IsPartialMap
  <1>3. ASSUME NEW c, NEW i, Alive(c, i) PROVE Alive(c, i)'
    <2>1. CASE i = id
      BY <1>1, <1>3, <2>1, ZenonT(60) DEF Alive
    <2>2. CASE i # id
      BY <1>2, <1>3, <2>2, Zenon DEF Alive
    <2> QED BY <2>1, <2>2, Zenon
  <1>4. Named'
    <2>1. \A i \in DOMAIN states : i # id =>
            states'[i].name \in DOMAIN bids'.ids /\ bids'.ids[states'[i].name] = i
      BY DEF BackInv, Named
    <2> QED BY <2>1 DEF Named
  <1> QED BY <1>3, <1>4, Zenon

\* The id a backend is given is its own, whether it is new or shared.
LEMMA AcquiringFacts ==
  ASSUME TypeInv, BackInv, NEW b \in Backend, CanAlloc(bids, b), bids' = Alloc(bids, b),
         NEW id, id = IdOf(Alloc(bids, b), b), NEW st, st = Seen(Acquired(b, id))
  PROVE  /\ id \in BackendId /\ WellFormed(bids') /\ b \in DOMAIN bids'.ids /\ bids'.ids[b] = id
         /\ \A c \in DOMAIN bids.ids : c \in DOMAIN bids'.ids /\ bids'.ids[c] = bids.ids[c]
         /\ \A c \in DOMAIN bids.ids : bids.ids[c] = id => c = b
         /\ st.name = b
         /\ id \in DOMAIN states => HealthOf(st) = HealthOf(states[id]) /\ st.ref = states[id].ref + 1
         /\ id \notin DOMAIN states => st.ref = 1
  <1>1. /\ WellFormed(bids') /\ DOMAIN bids'.ids = DOMAIN bids.ids \cup {b} /\ bids'.ids[b] = id
        /\ \A c \in DOMAIN bids.ids : bids'.ids[c] = bids.ids[c]
    BY AllocFacts, Zenon DEF TypeInv, IdOf
  <1>2. id \in BackendId
    BY AllocBackend, Zenon
  <1>3. \A c \in DOMAIN bids.ids : bids.ids[c] = id => c = b
    BY <1>1, Zenon DEF WellFormed, Injective
  <1>4. id \in DOMAIN states => states[id].name = b
    BY <1>3 DEF BackInv, Named
  <1>5. /\ id \in DOMAIN states => /\ st.name = states[id].name /\ st.ref = states[id].ref + 1
                                   /\ HealthOf(st) = HealthOf(states[id])
        /\ id \notin DOMAIN states => st.name = b /\ st.ref = 1
    BY AcquiredFacts
  <1> QED BY <1>1, <1>2, <1>3, <1>4, <1>5, Zenon

\* writeBackendInfoLocked for a backend the VIP lists, whether or not its write fails.
LEMMA RewriteBooks ==
  ASSUME TypeInv, Books, doing(Upserting, "sync"), NEW b \in DOMAIN entry.ids, NEW info, info.name = b,
         states' = [states EXCEPT ![entry.ids[b]] = Seen(@)],
         backendMap' \in {backendMap, Give(backendMap, entry.ids[b], info)},
         UNCHANGED <<services, sids, bids, health, vipMap, pool>>, faults' \in {faults, faults + 1},
         Adopted', work'.pc \in {"sync", "idle"}
  PROVE  Books'
  <1>1. PICK id : id = entry.ids[b]
    BY Zenon
  <1>2. /\ todo # << >> /\ job.op # "adopt" /\ work.pc = "sync"
        /\ job.v \in DOMAIN services /\ entry = services[job.v] /\ id \in BackendId
    BY <1>1, SyncFacts, Zenon DEF IsPartialMap
  <1>3. \A v, c, i : Refers(v, c, i)' <=> Refers(v, c, i)
    <2>1. work.pc \notin {"drop", "zero"} /\ work'.pc \notin {"drop", "zero"}
      BY <1>2
    <2> QED BY <2>1, SameRefs, Zenon
  <1>4. Alive(b, id) /\ IsPartialMap(states, BackendId, StateType) /\ WellFormed(bids)
    <2>1. Refers(job.v, b, id)
      BY <1>1, <1>2, RefersPlain
    <2> QED BY <2>1, Zenon DEF Books, BackInv, Live, TypeInv, TypeOK
  <1>5. id \in DOMAIN states /\ states[id] \in StateType /\ states[id].name = b
    BY <1>4, Zenon DEF Alive, IsPartialMap
  <1>6. /\ DOMAIN states' = DOMAIN states /\ states'[id] = Seen(states[id])
        /\ \A i \in DOMAIN states : i # id => states'[i] = states[i]
    BY <1>1, <1>5, Zenon
  <1>7. \A i \in DOMAIN states : /\ states'[i].name = states[i].name /\ states'[i].ref = states[i].ref
                                 /\ HealthOf(states'[i]) = HealthOf(states[i])
    <2>1. /\ Seen(states[id]).name = states[id].name /\ Seen(states[id]).ref = states[id].ref
          /\ HealthOf(Seen(states[id])) = HealthOf(states[id])
      BY <1>5, Zenon DEF Seen, StateType, HealthOf
    <2> QED BY <1>6, <2>1, Zenon
  <1>8. (\A c, i : Alive(c, i) => Alive(c, i)') /\ Named'
    <2>1. /\ WellFormed(bids') /\ b \in DOMAIN bids'.ids /\ bids'.ids[b] = id
          /\ \A c \in DOMAIN bids.ids : c \in DOMAIN bids'.ids /\ bids'.ids[c] = bids.ids[c]
      BY <1>4, Zenon DEF Alive
    <2>2. \A i \in DOMAIN backendMap :
            /\ i \in DOMAIN backendMap'
            /\ backendMap'[i] = backendMap[i] \/ (i = id /\ backendMap'[i].name = b)
      <3>1. CASE backendMap' = backendMap
        BY <3>1, Zenon
      <3>2. CASE backendMap' = Give(backendMap, id, info)
        BY <3>2, Zenon DEF Give
      <3> QED BY <1>1, <3>1, <3>2, Zenon
    <2>3. /\ DOMAIN states' = DOMAIN states \cup {id} /\ states'[id].name = b
          /\ \A i \in DOMAIN states : HealthOf(states'[i]) = HealthOf(states[i]) /\ (i # id => states'[i] = states[i])
          /\ \A i \in BackendId : health'[i] = health[i] \/ (i = id /\ health'[i] = HealthOf(states'[i]))
      BY <1>5, <1>6, <1>7, Zenon
    <2>4. id \in BackendId /\ BackInv
      BY <1>2, Zenon DEF Books
    <2> QED BY <2>1, <2>2, <2>3, <2>4, Touched
  <1>9. Live'
    BY <1>3, <1>8, Zenon DEF Books, BackInv, Live
  <1>10. Counted'
    <2>1. \A i : Referrers(i)' = Referrers(i)
      BY <1>3, SameReferrers, Zenon
    <2>2. Counted /\ faults' \in Nat /\ (faults' = 0 => faults = 0)
      BY DEF Books, BackInv, Counted
    <2> QED BY <1>6, <1>7, <2>1, <2>2, ZenonT(60) DEF Counted
  <1>11. BackInv'
    BY <1>8, <1>9, <1>10 DEF BackInv, Dropping, Claimed
  <1> QED BY <1>2, <1>11, SyncRest, Zenon

\* acquireBackendLocked gives b the id, with the state and, unless a write fails,
\* the info and the health.
Granted(b, id, st, info) ==
  /\ CanAlloc(bids, b) /\ bids' = Alloc(bids, b) /\ id = IdOf(Alloc(bids, b), b)
  /\ st = Seen(Acquired(b, id)) /\ states' = Give(states, id, st)
  /\ info.name = b /\ backendMap' \in {backendMap, Give(backendMap, id, info)}
  /\ health' \in {health, [health EXCEPT ![id] = HealthOf(st)]}

\* The id has one reference more, n of them, and none of them was u's.
Joining(u, id, n) ==
  /\ (\A c, i : Alive(c, i) => Alive(c, i)') /\ Named'
  /\ DOMAIN states' = DOMAIN states \cup {id} /\ states'[id].ref = n
  /\ \A i \in DOMAIN states : i # id => states'[i] = states[i]
  /\ \A c : ~Refers(u, c, id)
  /\ id \in DOMAIN states => n = states[id].ref + 1
  /\ id \notin DOMAIN states => n = 1

LEMMA Acquiring ==
  ASSUME TypeInv, BackInv, NEW b \in Backend, NEW id, NEW st, NEW info, Granted(b, id, st, info),
         NEW u, \A i : ~Refers(u, b, i)
  PROVE  /\ Joining(u, id, st.ref)
         /\ backendMap' = Give(backendMap, id, info) /\ health' = [health EXCEPT ![id] = HealthOf(st)]
              => Alive(b, id)'
  <1>0. /\ CanAlloc(bids, b) /\ bids' = Alloc(bids, b) /\ id = IdOf(Alloc(bids, b), b)
        /\ st = Seen(Acquired(b, id)) /\ states' = Give(states, id, st)
        /\ info.name = b /\ backendMap' \in {backendMap, Give(backendMap, id, info)}
        /\ health' \in {health, [health EXCEPT ![id] = HealthOf(st)]}
    BY Zenon DEF Granted
  <1>1. /\ id \in BackendId /\ WellFormed(bids') /\ b \in DOMAIN bids'.ids /\ bids'.ids[b] = id
        /\ \A c \in DOMAIN bids.ids : c \in DOMAIN bids'.ids /\ bids'.ids[c] = bids.ids[c]
        /\ \A c \in DOMAIN bids.ids : bids.ids[c] = id => c = b
        /\ st.name = b
        /\ id \in DOMAIN states => HealthOf(st) = HealthOf(states[id]) /\ st.ref = states[id].ref + 1
        /\ id \notin DOMAIN states => st.ref = 1
    BY <1>0, AcquiringFacts
  <1>2. /\ DOMAIN states' = DOMAIN states \cup {id} /\ states'[id] = st
        /\ \A i \in DOMAIN states : i # id => states'[i] = states[i]
    BY <1>0, Zenon DEF Give
  <1>3. /\ \A i \in DOMAIN backendMap :
             /\ i \in DOMAIN backendMap'
             /\ backendMap'[i] = backendMap[i] \/ (i = id /\ backendMap'[i].name = b)
        /\ backendMap' = Give(backendMap, id, info) => id \in DOMAIN backendMap' /\ backendMap'[id].name = b
    BY <1>0, Zenon DEF Give
  <1>4. /\ \A i \in BackendId : health'[i] = health[i] \/ (i = id /\ health'[i] = HealthOf(st))
        /\ health' = [health EXCEPT ![id] = HealthOf(st)] => health'[id] = HealthOf(st)
    <2>1. health \in [BackendId -> {"down", "healthy", "draining"}]
      BY Zenon DEF TypeInv, TypeOK
    <2> QED BY <1>0, <1>1, <2>1, Zenon
  <1>5. (\A c, i : Alive(c, i) => Alive(c, i)') /\ Named'
    <2>1. \A i \in BackendId : health'[i] = health[i] \/ (i = id /\ health'[i] = HealthOf(states'[i]))
      BY <1>2, <1>4, Zenon
    <2>2. /\ states'[id].name = b
          /\ \A i \in DOMAIN states : HealthOf(states'[i]) = HealthOf(states[i]) /\ (i # id => states'[i] = states[i])
      BY <1>1, <1>2, Zenon
    <2> QED BY <1>1, <1>2, <1>3, <2>1, <2>2, Touched
  <1>6. \A c : ~Refers(u, c, id)
    <2> SUFFICES ASSUME NEW c, Refers(u, c, id) PROVE FALSE
      BY Zenon
    <2>1. c \in DOMAIN bids.ids /\ bids.ids[c] = id
      BY DEF BackInv, Live, Alive
    <2> QED BY <1>1, <2>1, Zenon
  <1>7. ASSUME backendMap' = Give(backendMap, id, info), health' = [health EXCEPT ![id] = HealthOf(st)]
        PROVE  Alive(b, id)'
    BY <1>1, <1>2, <1>3, <1>4, <1>7, Zenon DEF Alive
  <1> QED BY <1>1, <1>2, <1>5, <1>6, <1>7, Zenon DEF Joining

\* The states but one keep the count of their references.
LEMMA CountedBut ==
  ASSUME Counted, NEW id, DOMAIN states' = DOMAIN states \cup {id}, faults' \in Nat,
         \A i \in DOMAIN states : i # id => states'[i] = states[i] /\ Referrers(i)' = Referrers(i),
         Cardinality(Referrers(id)') <= states'[id].ref,
         faults' = 0 => faults = 0 /\ states'[id].ref = Cardinality(Referrers(id)')
  PROVE  Counted'
  <1> SUFFICES ASSUME NEW i \in DOMAIN states'
               PROVE  /\ Cardinality(Referrers(i)') <= states'[i].ref
                      /\ faults' = 0 => states'[i].ref = Cardinality(Referrers(i)')
    BY Zenon DEF Counted
  <1>1. CASE i = id
    BY <1>1, Zenon
  <1>2. CASE i # id
    BY <1>2, Zenon DEF Counted
  <1> QED BY <1>1, <1>2, Zenon

\* A write failed: the new reference is counted and nobody lists it.
LEMMA LeftBehind ==
  ASSUME TypeInv, BackInv, NEW u \in DOMAIN services, NEW id, NEW n, Joining(u, id, n), Dropping', Claimed',
         faults' = faults + 1, \A v, c, i : Refers(v, c, i)' <=> Refers(v, c, i)
  PROVE  BackInv'
  <1>0. /\ (\A c, i : Alive(c, i) => Alive(c, i)') /\ Named'
        /\ DOMAIN states' = DOMAIN states \cup {id} /\ states'[id].ref = n
        /\ \A i \in DOMAIN states : i # id => states'[i] = states[i]
        /\ \A c : ~Refers(u, c, id)
        /\ id \in DOMAIN states => n = states[id].ref + 1
        /\ id \notin DOMAIN states => n = 1
    BY Zenon DEF Joining
  <1>1. u \in Key
    BY Zenon DEF TypeInv, TypeOK, IsPartialMap, Key
  <1>2. /\ Cardinality(Referrers(id)) \in Nat /\ n \in Nat /\ Cardinality(Referrers(id)) + 1 <= n
        /\ faults \in Nat
    BY <1>0, <1>1, OneMore, Zenon
  <1>3. faults' \in Nat /\ faults' # 0 /\ Cardinality(Referrers(id)) <= n
    BY <1>2
  <1>4. \A i : Referrers(i)' = Referrers(i)
    BY SameReferrers, Zenon
  <1>5. Counted /\ Live
    BY Zenon DEF BackInv
  <1>6. Counted'
    BY <1>0, <1>3, <1>4, <1>5, CountedBut, Zenon
  <1>7. Live'
    BY <1>0, <1>5, Zenon DEF Live
  <1> QED BY <1>0, <1>6, <1>7, Zenon DEF BackInv

\* The VIP lists what it has acquired.
LEMMA Gained ==
  ASSUME TypeInv, BackInv, NEW u \in DOMAIN services, NEW b, NEW id, NEW n, Joining(u, id, n), Dropping', Claimed', Alive(b, id)',
         UNCHANGED faults,
         \A v, c, i : Refers(v, c, i)' <=> Refers(v, c, i) \/ (v = u /\ c = b /\ i = id)
  PROVE  BackInv'
  <1>0. /\ (\A c, i : Alive(c, i) => Alive(c, i)') /\ Named'
        /\ DOMAIN states' = DOMAIN states \cup {id} /\ states'[id].ref = n
        /\ \A i \in DOMAIN states : i # id => states'[i] = states[i]
        /\ \A c : ~Refers(u, c, id)
        /\ id \in DOMAIN states => n = states[id].ref + 1
        /\ id \notin DOMAIN states => n = 1
    BY Zenon DEF Joining
  <1>1. u \in Key
    BY Zenon DEF TypeInv, TypeOK, IsPartialMap, Key
  <1>2. /\ Cardinality(Referrers(id)) \in Nat /\ n \in Nat /\ Cardinality(Referrers(id)) + 1 <= n
        /\ faults = 0 => n = Cardinality(Referrers(id)) + 1
        /\ Cardinality(Referrers(id) \cup {u}) = Cardinality(Referrers(id)) + 1
        /\ faults \in Nat
    BY <1>0, <1>1, OneMore, Zenon
  <1>3. Referrers(id)' = Referrers(id) \cup {u}
    BY Referring
  <1>4. \A i : i # id => Referrers(i)' = Referrers(i)
    <2> SUFFICES ASSUME NEW i, i # id PROVE Referrers(i)' = Referrers(i)
      BY Zenon
    <2> QED BY Referring, Zenon
  <1>5. Counted /\ Live
    BY Zenon DEF BackInv
  <1>6. Counted'
    <2>1. /\ Cardinality(Referrers(id)') <= n
          /\ faults' = 0 => faults = 0 /\ n = Cardinality(Referrers(id)')
      BY <1>2, <1>3, Zenon
    <2> QED BY <1>0, <1>2, <1>4, <1>5, <2>1, CountedBut, Zenon
  <1>7. Live'
    BY <1>0, <1>5, Zenon DEF Live
  <1> QED BY <1>0, <1>6, <1>7, Zenon DEF BackInv

\* What an entry that lists one backend more refers to.
LEMMA RefersGained ==
  ASSUME work.pc \notin {"drop", "zero"}, work'.pc \notin {"drop", "zero"},
         NEW u \in DOMAIN services, NEW b, b \notin DOMAIN services[u].ids, NEW id,
         DOMAIN services' = DOMAIN services, services'[u].ids = Give(services[u].ids, b, id),
         \A w \in DOMAIN services : w # u => services'[w].ids = services[w].ids
  PROVE  \A v, c, i : Refers(v, c, i)' <=> Refers(v, c, i) \/ (v = u /\ c = b /\ i = id)
  <1>1. /\ \A v, c, i : Refers(v, c, i) <=>
             v \in DOMAIN services /\ c \in DOMAIN services[v].ids /\ services[v].ids[c] = i
        /\ \A v, c, i : Refers(v, c, i)' <=>
             v \in DOMAIN services' /\ c \in DOMAIN services'[v].ids /\ services'[v].ids[c] = i
    BY RefersPlain, Zenon
  <1>2. /\ DOMAIN services'[u].ids = DOMAIN services[u].ids \cup {b} /\ services'[u].ids[b] = id
        /\ \A c \in DOMAIN services[u].ids : services'[u].ids[c] = services[u].ids[c]
    BY Zenon DEF Give
  <1>3. \A v, c, i : v # u => (Refers(v, c, i)' <=> Refers(v, c, i))
    BY <1>1
  <1>4. \A c, i : Refers(u, c, i)' <=> Refers(u, c, i) \/ (c = b /\ i = id)
    BY <1>1, <1>2
  <1> QED BY <1>3, <1>4

\* acquireBackendLocked stopped by a failed write, and done.
LEMMA AcquireFaultBooks ==
  ASSUME TypeInv, Books, doing(Upserting, "sync"), NEW b \in Backend, b \notin DOMAIN entry.ids,
         NEW info \in BOOLEAN, AcquireFault(b, info), faults' = faults + 1,
         UNCHANGED <<services, health, sids, vipMap, pool>>, Adopted', work'.pc \in {"sync", "idle"}
  PROVE  Books'
  <1>1. /\ todo # << >> /\ job.op # "adopt" /\ work.pc = "sync" /\ BackInv
        /\ job.v \in DOMAIN services /\ entry = services[job.v]
    BY SyncFacts, Zenon DEF Books
  <1>2. work.pc \notin {"drop", "zero"} /\ work'.pc \notin {"drop", "zero"} /\ Dropping' /\ Claimed'
    BY <1>1 DEF Dropping, Claimed
  <1>3. PICK id, st, rec, u : /\ id = IdOf(Alloc(bids, b), b) /\ st = Seen(Acquired(b, id))
                              /\ rec = Info(b, st.mac) /\ u = job.v
    BY Zenon
  <1>4. Granted(b, id, st, rec)
    <2>1. CanAlloc(bids, b) /\ bids' = Alloc(bids, b) /\ states' = Give(states, id, st)
      BY <1>3, Zenon DEF AcquireFault
    <2>2. backendMap' \in {backendMap, Give(backendMap, id, rec)} /\ rec.name = b
      BY <1>3, Zenon DEF AcquireFault, Info
    <2> QED BY <1>3, <2>1, <2>2, Zenon DEF Granted
  <1>5. u \in DOMAIN services /\ \A i : ~Refers(u, b, i)
    BY <1>1, <1>2, <1>3, RefersPlain, Zenon
  <1>6. \A v, c, i : Refers(v, c, i)' <=> Refers(v, c, i)
    BY <1>2, SameRefs, Zenon
  <1>7. Joining(u, id, st.ref)
    BY <1>1, <1>4, <1>5, Acquiring, Zenon
  <1>8. BackInv'
    BY <1>1, <1>2, <1>5, <1>6, <1>7, LeftBehind, Zenon
  <1> QED BY <1>1, <1>8, SyncRest, Zenon

LEMMA AcquireBooks ==
  ASSUME TypeInv, Books, doing(Upserting, "sync"), NEW b \in Backend, b \notin DOMAIN entry.ids,
         CanAlloc(bids, b), AcquireBackend(b),
         UNCHANGED <<faults, sids, vipMap, pool>>, Adopted', work'.pc \in {"sync", "idle"}
  PROVE  Books'
  <1>1. /\ todo # << >> /\ job.op # "adopt" /\ work.pc = "sync" /\ BackInv
        /\ job.v \in DOMAIN services /\ entry = services[job.v]
    BY SyncFacts, Zenon DEF Books
  <1>2. work.pc \notin {"drop", "zero"} /\ work'.pc \notin {"drop", "zero"} /\ Dropping' /\ Claimed'
    BY <1>1, Zenon DEF Dropping, Claimed
  <1>3. PICK id, st, rec, u : /\ id = IdOf(Alloc(bids, b), b) /\ st = Seen(Acquired(b, id))
                              /\ rec = Info(b, st.mac) /\ u = job.v
    BY Zenon
  <1>4. /\ bids' = Alloc(bids, b) /\ states' = Give(states, id, st)
        /\ backendMap' = Give(backendMap, id, rec) /\ health' = [health EXCEPT ![id] = HealthOf(st)]
        /\ services' = WithIds(u, Give(services[u].ids, b, id))
    BY <1>1, <1>3, Zenon DEF AcquireBackend, WithIds
  <1>5. rec.name = b /\ u \in DOMAIN services /\ b \notin DOMAIN services[u].ids
    BY <1>1, <1>3, Zenon DEF Info
  <1>6. \A i : ~Refers(u, b, i)
    BY <1>2, <1>5, RefersPlain, Zenon
  <1>7. /\ DOMAIN services' = DOMAIN services /\ services'[u].ids = Give(services[u].ids, b, id)
        /\ \A w \in DOMAIN services :
             /\ services'[w].sid = services[w].sid /\ services'[w].up = services[w].up
             /\ services'[w].ext = services[w].ext
             /\ w # u => services'[w].ids = services[w].ids
    BY <1>4, <1>5, SetIds, ZenonT(60)
  <1>8. \A v, c, i : Refers(v, c, i)' <=> Refers(v, c, i) \/ (v = u /\ c = b /\ i = id)
    <2>1. \A w \in DOMAIN services : w # u => services'[w].ids = services[w].ids
      BY <1>7, Zenon
    <2> QED BY <1>2, <1>5, <1>7, <2>1, RefersGained, SMTT(60)
  <1>9. Granted(b, id, st, rec)
    BY <1>3, <1>4, <1>5, Zenon DEF Granted
  <1>10. Joining(u, id, st.ref) /\ Alive(b, id)'
    BY <1>1, <1>4, <1>6, <1>9, Acquiring, Zenon
  <1>11. BackInv'
    BY <1>1, <1>2, <1>5, <1>8, <1>10, Gained, Zenon
  <1> QED BY <1>1, <1>7, <1>11, SyncRest, Zenon

LEMMA SyncBackendBooks ==
  ASSUME TypeInv, Books, NEW b \in Backend, SyncBackend(b)
  PROVE  Books'
  <1>1. doing(Upserting, "sync") /\ UNCHANGED <<sids, vipMap, pool>>
    BY Zenon DEF SyncBackend
  <1>2. todo # << >> /\ job.op # "adopt" /\ work.pc = "sync" /\ work \in WorkType
    BY <1>1, SyncFacts, Zenon DEF TypeInv, TypeOK
  <1>3. ASSUME work' = [work EXCEPT !.left = @ \ {b}, !.changed = @ \/ b \notin DOMAIN entry.ids],
               UNCHANGED <<todo, tally>>
        PROVE  Adopted' /\ work'.pc \in {"sync", "idle"} /\ UNCHANGED faults
    <2>1. Adopted'
      BY <1>2, <1>3, Continued DEF Books
    <2>2. work'.pc = work.pc
      BY <1>2, <1>3, Zenon DEF WorkType
    <2> QED BY <1>2, <1>3, <2>1, <2>2, Zenon DEF tally, marks
  <1>4. CASE b \in DOMAIN entry.ids
    <2>1. RewriteInfo(b) /\ Adopted' /\ work'.pc \in {"sync", "idle"} /\ UNCHANGED faults
      BY <1>3, <1>4, Zenon DEF SyncBackend
    <2>2. PICK info : info.name = b /\ backendMap' = Give(backendMap, entry.ids[b], info)
      BY <2>1 DEF RewriteInfo, Info
    <2>3. states' = [states EXCEPT ![entry.ids[b]] = Seen(@)] /\ UNCHANGED <<services, bids, health>>
      BY <2>1, Zenon DEF RewriteInfo
    <2> QED BY <1>1, <1>4, <2>1, <2>2, <2>3, RewriteBooks, Zenon
  <1>5. CASE b \notin DOMAIN entry.ids /\ CanAlloc(bids, b)
    <2>1. AcquireBackend(b) /\ Adopted' /\ work'.pc \in {"sync", "idle"} /\ UNCHANGED faults
      BY <1>3, <1>5 DEF SyncBackend
    <2> QED BY <1>1, <1>5, <2>1, AcquireBooks, Zenon
  <1>6. CASE ~(b \in DOMAIN entry.ids \/ CanAlloc(bids, b))
    <2>1. Fail /\ Unmoved
      BY <1>1, <1>6, Zenon DEF SyncBackend, Unmoved
    <2> QED BY <1>2, <2>1, EndedBooks, Zenon DEF Calm
  <1> QED BY <1>4, <1>5, <1>6

LEMMA SyncBackendFaultBooks ==
  ASSUME TypeInv, Books, NEW b \in Backend, SyncBackendFault(b)
  PROVE  Books'
  <1>1. /\ doing(Upserting, "sync") /\ UNCHANGED <<services, sids, pool, vipMap, health>>
        /\ Fail /\ faults' = faults + 1
    BY Zenon DEF SyncBackendFault, Fault
  <1>2. todo # << >> /\ job.op # "adopt"
    BY <1>1, SyncFacts, Zenon
  <1>3. Adopted' /\ work'.pc \in {"sync", "idle"}
    BY <1>1, <1>2, Ended, Zenon DEF Books
  <1>4. CASE b \in DOMAIN entry.ids
    <2>1. states' = [states EXCEPT ![entry.ids[b]] = Seen(@)] /\ UNCHANGED <<bids, backendMap>>
      BY <1>4, Zenon DEF SyncBackendFault
    <2>2. Info(b, TRUE).name = b
      BY Zenon DEF Info
    <2> QED BY <1>1, <1>3, <1>4, <2>1, <2>2, RewriteBooks, Zenon
  <1>5. CASE b \notin DOMAIN entry.ids
    <2>1. PICK info \in BOOLEAN : AcquireFault(b, info)
      BY <1>5, Zenon DEF SyncBackendFault
    <2> QED BY <1>1, <1>3, <1>5, <2>1, AcquireFaultBooks, Zenon
  <1> QED BY <1>4, <1>5, Zenon

-----------------------------------------------------------------------------
(* Together. *)

\* upsertVIPLocked's work on its backends keeps the invariant.
LEMMA SyncKeeps ==
  ASSUME Inv, NEW b \in Backend, ReleaseGone(b) \/ SyncBackend(b) \/ SyncBackendFault(b)
  PROVE  Inv'
  <1>1. CASE ReleaseGone(b)
    BY <1>1, ReleaseGoneTypes, ReleaseGoneBooks DEF Inv
  <1>2. CASE SyncBackend(b)
    BY <1>2, SyncBackendTypes, SyncBackendBooks, Zenon DEF Inv
  <1>3. CASE SyncBackendFault(b)
    BY <1>3, SyncBackendFaultTypes, SyncBackendFaultBooks DEF Inv
  <1> QED BY <1>1, <1>2, <1>3

=============================================================================
