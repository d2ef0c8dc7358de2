---------------------------- MODULE EntryProofs -----------------------------
(***************************************************************************)
(* The calls, the entry a VIP is given when upsertVIPLocked begins, and    *)
(* removeVIPLocked until the entry is gone, keep the invariants of         *)
(* DataplaneFacts.                                                         *)
(***************************************************************************)
EXTENDS DataplaneCalls, DataplaneSync, DataplaneRemove, DataplaneFacts

-----------------------------------------------------------------------------
(* upsertVIPLocked begins. *)

LEMMA AllocService ==
  ASSUME TypeInv, NEW v \in Key, CanAlloc(sids, v)
  PROVE  /\ WellFormed(Alloc(sids, v)) /\ Alloc(sids, v) \in AllocType(Key, MaxVIPs)
         /\ IdOf(Alloc(sids, v), v) \in ServiceId
  <1>1. /\ WellFormed(Alloc(sids, v)) /\ Alloc(sids, v).max = MaxVIPs
        /\ DOMAIN Alloc(sids, v).ids = DOMAIN sids.ids \cup {v}
        /\ Alloc(sids, v).ids[v] \in 0 .. MaxVIPs - 1
    BY AllocFacts, AllocFields, Zenon DEF TypeInv
  <1>2. Alloc(sids, v) \in AllocType(Key, MaxVIPs)
    BY <1>1, AllocTyped, AllocFields, Zenon
  <1> QED BY <1>1, <1>2, Zenon DEF IdOf, ServiceId

LEMMA ReweighedTyped ==
  ASSUME TypeInv, todo # << >>, job.op \in Upserting
  PROVE  /\ IsPartialMap(Reweighed, Key, EntryType) /\ DOMAIN Reweighed = DOMAIN services
         /\ \A v \in DOMAIN services :
              /\ Reweighed[v].sid = services[v].sid /\ Reweighed[v].up = services[v].up
              /\ Reweighed[v].ids = services[v].ids /\ Reweighed[v].spec = services[v].spec
              /\ Reweighed[v].ext = services[v].ext
  <1>1. IsPartialMap(services, Key, EntryType)
    BY Zenon DEF TypeInv, TypeOK, Key
  <1>2. CASE job.op = "upsert"
    BY <1>1, <1>2, Zenon DEF Reweighed
  <1>3. CASE job.op = "weight"
    <2> DEFINE e == services[job.of]
               over == IF job.w = 0 THEN Drop(e.over, job.b) ELSE Give(e.over, job.b, job.w)
               f == [e EXCEPT !.over = over]
    <2>1. job.b \in Backend /\ job.w \in Weight
      BY <1>3, JobFacts, JobFields, WeightAssumption, Zenon DEF TypeInv
    <2>2. Reweighed = [services EXCEPT ![job.of] = f]
      BY <1>3, Zenon DEF Reweighed
    <2>3. ASSUME job.of \in DOMAIN services
          PROVE  /\ f \in EntryType
                 /\ f.sid = e.sid /\ f.up = e.up /\ f.ids = e.ids /\ f.spec = e.spec
                 /\ f.ext = e.ext
      <3>1. e \in EntryType
        BY <2>3, ServiceTyped, Zenon DEF TypeInv
      <3>2. IsPartialMap(e.over, Backend, Weight)
        BY <3>1, EntryFields, PartialMapIff, Zenon DEF SpecType
      <3>3. IsPartialMap(over, Backend, Weight)
        BY <2>1, <3>2, DropMap, GiveMap, ZenonT(60)
      <3>4. over \in SpecType
        BY <3>3, PartialMapIff, Zenon DEF SpecType
      <3> HIDE DEF over, e
      <3> QED BY <3>1, <3>4, EntryTyped, ZenonT(60) DEF EntryType
    <2> HIDE DEF f, e
    <2>4. IsPartialMap(Reweighed, Key, EntryType)
      BY <1>1, <2>2, <2>3, ExceptMap, Zenon
    <2>5. /\ DOMAIN Reweighed = DOMAIN services
          /\ \A v \in DOMAIN services : Reweighed[v] = IF v = job.of THEN f ELSE services[v]
      BY <1>1, <2>2 DEF IsPartialMap
    <2> QED BY <2>3, <2>4, <2>5, Zenon DEF e
  <1> QED BY <1>2, <1>3, Zenon DEF Upserting

\* An upsert that begins leaves every entry's service id, backends and extent alone;
\* a new entry holds the service id just allocated and has neither of the others.
LEMMA BegunFacts ==
  ASSUME TypeInv, BeginUpsert
  PROVE  /\ todo # << >> /\ job.op \in Upserting /\ job.op \notin {"adopt", "remove"}
         /\ work.pc = "idle" /\ work'.pc \in {"idle", "sync"}
         /\ IsPartialMap(services', Key, EntryType)
         /\ \A v \in DOMAIN services :
              /\ v \in DOMAIN services'
              /\ services'[v].sid = services[v].sid /\ services'[v].up = services[v].up
              /\ services'[v].ids = services[v].ids /\ services'[v].ext = services[v].ext
              /\ services'[v].spec = services[v].spec
         /\ \/ /\ UNCHANGED sids /\ DOMAIN services' = DOMAIN services
               /\ Reject /\ UNCHANGED hist
            \/ /\ CanAlloc(sids, job.v) /\ sids' = Alloc(sids, job.v) /\ job.v \in Key
               /\ DOMAIN services' = DOMAIN services \cup {job.v}
               /\ job.v \notin DOMAIN services =>
                    /\ services'[job.v].sid = sids'.ids[job.v]
                    /\ services'[job.v].ids = Empty /\ services'[job.v].ext = NoExtent
               /\ work' = [Idle EXCEPT !.pc = "sync", !.changed = job.v \notin DOMAIN services,
                                       !.left = DOMAIN given]
               /\ UNCHANGED <<todo, hist>>
  <1>1. todo # << >> /\ job.op \in Upserting /\ job.op \notin {"adopt", "remove"} /\ work.pc = "idle"
    BY Zenon DEF BeginUpsert, doing, Upserting
  <1>2. job.v \in Key
    BY <1>1, GivenTyped, Zenon
  <1>3. /\ IsPartialMap(Reweighed, Key, EntryType) /\ DOMAIN Reweighed = DOMAIN services
        /\ \A v \in DOMAIN services :
             /\ Reweighed[v].sid = services[v].sid /\ Reweighed[v].up = services[v].up
             /\ Reweighed[v].ids = services[v].ids /\ Reweighed[v].ext = services[v].ext
             /\ Reweighed[v].spec = services[v].spec
    BY <1>1, ReweighedTyped, Zenon
  <1>4. CASE given \notin Refused /\ CanAlloc(sids, job.v)
    <2> DEFINE existed == job.v \in DOMAIN services
               e == IF existed THEN Reweighed[job.v] ELSE NewEntry(IdOf(Alloc(sids, job.v), job.v))
               over == [b \in DOMAIN e.over \cap DOMAIN given |-> e.over[b]]
               f == [e EXCEPT !.over = over]
    <2>1. /\ sids' = Alloc(sids, job.v) /\ services' = Give(Reweighed, job.v, f)
          /\ work' = [Idle EXCEPT !.pc = "sync", !.changed = ~existed, !.left = DOMAIN given]
          /\ UNCHANGED <<todo, hist>>
      BY <1>4, Zenon DEF BeginUpsert, tally, marks
    <2>2. e \in EntryType
      BY <1>2, <1>3, <1>4, AllocService, NewEntryTyped, Zenon DEF IsPartialMap
    <2>3. IsPartialMap(e.over, Backend, Weight)
      BY <2>2, EntryFields, PartialMapIff, Zenon DEF SpecType
    <2>4. over \in SpecType
      <3>1. IsPartialMap(over, Backend, Weight)
        BY <2>3, Zenon DEF IsPartialMap
      <3> QED BY <3>1, PartialMapIff, Zenon DEF SpecType
    <2>5. /\ ~existed => /\ e.sid = sids'.ids[job.v] /\ e.ids = Empty /\ e.ext = NoExtent
          /\ existed => e = Reweighed[job.v]
      BY <2>1, Zenon DEF NewEntry, IdOf
    <2> HIDE DEF e, over
    <2>6. /\ f \in EntryType /\ f.sid = e.sid /\ f.up = e.up /\ f.ids = e.ids /\ f.ext = e.ext
          /\ f.spec = e.spec
      BY <2>2, <2>4, EntryTyped, ZenonT(90) DEF EntryType
    <2> HIDE DEF f
    <2>7. IsPartialMap(services', Key, EntryType)
      BY <1>2, <1>3, <2>1, <2>6, GiveMap, Zenon
    <2>8. /\ DOMAIN services' = DOMAIN services \cup {job.v} /\ services'[job.v] = f
          /\ \A v \in DOMAIN services : v # job.v => services'[v] = Reweighed[v]
      BY <1>3, <2>1, Zenon DEF Give
    <2>9. work'.pc = "sync"
      BY <2>1, Zenon DEF Idle
    <2>10. \A v \in DOMAIN services :
             /\ v \in DOMAIN services'
             /\ services'[v].sid = services[v].sid /\ services'[v].up = services[v].up
             /\ services'[v].ids = services[v].ids /\ services'[v].ext = services[v].ext
             /\ services'[v].spec = services[v].spec
      <3> SUFFICES ASSUME NEW v \in DOMAIN services
                   PROVE  /\ v \in DOMAIN services'
                          /\ services'[v].sid = services[v].sid /\ services'[v].up = services[v].up
                          /\ services'[v].ids = services[v].ids /\ services'[v].ext = services[v].ext
                          /\ services'[v].spec = services[v].spec
        BY Zenon
      <3>1. CASE v = job.v
        BY <1>3, <2>5, <2>6, <2>8, <3>1, ZenonT(60)
      <3>2. CASE v # job.v
        BY <1>3, <2>8, <3>2
      <3> QED BY <3>1, <3>2, Zenon
    <2> QED BY <1>1, <1>2, <1>4, <2>1, <2>5, <2>6, <2>7, <2>8, <2>9, <2>10, Zenon
  <1>5. CASE ~(given \notin Refused /\ CanAlloc(sids, job.v))
    <2>1. Reject /\ services' = Reweighed /\ UNCHANGED <<sids, hist>>
      BY <1>5, Zenon DEF BeginUpsert
    <2>2. work'.pc = "idle"
      BY <2>1 DEF Reject, Finish, Idle
    <2> QED BY <1>1, <1>3, <2>1, <2>2, Zenon
  <1> QED BY <1>4, <1>5, Zenon

LEMMA BeginUpsertTypes ==
  ASSUME TypeInv, BeginUpsert
  PROVE  TypeInv'
  <1>1. /\ todo # << >> /\ job.op \in Upserting /\ IsPartialMap(services', Key, EntryType)
        /\ \A v \in DOMAIN services : v \in DOMAIN services' /\ services'[v].spec = services[v].spec
    BY BegunFacts, Zenon
  <1>2. IsPartialMap(given, Backend, Weight) /\ job.v \in Key
        /\ (job.op = "weight" => job.v = Zero \/ job.v \in DOMAIN services)
    BY <1>1, GivenTyped, Zenon
  <1>3. UNCHANGED <<states, bids, pool, unclaimed, maps>>
    BY Zenon DEF BeginUpsert
  <1>4. CASE /\ CanAlloc(sids, job.v) /\ sids' = Alloc(sids, job.v)
             /\ DOMAIN services' = DOMAIN services \cup {job.v}
             /\ work' = [Idle EXCEPT !.pc = "sync", !.changed = job.v \notin DOMAIN services,
                                     !.left = DOMAIN given]
             /\ UNCHANGED <<todo, hist>>
    <2>1. WellFormed(sids') /\ sids' \in AllocType(Key, MaxVIPs)
      BY <1>2, <1>4, AllocService, Zenon
    <2>2. work' \in WorkType /\ work'.pc = "sync" /\ work'.slot = 0 /\ work'.left = DOMAIN given
      <3>1. DOMAIN given \in SUBSET Backend /\ (job.v \notin DOMAIN services) \in BOOLEAN
        BY <1>2, Zenon DEF IsPartialMap
      <3>2. Idle.slot = 0
        BY Zenon DEF Idle
      <3> QED BY <1>4, <3>1, <3>2, IdleTyped, Zenon DEF WorkType
    <2>3. job' = job
      BY <1>4, Zenon DEF job
    <2>4. given' = given
      BY <1>1, <1>2, <1>4, <2>3, Zenon DEF given, entry, Upserting
    <2>5. Placed' /\ Covered' /\ InTable' /\ Claiming'
      BY <1>1, <1>4, <2>2, <2>3, <2>4, Zenon DEF Placed, Covered, InTable, Claiming
    <2>6. Weighing'
      BY <1>1, <1>4, StillWeighing, Zenon
    <2>7. TypeOK'
      BY <1>1, <1>3, <1>4, <2>1, <2>2, Zenon DEF TypeInv, TypeOK, maps, Key
    <2> QED BY <1>3, <2>1, <2>5, <2>6, <2>7, Zenon DEF TypeInv
  <1>5. CASE UNCHANGED sids /\ DOMAIN services' = DOMAIN services /\ Reject /\ UNCHANGED hist
    <2>1. /\ todo' \in Seq(JobType) /\ work' \in WorkType
          /\ Placed' /\ Covered' /\ InTable' /\ Claiming' /\ Weighing'
      BY <1>1, <1>5, Rejected
    <2>2. TypeOK'
      BY <1>1, <1>3, <1>5, <2>1 DEF TypeInv, TypeOK, maps, Key
    <2> QED BY <1>3, <1>5, <2>1, <2>2, Zenon DEF TypeInv
  <1> QED BY <1>4, <1>5, BegunFacts, Zenon

LEMMA BeginUpsertBooks ==
  ASSUME TypeInv, Books, BeginUpsert
  PROVE  Books'
  <1>1. /\ todo # << >> /\ job.op # "adopt" /\ work.pc = "idle"
        /\ \A v \in DOMAIN services :
             /\ v \in DOMAIN services'
             /\ services'[v].sid = services[v].sid /\ services'[v].up = services[v].up
             /\ services'[v].ids = services[v].ids /\ services'[v].ext = services[v].ext
    BY BegunFacts, Zenon
  <1>2. UNCHANGED <<states, bids, pool, vipMap, backendMap, health, faults>>
    BY Zenon DEF BeginUpsert, maps, tally, marks
  <1>3. CASE UNCHANGED sids /\ DOMAIN services' = DOMAIN services /\ Reject
    <2>1. Unmoved
      BY <1>1, <1>2, <1>3, Zenon DEF Unmoved
    <2> QED BY <1>1, <1>3, <2>1, EndedBooks, Zenon DEF Calm
  <1>4. CASE /\ CanAlloc(sids, job.v) /\ sids' = Alloc(sids, job.v)
             /\ DOMAIN services' = DOMAIN services \cup {job.v}
             /\ job.v \notin DOMAIN services =>
                  /\ services'[job.v].sid = sids'.ids[job.v]
                  /\ services'[job.v].ids = Empty /\ services'[job.v].ext = NoExtent
             /\ UNCHANGED todo /\ work'.pc = "sync"
    <2>1. /\ DOMAIN sids'.ids = DOMAIN sids.ids \cup {job.v}
          /\ \A k \in DOMAIN sids.ids : sids'.ids[k] = sids.ids[k]
      BY <1>4, AllocFacts DEF TypeInv
    <2>2. IdsInv'
      <3>1. Owned'
        BY <1>1, <1>4, <2>1 DEF Books, IdsInv, Owned
      <3>2. Adopted'
        BY <1>1, <1>4, Continued, Zenon DEF Books
      <3> QED BY <1>1, <1>2, <1>4, <3>1, <3>2, PlainStep, Zenon DEF Books
    <2>3. TableInv'
      BY <1>1, <1>2, <1>4, TableKept, Unpending, Zenon DEF Books
    <2>4. BackInv'
      <3>1. DOMAIN Empty = {}
        BY Zenon DEF Empty
      <3>2. \A v, b, id : Refers(v, b, id)' <=> Refers(v, b, id)
        BY <1>1, <1>4, <3>1, RefersPlain
      <3>3. Dropping' /\ Claimed'
        BY <1>4, Zenon DEF Dropping, Claimed
      <3> QED BY <1>2, <3>2, <3>3, BackKept, Zenon DEF Books
    <2> QED BY <2>2, <2>3, <2>4, Zenon DEF Books
  <1> QED BY <1>3, <1>4, BegunFacts, Zenon DEF Idle

-----------------------------------------------------------------------------
(* removeVIPLocked. *)

LEMMA RemoveFacts ==
  ASSUME TypeInv, NEW pc \in {"drop", "zero"}, doing({"remove"}, pc)
  PROVE  /\ todo # << >> /\ job.op = "remove" /\ work.pc = pc
         /\ job.v \in DOMAIN services /\ job.v \in Key
         /\ entry = services[job.v] /\ entry \in EntryType
  <1>1. todo # << >> /\ job.op = "remove" /\ work.pc = pc /\ job.v \in DOMAIN services
    BY DEF TypeInv, Placed, doing
  <1> QED BY <1>1, ServiceTyped DEF TypeInv, entry

LEMMA RemoveStages ==
  ASSUME TypeInv, todo # << >>, job.op = "remove", job.v \in DOMAIN services,
         UNCHANGED <<todo, services>>, work'.pc \in {"drop", "zero"}
  PROVE  Placed' /\ Covered' /\ InTable' /\ Claiming' /\ Weighing'
  <1>1. job' = job
    BY DEF job
  <1> QED BY <1>1, StillWeighing DEF Placed, Covered, InTable, Claiming

LEMMA BeginRemoveTypes ==
  ASSUME TypeInv, BeginRemove
  PROVE  TypeInv'
  <1>1. todo # << >> /\ job.op = "remove"
    BY Zenon DEF BeginRemove, doing
  <1>2. UNCHANGED <<services, states, sids, bids, pool, unclaimed,
                    vipMap, svcMap, maglev, backendMap, health, hist>>
    BY Zenon DEF BeginRemove, memory, maps, tally, marks
  <1>3. CASE job.v \in DOMAIN services
    <2>1. work' = [Idle EXCEPT !.pc = "drop", !.left = DOMAIN entry.ids] /\ UNCHANGED todo
      BY <1>3, Zenon DEF BeginRemove
    <2>2. entry \in EntryType
      BY <1>3, ServiceTyped, Zenon DEF TypeInv, entry
    <2>3. DOMAIN entry.ids \in SUBSET Backend
      BY <2>2, EntryFields, PartialMapIff DEF IsPartialMap
    <2>4. work' \in WorkType /\ work'.pc = "drop"
      BY <2>1, <2>3, IdleTyped, Zenon DEF WorkType
    <2>5. Placed' /\ Covered' /\ InTable' /\ Claiming' /\ Weighing'
      BY <1>1, <1>2, <1>3, <2>1, <2>4, RemoveStages, Zenon
    <2>6. TypeOK'
      BY <1>2, <2>1, <2>4 DEF TypeInv, TypeOK
    <2> QED BY <1>2, <2>5, <2>6, Zenon DEF TypeInv
  <1>4. CASE job.v \notin DOMAIN services
    <2>1. /\ todo' \in Seq(JobType) /\ work' \in WorkType
          /\ Placed' /\ Covered' /\ InTable' /\ Claiming' /\ Weighing'
      BY <1>1, <1>2, <1>4, Finished, ZenonT(90) DEF BeginRemove
    <2>2. TypeOK'
      BY <1>2, <2>1 DEF TypeInv, TypeOK
    <2> QED BY <1>2, <2>1, <2>2, Zenon DEF TypeInv
  <1> QED BY <1>3, <1>4, Zenon

LEMMA DropBackendTypes ==
  ASSUME TypeInv, NEW b, DropBackend(b)
  PROVE  TypeInv'
  <1>1. doing({"remove"}, "drop") /\ ReleaseBackend(b, entry.ids[b])
    BY Zenon DEF DropBackend
  <1>2. /\ todo # << >> /\ job.op = "remove" /\ work.pc = "drop" /\ job.v \in DOMAIN services
    BY <1>1, RemoveFacts, Zenon
  <1>3. UNCHANGED <<services, sids, pool, unclaimed, todo, vipMap, svcMap, maglev, hist>>
    BY Zenon DEF DropBackend, tally, marks
  <1>4. work' \in WorkType /\ work'.pc = "drop"
    <2>1. work \in WorkType /\ work' = [work EXCEPT !.left = @ \ {b}]
      BY Zenon DEF DropBackend, TypeInv, TypeOK
    <2> QED BY <1>2, <2>1, Zenon DEF WorkType
  <1>5. Placed' /\ Covered' /\ InTable' /\ Claiming' /\ Weighing'
    BY <1>2, <1>3, <1>4, RemoveStages, Zenon
  <1>6. /\ IsPartialMap(states', BackendId, StateType)
        /\ IsPartialMap(backendMap', BackendId, [name : Backend, mac : BOOLEAN])
        /\ health' \in [BackendId -> {"down", "healthy", "draining"}]
        /\ WellFormed(bids') /\ bids' \in AllocType(Backend, MaxBackends)
    BY <1>1, ReleaseTyped, Zenon
  <1>7. TypeOK'
    BY <1>3, <1>4, <1>6 DEF TypeInv, TypeOK
  <1> QED BY <1>3, <1>5, <1>6, <1>7, Zenon DEF TypeInv

LEMMA DeleteVipTypes ==
  ASSUME TypeInv, DeleteVip
  PROVE  TypeInv'
  <1>1. doing({"remove"}, "drop")
    BY Zenon DEF DeleteVip
  <1>2. /\ todo # << >> /\ job.op = "remove" /\ work.pc = "drop" /\ job.v \in DOMAIN services
    BY <1>1, RemoveFacts
  <1>3. UNCHANGED <<services, states, sids, bids, pool, todo, svcMap, maglev, backendMap, health, hist>>
    BY Zenon DEF DeleteVip, tally, marks
  <1>4. work' \in WorkType /\ work'.pc = "zero"
    <2>1. work \in WorkType /\ work' = [work EXCEPT !.pc = "zero"]
      BY Zenon DEF DeleteVip, TypeInv, TypeOK
    <2> QED BY <2>1, SMTT(60) DEF WorkType
  <1>5. IsPartialMap(vipMap', Vip, ServiceId) /\ unclaimed' \subseteq Key
    BY DropMap, Zenon DEF DeleteVip, TypeInv, TypeOK, Key
  <1>6. Placed' /\ Covered' /\ InTable' /\ Claiming' /\ Weighing'
    BY <1>2, <1>3, <1>4, RemoveStages
  <1>7. TypeOK'
    BY <1>3, <1>4, <1>5 DEF TypeInv, TypeOK, Key
  <1> QED BY <1>3, <1>6, <1>7, Zenon DEF TypeInv

LEMMA ZeroServiceTypes ==
  ASSUME TypeInv, ZeroService
  PROVE  TypeInv'
  <1>1. doing({"remove"}, "zero")
    BY Zenon DEF ZeroService
  <1>2. todo # << >> /\ job.op = "remove" /\ entry \in EntryType
    BY <1>1, RemoveFacts, Zenon
  <1>3. UNCHANGED <<states, bids, unclaimed, vipMap, maglev, backendMap, health>>
    BY DEF ZeroService
  <1>4. svcMap' \in [ServiceId -> ExtentType] /\ hist' \in HistType
    BY NoExtentTyped, ZenonT(90) DEF ZeroService, TypeInv, TypeOK, HistType, Key
  <1>5. pool' \subseteq Slot
    <2>1. Slots(entry.ext) \subseteq Slot
      BY <1>2, EntryFields, ExtentFields, Zenon
    <2> QED BY <2>1, Zenon DEF ZeroService, TypeInv, TypeOK
  <1>6. IsPartialMap(services', Key, EntryType)
    BY DropMap, Zenon DEF ZeroService, TypeInv, TypeOK, Key
  <1>7. WellFormed(sids') /\ sids' \in AllocType(Key, MaxVIPs)
    <2>1. WellFormed(sids') /\ sids'.max = MaxVIPs /\ DOMAIN sids'.ids \subseteq Key
      <3>1. WellFormed(sids) /\ sids' = Release(sids, job.v) /\ sids.max = MaxVIPs /\ DOMAIN sids.ids \subseteq Key
        BY AllocFields, Zenon DEF ZeroService, TypeInv
      <3> QED BY <3>1, ReleaseFacts
    <2> QED BY <2>1, AllocTyped, Zenon
  <1>8. /\ todo' \in Seq(JobType) /\ work' \in WorkType
        /\ Placed' /\ Covered' /\ InTable' /\ Claiming' /\ Weighing'
    BY <1>2, Finished, ZenonT(90) DEF ZeroService
  <1>9. TypeOK'
    BY <1>3, <1>4, <1>5, <1>6, <1>7, <1>8 DEF TypeInv, TypeOK, HistType, Key
  <1> QED BY <1>3, <1>7, <1>8, <1>9, Zenon DEF TypeInv

\* While a VIP is being removed its references are the ones still to be given up.
LEMMA RefersLeft ==
  /\ doing({"remove"}, "drop") => \A v, b, id :
       Refers(v, b, id) <=>
         /\ v \in DOMAIN services /\ b \in (IF v = job.v THEN work.left ELSE DOMAIN services[v].ids)
         /\ services[v].ids[b] = id
  /\ doing({"remove"}, "drop")' => \A v, b, id :
       Refers(v, b, id)' <=>
         /\ v \in DOMAIN services' /\ b \in (IF v = job'.v THEN work'.left ELSE DOMAIN services'[v].ids)
         /\ services'[v].ids[b] = id
  /\ doing({"remove"}, "zero") => \A v, b, id :
       Refers(v, b, id) <=>
         v \in DOMAIN services \ {job.v} /\ b \in DOMAIN services[v].ids /\ services[v].ids[b] = id
  /\ doing({"remove"}, "zero")' => \A v, b, id :
       Refers(v, b, id)' <=>
         v \in DOMAIN services' \ {job'.v} /\ b \in DOMAIN services'[v].ids /\ services'[v].ids[b] = id
  BY DEF Refers, Refs, doing

LEMMA BeginRemoveBooks ==
  ASSUME TypeInv, Books, BeginRemove
  PROVE  Books'
  <1>1. /\ todo # << >> /\ job.op = "remove" /\ work.pc = "idle"
        /\ UNCHANGED <<services, sids, bids, states, pool, vipMap, backendMap, health, faults>>
    BY Zenon DEF BeginRemove, doing, memory, maps, tally, marks
  <1>2. CASE job.v \in DOMAIN services
    <2>1. UNCHANGED todo /\ work' = [Idle EXCEPT !.pc = "drop", !.left = DOMAIN entry.ids]
      BY <1>2, Zenon DEF BeginRemove
    <2>2. work'.pc = "drop" /\ work'.left = DOMAIN entry.ids /\ job' = job /\ entry' = entry
      BY <1>1, <2>1, Zenon DEF Idle, job, entry
    <2>3. Adopted'
      BY <1>1, <2>1, Continued, Zenon DEF Books
    <2>4. IdsInv'
      BY <1>1, <2>2, <2>3, SameIds, Zenon DEF Books
    <2>5. TableInv'
      BY <1>1, <2>2, TableKept, Unpending, Zenon DEF Books
    <2>6. doing({"remove"}, "drop")'
      BY <1>1, <2>1, <2>2, Zenon DEF doing
    <2>7. \A v, b, id : Refers(v, b, id)' <=> Refers(v, b, id)
      BY <1>1, <2>2, <2>6, RefersPlain, RefersLeft DEF entry
    <2>8. BackInv'
      <3>1. UNCHANGED <<states, bids, backendMap, health>> /\ Dropping' /\ Claimed' /\ BackInv
        BY <1>1, <2>2, Zenon DEF Dropping, Claimed, Books
      <3> QED BY <1>1, <2>7, <3>1, BackKept, Zenon
    <2> QED BY <2>4, <2>5, <2>8, Zenon DEF Books
  <1>3. CASE job.v \notin DOMAIN services
    <2>1. Finish(Tail(todo)) /\ Unmoved
      BY <1>1, <1>3 DEF BeginRemove, Unmoved
    <2> QED BY <1>1, <2>1, EndedBooks, Zenon DEF Calm
  <1> QED BY <1>2, <1>3, Zenon

LEMMA DropBackendBooks ==
  ASSUME TypeInv, Books, NEW b, DropBackend(b)
  PROVE  Books'
  <1>1. /\ doing({"remove"}, "drop") /\ b \in work.left /\ ReleaseBackend(b, entry.ids[b])
        /\ work' = [work EXCEPT !.left = @ \ {b}]
        /\ UNCHANGED <<services, sids, pool, todo, vipMap, faults>>
    BY Zenon DEF DropBackend, tally, marks
  <1>2. /\ todo # << >> /\ job.op # "adopt" /\ work.pc = "drop" /\ job.v \in DOMAIN services
        /\ entry = services[job.v] /\ work \in WorkType
    BY <1>1, RemoveFacts, Zenon DEF TypeInv, TypeOK
  <1>3. work'.pc = "drop" /\ work'.left = work.left \ {b} /\ job' = job /\ entry' = entry
    BY <1>1, <1>2, Zenon DEF WorkType, job, entry
  <1>4. Adopted'
    BY <1>1, <1>2, Continued, Zenon DEF Books
  <1>5. IdsInv'
    BY <1>1, <1>2, <1>3, <1>4, SameIds, Zenon DEF Books
  <1>6. TableInv'
    BY <1>1, <1>2, <1>3, TableKept, Unpending, Zenon DEF Books
  <1>7. BackInv'
    <2>1. doing({"remove"}, "drop")'
      BY <1>1, <1>3, Zenon DEF doing
    <2>2. \A v, c, i :
            /\ Refers(v, c, i) <=>
                 /\ v \in DOMAIN services /\ c \in (IF v = job.v THEN work.left ELSE DOMAIN services[v].ids)
                 /\ services[v].ids[c] = i
            /\ Refers(v, c, i)' <=>
                 /\ v \in DOMAIN services
                 /\ c \in (IF v = job.v THEN work.left \ {b} ELSE DOMAIN services[v].ids)
                 /\ services[v].ids[c] = i
      BY <1>1, <1>3, <2>1, RefersLeft
    <2>3. \A v, c, i : Refers(v, c, i)' <=> Refers(v, c, i) /\ ~(v = job.v /\ c = b)
      BY <2>2, Zenon
    <2>4. Refers(job.v, b, entry.ids[b])
      BY <1>1, <1>2, <2>2
    <2>5. Dropping' /\ Claimed' /\ BackInv
      BY <1>2, <1>3 DEF Dropping, Claimed, Books, BackInv
    <2> QED BY <1>1, <1>2, <2>3, <2>4, <2>5, Released, Zenon
  <1> QED BY <1>5, <1>6, <1>7, Zenon DEF Books

\* An entry that does not know its address is not in vip_map.
LEMMA DeleteVipBooks ==
  ASSUME TypeInv, Books, DeleteVip
  PROVE  Books'
  <1>1. /\ doing({"remove"}, "drop") /\ work.left = {} /\ work' = [work EXCEPT !.pc = "zero"]
        /\ UNCHANGED <<services, states, sids, bids, pool, todo, backendMap, health, faults>>
    BY Zenon DEF DeleteVip, tally, marks
  <1>2. /\ todo # << >> /\ job.op # "adopt" /\ work.pc = "drop" /\ job.v \in DOMAIN services
        /\ entry = services[job.v] /\ work \in WorkType /\ IdsInv /\ TableInv /\ BackInv
    BY <1>1, RemoveFacts, Zenon DEF TypeInv, TypeOK, Books
  <1>3. Adopted /\ DOMAIN vipMap \subseteq DOMAIN services
    BY <1>2, OnceAdopted, Zenon
  <1>4. work'.pc = "zero" /\ job' = job
    BY <1>1, <1>2, Zenon DEF WorkType, job
  <1>5. /\ DOMAIN vipMap' = DOMAIN vipMap \ {job.v}
        /\ \A w \in DOMAIN vipMap' : vipMap'[w] = vipMap[w]
    <2>1. CASE entry.up
      BY <2>1, Zenon DEF DeleteVip, Drop
    <2>2. CASE ~entry.up
      <3>1. job.v \notin DOMAIN vipMap
        BY <1>2, <2>2, Zenon DEF IdsInv, Matched
      <3> QED BY <2>2, <3>1, Zenon DEF DeleteVip
    <2> QED BY <2>1, <2>2, Zenon
  <1>6. Owned' /\ Distinct' /\ Matched' /\ Known' /\ Adopting'
    BY <1>1, <1>2, <1>3, <1>5, ZenonT(60) DEF IdsInv, Owned, Distinct, Matched, Known, Adopting, Adopted
  <1>7. Midway'
    BY <1>4, <1>5, Zenon DEF Midway
  <1>8. TableInv'
    BY <1>1, <1>2, <1>4, TableKept, Unpending, Zenon
  <1>9. BackInv'
    <2>1. doing({"remove"}, "zero")'
      BY <1>1, <1>4, Zenon DEF doing
    <2>2. \A v, b, id : Refers(v, b, id)' <=> Refers(v, b, id)
      BY <1>1, <1>4, <2>1, RefersLeft
    <2>3. UNCHANGED <<states, bids, backendMap, health>> /\ Dropping' /\ Claimed'
      BY <1>1, <1>4 DEF Dropping, Claimed
    <2> QED BY <1>1, <1>2, <2>2, <2>3, BackKept, Zenon
  <1> QED BY <1>6, <1>7, <1>8, <1>9, Zenon DEF Books, IdsInv

LEMMA ZeroServiceBooks ==
  ASSUME TypeInv, Books, ZeroService
  PROVE  Books'
  <1>1. /\ doing({"remove"}, "zero") /\ pool' = pool \cup Slots(entry.ext)
        /\ UNCHANGED <<states, bids, vipMap, backendMap, health, faults>>
    BY Zenon DEF ZeroService
  <1>2. /\ todo # << >> /\ job.op # "adopt" /\ work.pc = "zero" /\ job.v \in DOMAIN services
        /\ entry = services[job.v] /\ IdsInv /\ TableInv /\ BackInv
    BY <1>1, RemoveFacts, Zenon DEF Books
  <1>3. Adopted /\ DOMAIN vipMap \subseteq DOMAIN services /\ job.v \notin DOMAIN vipMap
    BY <1>2, OnceAdopted, Zenon DEF IdsInv, Midway
  <1>4. Adopted' /\ work'.pc = "idle"
    BY <1>2, Ended, Zenon DEF ZeroService
  <1>5. /\ DOMAIN services' = DOMAIN services \ {job.v}
        /\ \A w \in DOMAIN services' : services'[w] = services[w]
    BY Zenon DEF ZeroService, Drop
  <1>6. /\ DOMAIN sids'.ids = DOMAIN sids.ids \ {job.v}
        /\ \A k \in DOMAIN sids.ids \ {job.v} : sids'.ids[k] = sids.ids[k]
    BY ReleaseFacts DEF ZeroService, TypeInv
  <1>7. Owned'
    BY <1>2, <1>5, <1>6, Zenon DEF IdsInv, Owned
  <1>8. Distinct' /\ Matched' /\ Known'
    BY <1>1, <1>2, <1>3, <1>5 DEF IdsInv, Distinct, Matched, Known
  <1>9. Adopting' /\ Midway'
    BY <1>4, Zenon DEF Adopted, Adopting, Midway
  <1>10. TableInv'
    <2>1. Pending = {} /\ Pending' = {}
      BY <1>2, <1>4, Unpending, Zenon
    <2> QED BY <1>1, <1>2, <1>5, <2>1, Zenon DEF TableInv
  <1>11. BackInv'
    <2>1. \A v, b, id : Refers(v, b, id)' <=> Refers(v, b, id)
      BY <1>1, <1>4, <1>5, RefersPlain, RefersLeft
    <2>2. UNCHANGED <<states, bids, backendMap, health>> /\ Dropping' /\ Claimed'
      BY <1>1, <1>4 DEF Dropping, Claimed
    <2> QED BY <1>1, <1>2, <2>1, <2>2, BackKept, Zenon
  <1> QED BY <1>7, <1>8, <1>9, <1>10, <1>11, Zenon DEF Books, IdsInv

-----------------------------------------------------------------------------
(* The operations, as their caller starts them. *)

LEMMA CallStep ==
  ASSUME Inv, MuFree, UNCHANGED <<memory, work, maps, hist, faults>>,
         todo' \in Seq(JobType), Weighing', Adopted'
  PROVE  Inv'
  <1>1. TypeOK'
    BY DEF Inv, TypeInv, TypeOK, memory, maps
  <1>2. Placed' /\ Covered' /\ InTable' /\ Claiming'
    BY IdleStages, Zenon DEF MuFree
  <1>3. Unmoved
    BY DEF Unmoved, memory, maps
  <1>4. Books'
    BY <1>3, UnmovedBooks DEF Inv, MuFree, Calm
  <1> QED BY <1>1, <1>2, <1>4, Zenon DEF Inv, TypeInv, memory

LEMMA PlainCall ==
  ASSUME Inv, MuFree, UNCHANGED <<memory, work, maps, hist, faults>>, todo' \in Seq(PlainJobs)
  PROVE  Inv'
  BY CallStep, PlainQueue, PlainAdopted

LEMMA SingleCall ==
  ASSUME Inv, NEW v \in Vip, RemoveVIP(v) \/ \E spec \in Specs : UpsertVIP(v, spec)
  PROVE  Inv'
  <1>1. PICK j \in PlainJobs : todo' = <<j>>
    BY PlainOnes DEF UpsertVIP, RemoveVIP, Key
  <1>2. MuFree /\ UNCHANGED <<memory, work, maps, hist, faults>>
    BY DEF UpsertVIP, RemoveVIP, Called, marks
  <1> QED BY <1>1, <1>2, PlainCall

LEMMA PruneCall ==
  ASSUME Inv, PruneUnclaimed
  PROVE  Inv'
  <1>1. unclaimed \in SUBSET Key
    BY Zenon DEF Inv, TypeInv, TypeOK, Key
  <1>2. todo' \in Seq(PlainJobs)
    BY <1>1, Removals DEF PruneUnclaimed, Inv
  <1>3. MuFree /\ UNCHANGED <<memory, work, maps, hist, faults>>
    BY DEF PruneUnclaimed, Called, marks
  <1> QED BY <1>2, <1>3, PlainCall, Zenon

LEMMA ReloadCall ==
  ASSUME Inv, NEW config \in Configs, ReloadVIPs(config)
  PROVE  Inv'
  <1>1. config \in PartialMap(Vip, Specs)
    BY WeightAssumption, Zenon
  <1>2. todo' \in Seq(PlainJobs)
    BY <1>1, ReloadJobs, Zenon DEF ReloadVIPs, Inv
  <1>3. MuFree /\ UNCHANGED <<memory, work, maps, hist, faults>>
    BY DEF ReloadVIPs, Called
  <1> QED BY <1>2, <1>3, PlainCall, Zenon

LEMMA WeightJobs ==
  ASSUME TypeInv, NEW id, NEW scope \in SUBSET Vip, NEW w \in Overrides,
         SetBackendWeight(id, scope, w)
  PROVE  /\ todo' \in Seq(JobType)
         /\ \A i \in 1 .. Len(todo') :
              todo'[i].op = "weight" /\ (todo'[i].v = Zero \/ todo'[i].v \in DOMAIN services)
  <1> DEFINE T == Targets(id, scope)
  <1>1. /\ T \subseteq Vip /\ T \subseteq DOMAIN services /\ T \in SUBSET Key
        /\ \A v \in T : id \in Image(services[v].ids)
    BY Zenon DEF Targets, Key
  <1>2. PICK order \in Listings(T) :
          todo' = [i \in DOMAIN order |-> Reweigh(KeyOf(order[i]), order[i], NameOf(order[i], id), w)]
    BY Zenon DEF SetBackendWeight
  <1> HIDE DEF T
  <1>3. Len(order) \in Nat /\ DOMAIN order = 1 .. Len(order) /\ \A i \in 1 .. Len(order) : order[i] \in T
    BY <1>1, ListingFacts, Zenon
  <1>4. \A v \in T : NameOf(v, id) \in Backend
    <2> SUFFICES ASSUME NEW v \in T PROVE NameOf(v, id) \in Backend
      BY Zenon
    <2>1. IsPartialMap(services[v].ids, Backend, BackendId)
      BY <1>1, ServiceTyped, EntryFields, PartialMapIff, Zenon DEF TypeInv
    <2>2. \E b \in DOMAIN services[v].ids : services[v].ids[b] = id
      BY <1>1, Zenon DEF Image
    <2> QED BY <2>1, <2>2, Zenon DEF NameOf, IsPartialMap
  <1>5. \A v \in T : KeyOf(v) \in Key /\ v \in Key /\ (KeyOf(v) = Zero \/ KeyOf(v) \in DOMAIN services)
    BY <1>1, Zenon DEF KeyOf, Key
  <1>6. \A i \in 1 .. Len(order) :
          /\ todo'[i] \in JobType /\ todo'[i].op = "weight"
          /\ todo'[i].v = Zero \/ todo'[i].v \in DOMAIN services
    <2> SUFFICES ASSUME NEW i \in 1 .. Len(order)
                 PROVE  /\ todo'[i] \in JobType /\ todo'[i].op = "weight"
                        /\ todo'[i].v = Zero \/ todo'[i].v \in DOMAIN services
      BY Zenon
    <2>1. todo'[i] = Reweigh(KeyOf(order[i]), order[i], NameOf(order[i], id), w)
      BY <1>2, <1>3, Zenon
    <2>2. todo'[i] \in JobType
      <3>1. KeyOf(order[i]) \in Key /\ order[i] \in Key /\ NameOf(order[i], id) \in Backend
        BY <1>3, <1>4, <1>5, Zenon
      <3> QED BY <2>1, <3>1, JobsTyped, Zenon
    <2>3. todo'[i].op = "weight" /\ todo'[i].v = KeyOf(order[i])
      BY <2>1 DEF Reweigh
    <2> QED BY <1>3, <1>5, <2>2, <2>3, Zenon
  <1>7. todo' \in [1 .. Len(order) -> JobType]
    <2>1. DOMAIN todo' = 1 .. Len(order) /\ todo' = [i \in 1 .. Len(order) |-> todo'[i]]
      BY <1>2, <1>3
    <2> QED BY <1>6, <2>1
  <1> QED BY <1>3, <1>6, <1>7, SeqOf, Zenon

LEMMA WeightCall ==
  ASSUME Inv, NEW id, NEW scope \in SUBSET Vip, NEW w \in Overrides,
         SetBackendWeight(id, scope, w)
  PROVE  Inv'
  <1>1. MuFree /\ UNCHANGED <<memory, work, maps, hist, faults>>
    BY Zenon DEF SetBackendWeight, Called, marks
  <1>2. /\ todo' \in Seq(JobType)
        /\ \A i \in 1 .. Len(todo') :
             todo'[i].op = "weight" /\ (todo'[i].v = Zero \/ todo'[i].v \in DOMAIN services)
    BY WeightJobs, Zenon DEF Inv
  <1>3. Weighing' /\ Adopted'
    <2>1. services' = services
      BY <1>1 DEF memory
    <2> QED BY <1>2, <2>1, Zenon DEF Weighing, Adopted
  <1> QED BY <1>1, <1>2, <1>3, CallStep, Zenon

\* A signal changes neither a backend's name nor its references.
LEMMA SignalStep ==
  ASSUME Inv, MuFree, NEW id \in DOMAIN states, NEW st \in StateType, Signal(id, st),
         st.name = states[id].name, st.ref = states[id].ref
  PROVE  Inv'
  <1>1. /\ IsPartialMap(states, BackendId, StateType) /\ states' = [states EXCEPT ![id] = st]
        /\ health \in [BackendId -> {"down", "healthy", "draining"}]
        /\ health' = [health EXCEPT ![id] = HealthOf(st)]
    BY DEF Inv, TypeInv, TypeOK, Signal
  <1>2. IsPartialMap(states', BackendId, StateType)
    BY <1>1, ExceptMap, Zenon
  <1>3. health' \in [BackendId -> {"down", "healthy", "draining"}]
    BY <1>1, HealthTyped, Zenon
  <1>4. /\ UNCHANGED <<services, sids, bids, pool, unclaimed, todo, work,
                       vipMap, svcMap, maglev, backendMap, hist, faults>>
    BY Zenon DEF Signal, marks
  <1>5. TypeOK'
    BY <1>2, <1>3, <1>4, Zenon DEF Inv, TypeInv, TypeOK
  <1>6. Placed' /\ Covered' /\ InTable' /\ Claiming'
    BY <1>4, IdleStages DEF MuFree
  <1>7. Weighing' /\ Adopted'
    BY <1>4 DEF Inv, TypeInv, Weighing, MuFree, Adopted
  <1>8. work.pc = "idle" /\ work'.pc = "idle" /\ todo = << >>
    BY <1>4 DEF MuFree
  <1>9. IdsInv'
    BY <1>4, <1>7, <1>8, SameIds, Zenon DEF Inv, Books
  <1>10. TableInv'
    BY <1>4, <1>8, TableKept, Unpending, Zenon DEF Inv, Books
  <1>11. BackInv'
    <2>1. Live /\ Named /\ Counted
      BY DEF Inv, Books, BackInv
    <2>2. /\ DOMAIN states' = DOMAIN states
          /\ \A i \in DOMAIN states :
               /\ states'[i].name = states[i].name /\ states'[i].ref = states[i].ref
               /\ health[i] = HealthOf(states[i]) => health'[i] = HealthOf(states'[i])
      <3>1. states = [i \in DOMAIN states |-> states[i]] /\ DOMAIN states \subseteq BackendId
        BY <1>1 DEF IsPartialMap
      <3> QED BY <1>1, <3>1
    <2>3. /\ \A v, b, i : Refers(v, b, i)' <=> Refers(v, b, i)
          /\ \A i : Referrers(i)' = Referrers(i)
      <3>1. \A v, b, i : Refers(v, b, i)' <=> Refers(v, b, i)
        BY <1>4, <1>8, RefersPlain
      <3> QED BY <3>1, Referring, SMTT(60)
    <2>4. Live'
      BY <1>4, <2>1, <2>2, <2>3 DEF Live, Alive
    <2>5. Named' /\ Counted'
      BY <1>4, <2>1, <2>2, <2>3 DEF Named, Counted
    <2> QED BY <1>8, <2>4, <2>5, Zenon DEF BackInv, Dropping, Claimed
  <1> QED BY <1>4, <1>5, <1>6, <1>7, <1>9, <1>10, <1>11, Zenon DEF Inv, TypeInv, Books

LEMMA SignalCall ==
  ASSUME Inv, NEW id, NEW v, NEW b, NEW on \in BOOLEAN,
         \/ SetBackendHealth(id, on)
         \/ SetBackendAdminDraining(id, on)
         \/ SetBackendDrainingByKey(v, b, on)
  PROVE  Inv'
  <1>1. ASSUME NEW i \in DOMAIN states, MuFree, NEW st,
               st \in {[states[i] EXCEPT !.probe = on], [states[i] EXCEPT !.drain = on],
                       [states[i] EXCEPT !.admin = on]}, Signal(i, st)
        PROVE  Inv'
    <2>1. states[i] \in StateType
      BY DEF Inv, TypeInv, TypeOK, IsPartialMap
    <2>2. st \in StateType /\ st.name = states[i].name /\ st.ref = states[i].ref
      BY <1>1, <2>1 DEF StateType
    <2> QED BY <1>1, <2>2, SignalStep, Zenon
  <1>2. CASE SetBackendHealth(id, on)
    BY <1>1, <1>2 DEF SetBackendHealth, Called
  <1>3. CASE SetBackendAdminDraining(id, on)
    BY <1>1, <1>3 DEF SetBackendAdminDraining, Called
  <1>4. CASE SetBackendDrainingByKey(v, b, on)
    BY <1>1, <1>4 DEF SetBackendDrainingByKey, Called
  <1> QED BY <1>2, <1>3, <1>4

LEMMA CallKeeps ==
  ASSUME Inv, Call
  PROVE  Inv'
  <1>1. ASSUME NEW v \in Vip, RemoveVIP(v) \/ \E s \in Specs : UpsertVIP(v, s) PROVE Inv'
    BY <1>1, SingleCall
  <1>2. ASSUME NEW config \in Configs, ReloadVIPs(config) PROVE Inv'
    BY <1>2, ReloadCall
  <1>3. ASSUME NEW id \in BackendId, NEW scope \in {Vip} \cup {{v} : v \in Vip},
               NEW w \in Overrides, SetBackendWeight(id, scope, w)
        PROVE  Inv'
    BY <1>3, WeightCall, Zenon
  <1>4. ASSUME NEW id \in BackendId, NEW on \in BOOLEAN,
               SetBackendHealth(id, on) \/ SetBackendAdminDraining(id, on)
        PROVE  Inv'
    BY <1>4, SignalCall
  <1>5. ASSUME NEW v \in Vip, NEW b \in Backend, SetBackendDrainingByKey(v, b, TRUE)
        PROVE  Inv'
    BY <1>5, SignalCall, Zenon
  <1> QED BY <1>1, <1>2, <1>3, <1>4, <1>5, PruneCall, Zenon DEF Call

-----------------------------------------------------------------------------
(* Together. *)

\* upsertVIPLocked's first step, and all of removeVIPLocked, keep the invariant.
LEMMA EntryKeeps ==
  ASSUME Inv, \/ BeginUpsert \/ BeginRemove \/ DeleteVip \/ ZeroService
              \/ \E b \in Backend : DropBackend(b)
  PROVE  Inv'
  <1>1. CASE BeginUpsert
    BY <1>1, BeginUpsertTypes, BeginUpsertBooks, Zenon DEF Inv
  <1>2. CASE BeginRemove
    BY <1>2, BeginRemoveTypes, BeginRemoveBooks, Zenon DEF Inv
  <1>3. CASE DeleteVip
    BY <1>3, DeleteVipTypes, DeleteVipBooks, Zenon DEF Inv
  <1>4. CASE ZeroService
    BY <1>4, ZeroServiceTypes, ZeroServiceBooks, Zenon DEF Inv
  <1>5. ASSUME NEW b \in Backend, DropBackend(b) PROVE Inv'
    BY <1>5, DropBackendTypes, DropBackendBooks DEF Inv
  <1> QED BY <1>1, <1>2, <1>3, <1>4, <1>5, Zenon

=============================================================================
