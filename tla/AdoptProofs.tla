---------------------------- MODULE AdoptProofs -----------------------------
(***************************************************************************)
(* adoptOneLocked, whether it takes a VIP over or gives it up, keeps the   *)
(* invariants of DataplaneFacts.                                           *)
(***************************************************************************)
EXTENDS DataplaneAdopt, DataplaneFacts

-----------------------------------------------------------------------------
(* What the maps say of a VIP. *)

\* readBackend's result for an extent all of whose slots resolve.
LEMMA FoundFacts ==
  ASSUME TypeInv, NEW ext \in ExtentType, slotIds(ext) \subseteq DOMAIN backendMap
  PROVE  /\ Found(ext) \in PartialMap(Backend, BackendId)
         /\ \A b \in DOMAIN Found(ext) : backendMap[Found(ext)[b]].name = b
         /\ Image(Found(ext)) \subseteq slotIds(ext)
         /\ slotIds(ext) \subseteq BackendId
  <1> DEFINE ids == slotIds(ext)
             names == {backendMap[id].name : id \in ids}
             with(b) == {id \in ids : backendMap[id].name = b}
             top(b) == CHOOSE id \in ids : /\ backendMap[id].name = b
                                           /\ \A other \in ids : backendMap[other].name = b => other <= id
  <1>1. ids \subseteq BackendId
    BY ExtentFields, ZenonT(60) DEF slotIds, TypeInv, TypeOK
  <1>2. \A id \in ids : backendMap[id].name \in Backend
    <2>1. \A id \in DOMAIN backendMap : backendMap[id] \in [name : Backend, mac : BOOLEAN]
      BY DEF TypeInv, TypeOK, IsPartialMap
    <2> QED BY <2>1, Zenon
  <1>3. Found(ext) = [b \in names |-> top(b)]
    BY Zenon DEF Found
  <1>4. ASSUME NEW b \in names PROVE top(b) \in ids /\ backendMap[top(b)].name = b
    <2>1. PICK id \in ids : backendMap[id].name = b
      BY Zenon
    <2>2. with(b) \in SUBSET (0 .. MaxBackends - 1) /\ with(b) # {} /\ MaxBackends - 1 \in Nat
      BY <1>1, <2>1, SizeAssumption DEF BackendId
    <2>3. PICK o \in with(b) : \A p \in with(b) : p <= o
      BY <2>2, GreatestExists, Zenon DEF TypeInv, Grounds
    <2>4. /\ o \in ids /\ backendMap[o].name = b
          /\ \A other \in ids : backendMap[other].name = b => other <= o
      BY <2>3, Zenon
    <2> HIDE DEF ids
    <2> QED BY <2>4, Zenon
  <1> HIDE DEF ids, top, names
  <1>5. names \subseteq Backend
    BY <1>2, Zenon DEF names
  <1>6. IsPartialMap(Found(ext), Backend, BackendId)
    BY <1>1, <1>3, <1>4, <1>5, Zenon DEF IsPartialMap
  <1>7. \A b \in DOMAIN Found(ext) : backendMap[Found(ext)[b]].name = b
    BY <1>3, <1>4
  <1>8. Image(Found(ext)) \subseteq ids
    BY <1>3, <1>4 DEF Image
  <1> QED BY <1>1, <1>6, <1>8, <1>7, PartialMapIff, Zenon DEF ids

\* Where a claim stands.
LEMMA ClaimFacts ==
  ASSUME TypeInv, doing({"adopt"}, "claim")
  PROVE  /\ todo # << >> /\ job.op = "adopt" /\ work.pc = "claim"
         /\ job.v \in Vip /\ job.v \in Key /\ job.sid \in ServiceId
         /\ work \in WorkType /\ work.target \in ExtentType
         /\ work.left \subseteq DOMAIN Found(work.target)
         /\ slotIds(work.target) \subseteq DOMAIN backendMap
         /\ IsPartialMap(Found(work.target), Backend, BackendId)
         /\ Image(Found(work.target)) \subseteq slotIds(work.target)
         /\ \A b \in DOMAIN Found(work.target) : backendMap[Found(work.target)[b]].name = b
         /\ work.claimed \in Seq(Backend) /\ NoRepeat(work.claimed)
         /\ Image(work.claimed) \subseteq DOMAIN bids.ids
  <1>1. todo # << >> /\ job.op = "adopt" /\ work.pc = "claim"
    BY Zenon DEF doing
  <1>2. job.v \in Vip /\ job.v \in Key /\ job.sid \in ServiceId
    BY <1>1, JobFacts, JobFields, Zenon DEF TypeInv, Key
  <1>3. work \in WorkType /\ work.target \in ExtentType /\ work.claimed \in Seq(Backend)
    BY Zenon DEF TypeInv, TypeOK, WorkType
  <1>4. /\ work.left \subseteq DOMAIN Found(work.target)
        /\ slotIds(work.target) \subseteq DOMAIN backendMap
        /\ NoRepeat(work.claimed) /\ Image(work.claimed) \subseteq DOMAIN bids.ids
    BY <1>1 DEF TypeInv, Claiming
  <1>5. /\ IsPartialMap(Found(work.target), Backend, BackendId)
        /\ Image(Found(work.target)) \subseteq slotIds(work.target)
        /\ \A b \in DOMAIN Found(work.target) : backendMap[Found(work.target)[b]].name = b
    BY <1>3, <1>4, FoundFacts, PartialMapIff
  <1> QED BY <1>1, <1>2, <1>3, <1>4, <1>5, Zenon

\* The entry adoption records.
LEMMA RegisteredFacts ==
  ASSUME TypeInv, RegisterAdopted
  PROVE  /\ IsPartialMap(services', Key, EntryType) /\ DOMAIN services' = DOMAIN services \cup {job.v}
         /\ \A v \in DOMAIN services : v # job.v => services'[v] = services[v]
         /\ services'[job.v].sid = job.sid /\ services'[job.v].up
         /\ services'[job.v].ids = Found(work.target) /\ services'[job.v].ext = work.target
  <1> DEFINE found == Found(work.target)
             e == [NewEntry(job.sid) EXCEPT !.ids = found, !.ext = work.target, !.up = TRUE]
  <1>1. doing({"adopt"}, "claim") /\ services' = Give(services, job.v, e)
    BY Zenon DEF RegisterAdopted
  <1>2. /\ IsPartialMap(found, Backend, BackendId) /\ work.target \in ExtentType
        /\ job.sid \in ServiceId /\ job.v \in Key
    BY <1>1, ClaimFacts, Zenon
  <1>3. found \in PartialMap(Backend, BackendId)
    BY <1>2, PartialMapIff, Zenon
  <1> HIDE DEF found
  <1>4. NewEntry(job.sid) \in EntryType /\ NewEntry(job.sid).sid = job.sid
    BY <1>2, NewEntryTyped, Zenon DEF NewEntry
  <1>5. e \in EntryType /\ e.sid = job.sid /\ e.up /\ e.ids = found /\ e.ext = work.target
    BY <1>2, <1>3, <1>4, EntryTyped, ZenonT(60) DEF EntryType
  <1> HIDE DEF e
  <1>6. IsPartialMap(services, Key, EntryType)
    BY Zenon DEF TypeInv, TypeOK, Key
  <1>7. /\ IsPartialMap(services', Key, EntryType) /\ DOMAIN services' = DOMAIN services \cup {job.v}
        /\ services'[job.v] = e /\ \A v \in DOMAIN services : v # job.v => services'[v] = services[v]
    <2>1. job.v \in Key /\ e \in EntryType /\ services' = Give(services, job.v, e)
      BY <1>1, <1>2, <1>5
    <2> QED BY <1>6, <2>1, GiveMap
  <1> QED BY <1>5, <1>7, Zenon DEF found

LEMMA AdoptStages ==
  ASSUME TypeInv, todo # << >>, job.op = "adopt",
         UNCHANGED <<todo, services, maglev, backendMap>>, work'.pc = "claim",
         slotIds(work'.target) \subseteq DOMAIN backendMap,
         work'.left \subseteq DOMAIN Found(work'.target),
         NoRepeat(work'.claimed), Image(work'.claimed) \subseteq DOMAIN bids'.ids
  PROVE  Placed' /\ Covered' /\ InTable' /\ Claiming' /\ Weighing'
  <1>1. job' = job
    BY Zenon DEF job
  <1>2. \A e : slotIds(e)' = slotIds(e)
    BY Zenon DEF slotIds
  <1>3. \A e : Found(e)' = Found(e)
    BY DEF Found, slotIds
  <1>4. slotIds(work.target)' = slotIds(work'.target) /\ Found(work.target)' = Found(work'.target)
    BY <1>2, <1>3 DEF slotIds, Found
  <1>5. Claiming'
    BY <1>4, Zenon DEF Claiming
  <1>6. Placed' /\ Covered' /\ InTable'
    BY <1>1 DEF Placed, Covered, InTable
  <1> QED BY <1>5, <1>6, StillWeighing, Zenon

LEMMA BeginAdoptTypes ==
  ASSUME TypeInv, BeginAdopt
  PROVE  TypeInv'
  <1>1. todo # << >> /\ job.op = "adopt"
    BY Zenon DEF BeginAdopt, doing
  <1>2. job.v \in Vip /\ job.v \in Key /\ job.sid \in ServiceId
    BY <1>1, JobFacts, JobFields, Zenon DEF TypeInv, Key
  <1>3. UNCHANGED <<services, states, bids, unclaimed, svcMap, maglev, backendMap, health, hist>>
    BY Zenon DEF BeginAdopt, tally, marks
  <1> DEFINE ext == svcMap[job.sid]
             good == /\ ext.size # 0
                     /\ slotIds(ext) \subseteq DOMAIN backendMap
                     /\ CanClaim(pool, ext)
                     /\ CanReserve(sids, job.v, job.sid)
  <1>4. CASE good
    <2>1. /\ pool' = pool \ Slots(ext) /\ sids' = Reserve(sids, job.v, job.sid)
          /\ work' = [Idle EXCEPT !.pc = "claim", !.left = DOMAIN Found(ext), !.target = ext]
          /\ UNCHANGED <<todo, vipMap>>
      BY <1>4, Zenon DEF BeginAdopt
    <2>2. ext \in ExtentType
      BY <1>2, Zenon DEF TypeInv, TypeOK
    <2> HIDE DEF ext
    <2>3. DOMAIN Found(ext) \in SUBSET Backend
      BY <1>4, <2>2, FoundFacts, PartialMapIff, Zenon DEF IsPartialMap
    <2>4. /\ work' \in WorkType /\ work'.pc = "claim" /\ work'.target = ext
          /\ work'.left = DOMAIN Found(ext) /\ work'.claimed = << >>
      <3>1. Idle.claimed = << >>
        BY Zenon DEF Idle
      <3> QED BY <2>1, <2>2, <2>3, <3>1, IdleTyped, Zenon DEF WorkType
    <2>5. WellFormed(sids') /\ sids' \in AllocType(Key, MaxVIPs)
      <3>1. job.sid \in Nat
        BY <1>2, SizeAssumption DEF ServiceId
      <3>2. /\ WellFormed(sids') /\ sids'.max = sids.max
            /\ DOMAIN sids'.ids = DOMAIN sids.ids \cup {job.v}
        BY <1>4, <2>1, <3>1, ReserveFacts DEF TypeInv
      <3>3. sids'.max = MaxVIPs /\ DOMAIN sids'.ids \subseteq Key
        BY <1>2, <3>2, AllocFields, Zenon
      <3> QED BY <3>2, <3>3, AllocTyped, Zenon
    <2>6. NoRepeat(<< >>) /\ Image(<< >>) = {}
      BY DEF NoRepeat, Image
    <2>7. Placed' /\ Covered' /\ InTable' /\ Claiming' /\ Weighing'
      <3>1. NoRepeat(work'.claimed) /\ Image(work'.claimed) \subseteq DOMAIN bids'.ids
        BY <2>4, <2>6, Zenon
      <3>2. slotIds(work'.target) \subseteq DOMAIN backendMap /\ work'.left \subseteq DOMAIN Found(work'.target)
        BY <1>4, <2>4, Zenon
      <3> QED BY <1>1, <1>3, <2>1, <2>4, <3>1, <3>2, AdoptStages, Zenon
    <2>8. TypeOK'
      BY <1>3, <2>1, <2>4, <2>5 DEF TypeInv, TypeOK, Key
    <2> QED BY <1>3, <2>5, <2>7, <2>8, Zenon DEF TypeInv
  <1>5. CASE ~good
    <2>1. vipMap' = Drop(vipMap, job.v) /\ Finish(Tail(todo)) /\ UNCHANGED <<pool, sids>>
      BY <1>5, Zenon DEF BeginAdopt
    <2>2. IsPartialMap(vipMap', Vip, ServiceId)
      BY <2>1, DropMap, Zenon DEF TypeInv, TypeOK
    <2>3. /\ todo' \in Seq(JobType) /\ work' \in WorkType
          /\ Placed' /\ Covered' /\ InTable' /\ Claiming' /\ Weighing'
      BY <1>1, <1>3, <2>1, Finished, Zenon
    <2>4. TypeOK'
      BY <1>3, <2>1, <2>2, <2>3 DEF TypeInv, TypeOK
    <2> QED BY <1>3, <2>1, <2>3, <2>4, Zenon DEF TypeInv
  <1> QED BY <1>4, <1>5, Zenon

LEMMA AppendClaim ==
  ASSUME NEW S, NEW c \in Seq(S), NoRepeat(c), NEW b \in S, b \notin Image(c)
  PROVE  /\ Append(c, b) \in Seq(S) /\ NoRepeat(Append(c, b))
         /\ Image(Append(c, b)) \subseteq Image(c) \cup {b}
  <1> DEFINE t == Append(c, b)
  <1>1. /\ t \in Seq(S) /\ Len(t) = Len(c) + 1 /\ t[Len(c) + 1] = b
        /\ \A i \in 1 .. Len(c) : t[i] = c[i]
    OBVIOUS
  <1>2. Len(c) \in Nat /\ DOMAIN c = 1 .. Len(c) /\ DOMAIN t = 1 .. Len(t)
    BY <1>1
  <1> HIDE DEF t
  <1>3. \A i \in 1 .. Len(c) : c[i] \in Image(c)
    BY <1>2, Zenon DEF Image
  <1>4. NoRepeat(t)
    BY <1>1, <1>2, <1>3 DEF NoRepeat
  <1>5. Image(t) \subseteq Image(c) \cup {b}
    BY <1>1, <1>2, <1>3 DEF Image
  <1> QED BY <1>1, <1>4, <1>5, Zenon DEF t

LEMMA ClaimBackendTypes ==
  ASSUME TypeInv, NEW b \in Backend, ClaimBackend(b)
  PROVE  TypeInv'
  <1>1. doing({"adopt"}, "claim") /\ b \in work.left
    BY Zenon DEF ClaimBackend
  <1>2. UNCHANGED <<services, states, unclaimed, svcMap, maglev, backendMap, health, hist>>
    BY Zenon DEF ClaimBackend, tally, marks
  <1> DEFINE id == Found(work.target)[b]
  <1>3. id \in BackendId /\ id \in Nat
    <2>1. id \in BackendId
      BY <1>1, ClaimFacts, Zenon DEF IsPartialMap
    <2> QED BY <2>1, SizeAssumption DEF BackendId
  <1>4. CASE CanReserve(bids, b, id)
    <2>1. /\ bids' = Reserve(bids, b, id) /\ UNCHANGED <<sids, pool, todo, vipMap>>
          /\ work' = [work EXCEPT !.left = @ \ {b},
                                  !.claimed = IF Holds(bids, b) THEN @ ELSE Append(@, b)]
      BY <1>4, Zenon DEF ClaimBackend
    <2> HIDE DEF id
    <2>2. /\ WellFormed(bids') /\ bids'.max = MaxBackends
          /\ DOMAIN bids'.ids = DOMAIN bids.ids \cup {b} /\ DOMAIN bids'.ids \subseteq Backend
      BY <1>3, <1>4, <2>1, ReserveFacts, AllocFields DEF TypeInv
    <2>3. bids' \in AllocType(Backend, MaxBackends)
      BY <2>2, AllocTyped, Zenon
    <2> DEFINE c == IF Holds(bids, b) THEN work.claimed ELSE Append(work.claimed, b)
    <2>4. c \in Seq(Backend) /\ NoRepeat(c) /\ Image(c) \subseteq DOMAIN bids'.ids
      <3>1. CASE Holds(bids, b)
        BY <1>1, <2>2, <3>1, ClaimFacts, Zenon
      <3>2. CASE ~Holds(bids, b)
        <4>1. b \notin Image(work.claimed)
          BY <1>1, <3>2, ClaimFacts DEF Holds
        <4> QED BY <1>1, <2>2, <3>2, <4>1, ClaimFacts, AppendClaim, ZenonT(60)
      <3> QED BY <3>1, <3>2, Zenon
    <2>5. work' = [work EXCEPT !.left = @ \ {b}, !.claimed = c]
      BY <2>1
    <2> HIDE DEF c
    <2>6. /\ work' \in WorkType /\ work'.pc = "claim" /\ work'.target = work.target
          /\ work'.left = work.left \ {b} /\ work'.claimed = c
      BY <1>1, <2>4, <2>5, ClaimFacts, Zenon DEF WorkType
    <2>7. Placed' /\ Covered' /\ InTable' /\ Claiming' /\ Weighing'
      <3>1. slotIds(work'.target) \subseteq DOMAIN backendMap /\ work'.left \subseteq DOMAIN Found(work'.target)
        BY <1>1, <2>6, ClaimFacts, Zenon
      <3>2. NoRepeat(work'.claimed) /\ Image(work'.claimed) \subseteq DOMAIN bids'.ids
        BY <2>4, <2>6, Zenon
      <3>3. todo # << >> /\ job.op = "adopt"
        BY <1>1, ClaimFacts, Zenon
      <3> QED BY <1>2, <2>1, <2>6, <3>1, <3>2, <3>3, AdoptStages, Zenon
    <2>8. TypeOK'
      BY <1>2, <2>1, <2>3, <2>6, Zenon DEF TypeInv, TypeOK
    <2> QED BY <2>1, <2>2, <2>7, <2>8, Zenon DEF TypeInv
  <1>5. CASE ~CanReserve(bids, b, id)
    <2>1. /\ bids' = Unclaimed(bids, work.claimed) /\ sids' = Release(sids, job.v)
          /\ pool' = pool \cup Slots(work.target) /\ vipMap' = Drop(vipMap, job.v)
          /\ Finish(Tail(todo))
      BY <1>5, Zenon DEF ClaimBackend
    <2>2. /\ WellFormed(bids') /\ bids'.max = MaxBackends /\ DOMAIN bids'.ids \subseteq Backend
      <3>1. /\ WellFormed(bids) /\ bids.max = MaxBackends /\ DOMAIN bids.ids \subseteq Backend
            /\ work.claimed \in Seq(Backend) /\ NoRepeat(work.claimed)
            /\ Image(work.claimed) \subseteq DOMAIN bids.ids
        BY <1>1, ClaimFacts, AllocFields, Zenon DEF TypeInv
      <3>2. /\ WellFormed(bids') /\ bids'.max = bids.max
            /\ DOMAIN bids'.ids = DOMAIN bids.ids \ Image(work.claimed)
        BY <2>1, <3>1, UnclaimedFacts
      <3> QED BY <3>1, <3>2, Zenon
    <2>3. WellFormed(sids') /\ sids'.max = MaxVIPs /\ DOMAIN sids'.ids \subseteq Key
      <3>1. WellFormed(sids) /\ sids.max = MaxVIPs /\ DOMAIN sids.ids \subseteq Key
        BY AllocFields, Zenon DEF TypeInv
      <3>2. LET a == Release(sids, job.v)
            IN WellFormed(a) /\ a.max = sids.max /\ DOMAIN a.ids = DOMAIN sids.ids \ {job.v}
        BY <3>1, ReleaseFacts
      <3>3. sids' = Release(sids, job.v)
        BY <2>1, Zenon
      <3> QED BY <3>1, <3>2, <3>3
    <2>4. bids' \in AllocType(Backend, MaxBackends) /\ sids' \in AllocType(Key, MaxVIPs)
      BY <2>2, <2>3, AllocTyped, Zenon
    <2>5. pool' \subseteq Slot
      <3>1. Slots(work.target) \subseteq Slot
        BY <1>1, ClaimFacts, ExtentFields
      <3> QED BY <2>1, <3>1, Zenon DEF TypeInv, TypeOK
    <2>6. IsPartialMap(vipMap', Vip, ServiceId)
      BY <2>1, DropMap, Zenon DEF TypeInv, TypeOK
    <2>7. /\ todo' \in Seq(JobType) /\ work' \in WorkType
          /\ Placed' /\ Covered' /\ InTable' /\ Claiming' /\ Weighing'
      BY <1>1, <1>2, <2>1, ClaimFacts, Finished, Zenon
    <2>8. TypeOK'
      BY <1>2, <2>4, <2>5, <2>6, <2>7 DEF TypeInv, TypeOK, Key
    <2> QED BY <2>2, <2>3, <2>7, <2>8, Zenon DEF TypeInv
  <1> QED BY <1>4, <1>5, Zenon

LEMMA RegisterAdoptedTypes ==
  ASSUME TypeInv, RegisterAdopted
  PROVE  TypeInv'
  <1>1. doing({"adopt"}, "claim")
    BY Zenon DEF RegisterAdopted
  <1>2. UNCHANGED <<sids, bids, pool, unclaimed, vipMap, svcMap, maglev, backendMap, hist>>
    BY Zenon DEF RegisterAdopted, tally, marks
  <1> DEFINE found == Found(work.target)
             st(id) == Acquired(backendMap[id].name, id)
  <1>3. IsPartialMap(found, Backend, BackendId) /\ Image(found) \subseteq BackendId
        /\ Image(found) \subseteq DOMAIN backendMap
    BY <1>1, ClaimFacts DEF IsPartialMap, Image
  <1>4. \A id \in Image(found) : st(id) \in StateType
    <2>1. \A id \in Image(found) : backendMap[id].name \in Backend
      BY <1>3 DEF TypeInv, TypeOK, IsPartialMap
    <2> QED BY <2>1, AcquiredTyped, Zenon
  <1>5. /\ states' = [id \in DOMAIN states \cup Image(found) |->
                        IF id \in Image(found) THEN st(id) ELSE states[id]]
        /\ health' = [id \in BackendId |->
                        IF id \in Image(found) THEN HealthOf(st(id)) ELSE health[id]]
        /\ Finish(Tail(todo))
    BY Zenon DEF RegisterAdopted
  <1> HIDE DEF found, st
  <1>6. IsPartialMap(states', BackendId, StateType)
    BY <1>3, <1>4, <1>5 DEF TypeInv, TypeOK, IsPartialMap
  <1>7. health' \in [BackendId -> {"down", "healthy", "draining"}]
    BY <1>5, HealthTyped, Zenon DEF TypeInv, TypeOK
  <1>8. /\ todo' \in Seq(JobType) /\ work' \in WorkType
        /\ Placed' /\ Covered' /\ InTable' /\ Claiming' /\ Weighing'
    <2>1. todo # << >> /\ job.op # "weight"
      BY <1>1, ClaimFacts, Zenon
    <2> QED BY <1>5, <2>1, Finished, Zenon
  <1>9. TypeOK'
    BY <1>2, <1>6, <1>7, <1>8, RegisteredFacts, Zenon DEF TypeInv, TypeOK, Key
  <1> QED BY <1>2, <1>8, <1>9, Zenon DEF TypeInv

\* The first adoption is over, for better or worse.
LEMMA NextAdoption ==
  ASSUME TypeInv, IdsInv, todo # << >>, job.op = "adopt", todo' = Tail(todo),
         \A v : v \in DOMAIN vipMap' \ DOMAIN services' <=>
                v \in DOMAIN vipMap \ DOMAIN services /\ v # job.v,
         \A v \in DOMAIN vipMap' : v # job.v => vipMap'[v] = vipMap[v]
  PROVE  Known' /\ Adopting' /\ job.v \in DOMAIN vipMap \ DOMAIN services /\ job.sid = vipMap[job.v]
  <1>1. /\ job = todo[1] /\ Len(todo) \in Nat \ {0} /\ Len(todo') = Len(todo) - 1
        /\ \A i \in 1 .. Len(todo) - 1 : todo'[i] = todo[i + 1]
    BY JobFacts, Zenon DEF TypeInv
  <1>2. 1 \in 1 .. Len(todo)
    BY <1>1
  <1>3. /\ job.v \in DOMAIN vipMap \ DOMAIN services /\ job.sid = vipMap[job.v]
        /\ \A i \in 2 .. Len(todo) : todo[i].op = "adopt" => todo[i].v # job.v
    <2>1. \A i \in 2 .. Len(todo) : 1 \in 1 .. i - 1 /\ i \in 1 .. Len(todo)
      BY <1>1
    <2> QED BY <1>1, <1>2, <2>1 DEF IdsInv, Adopting
  <1> HIDE DEF job
  <1>4. Known'
    <2> SUFFICES ASSUME NEW v \in DOMAIN vipMap \ DOMAIN services, v # job.v
                 PROVE  \E i \in 1 .. Len(todo') : todo'[i].op = "adopt" /\ todo'[i].v = v
      BY Zenon DEF Known
    <2>1. PICK i \in 1 .. Len(todo) : todo[i].op = "adopt" /\ todo[i].v = v
      BY Zenon DEF IdsInv, Known
    <2>2. i - 1 \in 1 .. Len(todo') /\ todo'[i - 1] = todo[i]
      BY <1>1, <2>1
    <2> QED BY <2>1, <2>2, SMTT(60)
  <1>5. Adopting'
    <2> SUFFICES ASSUME NEW i \in 1 .. Len(todo'), todo'[i].op = "adopt"
                 PROVE  /\ todo'[i].v \in DOMAIN vipMap' \ DOMAIN services'
                        /\ todo'[i].sid = vipMap'[todo'[i].v]
                        /\ \A j \in 1 .. i - 1 : todo'[j].op = "adopt" /\ todo'[j].v # todo'[i].v
      BY Zenon DEF Adopting
    <2>1. i + 1 \in 2 .. Len(todo) /\ i + 1 \in 1 .. Len(todo) /\ todo'[i] = todo[i + 1]
      BY <1>1
    <2>2. /\ todo[i + 1].v \in DOMAIN vipMap \ DOMAIN services
          /\ todo[i + 1].sid = vipMap[todo[i + 1].v] /\ todo[i + 1].v # job.v
          /\ \A j \in 1 .. (i + 1) - 1 : todo[j].op = "adopt" /\ todo[j].v # todo[i + 1].v
      BY <1>3, <2>1 DEF IdsInv, Adopting
    <2>3. \A j \in 1 .. i - 1 : j + 1 \in 1 .. (i + 1) - 1 /\ todo'[j] = todo[j + 1]
      BY <1>1
    <2>4. \A j \in 1 .. i - 1 : todo'[j].op = "adopt" /\ todo'[j].v # todo'[i].v
      BY <2>1, <2>2, <2>3
    <2> QED BY <2>1, <2>2, <2>4
  <1> QED BY <1>3, <1>4, <1>5, Zenon

\* The VIP is deleted from vip_map, and its service id given back if reserved.
LEMMA GivenUp ==
  ASSUME TypeInv, IdsInv, todo # << >>, job.op = "adopt", Finish(Tail(todo)),
         vipMap' = Drop(vipMap, job.v), UNCHANGED services,
         UNCHANGED sids \/ sids' = Release(sids, job.v)
  PROVE  IdsInv'
  <1>1. /\ DOMAIN vipMap' = DOMAIN vipMap \ {job.v}
        /\ \A v \in DOMAIN vipMap' : vipMap'[v] = vipMap[v]
    BY Zenon DEF Drop
  <1>2. todo' = Tail(todo) /\ work'.pc = "idle"
    BY Zenon DEF Finish, Idle
  <1>3. Known' /\ Adopting' /\ job.v \notin DOMAIN services
    BY <1>1, <1>2, NextAdoption, Zenon
  <1>4. \A k \in DOMAIN sids.ids \ {job.v} : k \in DOMAIN sids'.ids /\ sids'.ids[k] = sids.ids[k]
    BY ReleaseFacts DEF TypeInv
  <1>5. Owned'
    BY <1>3, <1>4, Zenon DEF IdsInv, Owned
  <1>6. Distinct' /\ Matched' /\ Midway'
    BY <1>1, <1>2 DEF IdsInv, Distinct, Matched, Midway
  <1> QED BY <1>3, <1>5, <1>6, Zenon DEF IdsInv

LEMMA StillClaiming ==
  ASSUME TypeInv, IdsInv, UNCHANGED <<todo, vipMap, services>>, Owned',
         work'.pc = "claim", job.v \in DOMAIN sids'.ids, sids'.ids[job.v] = job.sid
  PROVE  IdsInv'
  <1>1. job' = job
    BY Zenon DEF job
  <1>2. Midway'
    BY <1>1, Zenon DEF Midway
  <1>3. Distinct' /\ Matched' /\ Known' /\ Adopting'
    BY DEF IdsInv, Distinct, Matched, Known, Adopting
  <1> QED BY <1>2, <1>3, Zenon DEF IdsInv

LEMMA BeginAdoptIds ==
  ASSUME TypeInv, IdsInv, BeginAdopt
  PROVE  IdsInv'
  <1>1. todo # << >> /\ job.op = "adopt" /\ UNCHANGED services
    BY Zenon DEF BeginAdopt, doing
  <1>2. job.sid \in Nat
    <2>1. job.sid \in ServiceId
      BY <1>1, JobFacts, JobFields, Zenon DEF TypeInv
    <2> QED BY <2>1, SizeAssumption DEF ServiceId
  <1> DEFINE ext == svcMap[job.sid]
             good == /\ ext.size # 0
                     /\ slotIds(ext) \subseteq DOMAIN backendMap
                     /\ CanClaim(pool, ext)
                     /\ CanReserve(sids, job.v, job.sid)
  <1>3. CASE good
    <2>1. /\ sids' = Reserve(sids, job.v, job.sid) /\ UNCHANGED <<todo, vipMap>>
          /\ work' = [Idle EXCEPT !.pc = "claim", !.left = DOMAIN Found(ext), !.target = ext]
      BY <1>3, Zenon DEF BeginAdopt
    <2>2. work'.pc = "claim"
      BY <2>1, Zenon DEF Idle
    <2>3. /\ DOMAIN sids'.ids = DOMAIN sids.ids \cup {job.v} /\ sids'.ids[job.v] = job.sid
          /\ \A k \in DOMAIN sids.ids : sids'.ids[k] = sids.ids[k]
      BY <1>2, <1>3, <2>1, ReserveFacts DEF TypeInv
    <2>4. Owned'
      BY <1>1, <2>3, Zenon DEF IdsInv, Owned
    <2> QED BY <1>1, <2>1, <2>2, <2>3, <2>4, StillClaiming, Zenon
  <1>4. CASE ~good
    <2>1. vipMap' = Drop(vipMap, job.v) /\ Finish(Tail(todo)) /\ UNCHANGED sids
      BY <1>4 DEF BeginAdopt
    <2> QED BY <1>1, <2>1, GivenUp, Zenon
  <1> QED BY <1>3, <1>4, Zenon

LEMMA ClaimBackendIds ==
  ASSUME TypeInv, IdsInv, NEW b \in Backend, ClaimBackend(b)
  PROVE  IdsInv'
  <1>1. doing({"adopt"}, "claim") /\ UNCHANGED services
    BY Zenon DEF ClaimBackend
  <1>2. todo # << >> /\ job.op = "adopt" /\ work.pc = "claim" /\ work \in WorkType
    BY <1>1, ClaimFacts, Zenon
  <1>3. CASE CanReserve(bids, b, Found(work.target)[b])
    <2>1. /\ UNCHANGED <<sids, todo, vipMap>>
          /\ work' = [work EXCEPT !.left = @ \ {b},
                                  !.claimed = IF Holds(bids, b) THEN @ ELSE Append(@, b)]
      BY <1>3, Zenon DEF ClaimBackend
    <2>2. work'.pc = "claim"
      BY <1>2, <2>1, Zenon DEF WorkType
    <2>3. Owned' /\ job.v \in DOMAIN sids'.ids /\ sids'.ids[job.v] = job.sid
      BY <1>1, <1>2, <2>1, Zenon DEF IdsInv, Owned, Midway
    <2> QED BY <1>1, <2>1, <2>2, <2>3, StillClaiming, Zenon
  <1>4. CASE ~CanReserve(bids, b, Found(work.target)[b])
    <2>1. vipMap' = Drop(vipMap, job.v) /\ Finish(Tail(todo)) /\ sids' = Release(sids, job.v)
      BY <1>4 DEF ClaimBackend
    <2> QED BY <1>1, <1>2, <2>1, GivenUp, Zenon
  <1> QED BY <1>3, <1>4, Zenon

LEMMA RegisterAdoptedIds ==
  ASSUME TypeInv, IdsInv, RegisterAdopted
  PROVE  IdsInv'
  <1>1. doing({"adopt"}, "claim")
    BY Zenon DEF RegisterAdopted
  <1>2. todo # << >> /\ job.op = "adopt" /\ work.pc = "claim"
    BY <1>1, ClaimFacts, Zenon
  <1>3. UNCHANGED <<sids, vipMap>> /\ todo' = Tail(todo) /\ work'.pc = "idle"
    BY Zenon DEF RegisterAdopted, Finish, Idle
  <1>4. services'[job.v].sid = job.sid /\ services'[job.v].up
    BY RegisteredFacts, Zenon
  <1>5. /\ DOMAIN services' = DOMAIN services \cup {job.v}
        /\ \A v \in DOMAIN services : v # job.v => services'[v] = services[v]
    BY RegisteredFacts, Zenon
  <1>6. Known' /\ Adopting' /\ job.v \in DOMAIN vipMap \ DOMAIN services /\ job.sid = vipMap[job.v]
    BY <1>2, <1>3, <1>5, NextAdoption, Zenon
  <1>7. job.v \in DOMAIN sids.ids /\ sids.ids[job.v] = job.sid
    BY <1>2, Zenon DEF IdsInv, Midway
  <1>8. Owned' /\ Distinct' /\ Matched' /\ Midway'
    BY <1>3, <1>4, <1>5, <1>6, <1>7 DEF IdsInv, Owned, Distinct, Matched, Midway
  <1> QED BY <1>6, <1>8, Zenon DEF IdsInv

-----------------------------------------------------------------------------
(* What adoption does to the table and to the backends. *)

LEMMA FirstAdoption ==
  ASSUME TypeInv, IdsInv, todo # << >>, job.op = "adopt"
  PROVE  job.v \notin DOMAIN services
  <1>1. job = todo[1] /\ 1 \in 1 .. Len(todo)
    BY JobFacts DEF TypeInv
  <1> QED BY <1>1, Zenon DEF IdsInv, Adopting

LEMMA FoundAgain ==
  ASSUME UNCHANGED <<maglev, backendMap>>
  PROVE  Found(work.target)' = Found(work'.target)
  BY DEF Found, slotIds

LEMMA BeginAdoptBooks ==
  ASSUME TypeInv, Books, BeginAdopt
  PROVE  Books'
  <1>1. /\ todo # << >> /\ job.op = "adopt" /\ work.pc = "idle"
        /\ UNCHANGED <<services, states, bids, maglev, backendMap, health, faults>>
    BY Zenon DEF BeginAdopt, doing, tally, marks
  <1>2. IdsInv'
    BY BeginAdoptIds, Zenon DEF Books
  <1>3. job.v \notin DOMAIN services /\ Pending = {}
    BY <1>1, FirstAdoption, Unpending, Zenon DEF Books
  <1> DEFINE ext == svcMap[job.sid]
             good == /\ ext.size # 0
                     /\ slotIds(ext) \subseteq DOMAIN backendMap
                     /\ CanClaim(pool, ext)
                     /\ CanReserve(sids, job.v, job.sid)
  <1>4. CASE good
    <2>1. /\ pool' = pool \ Slots(ext) /\ UNCHANGED todo
          /\ work' = [Idle EXCEPT !.pc = "claim", !.left = DOMAIN Found(ext), !.target = ext]
      BY <1>4, Zenon DEF BeginAdopt
    <2>2. /\ work'.pc = "claim" /\ work'.left = DOMAIN Found(ext) /\ work'.target = ext
          /\ work'.claimed = << >>
      BY <2>1, Zenon DEF Idle
    <2>3. Slots(ext) \subseteq pool /\ pool \subseteq Slot
      BY <1>4, Zenon DEF CanClaim, TypeInv, TypeOK
    <2>4. Pending' = Slots(ext)
      <3>1. job' = job
        BY <2>1, Zenon DEF job
      <3> QED BY <1>1, <1>3, <2>2, <3>1, Zenon DEF Pending
    <2>5. TableInv'
      BY <1>1, <1>3, <2>1, <2>3, <2>4, Zenon DEF Books, TableInv
    <2>6. Dropping' /\ Claimed'
      <3>1. Image(<< >>) = {}
        BY DEF Image
      <3>2. Found(work.target)' = Found(ext)
        BY <1>1, <2>2, FoundAgain, Zenon
      <3> QED BY <2>2, <3>1, <3>2, Zenon DEF Dropping, Claimed
    <2>7. \A v, c, i : Refers(v, c, i)' <=> Refers(v, c, i)
      BY <1>1, <2>2, RefersPlain
    <2>8. BackInv'
      BY <1>1, <2>6, <2>7, BackKept, Zenon DEF Books
    <2> QED BY <1>2, <2>5, <2>8, Zenon DEF Books
  <1>5. CASE ~good
    <2>1. Finish(Tail(todo)) /\ UNCHANGED pool
      BY <1>5, Zenon DEF BeginAdopt
    <2>2. work'.pc = "idle"
      BY <2>1, Zenon DEF Finish, Idle
    <2>3. Pending' = {} /\ Dropping' /\ Claimed'
      BY <2>2, Unpending, Zenon DEF Dropping, Claimed
    <2>4. TableInv'
      BY <1>1, <1>3, <2>1, <2>3, TableKept, Zenon DEF Books
    <2>5. \A v, c, i : Refers(v, c, i)' <=> Refers(v, c, i)
      BY <1>1, <2>2, RefersPlain
    <2>6. BackInv'
      BY <1>1, <2>3, <2>5, BackKept DEF Books
    <2> QED BY <1>2, <2>4, <2>6 DEF Books
  <1> QED BY <1>4, <1>5, Zenon

\* The backends' side of a claim made or given up: the ids of the backends with
\* a state stay where they are.
LEMMA ClaimedBack ==
  ASSUME BackInv, UNCHANGED <<services, states, backendMap, health, faults>>,
         work.pc = "claim", work'.pc \in {"claim", "idle"},
         \A c \in DOMAIN bids.ids : bids.ids[c] \in DOMAIN states =>
           c \in DOMAIN bids'.ids /\ bids'.ids[c] = bids.ids[c],
         Claimed'
  PROVE  BackInv'
  <1>1. \A v, c, i : Refers(v, c, i)' <=> Refers(v, c, i)
    BY RefersPlain
  <1>2. \A c, i : Alive(c, i) => Alive(c, i)'
    BY DEF Alive
  <1>3. Live'
    BY <1>1, <1>2, Zenon DEF BackInv, Live
  <1>4. Named'
    BY DEF BackInv, Named
  <1>5. \A i : Referrers(i)' = Referrers(i)
    BY <1>1, SameReferrers, Zenon
  <1>6. Counted' /\ Dropping'
    BY <1>5 DEF BackInv, Counted, Dropping
  <1> QED BY <1>3, <1>4, <1>6, Zenon DEF BackInv

\* A claim that succeeds.
LEMMA ClaimMade ==
  ASSUME TypeInv, Books, NEW b \in Backend, ClaimBackend(b),
         CanReserve(bids, b, Found(work.target)[b])
  PROVE  TableInv' /\ BackInv'
  <1>1. /\ doing({"adopt"}, "claim") /\ b \in work.left
        /\ UNCHANGED <<services, states, maglev, backendMap, health, faults, pool, todo>>
        /\ bids' = Reserve(bids, b, Found(work.target)[b])
        /\ work' = [work EXCEPT !.left = @ \ {b},
                                !.claimed = IF Holds(bids, b) THEN @ ELSE Append(@, b)]
    BY Zenon DEF ClaimBackend, tally, marks
  <1>2. /\ todo # << >> /\ job.op = "adopt" /\ work.pc = "claim" /\ work \in WorkType
        /\ b \in DOMAIN Found(work.target) /\ IsPartialMap(Found(work.target), Backend, BackendId)
        /\ work.claimed \in Seq(Backend) /\ Image(work.claimed) \subseteq DOMAIN bids.ids
    BY <1>1, ClaimFacts, Zenon
  <1>3. PICK id : id = Found(work.target)[b]
    BY Zenon
  <1>4. id \in Nat
    BY <1>2, <1>3, SizeAssumption DEF IsPartialMap, BackendId
  <1>5. /\ DOMAIN bids'.ids = DOMAIN bids.ids \cup {b} /\ bids'.ids[b] = id
        /\ \A c \in DOMAIN bids.ids : bids'.ids[c] = bids.ids[c]
    BY <1>1, <1>3, <1>4, ReserveFacts DEF TypeInv
  <1>6. /\ work'.pc = "claim" /\ work'.target = work.target /\ work'.left = work.left \ {b}
        /\ work'.claimed = IF Holds(bids, b) THEN work.claimed ELSE Append(work.claimed, b)
    BY <1>1, <1>2, Zenon DEF WorkType
  <1>7. TableInv'
    <2>1. job' = job
      BY <1>1, Zenon DEF job
    <2>2. Pending' = Pending
      BY <1>1, <1>2, <1>6, <2>1 DEF Pending
    <2> QED BY <1>1, <2>2, TableKept, Zenon DEF Books
  <1>8. \A c \in Image(work'.claimed) : bids'.ids[c] \notin DOMAIN states
    <2>1. \A c \in Image(work.claimed) : bids.ids[c] \notin DOMAIN states
      BY <1>2, Zenon DEF Books, BackInv, Claimed
    <2>2. CASE Holds(bids, b)
      BY <1>2, <1>5, <1>6, <2>1, <2>2, Zenon
    <2>3. CASE ~Holds(bids, b)
      <3>1. id \notin Image(bids.ids) /\ b \notin DOMAIN bids.ids
        BY <1>3, <2>3, Zenon DEF CanReserve, Holds
      <3>2. id \notin DOMAIN states
        BY <3>1, Zenon DEF Books, BackInv, Named, Image
      <3>3. Image(work'.claimed) \subseteq Image(work.claimed) \cup {b}
        <4>1. b \notin Image(work.claimed) /\ NoRepeat(work.claimed)
          BY <1>1, <1>2, <3>1, ClaimFacts, Zenon
        <4> QED BY <1>2, <1>6, <2>3, <4>1, AppendClaim, Zenon
      <3> QED BY <1>2, <1>5, <2>1, <3>2, <3>3, Zenon
    <2> QED BY <2>2, <2>3, Zenon
  <1>9. Claimed'
    <2>1. Found(work.target)' = Found(work.target)
      BY <1>1, <1>6, FoundAgain, Zenon
    <2>2. \A c \in DOMAIN Found(work.target) \ work'.left :
            c \in DOMAIN bids'.ids /\ bids'.ids[c] = Found(work.target)[c]
      <3>1. \A c \in DOMAIN Found(work.target) \ work.left :
              c \in DOMAIN bids.ids /\ bids.ids[c] = Found(work.target)[c]
        BY <1>2 DEF Books, BackInv, Claimed
      <3> QED BY <1>3, <1>5, <1>6, <3>1, Zenon
    <2> QED BY <1>1, <1>8, <2>1, <2>2, Zenon DEF Claimed
  <1>10. BackInv'
    BY <1>1, <1>2, <1>5, <1>6, <1>9, ClaimedBack DEF Books
  <1> QED BY <1>7, <1>10, Zenon

\* A claim that is refused: the VIP's extent and its earlier claims are given back.
LEMMA ClaimRefused ==
  ASSUME TypeInv, Books, NEW b \in Backend, ClaimBackend(b),
         ~CanReserve(bids, b, Found(work.target)[b])
  PROVE  TableInv' /\ BackInv'
  <1>1. /\ doing({"adopt"}, "claim") /\ Finish(Tail(todo))
        /\ UNCHANGED <<services, states, backendMap, health, faults>>
        /\ bids' = Unclaimed(bids, work.claimed) /\ pool' = pool \cup Slots(work.target)
    BY Zenon DEF ClaimBackend, tally, marks
  <1>2. /\ todo # << >> /\ job.op = "adopt" /\ work.pc = "claim" /\ work.target \in ExtentType
        /\ work.claimed \in Seq(Backend) /\ NoRepeat(work.claimed)
        /\ Image(work.claimed) \subseteq DOMAIN bids.ids
    BY <1>1, ClaimFacts, Zenon
  <1>3. work'.pc = "idle"
    BY <1>1, Zenon DEF Finish, Idle
  <1>4. TableInv'
    <2>1. job.v \notin DOMAIN services
      BY <1>2, FirstAdoption, Zenon DEF Books
    <2>2. Pending = Slots(work.target) /\ Pending' = {}
      BY <1>2, <1>3, <2>1, Unpending, Zenon DEF Pending
    <2> QED BY <1>1, <2>2, Zenon DEF Books, TableInv
  <1>5. /\ DOMAIN bids'.ids = DOMAIN bids.ids \ Image(work.claimed)
        /\ \A c \in DOMAIN bids.ids \ Image(work.claimed) : bids'.ids[c] = bids.ids[c]
    BY <1>1, <1>2, UnclaimedFacts DEF TypeInv
  <1>6. \A c \in DOMAIN bids.ids : bids.ids[c] \in DOMAIN states =>
          c \in DOMAIN bids'.ids /\ bids'.ids[c] = bids.ids[c]
    BY <1>2, <1>5, Zenon DEF Books, BackInv, Claimed
  <1>7. Claimed'
    BY <1>3, Zenon DEF Claimed
  <1>8. BackInv'
    BY <1>1, <1>2, <1>3, <1>6, <1>7, ClaimedBack DEF Books
  <1> QED BY <1>4, <1>8, Zenon

LEMMA ClaimBackendBooks ==
  ASSUME TypeInv, Books, NEW b \in Backend, ClaimBackend(b)
  PROVE  Books'
  <1>1. IdsInv'
    BY ClaimBackendIds DEF Books
  <1>2. TableInv' /\ BackInv'
    BY ClaimMade, ClaimRefused
  <1> QED BY <1>1, <1>2, Zenon DEF Books

\* What a recorded VIP's backends are afterwards.
LEMMA AdoptedBackends ==
  ASSUME TypeInv, Books, RegisterAdopted, NEW found, found = Found(work.target)
  PROVE  /\ DOMAIN states' = DOMAIN states \cup Image(found)
         /\ \A i \in DOMAIN states \ Image(found) : states'[i] = states[i]
         /\ \A i \in BackendId \ Image(found) : health'[i] = health[i]
         /\ \A b \in DOMAIN found :
              /\ b \in DOMAIN bids.ids /\ bids.ids[b] = found[b]
              /\ found[b] \in DOMAIN backendMap /\ backendMap[found[b]].name = b
              /\ states'[found[b]].name = b
              /\ health'[found[b]] = HealthOf(states'[found[b]])
              /\ found[b] \in DOMAIN states => states'[found[b]].ref = states[found[b]].ref + 1
              /\ found[b] \notin DOMAIN states => states'[found[b]].ref = 1
         /\ \A i \in Image(found) : \E b \in DOMAIN found : i = found[b]
  <1>1. doing({"adopt"}, "claim") /\ work.left = {}
    BY Zenon DEF RegisterAdopted
  <1>2. /\ work.pc = "claim" /\ slotIds(work.target) \subseteq DOMAIN backendMap
        /\ IsPartialMap(found, Backend, BackendId) /\ Image(found) \subseteq slotIds(work.target)
        /\ \A b \in DOMAIN found : backendMap[found[b]].name = b
    BY <1>1, ClaimFacts, Zenon
  <1>3. /\ states' = [id \in DOMAIN states \cup Image(found) |->
                        IF id \in Image(found) THEN Acquired(backendMap[id].name, id) ELSE states[id]]
        /\ health' = [id \in BackendId |-> IF id \in Image(found)
                                           THEN HealthOf(Acquired(backendMap[id].name, id)) ELSE health[id]]
    BY Zenon DEF RegisterAdopted
  <1>4. ASSUME NEW b \in DOMAIN found
        PROVE  /\ b \in Backend /\ found[b] \in BackendId /\ found[b] \in Image(found)
               /\ found[b] \in DOMAIN backendMap
               /\ b \in DOMAIN bids.ids /\ bids.ids[b] = found[b]
               /\ states'[found[b]] = Acquired(b, found[b])
               /\ health'[found[b]] = HealthOf(states'[found[b]])
    <2>1. b \in Backend /\ found[b] \in BackendId /\ found[b] \in Image(found)
      BY <1>2, Zenon DEF IsPartialMap, Image
    <2>2. b \in DOMAIN bids.ids /\ bids.ids[b] = found[b]
      BY <1>1, <1>2, Zenon DEF Books, BackInv, Claimed
    <2>3. /\ states'[found[b]] = Acquired(b, found[b])
          /\ health'[found[b]] = HealthOf(Acquired(b, found[b]))
      BY <1>2, <1>3, <2>1, Zenon
    <2> QED BY <1>2, <2>1, <2>2, <2>3, Zenon
  <1>5. ASSUME NEW b \in DOMAIN found
        PROVE  /\ states'[found[b]].name = b
               /\ found[b] \in DOMAIN states => states'[found[b]].ref = states[found[b]].ref + 1
               /\ found[b] \notin DOMAIN states => states'[found[b]].ref = 1
    <2>1. PICK id : id = found[b]
      BY Zenon
    <2>2. /\ id \in DOMAIN states => /\ Acquired(b, id).name = states[id].name
                                     /\ Acquired(b, id).ref = states[id].ref + 1
          /\ id \notin DOMAIN states => Acquired(b, id).name = b /\ Acquired(b, id).ref = 1
      BY <1>4, AcquiredFacts
    <2>3. id \in DOMAIN states => states[id].name = b
      <3>1. \A c, d \in DOMAIN bids.ids : bids.ids[c] = bids.ids[d] => c = d
        BY Zenon DEF TypeInv, WellFormed, Injective
      <3> QED BY <1>4, <2>1, <3>1 DEF Books, BackInv, Named
    <2> QED BY <1>4, <2>1, <2>2, <2>3, Zenon
  <1>6. \A i \in Image(found) : \E b \in DOMAIN found : i = found[b]
    BY DEF Image
  <1>7. /\ DOMAIN states' = DOMAIN states \cup Image(found)
        /\ \A i \in DOMAIN states \ Image(found) : states'[i] = states[i]
        /\ \A i \in BackendId \ Image(found) : health'[i] = health[i]
    BY <1>3
  <1> QED BY <1>2, <1>4, <1>5, <1>6, <1>7, ZenonT(60)

LEMMA RegisterAdoptedBack ==
  ASSUME TypeInv, Books, RegisterAdopted
  PROVE  BackInv'
  <1>1. doing({"adopt"}, "claim") /\ UNCHANGED <<bids, backendMap, faults>> /\ work'.pc = "idle"
    BY Zenon DEF RegisterAdopted, Finish, Idle, tally, marks
  <1>2. todo # << >> /\ job.op = "adopt" /\ work.pc = "claim" /\ job.v \in Key
    BY <1>1, ClaimFacts, Zenon
  <1>3. PICK found : found = Found(work.target)
    BY Zenon
  <1>4. PICK u : u = job.v
    BY Zenon
  <1>5. /\ u \notin DOMAIN services /\ u \in Key /\ DOMAIN services' = DOMAIN services \cup {u}
        /\ \A v \in DOMAIN services : services'[v] = services[v]
        /\ services'[u].ids = found
    BY <1>2, <1>3, <1>4, FirstAdoption, RegisteredFacts, Zenon DEF Books
  <1>6. \A v, c, i : Refers(v, c, i)' <=>
          Refers(v, c, i) \/ (v = u /\ c \in DOMAIN found /\ found[c] = i)
    BY <1>1, <1>2, <1>5, RefersPlain
  <1>7. /\ DOMAIN states' = DOMAIN states \cup Image(found)
        /\ \A i \in DOMAIN states \ Image(found) : states'[i] = states[i]
        /\ \A i \in BackendId \ Image(found) : health'[i] = health[i]
        /\ \A b \in DOMAIN found :
              /\ b \in DOMAIN bids.ids /\ bids.ids[b] = found[b]
              /\ found[b] \in DOMAIN backendMap /\ backendMap[found[b]].name = b
              /\ states'[found[b]].name = b
              /\ health'[found[b]] = HealthOf(states'[found[b]])
              /\ found[b] \in DOMAIN states => states'[found[b]].ref = states[found[b]].ref + 1
              /\ found[b] \notin DOMAIN states => states'[found[b]].ref = 1
        /\ \A i \in Image(found) : \E b \in DOMAIN found : i = found[b]
    BY <1>3, AdoptedBackends
  <1>8. \A b \in DOMAIN found : found[b] \in Image(found)
    BY Zenon DEF Image
  <1>9. \A i \in DOMAIN states : i \in BackendId
    BY Zenon DEF TypeInv, TypeOK, IsPartialMap
  <1>10. \A c, i : Alive(c, i) => Alive(c, i)'
    <2> SUFFICES ASSUME NEW c, NEW i, Alive(c, i) PROVE Alive(c, i)'
      BY Zenon
    <2>1. CASE i \in Image(found)
      <3>1. PICK b \in DOMAIN found : i = found[b]
        BY <1>7, <2>1, Zenon
      <3>2. c = b
        BY <1>7, <3>1, Zenon DEF Alive
      <3> QED BY <1>1, <1>7, <2>1, <3>1, <3>2 DEF Alive
    <2>2. CASE i \notin Image(found)
      BY <1>1, <1>7, <1>9, <2>2 DEF Alive
    <2> QED BY <2>1, <2>2, Zenon
  <1>11. \A b \in DOMAIN found : Alive(b, found[b])'
    BY <1>1, <1>7, <1>8, Zenon DEF Alive
  <1>12. Live'
    BY <1>6, <1>10, <1>11, Zenon DEF Books, BackInv, Live
  <1>13. Named'
    BY <1>1, <1>7 DEF Books, BackInv, Named
  <1>14. Counted'
    <2> SUFFICES ASSUME NEW i \in DOMAIN states'
                 PROVE  /\ Cardinality(Referrers(i)') <= states'[i].ref
                        /\ faults' = 0 => states'[i].ref = Cardinality(Referrers(i)')
      BY <1>1 DEF Books, BackInv, Counted
    <2>1. CASE i \in Image(found)
      <3>1. PICK b \in DOMAIN found : i = found[b]
        BY <1>7, <2>1, Zenon
      <3>2. Referrers(i)' = Referrers(i) \cup {u}
        BY <1>6, <3>1, Referring, Zenon
      <3>3. \A c : ~Refers(u, c, i)
        BY <1>5, Zenon DEF Refers
      <3>4. /\ i \in DOMAIN states => states'[i].ref = states[i].ref + 1
            /\ i \notin DOMAIN states => states'[i].ref = 1
        BY <1>7, <3>1, Zenon
      <3>5. PICK n : n = states'[i].ref
        BY Zenon
      <3>6. /\ Cardinality(Referrers(i)) \in Nat /\ n \in Nat /\ Cardinality(Referrers(i)) + 1 <= n
            /\ faults = 0 => n = Cardinality(Referrers(i)) + 1
            /\ Cardinality(Referrers(i) \cup {u}) = Cardinality(Referrers(i)) + 1
        BY <1>5, <3>3, <3>4, <3>5, OneMore, Zenon DEF Books
      <3> QED BY <1>1, <3>2, <3>5, <3>6, Zenon
    <2>2. CASE i \notin Image(found)
      <3>1. Referrers(i)' = Referrers(i)
        <4>1. \A v, c : Refers(v, c, i)' <=> Refers(v, c, i)
          BY <1>6, <1>8, <2>2, Zenon
        <4> QED BY <4>1, Referring
      <3>2. i \in DOMAIN states /\ states'[i] = states[i]
        BY <1>7, <2>2, Zenon
      <3> QED BY <1>1, <3>1, <3>2, Zenon DEF Books, BackInv, Counted
    <2> QED BY <2>1, <2>2, Zenon
  <1>15. Dropping' /\ Claimed'
    BY <1>1 DEF Dropping, Claimed
  <1> QED BY <1>12, <1>13, <1>14, <1>15, Zenon DEF BackInv

LEMMA RegisterAdoptedBooks ==
  ASSUME TypeInv, Books, RegisterAdopted
  PROVE  Books'
  <1>1. IdsInv' /\ BackInv'
    BY RegisterAdoptedIds, RegisterAdoptedBack, Zenon DEF Books
  <1>2. doing({"adopt"}, "claim") /\ UNCHANGED pool /\ work'.pc = "idle"
    BY Zenon DEF RegisterAdopted, Finish, Idle
  <1>3. todo # << >> /\ job.op = "adopt" /\ work.pc = "claim"
    BY <1>2, ClaimFacts, Zenon
  <1>4. /\ job.v \notin DOMAIN services /\ DOMAIN services' = DOMAIN services \cup {job.v}
        /\ \A v \in DOMAIN services : services'[v] = services[v]
        /\ services'[job.v].ext = work.target
    BY <1>3, FirstAdoption, RegisteredFacts, Zenon DEF Books
  <1>5. Pending = Slots(work.target) /\ Pending' = {}
    BY <1>2, <1>3, <1>4, Unpending, Zenon DEF Pending
  <1>6. TableInv'
    BY <1>2, <1>4, <1>5 DEF Books, TableInv
  <1> QED BY <1>1, <1>6, Zenon DEF Books

-----------------------------------------------------------------------------
(* Together. *)

\* adoptOneLocked keeps the invariant.
LEMMA AdoptKeeps ==
  ASSUME Inv, BeginAdopt \/ RegisterAdopted \/ \E b \in Backend : ClaimBackend(b)
  PROVE  Inv'
  <1>1. CASE BeginAdopt
    BY <1>1, BeginAdoptTypes, BeginAdoptBooks, Zenon DEF Inv
  <1>2. CASE RegisterAdopted
    BY <1>2, RegisterAdoptedTypes, RegisterAdoptedBooks, Zenon DEF Inv
  <1>3. ASSUME NEW b \in Backend, ClaimBackend(b) PROVE Inv'
    BY <1>3, ClaimBackendTypes, ClaimBackendBooks DEF Inv
  <1> QED BY <1>1, <1>2, <1>3, Zenon

=============================================================================
