-------------------------- MODULE DataplaneFacts ----------------------------
(***************************************************************************)
(* The inductive invariants of Dataplane, and the facts about jobs,        *)
(* entries, allocators and finished operations that the proofs of          *)
(* SyncProofs, EntryProofs, TableProofs and AdoptProofs share.             *)
(***************************************************************************)
EXTENDS DataplaneState, AllocatorFacts

Key == Vip \cup {Zero}

-----------------------------------------------------------------------------
(* Partial maps. *)

LEMMA PartialMapIff ==
  ASSUME NEW S, NEW T, NEW f
  PROVE  f \in PartialMap(S, T) <=> IsPartialMap(f, S, T)
  BY DEF PartialMap, IsPartialMap

LEMMA EmptyMap ==
  ASSUME NEW S, NEW T
  PROVE  IsPartialMap(Empty, S, T) /\ Empty \in PartialMap(S, T) /\ DOMAIN Empty = {}
  BY PartialMapIff, Zenon DEF IsPartialMap, Empty

LEMMA GiveMap ==
  ASSUME NEW S, NEW T, NEW f, IsPartialMap(f, S, T), NEW k \in S, NEW x \in T
  PROVE  /\ IsPartialMap(Give(f, k, x), S, T)
         /\ DOMAIN Give(f, k, x) = DOMAIN f \cup {k}
         /\ Give(f, k, x)[k] = x
         /\ \A l \in DOMAIN f : l # k => Give(f, k, x)[l] = f[l]
  BY DEF IsPartialMap, Give

LEMMA DropMap ==
  ASSUME NEW S, NEW T, NEW f, IsPartialMap(f, S, T), NEW k
  PROVE  /\ IsPartialMap(Drop(f, k), S, T)
         /\ DOMAIN Drop(f, k) = DOMAIN f \ {k}
         /\ \A l \in DOMAIN f \ {k} : Drop(f, k)[l] = f[l]
  BY DEF IsPartialMap, Drop

LEMMA ExceptMap ==
  ASSUME NEW S, NEW T, NEW f, IsPartialMap(f, S, T), NEW k, NEW x, k \in DOMAIN f => x \in T
  PROVE  IsPartialMap([f EXCEPT ![k] = x], S, T)
  BY Zenon DEF IsPartialMap

-----------------------------------------------------------------------------
(* Sequences. *)

LEMMA HeadTail ==
  ASSUME NEW S, NEW s \in Seq(S), s # << >>
  PROVE  /\ Head(s) \in S /\ Head(s) = s[1] /\ Len(s) \in Nat \ {0}
         /\ Tail(s) \in Seq(S) /\ Len(Tail(s)) = Len(s) - 1
         /\ \A i \in 1 .. Len(s) - 1 : Tail(s)[i] = s[i + 1]
  OBVIOUS

-----------------------------------------------------------------------------
(* Allocators. *)

LEMMA AllocTyped ==
  ASSUME NEW a, WellFormed(a), NEW keys, DOMAIN a.ids \subseteq keys
  PROVE  a \in AllocType(keys, a.max) /\ IsPartialMap(a.ids, keys, 0 .. a.max - 1)
  <1>1. /\ a = [max |-> a.max, ids |-> a.ids, free |-> a.free, next |-> a.next]
        /\ a.max \in Nat /\ a.next \in 0 .. a.max
        /\ Image(a.free) \cup Image(a.ids) \subseteq 0 .. a.max - 1
        /\ IdMap(a.ids) /\ a.free \in Seq(Nat)
    BY DEF WellFormed
  <1>2. IsPartialMap(a.ids, keys, 0 .. a.max - 1)
    BY <1>1, Zenon DEF IsPartialMap, Image, IdMap
  <1>3. a.free \in Seq(0 .. a.max - 1)
    <2>1. \A i \in 1 .. Len(a.free) : a.free[i] \in 0 .. a.max - 1
      BY <1>1, SeqImage, Zenon
    <2>2. a.free \in [1 .. Len(a.free) -> 0 .. a.max - 1] /\ Len(a.free) \in Nat
      BY <1>1, <2>1
    <2> QED BY <2>2, SeqOf, Zenon
  <1>4. a.ids \in PartialMap(keys, 0 .. a.max - 1)
    BY <1>2, PartialMapIff
  <1> QED BY <1>1, <1>2, <1>3, <1>4, Zenon DEF AllocType

LEMMA NewIdsTyped ==
  ASSUME NEW keys, NEW max \in Nat
  PROVE  WellFormed(NewIds(max)) /\ NewIds(max) \in AllocType(keys, max)
  <1>1. WellFormed(NewIds(max)) /\ DOMAIN NewIds(max).ids = {} /\ NewIds(max).max = max
    BY NewFacts
  <1> QED BY <1>1, AllocTyped

-----------------------------------------------------------------------------
(* The inductive invariant behind TypeOK: what an operation under way relies *)
(* on at each of its steps.                                                  *)

\* What the proofs use of well-founded and finite sets.  These are facts about the
\* constants, proved in DataplaneProofs; the invariant carries them along so that
\* the modules before it need not reach the library's theorems.

\* A listing of a set of VIPs names each of them once.
Enumerated ==
  \A S \in SUBSET Key : \A s \in Listings(S) :
    /\ Len(s) \in Nat /\ DOMAIN s = 1 .. Len(s)
    /\ \A i \in 1 .. Len(s) : s[i] \in S
    /\ \A i, j \in 1 .. Len(s) : i # j => s[i] # s[j]
    /\ \A x \in S : \E i \in 1 .. Len(s) : s[i] = x

\* A set of VIPs grows by one with each VIP.
Countable ==
  /\ Cardinality({}) = 0
  /\ \A S \in SUBSET Key :
       /\ Cardinality(S) \in Nat
       /\ \A v \in Key \ S : Cardinality(S \cup {v}) = Cardinality(S) + 1

Grounds == Least /\ Enumerated /\ Countable

\* The first job is the one the step belongs to, and its VIP has an entry.
Placed ==
  /\ work.pc # "idle" => todo # << >>
  /\ work.pc \in {"sync", "slots", "service", "vip"} =>
       job.op \in Upserting /\ job.v \in DOMAIN services
  /\ work.pc \in {"drop", "zero"} => job.op = "remove" /\ job.v \in DOMAIN services
  /\ work.pc = "claim" => job.op = "adopt"

\* What the spec lists and the entry does not have yet is still to be acquired.
Covered ==
  work.pc = "sync" => work.slot = 0 /\ DOMAIN given \subseteq DOMAIN entry.ids \cup work.left

\* The new table names backends of the entry and nothing else.
InTable ==
  work.pc = "slots" =>
    /\ work.table \in [0 .. work.target.size - 1 -> DOMAIN entry.ids]
    /\ work.slot < work.target.size

\* What adoption read is still in the maps, and its claims are held.
Claiming ==
  work.pc = "claim" =>
    /\ slotIds(work.target) \subseteq DOMAIN backendMap
    /\ work.left \subseteq DOMAIN Found(work.target)
    /\ NoRepeat(work.claimed) /\ Image(work.claimed) \subseteq DOMAIN bids.ids

\* SetBackendWeight works on VIPs that have an entry (or on config.VIP{}), and
\* nothing else is queued with it.
Weighing ==
  \A i \in 1 .. Len(todo) : todo[i].op = "weight" =>
    /\ todo[i].v = Zero \/ todo[i].v \in DOMAIN services
    /\ \A j \in 1 .. Len(todo) : todo[j].op = "weight"

TypeInv ==
  /\ Grounds /\ TypeOK /\ WellFormed(sids) /\ WellFormed(bids)
  /\ Placed /\ Covered /\ InTable /\ Claiming /\ Weighing

-----------------------------------------------------------------------------
(* Service ids. *)

\* An entry's service id is the one its VIP holds.
Owned == \A v \in DOMAIN services : v \in DOMAIN sids.ids /\ services[v].sid = sids.ids[v]

Distinct == \A v, w \in DOMAIN vipMap : vipMap[v] = vipMap[w] => v = w

\* A VIP in vip_map with an entry leads to that entry's service, and the entry
\* knows the address, so that removing it deletes the VIP from vip_map.
Matched ==
  \A v \in DOMAIN vipMap \cap DOMAIN services : vipMap[v] = services[v].sid /\ services[v].up

\* A VIP in vip_map without an entry is one adoption has still to come to.
Known ==
  \A v \in DOMAIN vipMap \ DOMAIN services :
    \E i \in 1 .. Len(todo) : todo[i].op = "adopt" /\ todo[i].v = v

\* Adoption comes first, once to each VIP, with the service id vip_map has for it.
Adopting ==
  \A i \in 1 .. Len(todo) : todo[i].op = "adopt" =>
    /\ todo[i].v \in DOMAIN vipMap \ DOMAIN services
    /\ todo[i].sid = vipMap[todo[i].v]
    /\ \A j \in 1 .. i - 1 : todo[j].op = "adopt" /\ todo[j].v # todo[i].v

\* A service id being adopted is reserved; a VIP being removed is out of vip_map
\* before its service id is given back.
Midway ==
  /\ work.pc = "claim" => job.v \in DOMAIN sids.ids /\ sids.ids[job.v] = job.sid
  /\ work.pc = "zero" => job.v \notin DOMAIN vipMap

IdsInv == Owned /\ Distinct /\ Matched /\ Known /\ Adopting /\ Midway

-----------------------------------------------------------------------------
(* The Maglev table, slot by slot. *)

\* A slot is free, pending or in exactly one entry's extent.
TableInv ==
  /\ \A v, w \in DOMAIN services : \A s \in Slots(services[v].ext) :
       s \in Slots(services[w].ext) => v = w
  /\ \A v \in DOMAIN services : \A s \in Slots(services[v].ext) :
       s \in Slot /\ s \notin pool /\ s \notin Pending
  /\ \A s \in Pending : s \in Slot /\ s \notin pool
  /\ \A s \in Slot : s \in pool \/ s \in Pending \/ \E v \in DOMAIN services : s \in Slots(services[v].ext)

-----------------------------------------------------------------------------
(* Backends and their reference counts. *)

\* VIP v holds a reference to backend b under the given id.
Refers(v, b, id) == v \in DOMAIN services /\ b \in Refs(v) /\ services[v].ids[b] = id

Alive(b, id) ==
  /\ b \in DOMAIN bids.ids /\ bids.ids[b] = id
  /\ id \in DOMAIN states /\ states[id].name = b
  /\ id \in DOMAIN backendMap /\ backendMap[id].name = b
  /\ health[id] = HealthOf(states[id])

Live == \A v, b, id : Refers(v, b, id) => Alive(b, id)

\* Every backend with a state, listed or left behind by a failed write, has its id.
Named ==
  \A id \in DOMAIN states :
    states[id].name \in DOMAIN bids.ids /\ bids.ids[states[id].name] = id

\* A failed write can only leave references too many.
Counted ==
  /\ faults \in Nat
  /\ \A id \in DOMAIN states :
       /\ Cardinality(Referrers(id)) <= states[id].ref
       /\ faults = 0 => states[id].ref = Cardinality(Referrers(id))

\* What a removal has still to give up the entry lists.
Dropping == work.pc = "drop" => work.left \subseteq DOMAIN entry.ids

\* What an adoption has claimed nobody else uses yet, and all it has passed it holds.
Claimed ==
  work.pc = "claim" =>
    /\ \A b \in Image(work.claimed) : bids.ids[b] \notin DOMAIN states
    /\ \A b \in DOMAIN Found(work.target) \ work.left :
         b \in DOMAIN bids.ids /\ bids.ids[b] = Found(work.target)[b]

BackInv == Live /\ Named /\ Counted /\ Dropping /\ Claimed

-----------------------------------------------------------------------------

Books == IdsInv /\ TableInv /\ BackInv

Inv == TypeInv /\ Books

-----------------------------------------------------------------------------
(* Jobs, entries and specs. *)

LEMMA ListingFacts ==
  ASSUME TypeInv, NEW S \in SUBSET Key, NEW s \in Listings(S)
  PROVE  /\ Len(s) \in Nat /\ DOMAIN s = 1 .. Len(s)
         /\ \A i \in 1 .. Len(s) : s[i] \in S
         /\ \A i, j \in 1 .. Len(s) : i # j => s[i] # s[j]
         /\ \A x \in S : \E i \in 1 .. Len(s) : s[i] = x
  BY DEF TypeInv, Grounds, Enumerated

LEMMA JobFields ==
  ASSUME NEW j \in JobType
  PROVE  /\ j.op \in {"upsert", "remove", "weight", "adopt", "boot", "ready"}
         /\ j.op = "upsert" => j.v \in Vip /\ j.spec \in Specs
         /\ j.op = "remove" => j.v \in Key
         /\ j.op = "weight" => j.v \in Key /\ j.of \in Key /\ j.b \in Backend /\ j.w \in Overrides
         /\ j.op = "adopt" => j.v \in Vip /\ j.sid \in ServiceId
         /\ j.op = "boot" => j.config \in Configs \cup {Empty}
  BY DEF JobType, Key

LEMMA JobsTyped ==
  /\ \A v \in Vip, spec \in Specs : Upsert(v, spec) \in JobType
  /\ \A v \in Key : Remove(v) \in JobType
  /\ \A v, w \in Key, b \in Backend, x \in Overrides : Reweigh(v, w, b, x) \in JobType
  /\ \A v \in Vip, sid \in ServiceId : Adopt(v, sid) \in JobType
  /\ \A config \in Configs \cup {Empty} : Boot(config) \in JobType
  /\ Ready \in JobType
  BY DEF JobType, Key, Upsert, Remove, Reweigh, Adopt, Boot, Ready

LEMMA JobFacts ==
  ASSUME TypeOK, todo # << >>
  PROVE  /\ job \in JobType /\ job = todo[1]
         /\ Len(todo) \in Nat \ {0} /\ Tail(todo) \in Seq(JobType)
         /\ Len(Tail(todo)) = Len(todo) - 1
         /\ \A i \in 1 .. Len(todo) - 1 : Tail(todo)[i] = todo[i + 1]
  <1>1. todo \in Seq(JobType)
    BY DEF TypeOK
  <1> QED BY <1>1, HeadTail, Zenon DEF job

LEMMA EntryFields ==
  ASSUME NEW e \in EntryType
  PROVE  /\ e.sid \in ServiceId /\ e.ext \in ExtentType /\ e.up \in BOOLEAN
         /\ e.ids \in PartialMap(Backend, BackendId)
         /\ e.spec \in SpecType /\ e.vip \in SpecType /\ e.over \in SpecType
  BY DEF EntryType

LEMMA EntryTyped ==
  ASSUME NEW e \in EntryType
  PROVE  /\ \A ids \in PartialMap(Backend, BackendId) : [e EXCEPT !.ids = ids] \in EntryType
         /\ \A ext \in ExtentType : [e EXCEPT !.ext = ext] \in EntryType
         /\ \A over \in SpecType : [e EXCEPT !.over = over] \in EntryType
         /\ \A spec \in SpecType, vip \in SpecType, up \in BOOLEAN :
              [e EXCEPT !.spec = spec, !.vip = vip, !.up = up] \in EntryType
         /\ \A ids \in PartialMap(Backend, BackendId), ext \in ExtentType, up \in BOOLEAN :
              [e EXCEPT !.ids = ids, !.ext = ext, !.up = up] \in EntryType
  BY Zenon DEF EntryType

LEMMA NoExtentTyped == NoExtent \in ExtentType
  BY SizeAssumption DEF NoExtent, Extent, ExtentType

LEMMA NewEntryTyped ==
  ASSUME NEW sid \in ServiceId
  PROVE  NewEntry(sid) \in EntryType
  <1>1. Empty \in SpecType /\ Empty \in PartialMap(Backend, BackendId)
    BY EmptyMap DEF SpecType
  <1> QED BY <1>1, NoExtentTyped, Zenon DEF NewEntry, EntryType

LEMMA ServiceTyped ==
  ASSUME TypeOK, NEW v \in DOMAIN services
  PROVE  services[v] \in EntryType /\ v \in Key
  BY DEF TypeOK, IsPartialMap, Key

LEMMA GivenTyped ==
  ASSUME TypeInv, todo # << >>, job.op \in Upserting
  PROVE  given \in SpecType /\ IsPartialMap(given, Backend, Weight) /\ job.v \in Key
         /\ (job.op = "weight" => job.v = Zero \/ job.v \in DOMAIN services)
  <1>1. job \in JobType /\ job = todo[1] /\ 1 \in 1 .. Len(todo)
    BY JobFacts DEF TypeInv
  <1>2. job.v \in Key
    BY <1>1, JobFields, Zenon DEF Upserting, Key
  <1>3. job.op = "weight" => job.v = Zero \/ job.v \in DOMAIN services
    BY <1>1, Zenon DEF TypeInv, Weighing
  <1>4. given \in SpecType
    <2>1. CASE job.op = "upsert"
      BY <1>1, <2>1, JobFields, WeightAssumption, Zenon DEF given, SpecType
    <2>2. CASE job.op = "weight" /\ job.v = Zero
      BY <2>2, EmptyMap, Zenon DEF given, SpecType
    <2>3. CASE job.op = "weight" /\ job.v # Zero
      <3>1. entry \in EntryType
        BY <1>3, <2>3, ServiceTyped DEF entry, TypeInv
      <3> QED BY <2>3, <3>1, EntryFields, Zenon DEF given
    <2> QED BY <2>1, <2>2, <2>3, Zenon DEF Upserting
  <1> QED BY <1>2, <1>3, <1>4, PartialMapIff, Zenon DEF SpecType

LEMMA ExtentFields ==
  ASSUME NEW e \in ExtentType
  PROVE  e.offset \in Nat /\ e.size \in Nat /\ e.offset + e.size <= MaglevM /\ e.size \in 0 .. MaglevM
         /\ Slots(e) \subseteq Slot
  BY SizeAssumption, SMTT(60) DEF ExtentType, Slots, Slot

LEMMA AllocFields ==
  ASSUME TypeInv
  PROVE  /\ sids.max = MaxVIPs /\ DOMAIN sids.ids \subseteq Key
         /\ bids.max = MaxBackends /\ DOMAIN bids.ids \subseteq Backend
         /\ IsPartialMap(sids.ids, Key, ServiceId)
         /\ IsPartialMap(bids.ids, Backend, BackendId)
  <1>1. sids \in AllocType(Key, MaxVIPs) /\ bids \in AllocType(Backend, MaxBackends)
    BY Zenon DEF TypeInv, TypeOK, Key
  <1>2. /\ sids.max = MaxVIPs /\ sids.ids \in PartialMap(Key, ServiceId)
        /\ bids.max = MaxBackends /\ bids.ids \in PartialMap(Backend, BackendId)
    BY <1>1 DEF AllocType, ServiceId, BackendId
  <1> QED BY <1>2, PartialMapIff, Zenon DEF IsPartialMap

-----------------------------------------------------------------------------
(* What is queued. *)

\* Jobs other than SetBackendWeight's and adoption's, and adoption's.
PlainJobs == {j \in JobType : j.op \notin {"weight", "adopt"}}

BootJobs == {j \in JobType : j.op \in {"adopt", "boot"}}

LEMMA PlainOnes ==
  /\ \A v \in Vip, spec \in Specs : Upsert(v, spec) \in PlainJobs
  /\ \A v \in Key : Remove(v) \in PlainJobs
  /\ Ready \in PlainJobs
  /\ \A v \in Vip, sid \in ServiceId : Adopt(v, sid) \in BootJobs
  /\ \A config \in Configs \cup {Empty} : Boot(config) \in BootJobs
  BY JobsTyped DEF PlainJobs, BootJobs, Upsert, Remove, Adopt, Boot, Ready

LEMMA PlainQueue ==
  ASSUME todo' \in Seq(PlainJobs) \/ todo' \in Seq(BootJobs)
  PROVE  todo' \in Seq(JobType) /\ Weighing'
  <1>1. \A i \in 1 .. Len(todo') : todo'[i] \in JobType /\ todo'[i].op # "weight"
    BY DEF PlainJobs, BootJobs
  <1>2. todo' \in [1 .. Len(todo') -> JobType] /\ Len(todo') \in Nat
    BY <1>1
  <1>3. todo' \in Seq(JobType)
    BY <1>2, SeqOf
  <1> QED BY <1>1, <1>3, Zenon DEF Weighing

\* The removals of a set of VIPs.
LEMMA Removals ==
  ASSUME TypeInv, NEW S \in SUBSET Key, NEW order \in Listings(S)
  PROVE  [i \in DOMAIN order |-> Remove(order[i])] \in Seq(PlainJobs)
  <1>1. Len(order) \in Nat /\ DOMAIN order = 1 .. Len(order) /\ \A i \in 1 .. Len(order) : order[i] \in S
    BY ListingFacts, Zenon
  <1>2. [i \in DOMAIN order |-> Remove(order[i])] \in [1 .. Len(order) -> PlainJobs]
    BY <1>1, PlainOnes
  <1> QED BY <1>1, <1>2, SeqOf, Zenon

LEMMA ReloadJobs ==
  ASSUME TypeInv, NEW config \in PartialMap(Vip, Specs), NEW next \in {<< >>, <<Ready>>},
         Reload(config, next)
  PROVE  todo' \in Seq(PlainJobs)
  <1> DEFINE removes == DOMAIN services \ DOMAIN config
             upserts == {v \in DOMAIN config : v \notin DOMAIN services \/ services[v].spec # config[v]}
  <1>1. removes \in SUBSET Key
    BY Zenon DEF TypeInv, TypeOK, IsPartialMap, Key
  <1>2. DOMAIN config \subseteq Vip /\ \A v \in DOMAIN config : config[v] \in Specs
    BY PartialMapIff DEF IsPartialMap
  <1>3. upserts \in SUBSET Key /\ upserts \in SUBSET Vip /\ \A v \in upserts : config[v] \in Specs
    BY <1>2, Zenon DEF Key
  <1>4. PICK g \in Listings(removes), n \in Listings(upserts) :
          todo' = [i \in DOMAIN g |-> Remove(g[i])]
                  \o [i \in DOMAIN n |-> Upsert(n[i], config[n[i]])] \o next
    BY Zenon DEF Reload
  <1> HIDE DEF removes, upserts
  <1> DEFINE r == [i \in DOMAIN g |-> Remove(g[i])]
             u == [i \in DOMAIN n |-> Upsert(n[i], config[n[i]])]
  <1>5. r \in Seq(PlainJobs)
    BY <1>1, Removals, Zenon
  <1>6. u \in Seq(PlainJobs)
    <2>1. Len(n) \in Nat /\ DOMAIN n = 1 .. Len(n) /\ \A i \in 1 .. Len(n) : n[i] \in upserts
      BY <1>3, ListingFacts, Zenon
    <2>2. u \in [1 .. Len(n) -> PlainJobs]
      BY <1>3, <2>1, PlainOnes, Zenon
    <2> QED BY <2>1, <2>2, SeqOf, Zenon
  <1>7. next \in Seq(PlainJobs)
    <2>1. << >> \in Seq(PlainJobs)
      OBVIOUS
    <2>2. <<Ready>> \in Seq(PlainJobs)
      BY PlainOnes
    <2> QED BY <2>1, <2>2, Zenon
  <1>8. todo' = r \o u \o next
    BY <1>4
  <1> HIDE DEF r, u
  <1> QED BY <1>5, <1>6, <1>7, <1>8

-----------------------------------------------------------------------------
(* Where an operation stands. *)

LEMMA SyncFacts ==
  ASSUME TypeInv, NEW pc \in {"sync", "slots", "service", "vip"}, doing(Upserting, pc)
  PROVE  /\ todo # << >> /\ job.op \in Upserting /\ job.op \notin {"adopt", "remove"} /\ work.pc = pc
         /\ job.v \in DOMAIN services /\ job.v \in Key
         /\ entry \in EntryType /\ entry = services[job.v]
         /\ IsPartialMap(entry.ids, Backend, BackendId)
  <1>1. todo # << >> /\ job.op \in Upserting /\ work.pc = pc /\ job.v \in DOMAIN services
    BY Zenon DEF TypeInv, Placed, doing
  <1>2. services[job.v] \in EntryType /\ job.v \in Key
    BY <1>1, ServiceTyped DEF TypeInv
  <1> QED BY <1>1, <1>2, EntryFields, PartialMapIff, Zenon DEF entry, Upserting

LEMMA IdleTyped == Idle \in WorkType
  <1>1. Empty \in [0 .. 0 - 1 -> Backend] /\ Empty \in [0 .. 0 - 1 -> BackendId]
    BY DEF Empty
  <1>2. 0 \in 0 .. MaglevM
    BY SizeAssumption
  <1>3. Empty \in TableType(Backend) /\ Empty \in TableType(BackendId)
    BY <1>1, <1>2 DEF TableType
  <1> QED BY <1>2, <1>3, NoExtentTyped DEF Idle, WorkType

LEMMA IdleStages ==
  ASSUME work' = Idle \/ (UNCHANGED work /\ work.pc = "idle")
  PROVE  Placed' /\ Covered' /\ InTable' /\ Claiming'
  <1>1. work'.pc = "idle"
    BY DEF Idle
  <1> QED BY <1>1, Zenon DEF Placed, Covered, InTable, Claiming

LEMMA Finished ==
  ASSUME TypeInv, todo # << >>, NEW rest, rest \in {Tail(todo), << >>}, Finish(rest),
         job.op = "weight" => DOMAIN services \subseteq DOMAIN services'
  PROVE  /\ todo' \in Seq(JobType) /\ work' \in WorkType
         /\ Placed' /\ Covered' /\ InTable' /\ Claiming' /\ Weighing'
  <1>1. todo' = rest /\ work' = Idle
    BY Zenon DEF Finish
  <1>2. todo' \in Seq(JobType)
    <2>1. << >> \in Seq(JobType)
      OBVIOUS
    <2> QED BY <1>1, <2>1, JobFacts, Zenon DEF TypeInv
  <1>3. Weighing'
    <2>1. CASE rest = << >>
      BY <1>1, <2>1 DEF Weighing
    <2>2. CASE rest = Tail(todo)
      <3>1. /\ job = todo[1] /\ Len(todo) \in Nat \ {0} /\ Len(todo') = Len(todo) - 1
            /\ \A i \in 1 .. Len(todo) - 1 : todo'[i] = todo[i + 1]
        BY <1>1, <2>2, JobFacts, Zenon DEF TypeInv
      <3>2. \A i \in 1 .. Len(todo') : i + 1 \in 1 .. Len(todo) /\ todo'[i] = todo[i + 1]
        BY <3>1
      <3>3. 1 \in 1 .. Len(todo)
        BY <3>1
      <3> HIDE DEF job
      <3>4. \A i \in 1 .. Len(todo) : todo[i].op = "weight" =>
              /\ todo[i].v = Zero \/ todo[i].v \in DOMAIN services
              /\ \A j \in 1 .. Len(todo) : todo[j].op = "weight"
        BY Zenon DEF TypeInv, Weighing
      <3> SUFFICES ASSUME NEW i \in 1 .. Len(todo'), todo'[i].op = "weight"
                   PROVE  /\ todo'[i].v = Zero \/ todo'[i].v \in DOMAIN services'
                          /\ \A j \in 1 .. Len(todo') : todo'[j].op = "weight"
        BY Zenon DEF Weighing
      <3> QED BY <3>1, <3>2, <3>3, <3>4, ZenonT(60)
    <2> QED BY <2>1, <2>2, Zenon
  <1> QED BY <1>1, <1>2, <1>3, IdleTyped, IdleStages, Zenon

LEMMA Rejected ==
  ASSUME TypeInv, todo # << >>, Reject, DOMAIN services \subseteq DOMAIN services'
  PROVE  /\ todo' \in Seq(JobType) /\ work' \in WorkType
         /\ Placed' /\ Covered' /\ InTable' /\ Claiming' /\ Weighing'
  BY Finished, Zenon DEF Reject

HistType == [Key -> {"clean", "failed", "retried"}]

LEMMA Failed ==
  ASSUME TypeInv, todo # << >>, Fail, DOMAIN services \subseteq DOMAIN services'
  PROVE  /\ todo' \in Seq(JobType) /\ work' \in WorkType /\ hist' \in HistType
         /\ Placed' /\ Covered' /\ InTable' /\ Claiming' /\ Weighing'
  <1>1. hist' \in HistType
    BY Zenon DEF Fail, TypeInv, TypeOK, HistType, Key
  <1> QED BY <1>1, Rejected, Zenon DEF Fail

InfoType == [name : Backend, mac : BOOLEAN]

\* An update that fails: what it may have left behind is still of its type.
LEMMA FailStep ==
  ASSUME TypeInv, todo # << >>, Fail,
         UNCHANGED <<services, sids, unclaimed, vipMap, svcMap, maglev, health>>,
         pool' \subseteq Slot, WellFormed(bids'), bids' \in AllocType(Backend, MaxBackends),
         IsPartialMap(states', BackendId, StateType),
         IsPartialMap(backendMap', BackendId, InfoType)
  PROVE  TypeInv'
  <1>1. /\ todo' \in Seq(JobType) /\ work' \in WorkType /\ hist' \in HistType
        /\ Placed' /\ Covered' /\ InTable' /\ Claiming' /\ Weighing'
    BY Failed
  <1>2. TypeOK'
    BY <1>1 DEF TypeInv, TypeOK, HistType, InfoType, Key
  <1> QED BY <1>1, <1>2, Zenon DEF TypeInv

\* More entries and the same jobs.
LEMMA StillWeighing ==
  ASSUME TypeInv, UNCHANGED todo, DOMAIN services \subseteq DOMAIN services'
  PROVE  Weighing'
  BY DEF TypeInv, Weighing

-----------------------------------------------------------------------------
(* Backends acquired and released. *)

LEMMA DesiredTyped ==
  ASSUME TypeInv, todo # << >>, job.op \in Upserting, job.v \in DOMAIN services
  PROVE  desired \in SpecType /\ DOMAIN desired = DOMAIN given
  <1>1. IsPartialMap(given, Backend, Weight)
    BY GivenTyped, Zenon
  <1>2. entry \in EntryType
    BY ServiceTyped, Zenon DEF entry, TypeInv
  <1>3. IsPartialMap(entry.over, Backend, Weight)
    BY <1>2, EntryFields, PartialMapIff, Zenon DEF SpecType
  <1>4. IsPartialMap(desired, Backend, Weight)
    BY <1>1, <1>3 DEF desired, IsPartialMap
  <1> QED BY <1>4, PartialMapIff, Zenon DEF SpecType, desired

LEMMA ReleaseTyped ==
  ASSUME TypeInv, NEW name, NEW id, ReleaseBackend(name, id)
  PROVE  /\ IsPartialMap(states', BackendId, StateType)
         /\ IsPartialMap(backendMap', BackendId, [name : Backend, mac : BOOLEAN])
         /\ health' \in [BackendId -> {"down", "healthy", "draining"}]
         /\ WellFormed(bids') /\ bids' \in AllocType(Backend, MaxBackends)
  <1>1. /\ IsPartialMap(states, BackendId, StateType)
        /\ IsPartialMap(backendMap, BackendId, [name : Backend, mac : BOOLEAN])
        /\ health \in [BackendId -> {"down", "healthy", "draining"}]
        /\ WellFormed(bids) /\ bids \in AllocType(Backend, MaxBackends)
    BY Zenon DEF TypeInv, TypeOK
  <1>2. CASE id \notin DOMAIN states
    BY <1>1, <1>2, Zenon DEF ReleaseBackend
  <1>3. CASE id \in DOMAIN states /\ states[id].ref > 1
    <2>1. states[id] \in StateType
      BY <1>1, <1>3, Zenon DEF IsPartialMap
    <2>2. [states[id] EXCEPT !.ref = @ - 1] \in StateType
      BY <1>3, <2>1 DEF StateType
    <2>3. states' = [states EXCEPT ![id] = [states[id] EXCEPT !.ref = @ - 1]]
      BY <1>3, Zenon DEF ReleaseBackend
    <2>4. IsPartialMap(states', BackendId, StateType)
      BY <1>1, <2>2, <2>3, ExceptMap, Zenon
    <2> QED BY <1>1, <1>3, <2>4, Zenon DEF ReleaseBackend
  <1>4. CASE id \in DOMAIN states /\ ~(states[id].ref > 1)
    <2>1. /\ states' = Drop(states, id) /\ backendMap' = Drop(backendMap, id)
          /\ health' = [health EXCEPT ![id] = "down"] /\ bids' = Release(bids, name)
      BY <1>4, Zenon DEF ReleaseBackend
    <2>2. WellFormed(bids') /\ bids'.max = MaxBackends /\ DOMAIN bids'.ids \subseteq Backend
      BY <1>1, <2>1, AllocFields, ReleaseFacts
    <2>3. bids' \in AllocType(Backend, MaxBackends)
      BY <2>2, AllocTyped, Zenon
    <2>4. health' \in [BackendId -> {"down", "healthy", "draining"}]
      BY <1>1, <2>1, Zenon
    <2> QED BY <1>1, <2>1, <2>2, <2>3, <2>4, DropMap, Zenon
  <1> QED BY <1>2, <1>3, <1>4, Zenon

LEMMA HealthTyped ==
  ASSUME NEW st
  PROVE  HealthOf(st) \in {"down", "healthy", "draining"}
  BY DEF HealthOf

LEMMA AcquiredTyped ==
  ASSUME TypeInv, NEW b \in Backend, NEW id
  PROVE  Acquired(b, id) \in StateType /\ Seen(Acquired(b, id)) \in StateType
         /\ Seen(Acquired(b, id)).mac \in BOOLEAN
  <1>1. id \in DOMAIN states => states[id] \in StateType
    BY Zenon DEF TypeInv, TypeOK, IsPartialMap
  <1> DEFINE Old == [name : Backend, probe : BOOLEAN, drain : BOOLEAN, admin : BOOLEAN,
                     ref : Nat, mac : BOOLEAN]
  <1>2. \A st \in Old : [st EXCEPT !.ref = @ + 1] \in StateType
    BY DEF StateType
  <1>3. StateType \subseteq Old /\ NewState(b) \in Old
    BY Zenon DEF StateType, NewState
  <1>4. Acquired(b, id) \in StateType
    <2> HIDE DEF Old
    <2> QED BY <1>1, <1>2, <1>3, Zenon DEF Acquired
  <1>5. \A st \in StateType : Seen(st) \in StateType
    BY Zenon DEF Seen, StateType
  <1>6. \A st \in StateType : st.mac \in BOOLEAN
    BY Zenon DEF StateType
  <1> QED BY <1>4, <1>5, <1>6, Zenon

LEMMA AcquiredFacts ==
  ASSUME TypeInv, NEW b \in Backend, NEW id, NEW st \in {Acquired(b, id), Seen(Acquired(b, id))}
  PROVE  /\ id \in DOMAIN states => /\ st.name = states[id].name /\ st.ref = states[id].ref + 1
                                    /\ HealthOf(st) = HealthOf(states[id])
         /\ id \notin DOMAIN states => st.name = b /\ st.ref = 1
  <1>1. id \in DOMAIN states => states[id] \in StateType
    BY Zenon DEF TypeInv, TypeOK, IsPartialMap
  <1> DEFINE old == IF id \in DOMAIN states THEN states[id] ELSE NewState(b)
  <1>2. /\ Acquired(b, id) = [old EXCEPT !.ref = @ + 1]
        /\ Seen(Acquired(b, id)) = [[old EXCEPT !.ref = @ + 1] EXCEPT !.mac = @ \/ job.v \in MacVips]
    BY Zenon DEF Acquired, Seen
  <1>3. old \in [name : Backend, probe : BOOLEAN, drain : BOOLEAN, admin : BOOLEAN,
                 ref : Nat, mac : BOOLEAN]
    BY <1>1, Zenon DEF StateType, NewState
  <1>4. /\ id \in DOMAIN states => old = states[id]
        /\ id \notin DOMAIN states => old.name = b /\ old.ref = 0
    BY Zenon DEF NewState
  <1> HIDE DEF old
  <1>5. /\ st.name = old.name /\ st.ref = old.ref + 1
        /\ st.probe = old.probe /\ st.drain = old.drain /\ st.admin = old.admin
    <2>1. PICK more : more = [old EXCEPT !.ref = @ + 1]
      BY Zenon
    <2>2. /\ more \in [name : Backend, probe : BOOLEAN, drain : BOOLEAN, admin : BOOLEAN,
                      ref : Nat, mac : BOOLEAN]
          /\ more.name = old.name /\ more.ref = old.ref + 1
          /\ more.probe = old.probe /\ more.drain = old.drain /\ more.admin = old.admin
      BY <1>3, <2>1
    <2>3. st = more \/ st = [more EXCEPT !.mac = @ \/ job.v \in MacVips]
      BY <1>2, <2>1, Zenon
    <2> QED BY <2>2, <2>3, Zenon
  <1>6. HealthOf(st) = HealthOf(old)
    BY <1>5 DEF HealthOf
  <1> QED BY <1>4, <1>5, <1>6

-----------------------------------------------------------------------------
(* Steps that adopt nothing. *)

\* No adoption is queued.
Adopted == \A i \in 1 .. Len(todo) : todo[i].op # "adopt"

LEMMA OnceAdopted ==
  ASSUME TypeInv, IdsInv, todo = << >> \/ job.op # "adopt"
  PROVE  Adopted /\ DOMAIN vipMap \subseteq DOMAIN services
  <1>1. Adopted
    <2>1. CASE todo = << >>
      BY <2>1 DEF Adopted
    <2>2. CASE todo # << >> /\ job.op # "adopt"
      <3>1. Len(todo) \in Nat /\ todo[1].op # "adopt"
        BY <2>2, JobFacts, Zenon DEF TypeInv
      <3> SUFFICES ASSUME NEW i \in 1 .. Len(todo), todo[i].op = "adopt" PROVE FALSE
        BY Zenon DEF Adopted
      <3>2. 1 \in 1 .. i - 1
        BY <3>1
      <3> QED BY <3>1, <3>2, Zenon DEF IdsInv, Adopting
    <2> QED BY <2>1, <2>2, Zenon
  <1> QED BY <1>1, Zenon DEF IdsInv, Known, Adopted

\* Entries keep their ids and their addresses, new ones hold theirs.
LEMMA PlainStep ==
  ASSUME TypeInv, IdsInv, todo = << >> \/ job.op # "adopt", Adopted', UNCHANGED vipMap,
         DOMAIN services \subseteq DOMAIN services',
         \A v \in DOMAIN services :
           services'[v].sid = services[v].sid /\ services'[v].up = services[v].up,
         Owned', work'.pc \notin {"claim", "zero"}
  PROVE  IdsInv'
  <1>1. DOMAIN vipMap \subseteq DOMAIN services
    BY OnceAdopted, Zenon
  <1>2. Distinct' /\ Matched' /\ Known'
    BY <1>1 DEF IdsInv, Distinct, Matched, Known
  <1>3. Adopting' /\ Midway'
    BY Zenon DEF Adopted, Adopting, Midway
  <1> QED BY <1>2, <1>3, Zenon DEF IdsInv

\* Entries change, but neither their ids nor their addresses.
LEMMA SameIds ==
  ASSUME TypeInv, IdsInv, todo = << >> \/ job.op # "adopt", Adopted',
         UNCHANGED <<sids, vipMap>>, work'.pc \notin {"claim", "zero"},
         DOMAIN services' = DOMAIN services,
         \A v \in DOMAIN services :
           services'[v].sid = services[v].sid /\ services'[v].up = services[v].up
  PROVE  IdsInv'
  <1>1. Owned'
    BY Zenon DEF IdsInv, Owned
  <1> QED BY <1>1, PlainStep, Zenon

\* The queue stays, loses its first job or is given up.
LEMMA StillAdopted ==
  ASSUME TypeInv, Adopted, todo # << >>, todo' \in {todo, Tail(todo), << >>}
  PROVE  Adopted'
  <1>1. /\ Len(todo) \in Nat /\ Len(Tail(todo)) = Len(todo) - 1
        /\ \A i \in 1 .. Len(todo) - 1 : Tail(todo)[i] = todo[i + 1]
    BY JobFacts, Zenon DEF TypeInv
  <1>2. CASE todo' = todo
    BY <1>2, Zenon DEF Adopted
  <1>3. CASE todo' = Tail(todo)
    BY <1>1, <1>3 DEF Adopted
  <1>4. CASE todo' = << >>
    BY <1>4 DEF Adopted
  <1> QED BY <1>2, <1>3, <1>4, Zenon

LEMMA Ended ==
  ASSUME TypeInv, IdsInv, todo # << >>, job.op # "adopt",
         \/ Finish(Tail(todo)) \/ Finish(<< >>) \/ Reject \/ Fail
  PROVE  Adopted' /\ work'.pc = "idle" /\ todo' \in {todo, Tail(todo), << >>}
  <1>1. todo' \in {todo, Tail(todo), << >>} /\ work' = Idle
    BY Zenon DEF Fail, Reject, Finish
  <1>2. Adopted'
    BY <1>1, OnceAdopted, StillAdopted
  <1> QED BY <1>1, <1>2, Zenon DEF Idle

LEMMA Continued ==
  ASSUME TypeInv, IdsInv, todo # << >>, job.op # "adopt", UNCHANGED todo
  PROVE  Adopted'
  BY OnceAdopted, StillAdopted

LEMMA PlainAdopted ==
  ASSUME todo' \in Seq(PlainJobs)
  PROVE  Adopted'
  BY DEF PlainJobs, Adopted

-----------------------------------------------------------------------------
(* References. *)

LEMMA Counting ==
  ASSUME TypeInv, NEW S \in SUBSET Key, NEW v \in Key
  PROVE  /\ Cardinality(S) \in Nat /\ Cardinality({}) = 0
         /\ v \notin S => Cardinality(S \cup {v}) = Cardinality(S) + 1
         /\ v \in S => Cardinality(S \ {v}) = Cardinality(S) - 1
         /\ v \in S /\ Cardinality(S) <= 1 => S = {v}
  <1>1. /\ Cardinality({}) = 0
        /\ \A T \in SUBSET Key :
             /\ Cardinality(T) \in Nat
             /\ \A w \in Key \ T : Cardinality(T \cup {w}) = Cardinality(T) + 1
    BY Zenon DEF TypeInv, Grounds, Countable
  <1>2. v \in S => Cardinality(S) = Cardinality(S \ {v}) + 1
    <2>1. v \in S => (S \ {v}) \cup {v} = S
      BY Zenon
    <2>2. S \ {v} \in SUBSET Key /\ v \in Key \ (S \ {v})
      BY Zenon
    <2> QED BY <1>1, <2>1, <2>2, Zenon
  <1>3. ASSUME v \in S, Cardinality(S) <= 1 PROVE S = {v}
    <2> SUFFICES ASSUME NEW w \in S, w # v PROVE FALSE
      BY <1>3, Zenon
    <2> DEFINE R == S \ {v}
    <2>1. w \in R /\ R \in SUBSET Key /\ Cardinality(R) = 0
      <3>1. Cardinality(S) \in Nat /\ Cardinality(R) \in Nat
        BY <1>1, Zenon
      <3> QED BY <1>2, <1>3, <3>1
    <2>2. (R \ {w}) \cup {w} = R /\ R \ {w} \in SUBSET Key /\ w \in Key \ (R \ {w})
      BY <2>1, Zenon
    <2> HIDE DEF R
    <2>3. Cardinality(R) = Cardinality(R \ {w}) + 1 /\ Cardinality(R \ {w}) \in Nat
      BY <1>1, <2>2, Zenon
    <2> QED BY <2>1, <2>3
  <1>4. Cardinality(S) \in Nat /\ Cardinality(S \ {v}) \in Nat
    BY <1>1
  <1> QED BY <1>1, <1>2, <1>3, <1>4

LEMMA Referring ==
  ASSUME NEW id
  PROVE  /\ \A v : v \in Referrers(id) <=> \E b : Refers(v, b, id)
         /\ \A v : v \in Referrers(id)' <=> \E b : Refers(v, b, id)'
         /\ Referrers(id) \subseteq DOMAIN services
  BY DEF Referrers, Refers

\* Unless a VIP is being removed its references are the backends it lists.
LEMMA RefersPlain ==
  /\ work.pc \notin {"drop", "zero"} => \A v, b, id :
       Refers(v, b, id) <=>
         v \in DOMAIN services /\ b \in DOMAIN services[v].ids /\ services[v].ids[b] = id
  /\ work'.pc \notin {"drop", "zero"} => \A v, b, id :
       Refers(v, b, id)' <=>
         v \in DOMAIN services' /\ b \in DOMAIN services'[v].ids /\ services'[v].ids[b] = id
  BY DEF Refers, Refs, doing

LEMMA SameRefs ==
  ASSUME work.pc \notin {"drop", "zero"}, work'.pc \notin {"drop", "zero"}, UNCHANGED services
  PROVE  \A v, b, id : Refers(v, b, id)' <=> Refers(v, b, id)
  BY RefersPlain

\* One reference more, to an id with a state or to a new one.
LEMMA OneMore ==
  ASSUME TypeInv, BackInv, NEW id, NEW u \in Key, \A b : ~Refers(u, b, id), NEW n,
         id \in DOMAIN states => n = states[id].ref + 1, id \notin DOMAIN states => n = 1
  PROVE  /\ Cardinality(Referrers(id)) \in Nat /\ n \in Nat /\ Cardinality(Referrers(id)) + 1 <= n
         /\ faults = 0 => n = Cardinality(Referrers(id)) + 1
         /\ Cardinality(Referrers(id) \cup {u}) = Cardinality(Referrers(id)) + 1
         /\ faults \in Nat
  <1>1. Referrers(id) \in SUBSET Key
    <2>1. DOMAIN services \in SUBSET Key
      BY Zenon DEF TypeInv, TypeOK, IsPartialMap, Key
    <2> QED BY <2>1, Referring, Zenon
  <1>2. u \notin Referrers(id) /\ (id \notin DOMAIN states => Referrers(id) = {})
    <2>1. \A v, b : Refers(v, b, id) => id \in DOMAIN states
      BY Zenon DEF BackInv, Live, Alive
    <2> QED BY <2>1, Referring, Zenon
  <1>3. /\ Cardinality(Referrers(id)) \in Nat /\ Cardinality({}) = 0
        /\ Cardinality(Referrers(id) \cup {u}) = Cardinality(Referrers(id)) + 1
    BY <1>1, <1>2, Counting, Zenon
  <1>4. /\ faults \in Nat
        /\ id \in DOMAIN states =>
             /\ states[id].ref \in Nat /\ Cardinality(Referrers(id)) <= states[id].ref
             /\ faults = 0 => states[id].ref = Cardinality(Referrers(id))
    BY Zenon DEF BackInv, Counted, TypeInv, TypeOK, IsPartialMap, StateType
  <1>5. CASE id \in DOMAIN states
    BY <1>3, <1>4, <1>5
  <1>6. CASE id \notin DOMAIN states
    <2>1. Cardinality(Referrers(id)) = 0 /\ n = 1
      BY <1>2, <1>3, <1>6, Zenon
    <2> QED BY <1>3, <1>4, <2>1
  <1> QED BY <1>5, <1>6, Zenon

LEMMA SameReferrers ==
  ASSUME \A v, b, id : Refers(v, b, id)' <=> Refers(v, b, id)
  PROVE  \A id : Referrers(id)' = Referrers(id)
  <1> SUFFICES ASSUME NEW id PROVE Referrers(id)' = Referrers(id)
    OBVIOUS
  <1> QED BY Referring

LEMMA BackKept ==
  ASSUME BackInv, UNCHANGED <<states, bids, backendMap, health>>, faults' \in {faults, faults + 1},
         \A v, b, id : Refers(v, b, id)' <=> Refers(v, b, id), Dropping', Claimed'
  PROVE  BackInv'
  <1>1. \A id : Referrers(id)' = Referrers(id)
    BY SameReferrers, Zenon
  <1>2. Live' /\ Named'
    BY DEF BackInv, Live, Named, Alive
  <1>3. Counted'
    BY <1>1 DEF BackInv, Counted
  <1> QED BY <1>2, <1>3, Zenon DEF BackInv

\* releaseBackendLocked gives up a reference that is held.
LEMMA Released ==
  ASSUME TypeInv, BackInv, NEW u \in DOMAIN services, NEW b, NEW id, Refers(u, b, id),
         ReleaseBackend(b, id), UNCHANGED faults,
         \A v, c, i : Refers(v, c, i)' <=> Refers(v, c, i) /\ ~(v = u /\ c = b), Dropping', Claimed'
  PROVE  BackInv'
  <1>1. Alive(b, id) /\ \A v, c : Refers(v, c, id) => c = b
    <2>1. \A v, c : Refers(v, c, id) => Alive(c, id)
      BY Zenon DEF BackInv, Live
    <2>2. Injective(bids.ids)
      BY Zenon DEF TypeInv, WellFormed
    <2> QED BY <2>1, <2>2, ZenonT(60) DEF Alive, Injective
  <1>2. Referrers(id)' = Referrers(id) \ {u} /\ u \in Referrers(id)
    BY <1>1, Referring, Zenon
  <1>3. \A i : i # id => Referrers(i)' = Referrers(i)
    <2> SUFFICES ASSUME NEW i, i # id PROVE Referrers(i)' = Referrers(i)
      BY Zenon
    <2>1. \A v, c : Refers(v, c, i)' <=> Refers(v, c, i)
      <3>1. ~Refers(u, b, i)
        BY Zenon DEF Refers
      <3> QED BY <3>1, Zenon
    <2> QED BY <2>1, Referring, Zenon
  <1>4. /\ Cardinality(Referrers(id)) \in Nat
        /\ Cardinality(Referrers(id)') = Cardinality(Referrers(id)) - 1
        /\ Cardinality(Referrers(id)) <= 1 => Referrers(id) = {u}
    <2>1. Referrers(id) \in SUBSET Key /\ u \in Key
      BY Referring, Zenon DEF TypeInv, TypeOK, IsPartialMap, Key
    <2>2. /\ Cardinality(Referrers(id)) \in Nat
          /\ Cardinality(Referrers(id) \ {u}) = Cardinality(Referrers(id)) - 1
          /\ Cardinality(Referrers(id)) <= 1 => Referrers(id) = {u}
      BY <1>2, <2>1, Counting, Zenon
    <2> QED BY <1>2, <2>2, Zenon
  <1>5. id \in DOMAIN states /\ states[id] \in StateType /\ states[id].ref \in Nat
        /\ Cardinality(Referrers(id)) <= states[id].ref
        /\ (faults = 0 => states[id].ref = Cardinality(Referrers(id)))
    BY <1>1, Zenon DEF Alive, TypeInv, TypeOK, IsPartialMap, StateType, BackInv, Counted
  <1>6. CASE states[id].ref > 1
    <2>1. UNCHANGED <<bids, backendMap, health>> /\ states' = [states EXCEPT ![id].ref = @ - 1]
      BY <1>5, <1>6, Zenon DEF ReleaseBackend
    <2>2. /\ DOMAIN states' = DOMAIN states /\ \A i \in DOMAIN states : i # id => states'[i] = states[i]
          /\ states'[id].ref = states[id].ref - 1 /\ states'[id].name = states[id].name
          /\ HealthOf(states'[id]) = HealthOf(states[id])
      <3>1. states = [i \in DOMAIN states |-> states[i]]
        BY Zenon DEF TypeInv, TypeOK, IsPartialMap
      <3>2. states'[id] = [states[id] EXCEPT !.ref = @ - 1]
        BY <1>5, <2>1, <3>1, Zenon
      <3>3. DOMAIN states' = DOMAIN states /\ \A i \in DOMAIN states : i # id => states'[i] = states[i]
        BY <2>1, <3>1, Zenon
      <3> QED BY <1>5, <3>2, <3>3, Zenon DEF StateType, HealthOf
    <2>3. \A c, i : Alive(c, i) => Alive(c, i)'
      BY <2>1, <2>2, Zenon DEF Alive
    <2>4. Live'
      BY <2>3, Zenon DEF BackInv, Live
    <2>5. Named'
      BY <2>1, <2>2 DEF BackInv, Named
    <2>6. Counted'
      <3>1. faults' \in Nat
        BY Zenon DEF BackInv, Counted
      <3> SUFFICES ASSUME NEW i \in DOMAIN states
                   PROVE  /\ Cardinality(Referrers(i)') <= states'[i].ref
                          /\ faults = 0 => states'[i].ref = Cardinality(Referrers(i)')
        BY <2>2, <3>1, Zenon DEF Counted
      <3>2. CASE i = id
        BY <1>4, <1>5, <2>2, <3>2
      <3>3. CASE i # id
        BY <1>3, <2>2, <3>3 DEF BackInv, Counted
      <3> QED BY <3>2, <3>3, Zenon
    <2> QED BY <2>4, <2>5, <2>6, Zenon DEF BackInv
  <1>7. CASE ~(states[id].ref > 1)
    <2>1. /\ states' = Drop(states, id) /\ backendMap' = Drop(backendMap, id)
          /\ health' = [health EXCEPT ![id] = "down"] /\ bids' = Release(bids, b)
      BY <1>5, <1>7, Zenon DEF ReleaseBackend
    <2>2. Referrers(id) = {u}
      BY <1>4, <1>5, <1>7
    <2>3. /\ DOMAIN bids'.ids = DOMAIN bids.ids \ {b}
          /\ \A c \in DOMAIN bids'.ids : bids'.ids[c] = bids.ids[c]
      BY <2>1, ReleaseFacts DEF TypeInv
    <2>4. /\ DOMAIN states' = DOMAIN states \ {id} /\ \A i \in DOMAIN states' : states'[i] = states[i]
          /\ DOMAIN backendMap' = DOMAIN backendMap \ {id}
          /\ \A i \in DOMAIN backendMap' : backendMap'[i] = backendMap[i]
      BY <2>1, Zenon DEF Drop
    <2>5. \A i \in DOMAIN states' : health'[i] = health[i]
      <3>1. \A i \in DOMAIN states : i \in BackendId
        BY Zenon DEF TypeInv, TypeOK, IsPartialMap
      <3>2. health \in [BackendId -> {"down", "healthy", "draining"}]
        BY Zenon DEF TypeInv, TypeOK
      <3> QED BY <2>1, <2>4, <3>1, <3>2, Zenon
    <2>6. \A c, i : Alive(c, i) /\ i # id => Alive(c, i)'
      BY <1>1, <2>3, <2>4, <2>5 DEF Alive
    <2>7. Live'
      <3> SUFFICES ASSUME NEW v, NEW c, NEW i, Refers(v, c, i)' PROVE Alive(c, i)'
        BY Zenon DEF Live
      <3>1. Refers(v, c, i) /\ ~(v = u /\ c = b)
        BY Zenon
      <3>2. i # id
        BY <1>1, <2>2, <3>1, Referring, Zenon
      <3> QED BY <2>6, <3>1, <3>2, Zenon DEF BackInv, Live
    <2>8. Named'
      <3>1. \A i \in DOMAIN states : states[i].name \in DOMAIN bids.ids /\ bids.ids[states[i].name] = i
        BY Zenon DEF BackInv, Named
      <3>2. bids.ids[b] = id
        BY <1>1, Zenon DEF Alive
      <3> SUFFICES ASSUME NEW i \in DOMAIN states'
                   PROVE  states'[i].name \in DOMAIN bids'.ids /\ bids'.ids[states'[i].name] = i
        BY Zenon DEF Named
      <3>3. i \in DOMAIN states /\ i # id /\ states'[i] = states[i]
        BY <2>4, Zenon
      <3> QED BY <2>3, <3>1, <3>2, <3>3, Zenon
    <2>9. Counted'
      BY <1>3, <2>4 DEF BackInv, Counted
    <2> QED BY <2>7, <2>8, <2>9, Zenon DEF BackInv
  <1> QED BY <1>6, <1>7, Zenon

-----------------------------------------------------------------------------
(* Steps that leave the books alone. *)

LEMMA TableKept ==
  ASSUME TableInv, UNCHANGED pool, Pending' = Pending, DOMAIN services \subseteq DOMAIN services',
         \A v \in DOMAIN services : services'[v].ext = services[v].ext,
         \A v \in DOMAIN services' \ DOMAIN services : services'[v].ext = NoExtent
  PROVE  TableInv'
  <1>1. Slots(NoExtent) = {}
    BY DEF Slots, NoExtent, Extent
  <1>2. \A v \in DOMAIN services' :
          Slots(services'[v].ext) = IF v \in DOMAIN services THEN Slots(services[v].ext) ELSE {}
    BY <1>1
  <1> QED BY <1>2, Zenon DEF TableInv

\* Between the steps that take and move extents nothing is pending.
LEMMA Unpending ==
  /\ work.pc \notin {"slots", "claim"} => Pending = {}
  /\ work'.pc \notin {"slots", "claim"} => Pending' = {}
  BY DEF Pending

\* Nothing changes but specs, the queue and where the operation stands.
Unmoved ==
  /\ UNCHANGED <<sids, bids, states, pool, vipMap, backendMap, health>>
  /\ faults' \in {faults, faults + 1}
  /\ DOMAIN services' = DOMAIN services
  /\ \A v \in DOMAIN services :
       /\ services'[v].sid = services[v].sid /\ services'[v].up = services[v].up
       /\ services'[v].ids = services[v].ids /\ services'[v].ext = services[v].ext

Calm == {"idle", "sync", "service", "vip"}

LEMMA UnmovedBooks ==
  ASSUME TypeInv, Books, Unmoved, todo = << >> \/ job.op # "adopt", Adopted',
         work.pc \in Calm, work'.pc \in Calm
  PROVE  Books'
  <1>1. work.pc \notin {"slots", "claim", "drop", "zero"} /\ work'.pc \notin {"slots", "claim", "drop", "zero"}
    BY Zenon DEF Calm
  <1>2. IdsInv'
    BY <1>1, SameIds, Zenon DEF Books, Unmoved
  <1>3. TableInv'
    BY <1>1, TableKept, Unpending, Zenon DEF Books, Unmoved
  <1>4. BackInv'
    <2>1. Dropping' /\ Claimed'
      BY <1>1, Zenon DEF Dropping, Claimed
    <2>2. \A v, b, id : Refers(v, b, id)' <=> Refers(v, b, id)
      BY <1>1, RefersPlain DEF Unmoved
    <2>3. BackInv /\ UNCHANGED <<states, bids, backendMap, health>> /\ faults' \in {faults, faults + 1}
      BY Zenon DEF Books, Unmoved
    <2> QED BY <2>1, <2>2, <2>3, BackKept, Zenon
  <1> QED BY <1>2, <1>3, <1>4, Zenon DEF Books

\* The same at the end of an operation.
LEMMA EndedBooks ==
  ASSUME TypeInv, Books, Unmoved, todo # << >>, job.op # "adopt", work.pc \in Calm,
         \/ Finish(Tail(todo)) \/ Finish(<< >>) \/ Reject \/ Fail
  PROVE  Books'
  <1>1. Adopted' /\ work'.pc = "idle"
    BY Ended DEF Books
  <1> QED BY <1>1, UnmovedBooks, Zenon DEF Calm

-----------------------------------------------------------------------------
(* The start, and a step that changes nothing. *)

LEMMA InitTypes ==
  ASSUME Grounds, Init
  PROVE  TypeInv
  <1>1. /\ WellFormed(sids) /\ sids \in AllocType(Key, MaxVIPs)
        /\ WellFormed(bids) /\ bids \in AllocType(Backend, MaxBackends)
    BY NewIdsTyped, SizeAssumption, Zenon DEF Init
  <1>2. Placed /\ Covered /\ InTable /\ Claiming /\ Weighing
    <2>1. todo = << >> /\ work.pc = "idle"
      BY Zenon DEF Init, Idle
    <2> QED BY <2>1 DEF Placed, Covered, InTable, Claiming, Weighing
  <1>3. /\ IsPartialMap(services, Key, EntryType) /\ IsPartialMap(states, BackendId, StateType)
        /\ IsPartialMap(vipMap, Vip, ServiceId)
        /\ IsPartialMap(backendMap, BackendId, [name : Backend, mac : BOOLEAN])
    BY EmptyMap, Zenon DEF Init
  <1>4. pool \subseteq Slot /\ unclaimed \subseteq Key
    BY Zenon DEF Init, WholeTable, Slot
  <1>5. todo \in Seq(JobType) /\ work \in WorkType
    BY IdleTyped DEF Init
  <1>6. /\ svcMap \in [ServiceId -> ExtentType]
        /\ health \in [BackendId -> {"down", "healthy", "draining"}] /\ hist \in HistType
    BY NoExtentTyped, Zenon DEF Init, HistType, Key
  <1>7. maglev \in [Slot -> BackendId]
    <2>1. 0 \in BackendId
      BY SizeAssumption DEF BackendId
    <2> QED BY <2>1, Zenon DEF Init
  <1>8. TypeOK
    BY <1>1, <1>3, <1>4, <1>5, <1>6, <1>7 DEF TypeOK, Key, HistType
  <1> QED BY <1>1, <1>2, <1>8, Zenon DEF TypeInv

LEMMA InitIds == Init => IdsInv
  <1> SUFFICES ASSUME Init PROVE IdsInv
    BY Zenon
  <1>1. DOMAIN services = {} /\ DOMAIN vipMap = {}
    BY Zenon DEF Init, Empty
  <1>2. todo = << >> /\ work.pc = "idle"
    BY Zenon DEF Init, Idle
  <1>3. Owned /\ Distinct /\ Matched /\ Known
    BY <1>1, Zenon DEF Owned, Distinct, Matched, Known
  <1>4. Adopting /\ Midway
    BY <1>2 DEF Adopting, Midway
  <1> QED BY <1>3, <1>4, Zenon DEF IdsInv

LEMMA InitKeeps ==
  ASSUME Grounds, Init
  PROVE  Inv
  <1>1. /\ DOMAIN services = {} /\ DOMAIN states = {} /\ pool = Slot
        /\ work.pc = "idle" /\ faults = 0
    BY Zenon DEF Init, Empty, Idle, WholeTable, Slot
  <1>2. TableInv
    <2>1. Pending = {}
      BY <1>1, Unpending, Zenon
    <2> QED BY <1>1, <2>1, Zenon DEF TableInv
  <1>3. BackInv
    <2>1. Live /\ Named
      BY <1>1, Zenon DEF Live, Named, Refers
    <2>2. Counted
      BY <1>1, Zenon DEF Counted
    <2>3. Dropping /\ Claimed
      BY <1>1, Zenon DEF Dropping, Claimed
    <2> QED BY <2>1, <2>2, <2>3, Zenon DEF BackInv
  <1> QED BY <1>2, <1>3, InitTypes, InitIds, Zenon DEF Inv, Books

LEMMA StutterTypes ==
  ASSUME TypeInv, UNCHANGED vars
  PROVE  TypeInv'
  <1>1. job' = job /\ entry' = entry /\ given' = given
    BY Zenon DEF vars, job, entry, given
  <1>2. slotIds(work.target)' = slotIds(work.target) /\ Found(work.target)' = Found(work.target)
    <2>1. UNCHANGED <<maglev, backendMap, work>>
      BY Zenon DEF vars
    <2>2. slotIds(work.target)' = slotIds(work.target)
      BY <2>1, Zenon DEF slotIds
    <2> QED BY <2>1, <2>2 DEF Found
  <1>3. TypeOK'
    BY Zenon DEF TypeInv, TypeOK, vars
  <1>4. Placed' /\ Covered' /\ InTable' /\ Claiming' /\ Weighing'
    BY <1>1, <1>2, Zenon DEF TypeInv, Placed, Covered, InTable, Claiming, Weighing, vars
  <1> QED BY <1>3, <1>4, Zenon DEF TypeInv, vars

LEMMA StutterBooks ==
  ASSUME Books, UNCHANGED vars
  PROVE  Books'
  <1>1. UNCHANGED <<services, states, sids, bids, pool, todo, work, vipMap, maglev, backendMap, health, faults>>
    BY Zenon DEF vars
  <1>2. job' = job /\ entry' = entry /\ Pending' = Pending /\ Found(work.target)' = Found(work.target)
    <2>1. job' = job /\ entry' = entry
      BY <1>1, Zenon DEF job, entry
    <2>2. Pending' = Pending
      BY <1>1, <2>1, Zenon DEF Pending
    <2>3. slotIds(work.target)' = slotIds(work.target)
      BY <1>1, Zenon DEF slotIds
    <2>4. Found(work.target)' = Found(work.target)
      BY <1>1, <2>3 DEF Found
    <2> QED BY <2>1, <2>2, <2>4, Zenon
  <1>3. IdsInv'
    <2>1. Owned' /\ Distinct' /\ Matched'
      BY <1>1, Zenon DEF Books, IdsInv, Owned, Distinct, Matched
    <2>2. Known'
      BY <1>1, Zenon DEF Books, IdsInv, Known
    <2>3. Adopting'
      BY <1>1, Zenon DEF Books, IdsInv, Adopting
    <2>4. Midway'
      BY <1>1, <1>2, Zenon DEF Books, IdsInv, Midway
    <2> QED BY <2>1, <2>2, <2>3, <2>4, Zenon DEF IdsInv
  <1>4. TableInv'
    BY <1>1, <1>2, TableKept, Zenon DEF Books
  <1>5. Dropping' /\ Claimed'
    BY <1>1, <1>2, Zenon DEF Books, BackInv, Dropping, Claimed
  <1>6. \A v, b, id : Refers(v, b, id)' <=> Refers(v, b, id)
    BY <1>1, <1>2, ZenonT(60) DEF Refers, Refs, doing
  <1>7. BackInv'
    BY <1>1, <1>5, <1>6, BackKept, Zenon DEF Books
  <1> QED BY <1>3, <1>4, <1>7, Zenon DEF Books

=============================================================================
