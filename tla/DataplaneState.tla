--------------------------- MODULE DataplaneState ---------------------------
(***************************************************************************)
(* internal/dataplane: the in-memory state of one node's load balancer,    *)
(* the BPF maps it programs, and every operation that changes them.        *)
(*                                                                         *)
(* The operations hold Dataplane.mu, so they never interleave with one     *)
(* another; but the XDP program reads the maps while an operation is under *)
(* way, and the process can die between two map writes, after which        *)
(* adoptLocked rebuilds the memory from the pinned maps.  So an operation  *)
(* is a run of steps, at most one of them pending in work, each writing    *)
(* the entries of one object.  todo holds what the lock holder still has   *)
(* to do: the VIPs of a ReloadVIPs, of a PruneUnclaimed, of a              *)
(* SetBackendWeight, or of adoption.                                       *)
(*                                                                         *)
(* A VIP's spec is the function from its backends to their weights.  Left  *)
(* out: forwarding mode, rate limits, drop counters and probe parameters,  *)
(* which only pass through; the address family (one vip_map and one        *)
(* backend_map stand for both); and, for a MAC, everything but whether it  *)
(* is there.                                                               *)
(***************************************************************************)
EXTENDS IdAlloc, Extents, FiniteSets

CONSTANTS
  Vip,               \* VIP keys, numbered in their sort order
  Backend,           \* backend names, "addr:port"
  Weight,            \* the weights a spec or an operator may give; 0 is the default
  MaxVIPs, MaxBackends, MaglevM,       \* capacities of the BPF maps
  SizeClasses, PerBackend, MinWant,    \* maglevClassFor
  BuildTable(_, _),  \* the Maglev table for weights and a size (internal/maglev)
  MacVips,           \* the VIPs whose backends carry a MAC (DSR)
  Specs,             \* the specs a VIP is given ...
  Refused,           \* ... and those whose mode needs a tunnel source there is none of
  Configs,           \* the static configurations; {} in Kubernetes mode
  Overrides,         \* the weights rivoractl sets
  Signals,           \* which of "probe", "drain", "admin" occur
  MaxCalls,          \* bound: operations started
  Faulty,            \* which map writes may fail: "backend", "health", "slot", "service", "vip"
  MaxFaults,         \* bound: map writes that fail
  MaxCrashes         \* bound: restarts of rivorad

PartialMap(S, T) == UNION {[D -> T] : D \in SUBSET S}
IsPartialMap(f, S, T) == DOMAIN f \subseteq S /\ f \in [DOMAIN f -> T]
ASSUME VipAssumption == Vip \subseteq Nat /\ IsFiniteSet(Vip)

ASSUME SizeAssumption ==
  /\ MaxVIPs \in Nat /\ MaxBackends \in Nat \ {0} /\ MaglevM \in Nat
  /\ SizeClasses \in Seq(Nat \ {0}) /\ SizeClasses # << >>
  /\ PerBackend \in Nat /\ MinWant \in Nat

ASSUME WeightAssumption ==
  /\ Weight \subseteq Nat /\ Overrides \subseteq Weight
  /\ Specs \subseteq PartialMap(Backend, Weight) /\ \A s \in Specs : DOMAIN s # {}
  /\ Configs \subseteq PartialMap(Vip, Specs)

VARIABLES
  \* in memory
  services,     \* VIP -> [sid, ids, ext, spec, vip, over, up]
  states,       \* backend id -> [name, probe, drain, admin, ref, mac]
  sids, bids,   \* serviceAlloc and backendAlloc
  pool,         \* maglevAlloc: the free slots
  unclaimed,    \* VIPs adopted and not yet claimed by a reconciler
  todo, work,   \* what the holder of mu has left to do; its place in the first
  \* pinned BPF maps
  vipMap,       \* VIP -> service id
  svcMap,       \* service id -> extent
  maglev,       \* slot -> backend id
  backendMap,   \* backend id -> [name, mac]
  health,       \* backend id -> "down", "healthy" or "draining"
  \* bookkeeping of the model
  hist,         \* VIP -> "clean", "failed" (its last update) or "retried"
  confOK,       \* no VIP of the last reload has failed
  steady,       \* the undisturbed VIPs at the last crash: VIP -> [sid, ids, ext]
  calls, faults, crashes

memory == <<services, states, sids, bids, pool, unclaimed>>
maps == <<vipMap, svcMap, maglev, backendMap, health>>
marks == <<hist, confOK, steady, faults, crashes>>
tally == <<marks, calls>>
vars == <<services, states, sids, bids, pool, unclaimed, todo, work,
          vipMap, svcMap, maglev, backendMap, health,
          hist, confOK, steady, calls, faults, crashes>>

-----------------------------------------------------------------------------

\* The key of config.VIP{}, the spec of a VIP none was recorded for.
Zero == -1

ServiceId == 0 .. MaxVIPs - 1
BackendId == 0 .. MaxBackends - 1
Slot == 0 .. MaglevM - 1

Empty == [x \in {} |-> 0]
Drop(f, k) == [x \in DOMAIN f \ {k} |-> f[x]]

\* The orders in which a set can be gone through.
Listings(S) ==
  {s \in [1 .. Cardinality(S) -> S] : \A i, j \in 1 .. Cardinality(S) : i # j => s[i] # s[j]}

Ascending(s) == \A i, j \in DOMAIN s : i < j => s[i] <= s[j]

\* writeHealthLocked: a failed probe wins over a drain.
HealthOf(st) ==
  IF ~st.probe THEN "down" ELSE IF st.drain \/ st.admin THEN "draining" ELSE "healthy"

NewState(name) ==
  [name |-> name, probe |-> TRUE, drain |-> FALSE, admin |-> FALSE, ref |-> 0, mac |-> FALSE]

\* A serviceEntry.  up says whether entry.vip has been filled in: without it
\* vipMapDelete has no address to delete.
NewEntry(sid) ==
  [sid |-> sid, ids |-> Empty, ext |-> NoExtent,
   spec |-> Empty, vip |-> Empty, over |-> Empty, up |-> FALSE]

Idle == [pc |-> "idle", changed |-> FALSE, left |-> {}, claimed |-> << >>,
         target |-> NoExtent, table |-> Empty, slot |-> 0, old |-> Empty]

\* With Kubernetes, reconcilers upsert and remove single VIPs and the leftovers
\* of an earlier run are pruned; without, the file is reloaded as a whole.
Kubernetes == Configs = {}

-----------------------------------------------------------------------------
(* The work of whoever holds mu: its jobs, and its place in the first. *)

Upsert(v, spec) == [op |-> "upsert", v |-> v, spec |-> spec]
Remove(v) == [op |-> "remove", v |-> v]
Reweigh(v, of, b, w) == [op |-> "weight", v |-> v, of |-> of, b |-> b, w |-> w]
Adopt(v, sid) == [op |-> "adopt", v |-> v, sid |-> sid]
Boot(config) == [op |-> "boot", config |-> config]
Ready == [op |-> "ready"]

\* planReload: removals first, in key order, then, in the order of the file, what
\* is new or whose recorded spec differs; then what the caller does next.
Reload(config, next) ==
  LET removes == DOMAIN services \ DOMAIN config
      upserts == {v \in DOMAIN config : v \notin DOMAIN services \/ services[v].spec # config[v]}
  IN /\ \E g \in Listings(removes), n \in Listings(upserts) :
          /\ Ascending(g)
          /\ todo' = [i \in DOMAIN g |-> Remove(g[i])]
                     \o [i \in DOMAIN n |-> Upsert(n[i], config[n[i]])] \o next
     /\ confOK' = TRUE

job == Head(todo)
entry == services[job.v]
doing(op, pc) == todo # << >> /\ job.op \in op /\ work.pc = pc

Upserting == {"upsert", "weight"}

\* The job is over: the next one, or the lock is released.
Finish(rest) == todo' = rest /\ work' = Idle

\* An upsert reports an error: ReloadVIPs goes on to its next VIP,
\* SetBackendWeight returns.
Reject ==
  /\ Finish(IF job.op = "weight" THEN << >> ELSE Tail(todo))
  /\ confOK' = Kubernetes
  /\ UNCHANGED <<steady, calls, crashes>>

\* The same after it may have changed something.
Fail == Reject /\ hist' = [hist EXCEPT ![job.v] = "failed"]

Fault(write) == write \in Faulty /\ faults < MaxFaults /\ faults' = faults + 1 /\ Fail

-----------------------------------------------------------------------------
(* What several operations share. *)

\* The spec of the call, and the same with the overrides applied.
given ==
  IF job.op = "upsert" THEN job.spec ELSE IF job.v = Zero THEN Empty ELSE entry.spec

\* Mutant: an upsert forgets the overrides.
desiredPlain == given

desired == [b \in DOMAIN given |-> IF b \in DOMAIN entry.over THEN entry.over[b] ELSE given[b]]

\* The backends of the entry that the spec no longer lists.
gone == DOMAIN entry.ids \ DOMAIN desired


\* Mutant: a backend nobody references is kept.
ReleaseLate(name, id) ==
  /\ states' = [states EXCEPT ![id].ref = @ - 1]
  /\ UNCHANGED <<bids, backendMap, health>>

\* releaseBackendLocked
ReleaseBackend(name, id) ==
  IF id \notin DOMAIN states THEN UNCHANGED <<states, bids, backendMap, health>>
  ELSE IF states[id].ref > 1
  THEN /\ states' = [states EXCEPT ![id].ref = @ - 1]
       /\ UNCHANGED <<bids, backendMap, health>>
  ELSE /\ states' = Drop(states, id)
       /\ backendMap' = Drop(backendMap, id)
       /\ health' = [health EXCEPT ![id] = "down"]
       /\ bids' = Release(bids, name)

\* acquireBackendLocked's state for the backend, one reference more.
Acquired(b, id) ==
  LET st == IF id \in DOMAIN states THEN states[id] ELSE NewState(b)
  IN [st EXCEPT !.ref = @ + 1]

\* writeBackendInfoLocked keeps the MAC a backend was given by a VIP that has one.
Seen(st) == [st EXCEPT !.mac = @ \/ job.v \in MacVips]

\* The backends the extent's slots name, by the name readBackend finds; of two
\* ids with one name the higher one counts.
slotIds(ext) == {maglev[s] : s \in Slots(ext)}

Found(ext) ==
  [b \in {backendMap[id].name : id \in slotIds(ext)} |->
     CHOOSE id \in slotIds(ext) :
        /\ backendMap[id].name = b
        /\ \A other \in slotIds(ext) : backendMap[other].name = b => other <= id]

-----------------------------------------------------------------------------
(* Types. *)

ExtentType ==
  {e \in [offset : 0 .. MaglevM, size : 0 .. MaglevM] : e.offset + e.size <= MaglevM}

SpecType == PartialMap(Backend, Weight)

EntryType ==
  [sid : ServiceId, ids : PartialMap(Backend, BackendId), ext : ExtentType,
   spec : SpecType, vip : SpecType, over : SpecType, up : BOOLEAN]

StateType ==
  [name : Backend, probe : BOOLEAN, drain : BOOLEAN, admin : BOOLEAN,
   ref : Nat \ {0}, mac : BOOLEAN]

AllocType(keys, max) ==
  [max : {max}, ids : PartialMap(keys, 0 .. max - 1), free : Seq(0 .. max - 1), next : 0 .. max]

JobType ==
  [op : {"upsert"}, v : Vip, spec : Specs]
    \cup [op : {"remove"}, v : Vip \cup {Zero}]
    \cup [op : {"weight"}, v : Vip \cup {Zero}, of : Vip \cup {Zero}, b : Backend, w : Overrides]
    \cup [op : {"adopt"}, v : Vip, sid : ServiceId]
    \cup [op : {"boot"}, config : Configs \cup {Empty}]
    \cup [op : {"ready"}]

TableType(T) == UNION {[0 .. size - 1 -> T] : size \in 0 .. MaglevM}

WorkType ==
  [pc : {"idle", "sync", "slots", "service", "vip", "drop", "zero", "claim"},
   changed : BOOLEAN, left : SUBSET Backend, claimed : Seq(Backend), target : ExtentType,
   table : TableType(Backend), slot : 0 .. MaglevM, old : TableType(BackendId)]

TypeOK ==
  /\ IsPartialMap(services, Vip \cup {Zero}, EntryType)
  /\ IsPartialMap(states, BackendId, StateType)
  /\ sids \in AllocType(Vip \cup {Zero}, MaxVIPs)
  /\ bids \in AllocType(Backend, MaxBackends)
  /\ pool \subseteq Slot /\ unclaimed \subseteq Vip \cup {Zero}
  /\ todo \in Seq(JobType) /\ work \in WorkType
  /\ IsPartialMap(vipMap, Vip, ServiceId)
  /\ svcMap \in [ServiceId -> ExtentType]
  /\ maglev \in [Slot -> BackendId]
  /\ IsPartialMap(backendMap, BackendId, [name : Backend, mac : BOOLEAN])
  /\ health \in [BackendId -> {"down", "healthy", "draining"}]
  /\ hist \in [Vip \cup {Zero} -> {"clean", "failed", "retried"}]

-----------------------------------------------------------------------------
(* What entries refer to. *)

\* The backends a VIP still holds a reference to: removeVIPLocked gives them up
\* one by one before it deletes the entry.
Refs(v) ==
  IF doing({"remove"}, "zero") /\ job.v = v THEN {}
  ELSE IF doing({"remove"}, "drop") /\ job.v = v THEN work.left
  ELSE DOMAIN services[v].ids

Referrers(id) == {v \in DOMAIN services : \E b \in Refs(v) : services[v].ids[b] = id}

\* The extent an operation holds and no entry does yet.
Pending ==
  IF work.pc \in {"slots", "claim"}
     /\ ~(job.v \in DOMAIN services /\ services[job.v].ext = work.target)
  THEN Slots(work.target) ELSE {}

-----------------------------------------------------------------------------
(* New, on maps nothing was written to yet. *)
Init ==
  /\ services = Empty /\ states = Empty
  /\ sids = NewIds(MaxVIPs) /\ bids = NewIds(MaxBackends)
  /\ pool = WholeTable(MaglevM) /\ unclaimed = {}
  /\ todo = << >> /\ work = Idle
  /\ vipMap = Empty /\ backendMap = Empty
  /\ svcMap = [s \in ServiceId |-> NoExtent]
  /\ maglev = [s \in Slot |-> 0]
  /\ health = [b \in BackendId |-> "down"]
  /\ hist = [v \in Vip \cup {Zero} |-> "clean"] /\ confOK = TRUE
  /\ steady = Empty /\ calls = 0 /\ faults = 0 /\ crashes = 0

=============================================================================
