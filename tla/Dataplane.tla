----------------------------- MODULE Dataplane ------------------------------
(***************************************************************************)
(* The dataplane as a whole: the operations of DataplaneCalls, the steps   *)
(* of DataplaneSync, DataplaneTable, DataplaneRemove and DataplaneAdopt    *)
(* that carry them out, and what they keep.                                *)
(***************************************************************************)
EXTENDS DataplaneCalls, DataplaneSync, DataplaneTable, DataplaneRemove, DataplaneAdopt

Step ==
  \/ BeginUpsert \/ BuildTableStep \/ WriteSlot \/ WriteService \/ WriteVip
  \/ WriteSlotFault \/ WriteFault \/ RefuseVip
  \/ BeginRemove \/ DeleteVip \/ ZeroService
  \/ BeginAdopt \/ RegisterAdopted \/ BootDone \/ Started
  \/ \E b \in Backend :
       \/ ReleaseGone(b) \/ SyncBackend(b) \/ SyncBackendFault(b)
       \/ DropBackend(b) \/ ClaimBackend(b)

\* Nobody calls.  A state that is not idle must have a step of its own.
Quiet == MuFree /\ UNCHANGED vars

Next == Step \/ Call \/ Crash \/ Quiet
Spec == Init /\ [][Next]_vars

-----------------------------------------------------------------------------
(* What the memory and the maps agree on, at every step. *)

\* A backend's reference count is the number of VIPs that list it, as
\* backendState's comment says, so long as no map write has failed: sharing,
\* removal, failed updates and adoption neither free it early nor keep it.
RefCountExact ==
  faults = 0 => \A id \in DOMAIN states : states[id].ref = Cardinality(Referrers(id))

\* Whatever was done to other VIPs, and whatever failed, a backend some VIP lists
\* is alive: its id belongs to its name, and its state, backend_map and
\* backend_health_map entries are there and agree.
ListedBackendsLive ==
  \A v \in DOMAIN services : \A b \in Refs(v) :
     LET id == services[v].ids[b]
     IN /\ Holds(bids, b) /\ IdOf(bids, b) = id
        /\ id \in DOMAIN states /\ states[id].name = b
        /\ id \in DOMAIN backendMap /\ backendMap[id].name = b
        /\ health[id] = HealthOf(states[id])

\* A backend is there, in memory and in the maps, exactly for as long as VIPs list
\* it (acquireBackendLocked, releaseBackendLocked): no reference is lost or left
\* over, and no listed backend is gone.
BackendsKept == RefCountExact /\ ListedBackendsLive

\* Extents never overlap and no slot of maglev_table is lost: free, pending and
\* owned slots partition the table, after failed rebuilds and restarts too.
TablePartitioned ==
  /\ \A v, w \in DOMAIN services :
       v # w => Slots(services[v].ext) \cap Slots(services[w].ext) = {}
  /\ LET owned == UNION {Slots(services[v].ext) : v \in DOMAIN services}
     IN /\ pool \cap owned = {} /\ pool \cap Pending = {} /\ owned \cap Pending = {}
        /\ pool \cup owned \cup Pending = Slot

\* A packet for one VIP never finds another VIP's service: no two vip_map entries
\* share a service id, at any point of any operation or restart, and an entry the
\* dataplane knows leads to its own service.
ServiceIdsUnique ==
  /\ \A v, w \in DOMAIN vipMap : vipMap[v] = vipMap[w] => v = w
  /\ \A v \in DOMAIN vipMap \cap DOMAIN services : vipMap[v] = services[v].sid
  /\ \A v \in DOMAIN services : Holds(sids, v) /\ IdOf(sids, v) = services[v].sid

Settled(v) == v \in DOMAIN services /\ services[v].up /\ ~(work.pc # "idle" /\ job.v = v)

\* The table a packet for v reads is v's own: it names each backend v lists and
\* nothing else, in the shares of the weights last programmed.
OwnTable(v) ==
  LET e == services[v]
      table == BuildTable(e.vip, e.ext.size)
  IN /\ vipMap[v] = e.sid
     /\ svcMap[e.sid] = e.ext
     /\ slotIds(e.ext) = Image(e.ids)
     /\ e.vip # Empty => \A i \in DOMAIN table : maglev[e.ext.offset + i] = e.ids[table[i]]

\* Once an update of a VIP is done, and until one fails, its slots are those of
\* its backends and weights, whether it was rebuilt or judged unchanged.
CleanTable == \A v \in Vip : Settled(v) /\ hist[v] = "clean" => v \in DOMAIN vipMap /\ OwnTable(v)

\* While a VIP is being updated (one a spec was recorded for), a slot of its table
\* that still resolves leads to a backend the old or the new spec lists, never to
\* one that took a freed id for another VIP.
NoStrayBackend ==
  \A v \in DOMAIN vipMap \cap DOMAIN services :
    hist[v] = "clean" /\ services[v].vip # Empty =>
      \A id \in slotIds(svcMap[vipMap[v]]) \cap DOMAIN backendMap :
         \/ backendMap[id].name \in DOMAIN services[v].ids \cup DOMAIN services[v].vip
         \/ work.pc # "idle" /\ job.v = v /\ job.op = "upsert" /\ backendMap[id].name \in DOMAIN given

\* A VIP's slots lead to its own backends, during an update and after it
\* (rebuildMaglevLocked).
OwnSlots == CleanTable /\ NoStrayBackend

\* A crash at any point leaves every VIP that was not itself being changed
\* adoptable: it comes back with its service id, its extent and its backends
\* under their ids (adopt.go: IDs are "not handed out again").
SteadyAdopted ==
  doing({"boot"}, "idle") =>
    \A v \in DOMAIN steady :
       /\ v \in DOMAIN services
       /\ services[v].sid = steady[v].sid
       /\ services[v].ids = steady[v].ids
       /\ services[v].ext = steady[v].ext

\* An operator's weight is in force for as long as it is remembered, and is
\* remembered only for backends the VIP lists.
OverridesInForce ==
  \A v \in Vip : Settled(v) /\ hist[v] = "clean" =>
    \A b \in DOMAIN services[v].over :
       b \in DOMAIN services[v].vip /\ services[v].vip[b] = services[v].over[b]

\* Adoption never meets two VIPs whose tables disagree about a backend's id, so
\* long as the maps were written by this program: adoptOneLocked's roll-back is
\* for corrupt maps only.
ClaimsAgree ==
  doing({"adopt"}, "claim") =>
    \A b \in work.left : CanReserve(bids, b, Found(work.target)[b])

\* After a crash at any step adoption finds maps that agree, and restores what was
\* not being changed (adoptLocked).
Readopted == SteadyAdopted /\ ClaimsAgree

\* Reloads, operators' weights, drains, probe results and a restart leave backends,
\* tables and adopted VIPs as sound as upserts and removals do (ReloadVIPs).
ReloadSound == BackendsKept /\ CleanTable /\ SteadyAdopted

-----------------------------------------------------------------------------
(* Statements of the source that the model refutes. *)

\* rebuildMaglevLocked: "a lookup mid-rebuild either sees the fully-old or
\* fully-new (offset, table) pair, never a mix".
NeverMix ==
  doing(Upserting, "slots") /\ job.v \in DOMAIN vipMap /\ work.target = svcMap[vipMap[job.v]] =>
    LET seen == [i \in DOMAIN work.table |-> maglev[work.target.offset + i]]
        new == [i \in DOMAIN work.table |-> entry.ids[work.table[i]]]
    IN seen = work.old \/ seen = new

\* UpsertVIP: "Safe to call repeatedly": after a failed update, one that succeeds
\* leaves the VIP's slots naming its backends and no others.
RetryRepairs == \A v \in Vip : Settled(v) /\ hist[v] = "retried" => OwnTable(v)

\* backendState.mac: a backend shared with a VIP that names no MAC "must keep it".
MacKept ==
  \A v \in MacVips \cap DOMAIN vipMap \cap DOMAIN services :
    Settled(v) => \A b \in Refs(v) : backendMap[services[v].ids[b]].mac

=============================================================================
