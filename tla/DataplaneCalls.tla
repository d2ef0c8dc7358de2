--------------------------- MODULE DataplaneCalls ---------------------------
(***************************************************************************)
(* The operations as their caller starts them: mu is free.  An operation   *)
(* is queued in todo and carried out step by step; a signal about a        *)
(* backend is carried out at once.                                         *)
(***************************************************************************)
EXTENDS DataplaneState

MuFree == todo = << >> /\ work.pc = "idle"
Called == MuFree /\ calls < MaxCalls /\ calls' = calls + 1

UpsertVIP(v, spec) ==
  /\ Called /\ Kubernetes
  /\ todo' = <<Upsert(v, spec)>>
  /\ UNCHANGED <<memory, work, maps, marks>>

RemoveVIP(v) ==
  /\ Called /\ Kubernetes
  /\ todo' = <<Remove(v)>>
  /\ UNCHANGED <<memory, work, maps, marks>>

PruneUnclaimed ==
  /\ Called /\ Kubernetes /\ unclaimed # {}
  /\ \E order \in Listings(unclaimed) :
       Ascending(order) /\ todo' = [i \in DOMAIN order |-> Remove(order[i])]
  /\ UNCHANGED <<memory, work, maps, marks>>

ReloadVIPs(config) ==
  /\ Called
  /\ Reload(config, << >>)
  /\ UNCHANGED <<memory, work, maps, hist, steady, faults, crashes>>

\* The VIPs in scope that are claimed and list backend id.
Targets(id, scope) ==
  {v \in (scope \cap DOMAIN services) \ unclaimed : id \in Image(services[v].ids)}

\* upsertVIPLocked takes its key from the recorded spec, not from the entry.
KeyOf(v) == IF services[v].spec = Empty THEN Zero ELSE v

NameOf(v, id) == CHOOSE b \in DOMAIN services[v].ids : services[v].ids[b] = id

SetBackendWeight(id, scope, w) ==
  /\ Called
  /\ Targets(id, scope) # {}
  /\ \E order \in Listings(Targets(id, scope)) :
       todo' = [i \in DOMAIN order |->
                  Reweigh(KeyOf(order[i]), order[i], NameOf(order[i], id), w)]
  /\ UNCHANGED <<memory, work, maps, marks>>

\* One field of a backend's state changes and its health entry is rewritten.
Signal(id, st) ==
  /\ states' = [states EXCEPT ![id] = st]
  /\ health' = [health EXCEPT ![id] = HealthOf(st)]
  /\ UNCHANGED <<services, sids, bids, pool, unclaimed, todo, work,
                 vipMap, svcMap, maglev, backendMap, marks>>

SetBackendHealth(id, healthy) ==
  /\ Called /\ "probe" \in Signals /\ id \in DOMAIN states
  /\ Signal(id, [states[id] EXCEPT !.probe = healthy])

SetBackendDrainingByKey(v, b, draining) ==
  /\ Called /\ "drain" \in Signals
  /\ v \in DOMAIN services /\ b \in DOMAIN services[v].ids
  /\ LET id == services[v].ids[b]
     IN id \in DOMAIN states /\ Signal(id, [states[id] EXCEPT !.drain = draining])

SetBackendAdminDraining(id, draining) ==
  /\ Called /\ "admin" \in Signals /\ id \in DOMAIN states
  /\ Signal(id, [states[id] EXCEPT !.admin = draining])

Call ==
  \/ PruneUnclaimed
  \/ \E v \in Vip : RemoveVIP(v) \/ \E s \in Specs : UpsertVIP(v, s)
  \/ \E config \in Configs : ReloadVIPs(config)
  \/ \E id \in BackendId :
       \/ \E scope \in {Vip} \cup {{v} : v \in Vip}, w \in Overrides : SetBackendWeight(id, scope, w)
       \/ \E on \in BOOLEAN : SetBackendHealth(id, on) \/ SetBackendAdminDraining(id, on)
  \/ \E v \in Vip, b \in Backend : SetBackendDrainingByKey(v, b, TRUE)

=============================================================================
