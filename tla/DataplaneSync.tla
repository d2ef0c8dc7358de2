--------------------------- MODULE DataplaneSync ----------------------------
(***************************************************************************)
(* upsertVIPLocked up to the table: the entry, then its backends, given up *)
(* or acquired one by one.                                                 *)
(***************************************************************************)
EXTENDS DataplaneState

\* SetBackendWeight's change of its target's overrides.
Reweighed ==
  IF job.op = "upsert" THEN services
  ELSE [services EXCEPT ![job.of].over =
          IF job.w = 0 THEN Drop(@, job.b) ELSE Give(@, job.b, job.w)]

\* applyWeightOverrides forgets those of backends the spec no longer lists.
BeginUpsert ==
  /\ doing(Upserting, "idle")
  /\ IF given \notin Refused /\ CanAlloc(sids, job.v)
     THEN LET existed == job.v \in DOMAIN services
              e == IF existed THEN Reweighed[job.v] ELSE NewEntry(IdOf(Alloc(sids, job.v), job.v))
              over == [b \in DOMAIN e.over \cap DOMAIN given |-> e.over[b]]
          IN /\ sids' = Alloc(sids, job.v)
             /\ services' = Give(Reweighed, job.v, [e EXCEPT !.over = over])
             /\ work' = [Idle EXCEPT !.pc = "sync", !.changed = ~existed, !.left = DOMAIN given]
             /\ UNCHANGED <<todo, tally>>
     ELSE Reject /\ services' = Reweighed /\ UNCHANGED <<sids, hist, faults>>
  /\ UNCHANGED <<states, bids, pool, unclaimed, maps>>

\* Mutant: losing a backend does not count as a change of the set.
ReleaseGoneQuietly(b) ==
  /\ doing(Upserting, "sync")
  /\ b \in gone
  /\ ReleaseBackend(b, entry.ids[b])
  /\ services' = [services EXCEPT ![job.v].ids = Drop(@, b)]
  /\ UNCHANGED <<sids, pool, unclaimed, todo, work, vipMap, svcMap, maglev, tally>>

ReleaseGone(b) ==
  /\ doing(Upserting, "sync")
  /\ b \in gone
  /\ ReleaseBackend(b, entry.ids[b])
  /\ services' = [services EXCEPT ![job.v].ids = Drop(@, b)]
  /\ work' = [work EXCEPT !.changed = TRUE]
  /\ UNCHANGED <<sids, pool, unclaimed, todo, vipMap, svcMap, maglev, tally>>

Info(b, mac) == [name |-> b, mac |-> mac]

\* A backend the VIP already has: its info is rewritten.
RewriteInfo(b) ==
  LET id == entry.ids[b]
      known == id \in DOMAIN states /\ states[id].mac
  IN /\ states' = [states EXCEPT ![id] = Seen(@)]
     /\ backendMap' = Give(backendMap, id, Info(b, known \/ job.v \in MacVips))
     /\ UNCHANGED <<services, bids, health>>

AcquireBackend(b) ==
  LET id == IdOf(Alloc(bids, b), b)
      st == Seen(Acquired(b, id))
  IN /\ bids' = Alloc(bids, b)
     /\ states' = Give(states, id, st)
     /\ backendMap' = Give(backendMap, id, Info(b, st.mac))
     /\ health' = [health EXCEPT ![id] = HealthOf(st)]
     /\ services' = [services EXCEPT ![job.v].ids = Give(@, b, id)]

SyncBackend(b) ==
  /\ doing(Upserting, "sync") /\ gone = {} /\ b \in work.left
  /\ IF b \in DOMAIN entry.ids \/ CanAlloc(bids, b)
     THEN /\ IF b \in DOMAIN entry.ids THEN RewriteInfo(b) ELSE AcquireBackend(b)
          /\ work' = [work EXCEPT !.left = @ \ {b}, !.changed = @ \/ b \notin DOMAIN entry.ids]
          /\ UNCHANGED <<todo, tally>>
     ELSE Fail /\ UNCHANGED <<services, states, bids, backendMap, health, faults>>
  /\ UNCHANGED <<sids, pool, unclaimed, vipMap, svcMap, maglev>>

\* A new backend's id and reference stay behind when one of its writes fails.
AcquireFault(b, info) ==
  LET id == IdOf(Alloc(bids, b), b)
      st == Seen(Acquired(b, id))
  IN /\ CanAlloc(bids, b)
     /\ bids' = Alloc(bids, b)
     /\ states' = Give(states, id, st)
     /\ backendMap' = IF info THEN Give(backendMap, id, Info(b, st.mac)) ELSE backendMap

SyncBackendFault(b) ==
  /\ doing(Upserting, "sync") /\ gone = {} /\ b \in work.left
  /\ \/ /\ Fault("backend")
        /\ IF b \in DOMAIN entry.ids
           THEN /\ states' = [states EXCEPT ![entry.ids[b]] = Seen(@)]
                /\ UNCHANGED <<bids, backendMap>>
           ELSE AcquireFault(b, FALSE)
     \/ Fault("health") /\ b \notin DOMAIN entry.ids /\ AcquireFault(b, TRUE)
  /\ UNCHANGED <<services, sids, pool, unclaimed, vipMap, svcMap, maglev, health>>

=============================================================================
