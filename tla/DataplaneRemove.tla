-------------------------- MODULE DataplaneRemove ---------------------------
(***************************************************************************)
(* removeVIPLocked, step by step.                                          *)
(***************************************************************************)
EXTENDS DataplaneState

BeginRemove ==
  /\ doing({"remove"}, "idle")
  /\ IF job.v \in DOMAIN services
     THEN work' = [Idle EXCEPT !.pc = "drop", !.left = DOMAIN entry.ids] /\ UNCHANGED todo
     ELSE Finish(Tail(todo))
  /\ UNCHANGED <<memory, maps, tally>>

DropBackend(b) ==
  /\ doing({"remove"}, "drop") /\ b \in work.left
  /\ ReleaseBackend(b, entry.ids[b])
  /\ work' = [work EXCEPT !.left = @ \ {b}]
  /\ UNCHANGED <<services, sids, pool, unclaimed, todo, vipMap, svcMap, maglev, tally>>

\* Mutant: the vip_map entry is left behind.
DeleteVipNever ==
  /\ doing({"remove"}, "drop") /\ work.left = {}
  /\ unclaimed' = unclaimed \ {job.v}
  /\ work' = [work EXCEPT !.pc = "zero"]
  /\ UNCHANGED <<services, states, sids, bids, pool, todo, maps, tally>>

DeleteVip ==
  /\ doing({"remove"}, "drop") /\ work.left = {}
  /\ unclaimed' = unclaimed \ {job.v}
  /\ vipMap' = IF entry.up THEN Drop(vipMap, job.v) ELSE vipMap
  /\ work' = [work EXCEPT !.pc = "zero"]
  /\ UNCHANGED <<services, states, sids, bids, pool, todo,
                 svcMap, maglev, backendMap, health, tally>>

ZeroService ==
  /\ doing({"remove"}, "zero")
  /\ svcMap' = [svcMap EXCEPT ![entry.sid] = NoExtent]
  /\ pool' = pool \cup Slots(entry.ext)
  /\ sids' = Release(sids, job.v)
  /\ services' = Drop(services, job.v)
  /\ hist' = [hist EXCEPT ![job.v] = "clean"]
  /\ Finish(Tail(todo))
  /\ UNCHANGED <<states, bids, unclaimed, vipMap, maglev, backendMap, health,
                 confOK, steady, calls, faults, crashes>>

=============================================================================
