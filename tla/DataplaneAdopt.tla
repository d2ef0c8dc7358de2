--------------------------- MODULE DataplaneAdopt ---------------------------
(***************************************************************************)
(* A crash, and Apply on the maps it leaves: adoptLocked, then either the  *)
(* reload of the configuration file or, with Kubernetes, the marking of    *)
(* everything adopted as unclaimed.                                        *)
(***************************************************************************)
EXTENDS DataplaneState

Booting == \E i \in DOMAIN todo : todo[i].op = "boot"

\* The VIPs whose entries no operation is changing and none has half-changed.
Undisturbed ==
  {v \in DOMAIN services :
     services[v].up /\ hist[v] = "clean" /\ ~(work.pc # "idle" /\ job.v = v)}

Restart ==
  /\ services' = Empty /\ states' = Empty
  /\ sids' = NewIds(MaxVIPs) /\ bids' = NewIds(MaxBackends)
  /\ pool' = WholeTable(MaglevM) /\ unclaimed' = {}
  /\ \E order \in Listings(DOMAIN vipMap), config \in IF Kubernetes THEN {Empty} ELSE Configs :
       /\ Ascending([i \in DOMAIN order |-> vipMap[order[i]]])
       /\ todo' = [i \in DOMAIN order |-> Adopt(order[i], vipMap[order[i]])] \o <<Boot(config)>>
  /\ work' = Idle
  /\ hist' = [v \in Vip \cup {Zero} |-> "clean"]
  /\ steady' = IF Booting THEN steady
               ELSE [v \in Undisturbed |-> [sid |-> services[v].sid, ids |-> services[v].ids,
                                            ext |-> services[v].ext]]
  /\ UNCHANGED <<maps, confOK, calls, faults>>

Crash == crashes < MaxCrashes /\ crashes' = crashes + 1 /\ Restart

\* adoptOneLocked: what it reads, and its claims on the extent and the service
\* id; an entry that makes no sense is deleted from vip_map.
BeginAdopt ==
  /\ doing({"adopt"}, "idle")
  /\ LET ext == svcMap[job.sid]
     IN IF /\ ext.size # 0
           /\ slotIds(ext) \subseteq DOMAIN backendMap
           /\ CanClaim(pool, ext)
           /\ CanReserve(sids, job.v, job.sid)
        THEN /\ pool' = pool \ Slots(ext)
             /\ sids' = Reserve(sids, job.v, job.sid)
             /\ work' = [Idle EXCEPT !.pc = "claim", !.left = DOMAIN Found(ext), !.target = ext]
             /\ UNCHANGED <<todo, vipMap>>
        ELSE /\ vipMap' = Drop(vipMap, job.v)
             /\ Finish(Tail(todo))
             /\ UNCHANGED <<pool, sids>>
  /\ UNCHANGED <<services, states, bids, unclaimed, svcMap, maglev, backendMap, health, tally>>

\* Mutant: a backend an earlier VIP claimed counts as a conflict.
ClaimUnshared(b) ==
  /\ doing({"adopt"}, "claim") /\ b \in work.left
  /\ IF ~Holds(bids, b)
     THEN /\ bids' = Reserve(bids, b, Found(work.target)[b])
          /\ work' = [work EXCEPT !.left = @ \ {b}, !.claimed = Append(@, b)]
          /\ UNCHANGED <<sids, pool, todo, vipMap>>
     ELSE /\ bids' = Unclaimed(bids, work.claimed)
          /\ sids' = Release(sids, job.v)
          /\ pool' = pool \cup Slots(work.target)
          /\ vipMap' = Drop(vipMap, job.v)
          /\ Finish(Tail(todo))
  /\ UNCHANGED <<services, states, unclaimed, svcMap, maglev, backendMap, health, tally>>

\* A backend another VIP has claimed already is not this one's to roll back.
ClaimBackend(b) ==
  /\ doing({"adopt"}, "claim") /\ b \in work.left
  /\ IF CanReserve(bids, b, Found(work.target)[b])
     THEN /\ bids' = Reserve(bids, b, Found(work.target)[b])
          /\ work' = [work EXCEPT !.left = @ \ {b},
                                  !.claimed = IF Holds(bids, b) THEN @ ELSE Append(@, b)]
          /\ UNCHANGED <<sids, pool, todo, vipMap>>
     ELSE /\ bids' = Unclaimed(bids, work.claimed)
          /\ sids' = Release(sids, job.v)
          /\ pool' = pool \cup Slots(work.target)
          /\ vipMap' = Drop(vipMap, job.v)
          /\ Finish(Tail(todo))
  /\ UNCHANGED <<services, states, unclaimed, svcMap, maglev, backendMap, health, tally>>

\* Every claim held: the VIP is recorded and its backends start healthy.
RegisterAdopted ==
  /\ doing({"adopt"}, "claim") /\ work.left = {}
  /\ LET found == Found(work.target)
         st(id) == Acquired(backendMap[id].name, id)
     IN /\ services' = Give(services, job.v,
                            [NewEntry(job.sid) EXCEPT !.ids = found, !.ext = work.target, !.up = TRUE])
        /\ states' = [id \in DOMAIN states \cup Image(found) |->
                        IF id \in Image(found) THEN st(id) ELSE states[id]]
        /\ health' = [id \in BackendId |->
                        IF id \in Image(found) THEN HealthOf(st(id)) ELSE health[id]]
  /\ Finish(Tail(todo))
  /\ UNCHANGED <<sids, bids, pool, unclaimed, vipMap, svcMap, maglev, backendMap, tally>>

BootDone ==
  /\ doing({"boot"}, "idle")
  /\ IF job.config = Empty
     THEN unclaimed' = DOMAIN services /\ todo' = << >> /\ UNCHANGED confOK
     ELSE Reload(job.config, <<Ready>>) /\ UNCHANGED unclaimed
  /\ steady' = Empty
  /\ UNCHANGED <<services, states, sids, bids, pool, work, maps, hist, calls, faults, crashes>>

\* rivorad exits when the first reload reports an error, to be started again.
Started ==
  /\ doing({"ready"}, "idle")
  /\ IF confOK
     THEN Finish(<< >>) /\ UNCHANGED <<memory, maps, tally>>
     ELSE Restart /\ UNCHANGED crashes

=============================================================================
