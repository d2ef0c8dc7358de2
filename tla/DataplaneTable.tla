--------------------------- MODULE DataplaneTable ---------------------------
(***************************************************************************)
(* rebuildMaglevLocked, slot by slot, and the writes that publish the VIP. *)
(***************************************************************************)
EXTENDS DataplaneState, Functions

NormalizeWeight(w) == IF w = 0 THEN 1 ELSE w

TotalWeight(spec) == FoldFunction(LAMBDA w, sum : NormalizeWeight(w) + sum, 0, spec)

\* BuildTable refuses an empty set and a table no larger than the total weight.
Buildable(spec, m) == DOMAIN spec # {} /\ TotalWeight(spec) < m

\* BuildTable fills every slot with one of its backends.
ASSUME BuildTableAssumption ==
  \A spec \in PartialMap(Backend, Weight), m \in 0 .. MaglevM :
    Buildable(spec, m) => BuildTable(spec, m) \in [0 .. m - 1 -> DOMAIN spec]

\* maglevClassFor
ClassFor(n) ==
  LET want == IF n * PerBackend < MinWant THEN MinWant ELSE n * PerBackend
      fits == {i \in DOMAIN SizeClasses : SizeClasses[i] >= want}
  IN IF fits = {} THEN SizeClasses[Len(SizeClasses)]
     ELSE SizeClasses[CHOOSE i \in fits : \A j \in fits : i <= j]

\* Mutant: weights are not compared.
weightsIgnored == FALSE

\* Some desired weight is not the one entry.vip records.
weightsChanged ==
  \E b \in DOMAIN desired :
     \/ b \notin DOMAIN entry.vip
     \/ NormalizeWeight(entry.vip[b]) # NormalizeWeight(desired[b])

\* rebuildMaglevLocked up to its first write: the extent and the table.
BuildTableStep ==
  /\ doing(Upserting, "sync") /\ gone = {} /\ work.left = {}
  /\ LET size == ClassFor(Cardinality(DOMAIN entry.ids))
         grow == size > entry.ext.size
         target == IF grow THEN Taken(pool, size) ELSE entry.ext
     IN IF ~work.changed /\ ~weightsChanged
        THEN work' = [work EXCEPT !.pc = "service"] /\ UNCHANGED <<pool, todo, tally>>
        ELSE IF (grow => CanTake(pool, size)) /\ Buildable(desired, target.size)
        THEN /\ pool' = IF grow THEN pool \ Slots(target) ELSE pool
             /\ work' = [work EXCEPT !.pc = "slots", !.target = target,
                                     !.table = BuildTable(desired, target.size),
                                     !.old = [i \in 0 .. target.size - 1 |-> maglev[target.offset + i]]]
             /\ UNCHANGED <<todo, tally>>
        ELSE Fail /\ UNCHANGED <<pool, faults>>
  /\ UNCHANGED <<services, states, sids, bids, unclaimed, maps>>

\* One slot; after the last one the entry moves to the new extent and the old
\* one is freed.
WriteSlot ==
  /\ doing(Upserting, "slots")
  /\ maglev' = [maglev EXCEPT ![work.target.offset + work.slot] =
                                entry.ids[work.table[work.slot]]]
  /\ IF work.slot + 1 < work.target.size
     THEN work' = [work EXCEPT !.slot = @ + 1] /\ UNCHANGED <<services, pool>>
     ELSE /\ work' = [work EXCEPT !.pc = "service"]
          /\ services' = [services EXCEPT ![job.v].ext = work.target]
          /\ pool' = IF work.target = entry.ext THEN pool ELSE pool \cup Slots(entry.ext)
  /\ UNCHANGED <<states, sids, bids, unclaimed, todo, vipMap, svcMap, backendMap, health, tally>>

\* Mutant: the new extent is not given back.
WriteSlotFaultLeaks ==
  doing(Upserting, "slots") /\ Fault("slot") /\ UNCHANGED <<memory, maps>>

\* A maglev_table write fails: a new extent is given back.
WriteSlotFault ==
  /\ doing(Upserting, "slots")
  /\ pool' = IF work.target = entry.ext THEN pool ELSE pool \cup Slots(work.target)
  /\ Fault("slot")
  /\ UNCHANGED <<services, states, sids, bids, unclaimed, maps>>

WriteService ==
  /\ doing(Upserting, "service")
  /\ svcMap' = [svcMap EXCEPT ![entry.sid] = entry.ext]
  /\ work' = [work EXCEPT !.pc = "vip"]
  /\ UNCHANGED <<memory, todo, vipMap, maglev, backendMap, health, tally>>

WriteVip ==
  /\ doing(Upserting, "vip") /\ job.v # Zero
  /\ vipMap' = Give(vipMap, job.v, entry.sid)
  /\ services' = [services EXCEPT ![job.v] =
                    [@ EXCEPT !.spec = given, !.vip = desired, !.up = TRUE]]
  /\ unclaimed' = unclaimed \ {job.v}
  /\ hist' = [hist EXCEPT ![job.v] = IF @ = "failed" THEN "retried" ELSE @]
  /\ Finish(Tail(todo))
  /\ UNCHANGED <<states, sids, bids, pool, svcMap, maglev, backendMap, health,
                 confOK, steady, calls, faults, crashes>>

\* The write of service_config_map, or of vip_map or the range trie, fails.
WriteFault ==
  /\ \E write \in {"service", "vip"} : doing(Upserting, write) /\ Fault(write)
  /\ UNCHANGED <<memory, maps>>

\* config.VIP{} has no address.
RefuseVip ==
  /\ doing(Upserting, "vip") /\ job.v = Zero
  /\ Fail
  /\ UNCHANGED <<memory, maps, faults>>

=============================================================================
