--------------------------- MODULE IpamController ---------------------------
(***************************************************************************)
(* rivora-controller: the elected process that gives every managed Service  *)
(* and Gateway an address (internal/ipamctrl over internal/ipam).           *)
(*                                                                          *)
(* The API server holds the objects; users edit them at any time.  The      *)
(* controller sees edits through informers (cache, queue), reads an object  *)
(* from the API when it reconciles it, and writes it back with patches that *)
(* may fail.  Losing the lease ends the process, so a handover is a crash   *)
(* and a start with an empty allocator (cmd/rivora-controller/main.go).     *)
(* reconcileService and reconcileGateway differ in the fields they patch    *)
(* only; an object is either.  A reconcile is two steps: the API read with  *)
(* the allocator call (nobody else touches this key's entry meanwhile), and *)
(* the patch.                                                               *)
(***************************************************************************)
EXTENDS IpAllocator

CONSTANTS Service, Gateway,  \* objects, by kind
          Key,               \* [Object -> "namespace/name"]
          Want,              \* [Object -> [pool, pin]]: annotation, requested address
          InitObjects,       \* the objects before the controller first starts
          PoolSets,          \* the AddressPool sets users write; the first is there
          MaxEdits, MaxCrashes, MaxFaults

Object == Service \cup Gateway

Absent == [st |-> "none", managed |-> FALSE, fin |-> FALSE, ip |-> NoAddr]
Record == [st : {"none", "live", "deleting"}, managed : BOOLEAN,
           fin : BOOLEAN, ip : Address \cup {NoAddr}]

Idle == [op |-> "idle", ip |-> NoAddr]

VARIABLES obj,      \* the API server's objects
          poolSet,  \* index into PoolSets
          cache,    \* the informers' copy of obj
          events,   \* objects with a watch event on its way
          queue,    \* keys waiting in the two work queues
          poolWork, \* an item waits in poolsQueue
          job,      \* per object, the patch its worker is about to send
          alloc,    \* the allocator
          phase,    \* "down", "services" (Service workers run), "up"
          edits, crashes, faults

api    == <<obj, poolSet>>
ctl    == <<cache, queue, poolWork, job, alloc, phase>>
bounds == <<edits, crashes, faults>>
vars   == <<obj, poolSet, cache, events, queue, poolWork, job, alloc, phase, edits, crashes, faults>>

Init ==
  /\ obj = InitObjects
  /\ poolSet = 1
  /\ cache = [o \in Object |-> Absent]
  /\ events = {} /\ queue = {} /\ poolWork = FALSE
  /\ job = [o \in Object |-> Idle]
  /\ alloc = NewAllocator
  /\ phase = "down"
  /\ edits = 0 /\ crashes = 0 /\ faults = 0

Managed(x) == x.st = "live" /\ x.managed
-----------------------------------------------------------------------------
(* A write to an object: its watchers will hear of it.                      *)
Write(o, x) ==
  /\ obj' = [obj EXCEPT ![o] = x]
  /\ events' = IF phase = "down" THEN events ELSE events \cup {o}
  /\ UNCHANGED poolSet

(* Users.                                                                   *)
Edit(o, x) ==
  /\ edits < MaxEdits
  /\ edits' = edits + 1
  /\ Write(o, x)
  /\ UNCHANGED <<ctl, crashes, faults>>

Create(o) ==
  /\ obj[o].st = "none"
  /\ Edit(o, [Absent EXCEPT !.st = "live", !.managed = TRUE])

(* The Service's type or the Gateway's class changes; status is kept.       *)
ChangeClass(o) ==
  /\ obj[o].st = "live"
  /\ Edit(o, [obj[o] EXCEPT !.managed = ~@])

(* With a finalizer the object stays until the finalizer is removed.        *)
Delete(o) ==
  /\ obj[o].st = "live"
  /\ Edit(o, IF obj[o].fin THEN [obj[o] EXCEPT !.st = "deleting"] ELSE Absent)

EditPools(i) ==
  /\ edits < MaxEdits
  /\ edits' = edits + 1
  /\ poolSet' = i
  /\ poolWork' = (phase # "down")
  /\ UNCHANGED <<obj, events, cache, queue, job, alloc, phase, crashes, faults>>
-----------------------------------------------------------------------------
(* Informers: an event brings the cache up to date and enqueues the key;    *)
(* the periodic resync enqueues every cached key again.                     *)
Watch(o) ==
  /\ phase # "down"
  /\ o \in events
  /\ events' = events \ {o}
  /\ cache' = [cache EXCEPT ![o] = obj[o]]
  /\ queue' = queue \cup {o}
  /\ UNCHANGED <<api, poolWork, job, alloc, phase, bounds>>

Resync ==
  /\ phase # "down"
  /\ queue' = queue \cup {o \in Object : cache[o].st # "none"}
  /\ UNCHANGED <<api, cache, events, poolWork, job, alloc, phase, bounds>>

(* reconcilePools: the pools that parse replace the allocator's pools.      *)
ParsedPools ==
  LET specs == PoolSets[poolSet]
      exp(p) == ParsePool(specs[p].entries, specs[p].avoid)
  IN  [p \in {q \in DOMAIN specs : exp(q).ok} |->
         [addrs |-> exp(p).addrs, prefixes |-> exp(p).prefixes, auto |-> specs[p].auto]]

reconcilePools ==
  /\ phase # "down" /\ poolWork
  /\ poolWork' = FALSE
  /\ alloc' = SetPools(alloc, ParsedPools)
  /\ UNCHANGED <<api, cache, events, queue, job, phase, bounds>>

(* Reserve for every managed object of the list that shows an address, in   *)
(* some order; a refusal is only logged.  Pre: objs is what the cache holds *)
Reservations(a, seen, objs) ==
  LET step(b, o) == IF seen[o].managed /\ seen[o].ip # NoAddr
                      THEN Reserve(b, seen[o].ip, Key[o]) ELSE b
  IN  {FoldLeft(step, a, s) : s \in SetToSeqs({o \in objs : seen[o].st # "none"})}

(* Run, to the start of the Service workers: caches synced, pools read,     *)
(* rebuildFromExistingServices.                                             *)
Start ==
  /\ phase = "down"
  /\ cache' = obj
  /\ queue' = {o \in Object : obj[o].st # "none"}
  /\ alloc' \in Reservations(SetPools(NewAllocator, ParsedPools), obj, Service)
  /\ poolWork' = FALSE
  /\ phase' = "services"
  /\ UNCHANGED <<api, events, job, bounds>>

(* rebuildFromExistingGateways, then the Gateway workers: the Service       *)
(* workers are already running.                                             *)
StartGateways ==
  /\ phase = "services"
  /\ alloc' \in Reservations(alloc, cache, Gateway)
  /\ phase' = "up"
  /\ UNCHANGED <<api, cache, events, queue, poolWork, job, bounds>>
-----------------------------------------------------------------------------
(* The reconcilers.                                                         *)
Working(o) == phase = "up" \/ (phase = "services" /\ o \in Service)

(* A worker takes a key no other worker of the queue is processing.         *)
Get(o) ==
  /\ Working(o)
  /\ o \in queue /\ job[o] = Idle
  /\ UNCHANGED <<api, cache, events, poolWork, phase, bounds>>

(* The object is gone: Release is the safety net.                           *)
ReconcileGone(o) ==
  /\ Get(o)
  /\ obj[o].st = "none"
  /\ alloc' = Release(alloc, Key[o])
  /\ queue' = queue \ {o}
  /\ UNCHANGED job

(* Deleted, or no longer ours: release, then remove the finalizer.          *)
ReconcileRelease(o) ==
  /\ Get(o)
  /\ obj[o].st # "none" /\ ~Managed(obj[o])
  /\ alloc' = IF obj[o].fin THEN Release(alloc, Key[o]) ELSE alloc
  /\ job' = [job EXCEPT ![o] = IF obj[o].fin THEN [Idle EXCEPT !.op = "unfin"] ELSE Idle]
  /\ queue' = queue \ {o}

ReconcileFinalizer(o) ==
  /\ Get(o)
  /\ Managed(obj[o]) /\ ~obj[o].fin
  /\ job' = [job EXCEPT ![o] = [Idle EXCEPT !.op = "fin"]]
  /\ queue' = queue \ {o}
  /\ UNCHANGED alloc


(* Allocate; a new address is patched into the status.  An error changes    *)
(* nothing: the key goes back to the queue through the rate limiter.        *)
ReconcileAllocate(o) ==
  /\ Get(o)
  /\ Managed(obj[o]) /\ obj[o].fin
  /\ \E ip \in Allocate(alloc, Key[o], Want[o].pool, Want[o].pin) :
       /\ alloc' = Granted(alloc, Key[o], ip)
       /\ job' = [job EXCEPT ![o] = IF ip = obj[o].ip THEN Idle
                                    ELSE [op |-> "ip", ip |-> ip]]
  /\ queue' = queue \ {o}

(* What the API server makes of a patch: an object with no finalizer left   *)
(* and a deletion timestamp goes away.                                      *)
Patched(x, j) ==
  CASE j.op = "fin"   -> [x EXCEPT !.fin = TRUE]
    [] j.op = "unfin" -> IF x.st = "deleting" THEN Absent ELSE [x EXCEPT !.fin = FALSE]
    [] j.op = "ip"    -> [x EXCEPT !.ip = j.ip]

(* No patch of a missing object, no new finalizer on one being deleted.     *)
Accepted(x, j) == x.st # "none" /\ ~(j.op = "fin" /\ x.st = "deleting")

Patch(o) ==
  /\ job[o] # Idle
  /\ Accepted(obj[o], job[o])
  /\ Write(o, Patched(obj[o], job[o]))
  /\ job' = [job EXCEPT ![o] = Idle]
  /\ UNCHANGED <<cache, queue, poolWork, alloc, phase, bounds>>

\* A failed patch is not retried.
PatchFailsForgotten(o) ==
  /\ job[o] # Idle
  /\ Accepted(obj[o], job[o]) => faults < MaxFaults
  /\ faults' = IF Accepted(obj[o], job[o]) THEN faults + 1 ELSE faults
  /\ job' = [job EXCEPT ![o] = Idle]
  /\ UNCHANGED <<api, cache, events, queue, poolWork, alloc, phase, edits, crashes>>

(* A refused or lost patch: AddRateLimited.                                 *)
PatchFails(o) ==
  /\ job[o] # Idle
  /\ Accepted(obj[o], job[o]) => faults < MaxFaults
  /\ faults' = IF Accepted(obj[o], job[o]) THEN faults + 1 ELSE faults
  /\ job' = [job EXCEPT ![o] = Idle]
  /\ queue' = queue \cup {o}
  /\ UNCHANGED <<api, cache, events, poolWork, alloc, phase, edits, crashes>>

(* The process ends, or loses the lease and exits.                          *)
Crash ==
  /\ phase # "down" /\ crashes < MaxCrashes
  /\ crashes' = crashes + 1
  /\ phase' = "down"
  /\ alloc' = NewAllocator
  /\ events' = {} /\ queue' = {} /\ poolWork' = FALSE
  /\ job' = [o \in Object |-> Idle]
  /\ cache' = [o \in Object |-> Absent]
  /\ UNCHANGED <<api, edits, faults>>

Reconcile(o) ==
  \/ ReconcileGone(o)
  \/ ReconcileRelease(o)
  \/ ReconcileFinalizer(o)
  \/ ReconcileAllocate(o)

Next ==
  \/ \E o \in Object : \/ Create(o) \/ ChangeClass(o) \/ Delete(o)
                       \/ Watch(o) \/ Reconcile(o) \/ Patch(o) \/ PatchFails(o)
  \/ \E i \in DOMAIN PoolSets : EditPools(i)
  \/ reconcilePools \/ Resync \/ Start \/ StartGateways \/ Crash

(* The process is restarted, its informers deliver, its workers take what   *)
(* is queued and the API server answers.  Resync is not needed for progress.*)
Serve(o) == Watch(o) \/ Reconcile(o) \/ Patch(o) \/ PatchFails(o)
Run == Start \/ StartGateways \/ reconcilePools

Fairness == WF_vars(Run) /\ \A o \in Object : WF_vars(Serve(o))

Spec == Init /\ [][Next]_vars /\ Fairness
-----------------------------------------------------------------------------
(* Types of the objects, the queues and the Allocator's two maps.           *)
TypeOK ==
  /\ obj \in [Object -> Record] /\ cache \in [Object -> Record]
  /\ poolSet \in DOMAIN PoolSets
  /\ queue \subseteq Object /\ events \subseteq Object /\ poolWork \in BOOLEAN
  /\ job \in [Object -> [op : {"idle", "fin", "unfin", "ip"}, ip : Address \cup {NoAddr}]]
  /\ DOMAIN alloc.addrOwner \subseteq Address
  /\ DOMAIN alloc.ownerAddr \subseteq {Key[o] : o \in Object}
  /\ phase \in {"down", "services", "up"}


Settled == phase = "up" /\ queue = {} /\ events = {} /\ \A o \in Object : job[o] = Idle



(* Once users and faults let it be, the controller brings every object to   *)
(* its end: a deleted one goes, a managed one shows the address it owns     *)
(* unless nothing it may have is free.  A lost event, a lost patch or a     *)
(* restart at any point does not leave one behind.                          *)
Converges ==
  <>[](\A o \in Object :
         /\ obj[o].st # "deleting"
         /\ Managed(obj[o]) => \/ Owns(alloc, Key[o], obj[o].ip)
                               \/ MayFail(alloc, Key[o], Want[o].pool, Want[o].pin))

(* A pool of one entry expands to exactly the addresses the entry denotes,  *)
(* whatever the entry: a prefix or range that ends at the top of the        *)
(* address space included (ParsePool, parseCIDR, parseRange).  Asked of     *)
(* every entry, before the controller starts.                               *)
ExpandsExactly ==
  phase = "down" => \A e \in Entry, avoid \in BOOLEAN : Exact(e, avoid)

(* Two overlapping entries of one pool never put an address into it twice:  *)
(* a pool hands out, and counts, every address once (ParsePool's seenAddr). *)
NoAddressTwice ==
  phase = "down" =>
    \A e, f \in {x \in Entry : x.addr.fam = 4}, avoid \in BOOLEAN : Once(e, f, avoid)

(* A pool holds what its entries denote, every address once (ParsePool).    *)
PoolsExact == ExpandsExactly /\ NoAddressTwice
=============================================================================
