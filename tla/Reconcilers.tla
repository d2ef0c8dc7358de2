---------------------------- MODULE Reconcilers -----------------------------
(***************************************************************************)
(* rivorad in Kubernetes mode: the Service reconciler (internal/controller) *)
(* and the Gateway API reconciler (internal/gatewayapi) program one         *)
(* dataplane, and the start-up prune removes what neither claimed           *)
(* (cmd/rivorad/main.go, internal/initsync).                                *)
(*                                                                          *)
(* world is what the informers hold; an edit updates it and runs the event  *)
(* handlers.  An object is a Service or Gateway key; a worker takes it from *)
(* the queue, reads its inputs, and then makes one dataplane call per step, *)
(* so that two workers, the prune and a restart interleave with it.         *)
(* plane is what a dataplane with these VIPs holds (Dataplane.tla has its   *)
(* insides); RemoveVIP never fails, UpsertVIP and the draining mark may.    *)
(***************************************************************************)
EXTENDS GatewayVips, Functions

CONSTANTS LbClass, LocalNode,  \* -lb-class; the node Local is honoured for
          Starts,              \* the worlds, adopted VIPs and budgets to start from
          ServiceVariants, SliceVariants,   \* [key -> the values users give it]
          GatewayVariants,
          RouteVariants, PolicyVariants,    \* whole collections
          SharedVariants                    \* [classes, grants, labels]

Service == {[r |-> "svc", key |-> k] : k \in DOMAIN ServiceVariants}
Gateway == {[r |-> "gw", key |-> k] : k \in DOMAIN GatewayVariants}
Object  == Service \cup Gateway

VARIABLES world,      \* the informers' stores
          wanted,     \* per object, the VIPs its inputs in world ask for
          fresh,      \* objects an event has come for since rivorad started
          queue,      \* keys waiting in the two work queues
          classWork,  \* an item waits in classQueue
          started,    \* reconcilers whose workers run
          job,        \* per object, the pass a worker is making over it
          installed,  \* per object, the VIP keys recorded for it
          plane,      \* VIP key -> what is programmed
          unclaimed,  \* VIP keys adopted and not yet upserted
          drained,    \* backends marked draining
          tracker,    \* per reconciler, the keys of its first pass still pending
          prune,      \* "waiting", "done" or "gaveup"
          changed,    \* OnChange has been called since an announcer last looked
          torn,       \* VIP keys a failed pass programmed and did not record
          lost,       \* <<object, VIP key>> another object overwrote or removed
          budget      \* edits, faults and restarts still to come

kube    == <<world, wanted, fresh, queue, classWork>>
history == <<torn, lost>>
vars == <<world, wanted, fresh, queue, classWork, started, job, installed, plane, unclaimed, drained,
          tracker, prune, changed, torn, lost, budget>>

Put(f, k, v) == [x \in DOMAIN f \cup {k} |-> IF x = k THEN v ELSE f[x]]

Drop(f, k) == Restrict(f, DOMAIN f \ {k})

Assign(f, k, v) == IF v = None THEN Drop(f, k) ELSE Put(f, k, v)

(* A pass: VIPs to upsert, the one whose draining marks come next, keys     *)
(* upserted, keys to remove, whether anything changed.                      *)
Idle == [busy |-> FALSE, todo |-> <<>>, marks |-> <<>>, done |-> {}, olds |-> {},
         changed |-> FALSE]

Unarmed == [armed |-> FALSE, pending |-> {}]

Arm(keys) == [armed |-> TRUE, pending |-> keys]

Finished(t, key) == [t EXCEPT !.pending = @ \ {key}]

Present(w) == {o \in Object : o.key \in DOMAIN (IF o.r = "svc" THEN w.services ELSE w.gateways)}

(* What adoption restores of a VIP: its backends, not their weights, nor    *)
(* the probe, rate limit or BGP peers.                                      *)
Adopted(v) ==
  [v EXCEPT !.backends = {[b EXCEPT !.weight = 0] : b \in @},
            !.probe = None, !.rate = None, !.peers = {}]

Adoption(p) == [k \in DOMAIN p |-> Adopted(p[k])]

PruneNeeded(p) == IF DOMAIN p = {} THEN "done" ELSE "waiting"

(* What reconcile wants programmed for an object right now.                 *)
DesiredOf(w, o) ==
  IF o \notin Present(w) THEN <<>>
  ELSE IF o.r = "svc"
    THEN LET svc == w.services[o.key]
         IN  IF managedService(svc, LbClass)
               THEN buildDesiredVIPs(svc, SlicesOf(w, o.key), LocalNode,
                                     policyFor(w.policies, o.key))
               ELSE <<>>
    ELSE LET gw == w.gateways[o.key]
         IN  IF managedGateway(w, gw) THEN buildGatewayVIPs(gw, w) ELSE <<>>

Desired(w) == [o \in Object |-> DesiredOf(w, o)]

Init ==
  \E s \in Starts :
    /\ world = s.world /\ budget = s.budget /\ wanted = Desired(world) /\ fresh = {}
    /\ queue = Present(world) /\ classWork = FALSE /\ started = {}
    /\ job = [o \in Object |-> Idle]
    /\ installed = [o \in Object |-> {}]
    /\ plane = Adoption(s.plane) /\ unclaimed = DOMAIN plane /\ drained = {}
    /\ tracker = [r \in {"svc", "gw"} |-> Unarmed]
    /\ prune = PruneNeeded(plane)
    /\ changed = FALSE /\ torn = {} /\ lost = {}
-----------------------------------------------------------------------------
KeysOf(vips) == {vips[i].key : i \in DOMAIN vips}

(* What UpsertVIP makes of a VIP.                                           *)
Programmed(d) == [backends |-> d.backends, sticky |-> d.sticky, probe |-> d.probe,
                  rate |-> d.rate, peers |-> d.peers]

BackendsIn(p) == UNION {{[addr |-> b.addr, port |-> b.port] : b \in p[k].backends} : k \in DOMAIN p}
-----------------------------------------------------------------------------
(* Event handlers.                                                          *)
ParentsOf(rt) ==
  {[r |-> "gw", key |-> <<parentNamespace(rt, rt.parents[i]), rt.parents[i].name>>] :
     i \in DOMAIN rt.parents} \cap Object

enqueueGatewaysForService(w, svc) ==
  UNION {ParentsOf(w.routes[i]) :
           i \in {j \in DOMAIN w.routes : routeReferencesService(w.routes[j], svc)}}

enqueueSlice(w, svc) ==
  ({[r |-> "svc", key |-> svc]} \cap Object) \cup enqueueGatewaysForService(w, svc)

(* A route that was added or changed, by its new parentRefs; one that was   *)
(* deleted, by its last.                                                    *)
enqueueRoute(old, new) ==
  LET changedIn == {i \in DOMAIN new : new[i] \notin ToSet(old)}
      goneFrom  == {i \in DOMAIN old : \A j \in DOMAIN new : new[j].name # old[i].name}
  IN  UNION {ParentsOf(new[i]) : i \in changedIn} \cup UNION {ParentsOf(old[i]) : i \in goneFrom}


(* A policy edit enqueues the Service it pointed at and the one it points   *)
(* at now.                                                                  *)
enqueuePolicyTarget(old, new) ==
  {[r |-> "svc", key |-> p.target] : p \in (old \ new) \cup (new \ old)} \cap Object

Edit(kind, w, keys) ==
  /\ budget[kind] > 0
  /\ world' = w /\ w # world /\ wanted' = Desired(w)
  /\ queue' = queue \cup keys /\ fresh' = fresh \cup keys
  /\ budget' = [budget EXCEPT ![kind] = @ - 1]
  /\ UNCHANGED <<started, job, installed, plane, unclaimed, drained, tracker, prune, changed,
                 history>>

EditService(k) ==
  \E v \in ServiceVariants[k] :
    /\ Edit("svc", [world EXCEPT !.services = Assign(@, k, v)], {[r |-> "svc", key |-> k]})
    /\ UNCHANGED classWork

EditSlices(k) ==
  \E v \in SliceVariants[k] :
    /\ Edit("slices", [world EXCEPT !.slices = Assign(@, k, v)], enqueueSlice(world, k))
    /\ UNCHANGED classWork

EditGateway(k) ==
  \E v \in GatewayVariants[k] :
    /\ Edit("gw", [world EXCEPT !.gateways = Assign(@, k, v)], {[r |-> "gw", key |-> k]})
    /\ UNCHANGED classWork

EditRoutes ==
  \E rs \in RouteVariants :
    /\ Edit("routes", [world EXCEPT !.routes = rs], enqueueRoute(world.routes, rs))
    /\ UNCHANGED classWork

EditPolicies ==
  \E ps \in PolicyVariants :
    /\ Edit("policies", [world EXCEPT !.policies = ps], enqueuePolicyTarget(world.policies, ps))
    /\ UNCHANGED classWork

(* GatewayClasses, ReferenceGrants, Namespaces.                             *)
EditShared ==
  \E s \in SharedVariants :
    /\ Edit("shared", [world EXCEPT !.classes = s.classes, !.grants = s.grants, !.labels = s.labels], {})
    /\ classWork' = TRUE

classWorker ==
  /\ "gw" \in started /\ classWork
  /\ classWork' = FALSE
  /\ queue' = queue \cup (Present(world) \cap Gateway)
  /\ UNCHANGED <<world, wanted, fresh, started, job, installed, plane, unclaimed, drained, tracker, prune,
                 changed, history, budget>>

FirstPassDone == \A r \in {"svc", "gw"} : tracker[r].armed /\ tracker[r].pending = {}

(* The informers' periodic resync: an update event for every object.  Its   *)
(* period (30 s) outlasts the backlog.                                      *)
CaughtUp ==
  /\ queue = {} /\ ~classWork /\ started = {"svc", "gw"}
  /\ \A o \in Object : ~job[o].busy
  /\ prune = "waiting" => ~FirstPassDone

Resync ==
  /\ CaughtUp
  /\ queue' = queue \cup Present(world)
  /\ UNCHANGED <<world, wanted, fresh, classWork, started, job, installed, plane, unclaimed, drained, tracker,
                 prune, changed, history, budget>>
-----------------------------------------------------------------------------
\* The tracker is armed before the informer caches have synced.
StartUnarmed(r) ==
  /\ r \notin started
  /\ started' = started \cup {r}
  /\ tracker' = [tracker EXCEPT ![r] = Arm({})]
  /\ UNCHANGED <<kube, job, installed, plane, unclaimed, drained, prune, changed, history, budget>>

(* Run, once the caches have synced: arm the tracker with every object in   *)
(* the cache, then start the workers.                                       *)
Start(r) ==
  /\ r \notin started
  /\ started' = started \cup {r}
  /\ tracker' = [tracker EXCEPT ![r] = Arm({o \in Present(world) : o.r = r})]
  /\ UNCHANGED <<kube, job, installed, plane, unclaimed, drained, prune, changed, history, budget>>

\* A pass that finds nothing wanted ends at once.
TakeNothing(o) ==
  /\ o.r \in started /\ o \in queue /\ ~job[o].busy
  /\ queue' = queue \ {o}
  /\ LET want == wanted[o]
     IN  job' = [job EXCEPT ![o] =
                   [Idle EXCEPT !.busy = TRUE, !.todo = want,
                                !.olds = IF want = <<>> THEN {} ELSE installed[o] \ KeysOf(want)]]
  /\ UNCHANGED <<world, wanted, fresh, classWork, started, installed, plane, unclaimed, drained, tracker, prune,
                 changed, history, budget>>

(* processNextItem and reconcile up to removeAllFor: the inputs are read    *)
(* and the desired VIPs built.                                              *)
Take(o) ==
  /\ o.r \in started /\ o \in queue /\ ~job[o].busy
  /\ queue' = queue \ {o}
  /\ LET want == wanted[o]
     IN  job' = [job EXCEPT ![o] = [Idle EXCEPT !.busy = TRUE, !.todo = want,
                                                !.olds = installed[o] \ KeysOf(want)]]
  /\ UNCHANGED <<world, wanted, fresh, classWork, started, installed, plane, unclaimed, drained, tracker, prune,
                 changed, history, budget>>

(* The objects, other than o, that hold VIP k as theirs.                    *)
Others(o, k) == {p \in Object \ {o} : k \in installed[p] \cup job[p].done}

(* UpsertVIP.                                                               *)
Upsert(o) ==
  /\ job[o].marks = <<>> /\ job[o].todo # <<>>
  /\ LET d == Head(job[o].todo)
     IN  /\ plane' = Put(plane, d.key, Programmed(d))
         /\ unclaimed' = unclaimed \ {d.key}
         /\ job' = [job EXCEPT ![o] = [@ EXCEPT !.todo = Tail(@), !.done = @ \cup {d.key},
                                               !.marks = <<d>>, !.changed = TRUE]]
         /\ lost' = (lost \ {<<o, d.key>>}) \cup {<<p, d.key>> : p \in Others(o, d.key)}
  /\ drained' = drained \cap BackendsIn(plane')
  /\ UNCHANGED <<kube, started, installed, tracker, prune, changed, torn, budget>>

(* SetBackendDrainingByKey for each not-ready endpoint; a miss is no error. *)
MarkDraining(o) ==
  /\ job[o].marks # <<>>
  /\ LET d == Head(job[o].marks)
         here == IF d.key \in DOMAIN plane
                   THEN {[addr |-> b.addr, port |-> b.port] : b \in plane[d.key].backends} ELSE {}
     IN  drained' = drained \cup (d.draining \cap here)
  /\ job' = [job EXCEPT ![o].marks = <<>>]
  /\ UNCHANGED <<kube, started, installed, plane, unclaimed, tracker, prune, changed, history,
                 budget>>

(* Either call returns an error: the pass ends, the key is queued again,    *)
(* what was upserted is not recorded and OnChange does not run.             *)
Fail(o) ==
  /\ budget.faults > 0
  /\ \/ job[o].marks # <<>> /\ Head(job[o].marks).draining # {}
     \/ job[o].marks = <<>> /\ job[o].todo # <<>>
  /\ job' = [job EXCEPT ![o] = Idle]
  /\ queue' = queue \cup {o}
  /\ torn' = torn \cup (job[o].done \ installed[o])
  /\ budget' = [budget EXCEPT !.faults = @ - 1]
  /\ UNCHANGED <<world, wanted, fresh, classWork, started, installed, plane, unclaimed, drained, tracker, prune,
                 changed, lost>>

(* RemoveVIP of one VIP the object no longer wants.                         *)
RemoveOld(o) ==
  /\ job[o].marks = <<>> /\ job[o].todo = <<>>
  /\ \E k \in job[o].olds :
       /\ plane' = Drop(plane, k)
       /\ unclaimed' = unclaimed \ {k}
       /\ drained' = drained \cap BackendsIn(plane')
       /\ job' = [job EXCEPT ![o] = [@ EXCEPT !.olds = @ \ {k}, !.changed = TRUE]]
       /\ lost' = (lost \ {<<o, k>>}) \cup {<<p, k>> : p \in Others(o, k)}
       /\ torn' = torn \ {k}
  /\ UNCHANGED <<kube, started, installed, tracker, prune, changed, budget>>


(* Record what is installed, call OnChange if anything changed, and tell    *)
(* the tracker.                                                             *)
Finish(o) ==
  /\ job[o].busy /\ job[o].marks = <<>> /\ job[o].todo = <<>> /\ job[o].olds = {}
  /\ installed' = [installed EXCEPT ![o] = job[o].done]
  /\ torn' = torn \ job[o].done
  /\ changed' = (changed \/ job[o].changed)
  /\ tracker' = [tracker EXCEPT ![o.r] = Finished(@, o)]
  /\ job' = [job EXCEPT ![o] = Idle]
  /\ UNCHANGED <<kube, started, plane, unclaimed, drained, prune, lost, budget>>

(* The start-up goroutine: PruneUnclaimed once both trackers are done.      *)
Prune ==
  /\ prune = "waiting"
  /\ FirstPassDone
  /\ prune' = "done"
  /\ plane' = Restrict(plane, DOMAIN plane \ unclaimed)
  /\ drained' = drained \cap BackendsIn(plane')
  /\ changed' = (changed \/ unclaimed # {})
  /\ unclaimed' = {}
  /\ UNCHANGED <<kube, started, job, installed, tracker, history, budget>>

(* WaitAll times out: nothing is removed, then or later.                    *)
GiveUp ==
  /\ prune = "waiting"
  /\ prune' = "gaveup"
  /\ UNCHANGED <<kube, started, job, installed, plane, unclaimed, drained, tracker, changed,
                 history, budget>>

(* rivorad stops, between any two dataplane calls, and starts again.        *)
Restart ==
  /\ budget.restarts > 0
  /\ budget' = [budget EXCEPT !.restarts = @ - 1]
  /\ queue' = Present(world) /\ fresh' = {} /\ classWork' = FALSE /\ started' = {}
  /\ job' = [o \in Object |-> Idle]
  /\ installed' = [o \in Object |-> {}]
  /\ plane' = Adoption(plane) /\ unclaimed' = DOMAIN plane /\ drained' = {}
  /\ tracker' = [r \in {"svc", "gw"} |-> Unarmed]
  /\ prune' = PruneNeeded(plane)
  /\ changed' = FALSE /\ torn' = {} /\ lost' = {}
  /\ UNCHANGED <<world, wanted>>
-----------------------------------------------------------------------------
Users ==
  \/ \E k \in DOMAIN ServiceVariants : EditService(k)
  \/ \E k \in DOMAIN SliceVariants : EditSlices(k)
  \/ \E k \in DOMAIN GatewayVariants : EditGateway(k)
  \/ EditRoutes
  \/ EditPolicies
  \/ EditShared

Step(o) == Take(o) \/ Upsert(o) \/ MarkDraining(o) \/ RemoveOld(o) \/ Finish(o)

Work ==
  \/ \E r \in {"svc", "gw"} : Start(r)
  \/ \E o \in Object : Step(o)
  \/ classWorker
  \/ Prune

Next ==
  \/ Users
  \/ Resync
  \/ Work
  \/ \E o \in Object : Fail(o)
  \/ GiveUp
  \/ Restart

(* The goroutines of the reconcilers run and the informers resync.  One     *)
(* condition for all the work is enough: a resync waits for the backlog.    *)
Fairness == WF_vars(Work) /\ WF_vars(Resync)

Spec == Init /\ [][Next]_vars /\ Fairness
-----------------------------------------------------------------------------
(* Types, and: an idle object has nothing half done.                        *)
TypeOK ==
  /\ queue \subseteq Object /\ classWork \in BOOLEAN /\ started \subseteq {"svc", "gw"}
  /\ \A o \in Object : job[o].busy \in BOOLEAN /\ ~job[o].busy => job[o] = Idle
  /\ \A k \in DOMAIN plane : plane[k].backends # {}
  /\ unclaimed \subseteq DOMAIN plane
  /\ drained \subseteq BackendsIn(plane)
  /\ prune \in {"waiting", "done", "gaveup"} /\ changed \in BOOLEAN

(* Every VIP in the dataplane has somebody who will remove it: it is        *)
(* recorded for an object, part of a pass under way, still to be claimed or *)
(* pruned, or was left by a pass whose later call failed                    *)
(* (controller.go removeAllFor returns before recording).                   *)
Accounted ==
  \A k \in DOMAIN plane :
    \/ \E o \in Object : k \in installed[o] \cup job[o].done
    \/ k \in unclaimed \cup torn

Matches(d) ==
  d.key \in DOMAIN plane /\ plane[d.key] = Programmed(d) /\ d.draining \subseteq drained

Quiet(o) == o.r \in started /\ o \notin queue /\ ~job[o].busy


(* The start-up prune removes no VIP that some Service wants (main.go: each *)
(* reconciler has made a full first pass), unless that Service has changed  *)
(* since rivorad started and its next pass is coming.  A Gateway is not     *)
(* told when a Service it routes to changes, so its wish may wait for a     *)
(* resync.                                                                  *)
PruneSpares ==
  [][prune' = "done" /\ prune = "waiting" =>
       \A o \in Service : KeysOf(wanted[o]) \cap unclaimed # {} => o \in fresh /\ ~Quiet(o)]_vars

Contested(o, k) == \E p \in Object \ {o} : k \in KeysOf(wanted[p])

(* Once the cluster stops changing and calls stop failing, the dataplane    *)
(* holds what every object wants (an address two objects want goes to       *)
(* either) and nothing else, except what a failed pass left and what was    *)
(* never claimed when the first pass took too long.                         *)
Converged ==
  /\ \A o \in Object : \A d \in ToSet(wanted[o]) : Contested(o, d.key) \/ Matches(d)
  /\ \A k \in DOMAIN plane :
       \/ \E o \in Object : k \in KeysOf(wanted[o])
       \/ k \in torn
       \/ k \in unclaimed /\ prune = "gaveup"

(* The passes of both reconcilers (removeAllFor), the retries and the prune *)
(* end there, and stay there.                                               *)
Converges == <>[]Converged
=============================================================================
