---------------------------- MODULE GatewayStatus ---------------------------
(***************************************************************************)
(* The status writer of rivora-controller (internal/gatewayapi/status.go):  *)
(* on every route, per parentRef, whether the Gateway accepted it and its   *)
(* references resolve; on every Gateway, per listener, how many routes are  *)
(* attached.  Other controllers own entries of the same route's status, and *)
(* users edit and delete the objects meanwhile.                             *)
(*                                                                          *)
(* A worker decides from its caches, then reads each route from the API and *)
(* writes it back with UpdateStatus, which the API refuses when the object  *)
(* has changed in between: the write is allowed while route and status are  *)
(* still as they were read (resourceVersion).  Messages, timestamps and     *)
(* generations are left out.                                                *)
(***************************************************************************)
EXTENDS GatewayVips, Functions

CONSTANT GatewayVariants   \* its domain: the Gateways there may be

VARIABLES world,       \* what users wrote (see GatewayVips)
          report,      \* route -> the set of its status.parents entries
          shown,       \* Gateway -> its status.listeners
          cached,      \* the same in the writer's cache
          writeQueue,  \* Gateways waiting in the work queue
          write,       \* per Gateway, the pass a worker is making
          mishaps      \* [others, faults, handovers] still to come

statusVars == <<report, shown, cached, writeQueue, write, mishaps>>

Writable == DOMAIN GatewayVariants

(* A pass: the routes still to write, the listeners' status to write and as *)
(* it was cached, the object as it was read, whether a write failed.        *)
Resting == [pc |-> "idle", todo |-> <<>>, listeners |-> {}, old |-> {}, cur |-> <<>>, err |-> FALSE]

RouteKey(rt) == <<rt.kind, rt.ns, rt.name>>

RouteKeys(w) == {RouteKey(rt) : rt \in ToSet(w.routes)}

RouteAt(w, r) == CHOOSE rt \in ToSet(w.routes) : RouteKey(rt) = r

Lookup(f, k) == IF k \in DOMAIN f THEN {f[k]} ELSE {}

StatusInit ==
  /\ shown = [g \in Writable |-> {}] /\ cached = shown
  /\ writeQueue = DOMAIN world.gateways
  /\ write = [g \in Writable |-> Resting]
-----------------------------------------------------------------------------
(* What the writer decides.                                                 *)

(* The reason of the most serious failure of a route's backendRefs.         *)
resolvedRefs(rt, w) ==
  LET reasons == {CheckBackendRef(rt, rt.refs[i], w) : i \in DOMAIN rt.refs}
  IN  CASE "RefNotPermitted" \in reasons -> "RefNotPermitted"
        [] "RefNotPermitted" \notin reasons /\ "InvalidKind" \in reasons -> "InvalidKind"
        [] OTHER -> IF "BackendNotFound" \in reasons THEN "BackendNotFound" ELSE "ResolvedRefs"

(* The entries for the parentRefs of rt that name gw.                       *)
Results(gw, rt, w) ==
  {[ctl |-> "rivora", ref |-> rt.parents[i], accepted |-> EvaluateParent(gw, rt, rt.parents[i], w).reason,
    resolved |-> resolvedRefs(rt, w)] :
     i \in {j \in DOMAIN rt.parents : namesGateway(rt, rt.parents[j], gw)}}

(* Per listener, whether its protocol is served and how many parentRefs     *)
(* attach to it.                                                            *)
Listeners(gw, w) ==
  LET refs == UNION {{<<rt, rt.parents[i]>> : i \in DOMAIN rt.parents} : rt \in ToSet(attachedRoutes(w, gw))}
      attached(l) == {x \in refs : l.name \in EvaluateParent(gw, x[1], x[2], w).listeners}
  IN  {[name |-> l.name, accepted |-> KindForProtocol(l.proto) # None, attached |-> Cardinality(attached(l))] :
         l \in ToSet(gw.listeners)}

Own(rt, e, gw) == e.ctl = "rivora" /\ namesGateway(rt, e.ref, gw)

\* The entries of the last pass are kept.
ReplacedKeepingOld(gw, rt, entries, results) == entries \cup results

(* writeRouteStatus: this controller's entries for gw replaced, every other *)
(* entry kept.                                                              *)
Replaced(gw, rt, entries, results) == {e \in entries : ~Own(rt, e, gw)} \cup results
-----------------------------------------------------------------------------
(* Event handlers: the Gateways a change of the objects puts in the queue.  *)
ParentKeys(rt) == {<<parentNamespace(rt, rt.parents[i]), rt.parents[i].name>> : i \in DOMAIN rt.parents} \cap Writable

enqueueRouteParents(old, new) ==
  UNION {ParentKeys(rt) : rt \in ToSet(new.routes) \ ToSet(old.routes)}
  \cup UNION {ParentKeys(rt) : rt \in {x \in ToSet(old.routes) : RouteKey(x) \notin RouteKeys(new)}}

(* A GatewayClass, grant or namespace, and a Service that appears or goes:  *)
(* enqueueAll.                                                              *)
Everywhere(old, new) ==
  \/ old.classes # new.classes \/ old.grants # new.grants \/ old.labels # new.labels
  \/ DOMAIN old.services # DOMAIN new.services

enqueued(old, new) ==
  {g \in Writable : Lookup(old.gateways, g) # Lookup(new.gateways, g)}
  \cup enqueueRouteParents(old, new)
  \cup (IF Everywhere(old, new) THEN DOMAIN new.gateways ELSE {})

(* Users changed the world: a deleted object takes its status with it.      *)
WorldChanges ==
  /\ report' = [r \in RouteKeys(world') |-> IF r \in DOMAIN report THEN report[r] ELSE {}]
  /\ shown' = [g \in Writable |-> IF g \in DOMAIN world'.gateways THEN shown[g] ELSE {}]
  /\ cached' = [g \in Writable |-> IF g \in DOMAIN world'.gateways THEN cached[g] ELSE {}]
  /\ writeQueue' = writeQueue \cup enqueued(world, world')
  /\ UNCHANGED <<write, mishaps>>
-----------------------------------------------------------------------------
(* A call to the API fails.                                                 *)
Fault ==
  /\ mishaps.faults > 0
  /\ mishaps' = [mishaps EXCEPT !.faults = @ - 1]

(* processNext and reconcile up to the first write: a Gateway that is gone  *)
(* or not managed needs none.                                               *)
Begin(g) ==
  /\ g \in writeQueue /\ write[g].pc = "idle"
  /\ writeQueue' = writeQueue \ {g}
  /\ IF g \in DOMAIN world.gateways /\ managedGateway(world, world.gateways[g])
       THEN LET gw == world.gateways[g]
                routes == attachedRoutes(world, gw)
            IN  write' = [write EXCEPT ![g] =
                  [Resting EXCEPT !.pc = "read", !.old = cached[g], !.listeners = Listeners(gw, world),
                                  !.todo = [i \in DOMAIN routes |->
                                              [gw |-> gw, rt |-> routes[i], results |-> Results(gw, routes[i], world)]]]]
       ELSE UNCHANGED write
  /\ UNCHANGED <<report, shown, cached, mishaps>>

(* The route as the API has it now.                                         *)
Current(r) == <<RouteAt(world, r), report[r]>>

NextRoute(g, err) == [write EXCEPT ![g].todo = Tail(@), ![g].pc = "read", ![g].cur = <<>>, ![g].err = @ \/ err]

(* The first half of writeRouteStatus: the read, and the end if the route   *)
(* is gone or the entries are as they should be.                            *)
ReadRoute(g) ==
  /\ write[g].pc = "read" /\ write[g].todo # <<>>
  /\ LET t == Head(write[g].todo)
         r == RouteKey(t.rt)
         stale == r \in DOMAIN report /\ Replaced(t.gw, t.rt, report[r], t.results) # report[r]
     IN  \/ /\ stale
            /\ write' = [write EXCEPT ![g].pc = "write", ![g].cur = Current(r)]
            /\ UNCHANGED mishaps
         \/ ~stale /\ write' = NextRoute(g, FALSE) /\ UNCHANGED mishaps
         \/ Fault /\ write' = NextRoute(g, TRUE)
  /\ UNCHANGED <<report, shown, cached, writeQueue>>

\* The write goes through whatever became of the route meanwhile.
WriteRouteBlindly(g) ==
  /\ write[g].pc = "write"
  /\ LET t == Head(write[g].todo)
         r == RouteKey(t.rt)
     IN  /\ r \in DOMAIN report
         /\ report' = [report EXCEPT ![r] = Replaced(t.gw, t.rt, write[g].cur[2], t.results)]
         /\ writeQueue' = writeQueue \cup ParentKeys(write[g].cur[1])
         /\ write' = NextRoute(g, FALSE)
  /\ UNCHANGED <<shown, cached, mishaps>>

(* The second half: UpdateStatus of what was read, refused if that is no    *)
(* longer what the API has.  The write is an event for the route's parents. *)
WriteRoute(g) ==
  /\ write[g].pc = "write"
  /\ LET t == Head(write[g].todo)
         r == RouteKey(t.rt)
         good == r \in DOMAIN report /\ write[g].cur = Current(r)
     IN  \/ /\ good
            /\ report' = [report EXCEPT ![r] = Replaced(t.gw, t.rt, write[g].cur[2], t.results)]
            /\ writeQueue' = writeQueue \cup ParentKeys(write[g].cur[1])
            /\ write' = NextRoute(g, FALSE)
            /\ UNCHANGED mishaps
         \/ /\ IF good THEN Fault ELSE UNCHANGED mishaps
            /\ write' = NextRoute(g, TRUE)
            /\ UNCHANGED <<report, writeQueue>>
  /\ UNCHANGED <<shown, cached>>

(* The API's Gateway, as far as its version goes.                           *)
CurrentGateway(g) == <<Lookup(world.gateways, g), shown[g]>>

Done(g, err) ==
  /\ write' = [write EXCEPT ![g] = Resting]
  /\ writeQueue' = IF write[g].err \/ err THEN writeQueue \cup {g} ELSE writeQueue

(* writeGatewayListeners, first half: nothing to do when the cached status  *)
(* is as it should be, else the read.                                       *)
ReadGateway(g) ==
  /\ write[g].pc = "read" /\ write[g].todo = <<>>
  /\ \/ /\ write[g].old = write[g].listeners
        /\ Done(g, FALSE) /\ UNCHANGED mishaps
     \/ /\ write[g].old # write[g].listeners /\ g \in DOMAIN world.gateways
        /\ write' = [write EXCEPT ![g].pc = "update", ![g].cur = CurrentGateway(g)]
        /\ UNCHANGED <<writeQueue, mishaps>>
     \/ /\ write[g].old # write[g].listeners
        /\ IF g \in DOMAIN world.gateways THEN Fault ELSE UNCHANGED mishaps
        /\ Done(g, TRUE)
  /\ UNCHANGED <<report, shown, cached>>

WriteGateway(g) ==
  /\ write[g].pc = "update"
  /\ LET good == g \in DOMAIN world.gateways /\ write[g].cur = CurrentGateway(g)
     IN  \/ /\ good
            /\ shown' = [shown EXCEPT ![g] = write[g].listeners]
            /\ Done(g, FALSE) /\ UNCHANGED mishaps
         \/ /\ IF good THEN Fault ELSE UNCHANGED mishaps
            /\ Done(g, TRUE) /\ UNCHANGED shown
  /\ UNCHANGED <<report, cached>>

(* The informer hears of the Gateway's new status.                          *)
Heard(g) ==
  /\ cached[g] # shown[g]
  /\ cached' = [cached EXCEPT ![g] = shown[g]]
  /\ writeQueue' = writeQueue \cup {g}
  /\ UNCHANGED <<report, shown, write, mishaps>>

(* The informers' periodic resync.                                          *)
ResyncStatus ==
  /\ writeQueue = {} /\ \A g \in Writable : write[g].pc = "idle" /\ cached[g] = shown[g]
  /\ writeQueue' = DOMAIN world.gateways
  /\ UNCHANGED <<report, shown, cached, write, mishaps>>

(* Another controller accepts a route, or takes its entry back.             *)
OtherWrites(r) ==
  LET e == [ctl |-> "other", ref |-> RouteAt(world, r).parents[1], accepted |-> "Accepted", resolved |-> "ResolvedRefs"]
  IN  /\ mishaps.others > 0
      /\ mishaps' = [mishaps EXCEPT !.others = @ - 1]
      /\ report' = [report EXCEPT ![r] = IF e \in @ THEN @ \ {e} ELSE @ \cup {e}]
      /\ writeQueue' = writeQueue \cup ParentKeys(RouteAt(world, r))
      /\ UNCHANGED <<shown, cached, write>>

(* The leader loses its Lease and exits; another starts with fresh caches.  *)
Handover ==
  /\ mishaps.handovers > 0
  /\ mishaps' = [mishaps EXCEPT !.handovers = @ - 1]
  /\ writeQueue' = DOMAIN world.gateways
  /\ write' = [g \in Writable |-> Resting]
  /\ cached' = shown
  /\ UNCHANGED <<report, shown>>

WriteStatus ==
  \E g \in Writable : Begin(g) \/ ReadRoute(g) \/ WriteRoute(g) \/ ReadGateway(g) \/ WriteGateway(g) \/ Heard(g)

StatusNext == WriteStatus \/ ResyncStatus \/ Handover \/ \E r \in DOMAIN report : OtherWrites(r)
-----------------------------------------------------------------------------
StatusTypeOK ==
  /\ DOMAIN report = RouteKeys(world)
  /\ writeQueue \subseteq Writable
  /\ \A g \in Writable : write[g].pc \in {"idle", "read", "write", "update"}

(* An entry that is not this controller's to change: another controller's,  *)
(* or one for a Gateway that is not there.                                  *)
Foreign(entries) == {e \in entries : e.ctl # "rivora" \/ \A g \in Writable : e.ref.name # g[2]}

(* The status of a managed Gateway and of the routes that name it is what   *)
(* the current objects make it.                                             *)
Truthful(g) ==
  LET gw == world.gateways[g]
  IN  /\ shown[g] = Listeners(gw, world)
      /\ \A rt \in ToSet(attachedRoutes(world, gw)) :
           {e \in report[RouteKey(rt)] : Own(rt, e, gw)} = Results(gw, rt, world)
=============================================================================
