---------------------------- MODULE GatewayVips -----------------------------
(***************************************************************************)
(* What the Gateway API reconciler wants programmed for one Gateway, and    *)
(* the attachment and reference checks it shares with the status writer     *)
(* (internal/gatewayapi/build.go and attach.go), as operators.              *)
(*                                                                          *)
(*   Gateway   [ns, name, class, addrs, listeners]; a listener is           *)
(*             [name, proto, port, kinds, from, selector]                   *)
(*   route     [kind, ns, name, parents, refs]; a parentRef is              *)
(*             [ns, name, section, ours] and a backendRef                   *)
(*             [ns, name, port, weight, ours], ours telling whether group   *)
(*             and kind are absent or the supported ones                    *)
(*   grant     [ns, from, to]: a set of [kind, ns], and a set of Service    *)
(*             names or None for any                                        *)
(*   world     [services, slices, gateways, classes, routes, grants,        *)
(*             labels, policies]: what the informers hold (Env)             *)
(* The rules of a route are one sequence of backendRefs.  A selector is the *)
(* label it selects.                                                        *)
(***************************************************************************)
EXTENDS ServiceVips

Or(x, default) == IF x = None THEN default ELSE x

gatewayIPs(gw) == Distinct(SelectSeq(gw.addrs, LAMBDA ip : ip # None))

listenerProtocol(proto) == proto \in {"TCP", "UDP"}

KindForProtocol(proto) ==
  CASE proto = "TCP" -> "TCPRoute" [] proto = "UDP" -> "UDPRoute" [] OTHER -> None

parentNamespace(rt, pr) == Or(pr.ns, rt.ns)

namesGateway(rt, pr, gw) ==
  pr.name = gw.name /\ parentNamespace(rt, pr) = gw.ns /\ pr.ours

(* NamespaceLabels: None for an unknown namespace.                          *)
LabelOf(w, ns) == IF ns \in DOMAIN w.labels THEN w.labels[ns] ELSE None

AllowedNamespace(gw, l, rt, w) ==
  LET from == Or(l.from, "Same")
  IN  \/ from = "Same" /\ rt.ns = gw.ns
      \/ from = "All"
      \/ from = "Selector" /\ l.selector # None /\ LabelOf(w, rt.ns) = l.selector

(* attachToListener, by its reason.                                         *)
attachToListener(gw, l, rt, pr, w) ==
  CASE ~namesGateway(rt, pr, gw) -> "NoMatchingParent"
    [] namesGateway(rt, pr, gw) /\ Or(pr.section, l.name) # l.name -> "NoMatchingParent"
    [] OTHER -> IF /\ rt.kind = KindForProtocol(l.proto)
                   /\ l.kinds # {} => rt.kind \in l.kinds
                   /\ AllowedNamespace(gw, l, rt, w)
                  THEN "Accepted" ELSE "NotAllowedByListeners"

attaches(gw, l, rt, w) ==
  \E i \in DOMAIN rt.parents : attachToListener(gw, l, rt, rt.parents[i], w) = "Accepted"

(* EvaluateParent: the listeners it attaches to, and a reason when none.    *)
EvaluateParent(gw, rt, pr, w) ==
  LET outcome == [i \in DOMAIN gw.listeners |-> attachToListener(gw, gw.listeners[i], rt, pr, w)]
      taken   == {i \in DOMAIN outcome : outcome[i] = "Accepted"}
  IN  [listeners |-> {gw.listeners[i].name : i \in taken},
       reason    |-> CASE taken # {} -> "Accepted"
                       [] taken = {} /\ "NotAllowedByListeners" \in ToSet(outcome)
                            -> "NotAllowedByListeners"
                       [] OTHER -> "NoMatchingParent"]

grantAllows(w, ns, rt, svc) ==
  \E g \in w.grants : /\ g.ns = ns
                      /\ [kind |-> rt.kind, ns |-> rt.ns] \in g.from
                      /\ None \in g.to \/ svc \in g.to

ServiceOf(rt, br) == <<Or(br.ns, rt.ns), br.name>>

(* CheckBackendRef, by its reason.                                          *)
CheckBackendRef(rt, br, w) ==
  LET ns == Or(br.ns, rt.ns)
  IN  CASE ~br.ours -> "InvalidKind"
        [] br.ours /\ ns # rt.ns /\ ~grantAllows(w, ns, rt, br.name) -> "RefNotPermitted"
        [] OTHER -> IF ServiceOf(rt, br) \in DOMAIN w.services
                      THEN "ResolvedRefs" ELSE "BackendNotFound"

SlicesOf(w, svc) == IF svc \in DOMAIN w.slices THEN w.slices[svc] ELSE <<>>

(* resolveBackendRef: the endpoints behind the Service port of that number, *)
(* the reference's weight divided evenly over them; nothing on an error.    *)
resolveBackendRef(rt, br, w) ==
  LET svc   == w.services[ServiceOf(rt, br)]
      named == SelectSeq(svc.ports, LAMBDA p : p.port = br.port)
      eps   == EndpointsForPort(SlicesOf(w, ServiceOf(rt, br)), Head(named).name)
      share == Or(br.weight, 1) \div Cardinality(eps.backends)
      each  == IF share < 1 THEN 1 ELSE share
  IN  IF br.port = None \/ named = <<>>
        THEN [backends |-> {}, draining |-> {}]
        ELSE [backends |-> {[b EXCEPT !.weight = each] : b \in eps.backends},
              draining |-> eps.draining]

(* A backend two references name keeps the weight of the first.             *)
Gather(out, res) ==
  [backends |-> out.backends \cup
                  {b \in res.backends : \A x \in out.backends : x.addr # b.addr \/ x.port # b.port},
   draining |-> out.draining \cup res.draining]

BackendsOf(gw, l, routes, w) ==
  LET attached == SelectSeq(routes, LAMBDA rt : attaches(gw, l, rt, w))
      resolved(rt) ==
        LET refs == SelectSeq(rt.refs, LAMBDA br : CheckBackendRef(rt, br, w) = "ResolvedRefs")
        IN  [i \in DOMAIN refs |-> resolveBackendRef(rt, refs[i], w)]
  IN  FoldLeft(Gather, [backends |-> {}, draining |-> {}],
               FlattenSeq([i \in DOMAIN attached |-> resolved(attached[i])]))

ListenerVip(gw, addr, l, routes, w) ==
  LET got == BackendsOf(gw, l, routes, w)
      bs  == SameFamily(got.backends, addr)
  IN  IF listenerProtocol(l.proto) /\ bs # {}
        THEN <<[key |-> <<addr, l.port, l.proto>>, backends |-> bs,
                draining |-> SameFamily(got.draining, addr),
                sticky |-> FALSE, probe |-> None, rate |-> None, peers |-> {}]>>
        ELSE <<>>

(* attachedRoutes: the routes of any namespace with a parentRef naming gw.  *)
attachedRoutes(w, gw) ==
  SelectSeq(w.routes, LAMBDA rt :
    \E i \in DOMAIN rt.parents : namesGateway(rt, rt.parents[i], gw))

buildGatewayVIPs(gw, w) ==
  LET addrs  == gatewayIPs(gw)
      routes == attachedRoutes(w, gw)
  IN  FlattenSeq([i \in DOMAIN addrs |->
        FlattenSeq([j \in DOMAIN gw.listeners |->
          ListenerVip(gw, addrs[i], gw.listeners[j], routes, w)])])

(* managed, with IsManagedClass: the class names Rivora's controller.       *)
managedGateway(w, gw) == gw.class \in w.classes

routeReferencesService(rt, svc) ==
  \E i \in DOMAIN rt.refs : ServiceOf(rt, rt.refs[i]) = svc
=============================================================================
