---------------------------- MODULE ServiceVips -----------------------------
(***************************************************************************)
(* What the Service reconciler wants programmed for one Service             *)
(* (internal/controller/build.go and policy.go), as operators.              *)
(*                                                                          *)
(*   address   [fam, n]                                                     *)
(*   Service   [lb, class, ingress, ports, local, sticky]; ports is a       *)
(*             sequence of [name, port, proto]                              *)
(*   slice     [ports, endpoints]; ports a sequence of [name, port], an     *)
(*             endpoint [addrs, ready, serving, node]                       *)
(*   policy    [name, created, target, kind, probe, rate, peers, weights]   *)
(*   VIP       [key, backends, draining, sticky, probe, rate, peers], the   *)
(*             key being <<address, port, protocol>>                        *)
(* None stands for a nil pointer, an empty string or text that is no        *)
(* address.  A probe or peer list carries the outcome of its own parser     *)
(* (ok).  Communities travel with the peers and are not told apart.         *)
(***************************************************************************)
EXTENDS Integers, Sequences, FiniteSets, SequencesExt

CONSTANTS None,       \* nil
          MaxWeight   \* dataplane.MaxBackendWeight

Distinct(s) ==
  FoldLeft(LAMBDA out, x : IF x \in ToSet(out) THEN out ELSE Append(out, x), <<>>, s)

ingressIPs(svc) ==
  IF svc.lb THEN Distinct(SelectSeq(svc.ingress, LAMBDA ip : ip # None)) ELSE <<>>

Supported(proto) == proto \in {"TCP", "UDP", ""}

protocolFor(proto) == IF proto = "" THEN "TCP" ELSE proto

Named(ports, name) == SelectSeq(ports, LAMBDA p : p.port # None /\ p.name = name)

HasPort(ports, name) == Named(ports, name) # <<>>

PortForName(ports, name) == Head(Named(ports, name)).port

endpointServing(ep) == ep.serving \in {None, TRUE}

(* pickPolicy: the oldest, then the lowest name.                            *)
pickPolicy(policies) ==
  CHOOSE p \in policies :
    \A q \in policies : \/ p.created < q.created
                        \/ p.created = q.created /\ p.name <= q.name

(* compilePolicy: None for a policy with any field that does not validate.  *)
compilePolicy(p) ==
  IF /\ p.kind \in {"", "Service"}
     /\ p.probe.ok /\ p.peers.ok
     /\ p.rate # None => p.rate.pps > 0 /\ p.rate.burst > 0
     /\ p.weights # None =>
          /\ p.weights.default <= MaxWeight
          /\ \A n \in DOMAIN p.weights.nodes : p.weights.nodes[n] \in 1 .. MaxWeight
    THEN [probe |-> p.probe.spec, rate |-> p.rate, peers |-> p.peers.list,
          weights |-> p.weights]
    ELSE None

policyFor(policies, name) ==
  LET targeting == {p \in policies : p.target = name}
  IN  IF targeting = {} THEN None ELSE compilePolicy(pickPolicy(targeting))

weightFor(sp, ep) ==
  IF sp = None \/ sp.weights = None
    THEN 0
    ELSE IF ep.node \in DOMAIN sp.weights.nodes
           THEN sp.weights.nodes[ep.node]
           ELSE sp.weights.default

probeSpec(sp)    == IF sp = None THEN None ELSE sp.probe

vipRateLimit(sp) == IF sp = None THEN None ELSE sp.rate

bgpPeerList(sp)  == IF sp = None THEN {} ELSE sp.peers

(* endpointsForPort: every address of every serving endpoint (on the node,  *)
(* when one is given), in slice order; of several entries for one backend   *)
(* the first decides its weight and whether it is draining.                 *)
Candidates(slice, portName, node, sp) ==
  LET kept == SelectSeq(slice.endpoints, LAMBDA ep :
                /\ endpointServing(ep)
                /\ node # None => ep.node = node)
      of(ep) == [i \in DOMAIN ep.addrs |->
                   [addr   |-> ep.addrs[i],
                    port   |-> PortForName(slice.ports, portName),
                    weight |-> weightFor(sp, ep),
                    ready  |-> ep.ready = TRUE]]
  IN  FlattenSeq([j \in DOMAIN kept |-> of(kept[j])])

Admit(out, c) ==
  IF c.addr = None \/ \E b \in out.backends : b.addr = c.addr /\ b.port = c.port
    THEN out
    ELSE [backends |-> out.backends \cup {[addr |-> c.addr, port |-> c.port, weight |-> c.weight]},
          draining |-> IF c.ready THEN out.draining
                       ELSE out.draining \cup {[addr |-> c.addr, port |-> c.port]}]

endpointsForPort(slices, portName, node, sp) ==
  LET matching == SelectSeq(slices, LAMBDA s : HasPort(s.ports, portName))
  IN  FoldLeft(Admit, [backends |-> {}, draining |-> {}],
               FlattenSeq([i \in DOMAIN matching |-> Candidates(matching[i], portName, node, sp)]))

EndpointsForPort(slices, portName) == endpointsForPort(slices, portName, None, None)

SameFamily(bs, vip) == {b \in bs : b.addr.fam = vip.fam}

affinityFor(svc) == svc.sticky

(* The VIP of one ingress address and port, or nothing: an unsupported      *)
(* protocol or no backend of the address's family.                          *)
VipOf(svc, addr, p, slices, localNode, sp) ==
  LET only == IF svc.local THEN localNode ELSE None
      eps  == endpointsForPort(slices, p.name, only, sp)
      bs   == SameFamily(eps.backends, addr)
  IN  IF Supported(p.proto) /\ bs # {}
        THEN <<[key      |-> <<addr, p.port, protocolFor(p.proto)>>,
                backends |-> bs,
                draining |-> SameFamily(eps.draining, addr),
                sticky   |-> affinityFor(svc),
                probe    |-> probeSpec(sp),
                rate     |-> vipRateLimit(sp),
                peers    |-> bgpPeerList(sp)]>>
        ELSE <<>>

buildDesiredVIPs(svc, slices, localNode, sp) ==
  LET addrs == ingressIPs(svc)
  IN  FlattenSeq([i \in DOMAIN addrs |->
        FlattenSeq([j \in DOMAIN svc.ports |->
          VipOf(svc, addrs[i], svc.ports[j], slices, localNode, sp)])])

(* managed: a LoadBalancer Service of this node's class.                    *)
managedService(svc, lbClass) == svc.lb /\ svc.class = lbClass
=============================================================================
