------------------------------ MODULE MCRivorad -----------------------------
(* A Service and a Gateway that routes to it; two VIP addresses, three      *)
(* backends, two BGP peers, two nodes.                                      *)
EXTENDS Rivorad, TLC

A1 == [fam |-> 4, n |-> 1]
A2 == [fam |-> 4, n |-> 2]
A6 == [fam |-> 6, n |-> 3]
B1 == [fam |-> 4, n |-> 11]
B2 == [fam |-> 4, n |-> 12]
B6 == [fam |-> 6, n |-> 13]
Pool == [fam |-> 4, n |-> 0]

Web  == <<"app", "web">>
Edge == <<"infra", "edge">>

Svc(class, ip, port) ==
  [lb |-> TRUE, class |-> class, ingress |-> <<ip, None, ip>>, local |-> FALSE, sticky |-> FALSE,
   ports |-> <<[name |-> "http", port |-> port, proto |-> ""]>>]
Ep(addr, ready) == [addrs |-> <<addr>>, ready |-> ready, serving |-> TRUE, node |-> "n1"]
Slice(eps) == [ports |-> <<[name |-> "http", port |-> 8080]>>, endpoints |-> eps]
Gw(ips) ==
  [ns |-> Edge[1], name |-> Edge[2], class |-> "rivora", addrs |-> ips,
   listeners |-> <<[name |-> "l", proto |-> "TCP", port |-> 80, kinds |-> {}, from |-> None,
                    selector |-> None]>>]
Parent(name) == [ns |-> None, name |-> name, section |-> None, ours |-> TRUE]
Route(weight) ==
  [kind |-> "TCPRoute", ns |-> "infra", name |-> "r",
   parents |-> <<Parent("edge")>>,
   refs |-> <<[ns |-> "app", name |-> "web", port |-> 80, weight |-> weight, ours |-> TRUE]>>]
Grant == [ns |-> "app", from |-> {[kind |-> "TCPRoute", ns |-> "infra"]}, to |-> {None}]
Policy(created, list, ok) ==
  [name |-> created, created |-> created, target |-> Web, kind |-> "", rate |-> None,
   probe |-> [ok |-> ok, spec |-> "http"], peers |-> [ok |-> TRUE, list |-> list],
   weights |-> [default |-> 2, nodes |-> <<>>]]
PX == Policy(1, {"x"}, TRUE)

World ==
  [services |-> Web :> Svc("rivora", A1, 80),
   slices   |-> Web :> <<Slice(<<Ep(B1, TRUE), Ep(B6, TRUE)>>)>>,
   gateways |-> Edge :> Gw(<<A2>>), routes |-> <<Route(None)>>, classes |-> {"rivora"},
   grants |-> {Grant}, labels |-> <<>>, policies |-> {}]
Moved == [World EXCEPT !.services = Web :> Svc("rivora", A1, 81)]
Alone == [World EXCEPT !.gateways = <<>>, !.routes = <<>>]
Limited == [Alone EXCEPT !.policies = {PX}]

MCServices ==
  Web :> {None, Svc("rivora", A1, 80), Svc("rivora", A2, 80), Svc("other", A1, 80),
          Svc("rivora", A1, 81), Svc("rivora", A6, 80)}
MCSlices ==
  Web :> {<<Slice(<<Ep(B1, TRUE)>>)>>, <<Slice(<<Ep(B1, FALSE), Ep(B2, TRUE)>>)>>}
MCGateways == Edge :> {None, Gw(<<A1>>), Gw(<<A2>>)}
MCRoutes   == {<<>>, <<Route(4)>>, <<[Route(4) EXCEPT !.parents = <<Parent("edge2")>>]>>}
MCPolicies == {{}, {PX}, {PX, Policy(0, {}, FALSE)}}
MCShared ==
  {[classes |-> {}, grants |-> {Grant}, labels |-> <<>>],
   [classes |-> {"rivora"}, grants |-> {}, labels |-> <<>>]}

MCStatic == "x" :> "a"
Obj(created, settings, selector) ==
  [name |-> created, created |-> created, addr |-> "y", settings |-> settings,
   selector |-> selector, valid |-> TRUE]
MCPeers == {{Obj(1, "a", None)}, {Obj(1, "a", "rack1"), Obj(2, "b", None)}}

Old(k) ==
  k :> [backends |-> {[addr |-> B1, port |-> 8080, weight |-> 0]}, sticky |-> FALSE,
        probe |-> None, rate |-> None, peers |-> {}]
K1 == <<A1, 80, "TCP">>
K2 == <<A2, 80, "TCP">>
KX == <<A1, 443, "TCP">>

None0 == [svc |-> 0, slices |-> 0, gw |-> 0, routes |-> 0, policies |-> 0, shared |-> 0,
          faults |-> 0, restarts |-> 0, health |-> 0, peers |-> 0]
Quiet0 == [outages |-> 0, reboots |-> 0]
Calm == [others |-> 0, faults |-> 0, handovers |-> 0]
Plain(w, p, b) ==
  [world |-> w, plane |-> p, budget |-> b, faults |-> 0,
   conf |-> [bgp |-> FALSE, l2 |-> FALSE, status |-> FALSE], trouble |-> Quiet0, objects |-> {},
   label |-> "rack1", report |-> <<>>, mishaps |-> Calm]
WithBgp(w, b, f) == [Plain(w, <<>>, b) EXCEPT !.conf.bgp = TRUE, !.faults = f,
                                              !.objects = {Obj(1, "a", None)}]
WithL2(t) == [Plain(Alone, Old(K1), None0) EXCEPT !.conf.l2 = TRUE, !.trouble = t]

\* A route that names a second Gateway, which is gone; another controller's entry
\* and an old one of this controller for that Gateway are in its status.
Both == [Route(None) EXCEPT !.parents = <<Parent("edge"), Parent("edge2")>>]
Entry(ctl) == [ctl |-> ctl, ref |-> Parent("edge2"), accepted |-> "Accepted", resolved |-> "ResolvedRefs"]
Shared == [World EXCEPT !.services = Web :> Svc("other", A1, 80), !.routes = <<Both>>]
Bare == [Shared EXCEPT !.slices = Web :> <<>>]
WithStatus(w, b, m) ==
  [Plain(w, <<>>, b) EXCEPT !.conf.status = TRUE, !.mishaps = m,
     !.report = <<"TCPRoute", "infra", "r">> :> {Entry("rivora"), Entry("other")}]

Edits(b) == {[b EXCEPT ![k] = 1] : k \in {"svc", "slices", "gw", "routes", "policies", "shared"}}

\* Each kind of edit with a failing call, and with a restart; pairs of edits.
ReconcileStarts ==
  {Plain(World, Old(K1) @@ Old(KX), b) : b \in Edits([None0 EXCEPT !.faults = 1])}
  \cup {Plain(World, Old(K2) @@ Old(KX), b) : b \in Edits([None0 EXCEPT !.restarts = 1])}
  \cup {Plain(Moved, Old(K2) @@ Old(KX), [None0 EXCEPT !.svc = 1, !.restarts = 1]),
        Plain(World, <<>>, [None0 EXCEPT !.svc = 1, !.gw = 1]),
        Plain(World, Old(K1), [None0 EXCEPT !.slices = 1, !.policies = 1])}

BgpStarts ==
  {WithBgp(Limited, [None0 EXCEPT !.policies = 1], 1),
   WithBgp(Limited, [None0 EXCEPT !.peers = 1], 1),
   WithBgp(Limited, [None0 EXCEPT !.health = 1], 1),
   WithBgp(Alone, [None0 EXCEPT !.slices = 1], 0),
   WithBgp(Alone, [None0 EXCEPT !.svc = 1], 0),
   WithBgp(Limited, [None0 EXCEPT !.restarts = 1], 0)}

L2Starts == {WithL2([outages |-> 1, reboots |-> 0]), WithL2([outages |-> 0, reboots |-> 1])}

\* Edits while the Gateway's VIP is programmed, and with nothing to program.
StatusStarts ==
  {WithStatus(Shared, [None0 EXCEPT !.gw = 1], [Calm EXCEPT !.faults = 1]),
   WithStatus(Shared, [None0 EXCEPT !.routes = 1], Calm),
   WithStatus(Bare, [None0 EXCEPT !.routes = 1], [Calm EXCEPT !.others = 1]),
   WithStatus(Bare, [None0 EXCEPT !.shared = 1], [Calm EXCEPT !.handovers = 1]),
   WithStatus(Bare, [None0 EXCEPT !.svc = 1], Calm)}

MCAggregates == {[prefix |-> Pool, covers |-> {A2}, suppress |-> TRUE, peers |-> {"x"}]}

MCStarts == ReconcileStarts \cup BgpStarts \cup L2Starts \cup StatusStarts
=============================================================================
