------------------------------- MODULE Rivorad ------------------------------
(***************************************************************************)
(* One rivorad in Kubernetes mode (cmd/rivorad/main.go): the reconcilers    *)
(* program the dataplane, health reports come in from the checker, and the  *)
(* BGP speaker and the L2 speaker announce what is programmed.  Beside it,  *)
(* rivora-controller reports on the Gateways and routes.                    *)
(*                                                                          *)
(* OnChange and the health callback call AnnounceNow, so Reconcilers'       *)
(* changed is the speaker's resyncNow.  Both announcers read                *)
(* plane.Statuses().  What the other nodes own for L2 is taken to be what   *)
(* this one owns.                                                           *)
(***************************************************************************)
EXTENDS Reconcilers

CONSTANTS Aggregates, StaticPeers, IPv6NextHop, PeerVariants, LabelVariants,
          Nodes, Nobody, LeaseDuration, RenewDeadline, RetryPeriod, ReadTimeout,
          Self    \* this node

(* An unreachable leader gives up, and its last read ends, before its Lease *)
(* runs out.                                                                *)
ASSUME LeaseAssumption ==
  /\ LeaseDuration \in Nat /\ RenewDeadline \in Nat /\ RetryPeriod \in Nat /\ ReadTimeout \in Nat
  /\ RetryPeriod < RenewDeadline /\ RenewDeadline + ReadTimeout < LeaseDuration

VARIABLES conf,   \* [bgp, l2, status]: whether BGP is configured, the L2 speaker is on,
                  \* and rivora-controller runs
          down,   \* backends whose probe failed
          routes, \* desiredRoutes of the statuses now
          pass, advertised, peers, restrict, denied, denySet, rib, objects, label, trigger,
          uneven, clung, faults,
          lease, mode, clock, reach, freed, arp, trouble,
          report, shown, cached, writeQueue, write, mishaps

Bgp == INSTANCE BgpSpeaker WITH resyncNow <- changed

L2  == INSTANCE L2Speaker

Status == INSTANCE GatewayStatus

bgpOnly == <<pass, advertised, peers, restrict, denied, denySet, rib, objects, label, trigger,
             uneven, clung, faults>>
l2Vars  == <<lease, mode, clock, reach, freed, arp, trouble>>
statusVars == <<report, shown, cached, writeQueue, write, mishaps>>
allVars == <<vars, conf, down, routes, bgpOnly, l2Vars, statusVars>>

Backend(b) == [addr |-> b.addr, port |-> b.port]

(* Statuses, as the announcers use it: healthy is HealthHealthy of any      *)
(* backend, so neither failed nor draining.                                 *)
Statuses ==
  {[addr    |-> k[1],
    healthy |-> \E b \in plane[k].backends : Backend(b) \notin down \cup drained,
    peers   |-> plane[k].peers] : k \in DOMAIN plane}

natVIPAddresses == {k[1] : k \in DOMAIN plane}

RivoradInit ==
  /\ Init
  /\ \E s \in Starts :
       /\ world = s.world /\ budget = s.budget /\ plane = Adoption(s.plane)
       /\ conf = s.conf /\ faults = s.faults /\ trouble = s.trouble
       /\ objects = s.objects /\ label = s.label
       /\ report = s.report /\ mishaps = s.mishaps
  /\ down = {} /\ routes = Bgp!desiredRoutes(Statuses)
  /\ Bgp!BgpInit /\ L2!L2Init /\ Status!StatusInit

(* A reconciler's step, or an edit, which the status writer hears of too; a *)
(* backend no VIP has keeps no health.                                      *)
Reconcile ==
  /\ Users \/ Resync \/ Work \/ GiveUp \/ \E o \in Object : Fail(o)
  /\ down' = down \cap BackendsIn(plane')
  /\ routes' = Bgp!desiredRoutes(Statuses')
  /\ IF conf.status /\ world' # world THEN Status!WorldChanges ELSE UNCHANGED statusVars
  /\ UNCHANGED <<conf, bgpOnly, l2Vars>>

(* The checker reports a transition: SetBackendHealth, then AnnounceNow.    *)
Health ==
  /\ budget.health > 0
  /\ budget' = [budget EXCEPT !.health = @ - 1]
  /\ \E b \in BackendsIn(plane) : down' = IF b \in down THEN down \ {b} ELSE down \cup {b}
  /\ changed' = TRUE
  /\ UNCHANGED <<kube, started, job, installed, plane, unclaimed, drained, tracker, prune, history,
                 conf, bgpOnly, l2Vars, statusVars>>
  /\ routes' = Bgp!desiredRoutes(Statuses')

nonBgp == <<kube, started, job, installed, plane, unclaimed, drained, tracker, prune, history,
            conf, down, routes, l2Vars, statusVars>>

(* The BGP speaker and its sessions.                                        *)
Announce ==
  /\ conf.bgp
  /\ \/ Bgp!resync(routes)
     \/ Bgp!sync
     \/ Bgp!ResyncPeers
     \/ \E a \in DOMAIN peers : Bgp!Flap(a)
  /\ UNCHANGED <<nonBgp, budget>>

(* Somebody edits the BGPPeers or this node's labels.                       *)
EditSessions ==
  /\ conf.bgp /\ budget.peers > 0
  /\ budget' = [budget EXCEPT !.peers = @ - 1]
  /\ Bgp!EditPeers \/ Bgp!Relabel
  /\ UNCHANGED nonBgp

Speak ==
  /\ conf.l2
  /\ L2!L2Next(natVIPAddresses)
  /\ UNCHANGED <<vars, conf, down, routes, bgpOnly, statusVars>>

(* The status writer of rivora-controller.                                  *)
Report ==
  /\ conf.status
  /\ Status!StatusNext
  /\ UNCHANGED <<vars, conf, down, routes, bgpOnly, l2Vars>>

(* rivorad restarts: the pinned maps survive, the sessions and the speaker  *)
(* start over.                                                              *)
Reborn ==
  /\ Restart
  /\ down' = {} /\ routes' = Bgp!desiredRoutes(Statuses')
  /\ Bgp!Restarted
  /\ L2!Dies(Self)
  /\ UNCHANGED <<conf, trouble, statusVars>>

RivoradNext == Reconcile \/ Health \/ Announce \/ EditSessions \/ Speak \/ Report \/ Reborn

(* The reconcilers' fairness, and for each loop that a goroutine runs for   *)
(* as long as the process lives: a resync of the BGP speaker goes on to its *)
(* end and its ticker starts the next (pass); a trigger for the BGPPeers is *)
(* consumed by sync and set again by the one-minute resync (trigger); the   *)
(* clock, the election and the speaker's ticker; the status writer's        *)
(* workers, and its informers' resync.                                      *)
RivoradSpec ==
  /\ RivoradInit /\ [][RivoradNext]_allVars
  /\ Fairness
  /\ WF_pass(conf.bgp /\ Bgp!resync(routes))
  /\ WF_trigger(conf.bgp /\ trigger' = ~trigger)
  /\ WF_l2Vars(conf.l2 /\ L2!Time)
  /\ WF_l2Vars(conf.l2 /\ \E n \in Nodes : L2!announceAll(n, natVIPAddresses))
  /\ WF_statusVars(conf.status /\ Status!WriteStatus)
  /\ WF_statusVars(conf.status /\ Status!ResyncStatus)
-----------------------------------------------------------------------------
(* Types of the whole node.                                                 *)
RivoradTypeOK ==
  /\ TypeOK /\ Bgp!BgpTypeOK /\ L2!L2TypeOK
  /\ down \subseteq BackendsIn(plane)
  /\ conf.status => Status!StatusTypeOK

(* The node's state is well formed, and every VIP in the dataplane has       *)
(* somebody who will remove it (removeAllFor's installed, the prune), while *)
(* passes fail and rivorad restarts; Reconcilers says who.                  *)
VipsAccounted == RivoradTypeOK /\ Accounted



(* With BGP on, the sessions become the configured ones and every peer ends *)
(* up with exactly the routes of the addresses that have a healthy VIP and  *)
(* that it may have, whatever health, endpoints, policies, peers, failed    *)
(* calls and the order of it all were (a session one of whose deny edits    *)
(* failed may miss routes until it restarts).                               *)
Announces == <>[](conf.bgp => Bgp!Announced(routes))

(* With the speaker on, the LAN ends up sending every VIP to the leader     *)
(* (see L2Speaker's Reachable).                                             *)
LanFollows == <>[](conf.l2 => L2!Reachable(natVIPAddresses))

(* "This writer only ever replaces its own" (status.go): the entries of     *)
(* other controllers and for other Gateways survive every pass of the       *)
(* status writer, even one that read the route before they were written.    *)
ForeignKept ==
  [][\A r \in DOMAIN report \cap DOMAIN report' :
       mishaps'.others = mishaps.others =>
         Status!Foreign(report'[r]) = Status!Foreign(report[r])]_statusVars

(* The VIP of a listener at an address.                                     *)
VipAt(addr, l) == <<addr, l.port, l.proto>>

(* What the status says of a Gateway is what this node has programmed: a    *)
(* VIP is there only for a listener reported to have routes, and a route    *)
(* reported accepted, with its references resolved, has its backends there. *)
Reflected(g) ==
  LET gw == world.gateways[g]
      mine(k) == k \notin torn \cup unclaimed /\ ~Contested([r |-> "gw", key |-> g], k)
  IN  \A addr \in ToSet(gatewayIPs(gw)) :
        /\ \A l \in ToSet(gw.listeners) :
             VipAt(addr, l) \in DOMAIN plane /\ mine(VipAt(addr, l)) =>
               \E s \in shown[g] : s.name = l.name /\ s.attached > 0
        /\ \A rt \in ToSet(attachedRoutes(world, gw)) : \A e \in report[Status!RouteKey(rt)] :
             /\ Status!Own(rt, e, gw) /\ e.accepted = "Accepted" /\ e.resolved = "ResolvedRefs"
             /\ \A l \in ToSet(gw.listeners) : mine(VipAt(addr, l))
             => \A br \in ToSet(rt.refs) :
                  {Backend(b) : b \in SameFamily(resolveBackendRef(rt, br, world).backends, addr)} \subseteq
                    BackendsIn(Restrict(plane, {VipAt(addr, l) : l \in ToSet(gw.listeners)} \cap DOMAIN plane))

(* The status of every managed Gateway and of its routes ends up saying     *)
(* what the objects now make true and what rivorad has programmed ("what it   *)
(* reports is what rivorad programs", status.go), whatever edits, refused    *)
(* writes, failing calls and handovers there were.                          *)
StatusTrue ==
  <>[](conf.status => \A g \in DOMAIN world.gateways :
         managedGateway(world, world.gateways[g]) => Status!Truthful(g) /\ Reflected(g))
=============================================================================
