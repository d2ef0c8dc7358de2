----------------------------- MODULE BgpSpeaker -----------------------------
(***************************************************************************)
(* The BGP speaker (internal/bgp: bgp.go, peerselect.go) and the BGPPeer    *)
(* controller that decides its sessions (internal/bgppeers).                *)
(*                                                                          *)
(* A resync pass reads the VIP statuses, edits the per-peer deny sets,      *)
(* withdraws, advertises; sessions change between those steps, because      *)
(* SetPeers takes peerMu and the pass holds it only for the deny sets.      *)
(*                                                                          *)
(* gobgp is external: a path added to its table is exported once to each    *)
(* session whose deny set does not hold the prefix; a session that comes up *)
(* is sent the whole table through its deny set; a deletion reaches every   *)
(* session; editing a deny set re-exports nothing.  rib is what each peer   *)
(* has received.                                                            *)
(*                                                                          *)
(* A route is its prefix and the set of peers it is limited to, {} for all  *)
(* (route.peers = nil); communities are part of the same signature and are  *)
(* not told apart.  A host route's prefix is the VIP's address.             *)
(***************************************************************************)
EXTENDS Integers, FiniteSets, Functions

CONSTANTS None,
          Aggregates,    \* [prefix, covers, suppress, peers]
          StaticPeers,   \* [address -> settings], the peers of the config file
          IPv6NextHop,   \* whether ipv6NextHop is set
          PeerVariants,  \* the collections of BGPPeer objects users make
          LabelVariants  \* the labels this node may be given

VARIABLES resyncNow,   \* the channel of AnnounceNow
          pass,        \* the resync pass under way
          advertised,  \* prefix -> peers it is limited to, as last advertised
          peers,       \* running sessions: address -> settings
          restrict,    \* prefix -> allowed peers, of the limited routes
          denied,      \* per session, the deny list last applied without error
          denySet,     \* per session, the deny set in gobgp
          rib,         \* per session, the routes the peer has
          objects,     \* BGPPeer objects
          label,       \* this node's label
          trigger,     \* the channel of poke
          uneven,      \* sessions one of whose deny edits failed
          clung,       \* advertised prefixes whose withdrawal failed
          faults       \* calls that may still fail, and sessions that may flap

passVars    == <<resyncNow, pass, advertised, clung>>
sessionVars == <<peers, denied, denySet, rib, uneven>>
peerVars    == <<objects, label, trigger>>
bgpVars     == <<passVars, sessionVars, peerVars, restrict, faults>>

Merge(f, g) == [x \in DOMAIN f \cup DOMAIN g |-> IF x \in DOMAIN g THEN g[x] ELSE f[x]]

NoPass == [phase |-> "idle", want |-> <<>>, denyOK |-> TRUE]

(* At most one of S fails, if a fault is left.                              *)
Failing(S) == {{}} \cup (IF faults > 0 THEN {{x} : x \in S} ELSE {})

Spend(bad) == faults' = faults - Cardinality(bad)
-----------------------------------------------------------------------------
(* statuses: a set of [addr, healthy, peers], one per VIP.                  *)
Scope(lists) == IF {} \in lists THEN {} ELSE UNION lists

desiredRoutes(statuses) ==
  LET up     == {st \in statuses : st.healthy}
      addrs  == {st.addr : st \in up}
      live   == {g \in Aggregates : g.covers \cap addrs # {}}
      hidden == UNION {g.covers : g \in {h \in live : h.suppress}}
      hosts  == addrs \ hidden
  IN  [p \in hosts \cup {g.prefix : g \in live} |->
         IF p \in hosts THEN Scope({st.peers : st \in {s \in up : s.addr = p}})
                        ELSE (CHOOSE g \in live : g.prefix = p).peers]

denyList(a, limits) == {p \in DOMAIN limits : a \notin limits[p]}

Limited(routes) == Restrict(routes, {p \in DOMAIN routes : routes[p] # {}})

(* What gobgp sends a session that comes up with deny set D.                *)
Exported(D, table) ==
  {[prefix |-> p, peers |-> table[p]] : p \in DOMAIN table \ D}

BgpInit ==
  /\ resyncNow = FALSE /\ pass = NoPass /\ advertised = <<>>
  /\ peers = StaticPeers /\ restrict = <<>>
  /\ denied = [a \in DOMAIN StaticPeers |-> {}]
  /\ denySet = [a \in DOMAIN StaticPeers |-> {}]
  /\ rib = [a \in DOMAIN StaticPeers |-> {}]
  /\ trigger = TRUE /\ uneven = {} /\ clung = {}

(* The process starts again: no table, no sessions but the configured ones. *)
Restarted ==
  /\ resyncNow' = FALSE /\ pass' = NoPass /\ advertised' = <<>>
  /\ peers' = StaticPeers /\ restrict' = <<>>
  /\ denied' = [a \in DOMAIN StaticPeers |-> {}]
  /\ denySet' = [a \in DOMAIN StaticPeers |-> {}]
  /\ rib' = [a \in DOMAIN StaticPeers |-> {}]
  /\ trigger' = TRUE /\ uneven' = {} /\ clung' = {}
  /\ UNCHANGED <<objects, label, faults>>
-----------------------------------------------------------------------------
(* resync starts, on the ticker or on AnnounceNow; want is desiredRoutes of *)
(* the statuses it reads.                                                   *)
Begin(want) ==
  /\ pass = NoPass
  /\ pass' = [phase |-> "limits", want |-> want, denyOK |-> TRUE]
  /\ UNCHANGED <<advertised, clung, sessionVars, peerVars, restrict, faults>>

Tick(want) == Begin(want) /\ UNCHANGED resyncNow

Poked(want) == resyncNow /\ resyncNow' = FALSE /\ Begin(want)

(* syncDenySets: the limits are recorded, then each session's set is edited *)
(* from the list last applied; an edit that fails may have added its        *)
(* prefixes before it did.                                                  *)
Edited(a, list) == (denySet[a] \cup list) \ (denied[a] \ list)

syncDenySets ==
  /\ pass.phase = "limits"
  /\ restrict' = Limited(pass.want)
  /\ \E bad \in Failing({a \in DOMAIN peers : denied[a] # denyList(a, restrict')}) :
       LET list == [a \in DOMAIN peers |-> denyList(a, restrict')]
       IN  /\ denied' = [a \in DOMAIN peers |-> IF a \in bad THEN denied[a] ELSE list[a]]
           /\ \E kept \in BOOLEAN :
                denySet' = [a \in DOMAIN peers |->
                              CASE a \in bad /\ kept -> denySet[a]
                                [] a \in bad /\ ~kept -> denySet[a] \cup list[a]
                                [] denied[a] = list[a] -> denySet[a]
                                [] OTHER -> Edited(a, list[a])]
           /\ pass' = [pass EXCEPT !.phase = "withdraw", !.denyOK = bad = {}]
           /\ uneven' = uneven \cup bad
           /\ Spend(bad)
  /\ UNCHANGED <<resyncNow, advertised, clung, peers, rib, peerVars>>

WithdrawAll(stale) ==
  /\ pass.phase = "withdraw"
  /\ \E bad \in Failing(stale) :
       /\ advertised' = Restrict(advertised, DOMAIN advertised \ (stale \ bad))
       /\ rib' = [a \in DOMAIN rib |-> {r \in rib[a] : r.prefix \notin stale \ bad}]
       /\ clung' = (clung \ stale) \cup bad
       /\ Spend(bad)
  /\ pass' = [pass EXCEPT !.phase = "advertise"]
  /\ UNCHANGED <<resyncNow, peers, denied, denySet, uneven, peerVars, restrict>>

\* A route that is still wanted is left as it was advertised.
WithdrawGone == WithdrawAll(DOMAIN advertised \ DOMAIN pass.want)

(* Withdraw what is no longer wanted or is wanted with other attributes.    *)
Withdraw ==
  WithdrawAll({p \in DOMAIN advertised :
                 p \notin DOMAIN pass.want \/ pass.want[p] # advertised[p]})

AddPaths(new) ==
  /\ pass.phase = "advertise"
  /\ \E bad \in Failing(new) :
       LET added == Restrict(pass.want, new \ bad)
       IN  /\ advertised' = Merge(advertised, added)
           /\ rib' = [a \in DOMAIN rib |-> rib[a] \cup Exported(denySet[a], added)]
           /\ Spend(bad)
  /\ pass' = NoPass
  /\ UNCHANGED <<resyncNow, clung, peers, denied, denySet, uneven, peerVars, restrict>>

HasNextHop(p) == p.fam = 6 => IPv6NextHop

(* Advertise what is missing; a limited route only if every deny set is up  *)
(* to date, an IPv6 route only with an IPv6 next hop.                       *)
Advertise ==
  AddPaths({p \in DOMAIN pass.want \ DOMAIN advertised :
              HasNextHop(p) /\ (pass.want[p] # {} => pass.denyOK)})
-----------------------------------------------------------------------------
(* Resolve: the oldest usable object of each address the config file does   *)
(* not name.                                                                *)
Usable(o) == o.selector \in {None, label} /\ o.valid

Resolve(objs) ==
  LET usable == {o \in objs : Usable(o) /\ o.addr \notin DOMAIN StaticPeers}
      oldest(a) == CHOOSE o \in usable : o.addr = a /\ \A q \in usable :
                     q.addr = a => \/ o.created < q.created
                                   \/ o.created = q.created /\ o.name <= q.name
  IN  [a \in {o.addr : o \in usable} |-> oldest(a).settings]

WantedPeers == Merge(Resolve(objects), StaticPeers)

(* SetPeers: stop what is not wanted or has other settings, start what is   *)
(* not running, a session's deny set (createPeerLimits) before the session. *)
SetPeersTo(want, stuck, failed, limits) ==
  LET stops  == {a \in DOMAIN peers : a \notin DOMAIN want \/ want[a] # peers[a]} \ stuck
      keep   == DOMAIN peers \ stops
      starts == (DOMAIN want \ keep) \ failed
      fresh  == [a \in starts |-> denyList(a, limits)]
  IN  /\ peers' = Merge(Restrict(peers, keep), Restrict(want, starts))
      /\ denied' = Merge(Restrict(denied, keep), fresh)
      /\ denySet' = Merge(Restrict(denySet, keep), fresh)
      /\ rib' = Merge(Restrict(rib, keep), [a \in starts |-> Exported(fresh[a], advertised)])
      /\ uneven' = uneven \cap keep


SetPeers(want, stuck, failed) == SetPeersTo(want, stuck, failed, restrict)

(* The controller's sync: one DeletePeer or AddPeer may fail; if the node's *)
(* labels cannot be read nothing is applied.                                *)
sync ==
  /\ trigger
  /\ trigger' = FALSE
  /\ \/ \E stuck, failed \in Failing(DOMAIN peers \cup DOMAIN WantedPeers) :
          /\ stuck \cap failed = {} /\ Cardinality(stuck \cup failed) <= 1
          /\ SetPeers(WantedPeers, stuck, failed)
          /\ Spend(stuck \cup failed)
     \/ faults > 0 /\ Spend({label}) /\ UNCHANGED sessionVars
  /\ UNCHANGED <<passVars, restrict, objects, label>>

(* The BGPPeer informer's one-minute resync.                                *)
ResyncPeers ==
  /\ ~trigger /\ trigger' = TRUE
  /\ UNCHANGED <<passVars, sessionVars, objects, label, restrict, faults>>

EditPeers ==
  /\ \E objs \in PeerVariants : objs # objects /\ objects' = objs
  /\ trigger' = TRUE
  /\ UNCHANGED <<passVars, sessionVars, label, restrict, faults>>

Relabel ==
  /\ \E l \in LabelVariants : l # label /\ label' = l
  /\ UNCHANGED <<passVars, sessionVars, objects, trigger, restrict, faults>>

(* A session drops and comes back.                                          *)
Flap(a) ==
  /\ faults > 0 /\ faults' = faults - 1
  /\ rib' = [rib EXCEPT ![a] = Exported(denySet[a], advertised)]
  /\ UNCHANGED <<passVars, peers, denied, denySet, uneven, peerVars, restrict>>

resync(want) ==
  Tick(want) \/ Poked(want) \/ syncDenySets \/ Withdraw \/ Advertise
-----------------------------------------------------------------------------
BgpTypeOK ==
  /\ {resyncNow, trigger} \subseteq BOOLEAN
  /\ pass.phase \in {"idle", "limits", "withdraw", "advertise"}
  /\ DOMAIN denied = DOMAIN peers /\ DOMAIN denySet = DOMAIN peers
  /\ DOMAIN rib = DOMAIN peers /\ uneven \subseteq DOMAIN peers


Announced(want) ==
  LET able == {p \in DOMAIN want : HasNextHop(p)}
  IN  /\ peers = WantedPeers
      /\ advertised = Restrict(want, able)
      /\ \A a \in DOMAIN peers \ uneven :
           {r \in rib[a] : r.prefix \notin clung} =
             {[prefix |-> p, peers |-> want[p]] :
                p \in {q \in able \ clung : want[q] = {} \/ a \in want[q]}}
=============================================================================
