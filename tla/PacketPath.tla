----------------------------- MODULE PacketPath -----------------------------
(***************************************************************************)
(* The BPF programs over the maps of Dataplane: bpf/xdp_ingress.c takes a  *)
(* client's packet to a backend, bpf/tc_nat.c gives a full-NAT reply its   *)
(* VIP back.  The programs run on every CPU while rivorad updates, crashes *)
(* and adopts, so a run of the XDP program is up to three steps, between   *)
(* which the maps may change: the match and the look at the affinity map,  *)
(* the pick of a slot, the forwarding.  (The TC program is one step.)      *)
(*                                                                         *)
(* What happens is given by a script: the reloads, probes and crashes of   *)
(* rivorad, the packets of clients and backends, ticks of the clock and    *)
(* evictions from the LRU maps, started in that order; how long each takes *)
(* is open.  IPv4 and IPv6 addresses differ, so one map stands for the two *)
(* of each kind.  The hashes are parameters; counters are left out.        *)
(***************************************************************************)
EXTENDS Dataplane, PortRange, Headers

LOCAL INSTANCE FiniteSetsExt

CONSTANTS
  Cpu,             \* the CPUs the programs run on
  Flow,            \* [client, cport, addr, port, proto]: a client's connections to VIP ports
  V6,              \* the addresses that are IPv6
  Key,             \* VIP -> [addr, proto, lo, hi, mode, sticky, limit]
  At,              \* backend -> [addr, port]
  Hash5(_),        \* rivora_hash5 of a flow
  HashSrc(_),      \* rivora_hash_src of a client
  NodeLimit,       \* the node-wide SYN limit, if any: a set of at most one [rate, burst]
  Sourced,         \* the families (v6 or not) that have a tunnel source
  Mtu,             \* the MTU of the path to the backends, and of a client's own link
  Scripts          \* what may happen

VARIABLES
  script,          \* what is still to happen
  cpu,             \* the packet each CPU is working on
  affinity,        \* connection_affinity_map: flow -> backend id
  natRev,          \* nat_reverse_map: [baddr, client, bport, cport, proto] -> [addr, port]
  frags,           \* frag_map: [client, addr, id, proto] -> [bid, sid]
  fragRevs,        \* frag_rev_map: [addr, client, id, proto] -> VIP address
  buckets,         \* rl_buckets_map, svc_rl_buckets_map: [cpu, scope, client] -> bucket
  clock,
  svcOf,           \* service id -> the VIP whose mode, affinity and flags its config has
  \* what clients and backends have seen
  served,          \* flow -> how its last packet reached a backend
  told,            \* flow -> how the last ICMP error about it reached a backend
  pieces,          \* flow -> where the fragments of its last datagram went
  heard,           \* flow -> the source of the last reply, if any
  pmtu,            \* flow -> [size, refusals]: its path MTU as the client knows it
  admitted,        \* [scope, client] -> the times of its SYNs that passed the limiter
  \* bookkeeping of the properties
  home,            \* flow -> the backend it is established with
  stale,           \* flows whose affinity entry no longer means what was written
  clash            \* flows whose reverse entry was evicted or taken by another flow

lru == <<affinity, natRev, frags, fragRevs, buckets>>
sights == <<served, told, pieces, heard, pmtu, admitted>>
notes == <<home, stale, clash>>
packetVars == <<script, cpu, affinity, natRev, frags, fragRevs, buckets, clock, svcOf,
                served, told, pieces, heard, pmtu, admitted, home, stale, clash>>
allVars == <<vars, packetVars>>

NoVip == -2
Node == -1
Off == [pc |-> "idle"]
Nowhere == [b |-> "nowhere", addr |-> "nowhere", port |-> 0, via |-> "none"]
None == "none"
RIVORA_MAGLEV_PROBES == 8

Default(f, k, d) == IF k \in DOMAIN f THEN f[k] ELSE d
Entry(f, k) == IF k \in DOMAIN f THEN {f[k]} ELSE {}
The(S) == CHOOSE x \in S : TRUE

PacketInit ==
  /\ Init
  /\ script \in Scripts
  /\ cpu = [c \in Cpu |-> Off]
  /\ affinity = Empty /\ natRev = Empty /\ frags = Empty /\ fragRevs = Empty /\ buckets = Empty
  /\ clock = 0 /\ svcOf = [s \in ServiceId |-> NoVip]
  /\ served = [f \in Flow |-> Nowhere] /\ told = [f \in Flow |-> Nowhere]
  /\ pieces = [f \in Flow |-> {}] /\ heard = [f \in Flow |-> {}]
  /\ pmtu = [f \in Flow |-> [size |-> Mtu, refusals |-> 0]] /\ admitted = Empty
  /\ home = [f \in Flow |-> None] /\ stale = {} /\ clash = {}

item == Head(script)
Due(what) == script # << >> /\ item.do = what /\ script' = Tail(script)

-----------------------------------------------------------------------------
(* Which service a packet belongs to. *)

BlocksOf == [v \in Vip |-> {rangeBlocks(Key[v].lo, Key[v].hi)[i] : i \in DOMAIN rangeBlocks(Key[v].lo, Key[v].hi)}]

IsRange(v) == Key[v].lo < Key[v].hi

\* v4_service over the entries of vips: an exact-port VIP, else the range whose
\* block the trie finds.
v4_service(vips, f) ==
  LET here == {v \in vips : Key[v].addr = f.addr /\ Key[v].proto = f.proto}
      exact == {v \in here : ~IsRange(v) /\ Key[v].lo = f.port}
      ranges == {v \in here : IsRange(v)}
      block == Longest(UNION {BlocksOf[v] : v \in ranges}, f.port)
  IN IF exact # {} THEN exact ELSE {v \in ranges : block # {} /\ block \subseteq BlocksOf[v]}

v6_service(vips, f) == v4_service(vips, f)

ServiceFor(vips, f) == IF f.addr \in V6 THEN v6_service(vips, f) ELSE v4_service(vips, f)

-----------------------------------------------------------------------------
(* rivorad at work, and what its writes do to connections. *)

\* A flow is no longer established once its backend is down or freed, or its
\* packets match another VIP or none.  An affinity or fragment entry whose id was
\* freed, or whose VIP changed, may come to mean something else, and so may the
\* backend a packet in flight was given.
Watch ==
  /\ svcOf' = [s \in ServiceId |->
                 IF svcMap'[s] = NoExtent THEN NoVip
                 ELSE IF doing(Upserting, "service") /\ crashes' = crashes /\ s = entry.sid THEN job.v
                 ELSE svcOf[s]]
  /\ LET moved == IF vipMap' = vipMap THEN {}
                  ELSE {f \in Flow : ServiceFor(DOMAIN vipMap', f) # ServiceFor(DOMAIN vipMap, f)}
         cut == {f \in DOMAIN affinity : health'[affinity[f]] = "down"}
         freed == {f \in DOMAIN affinity : affinity[f] \notin DOMAIN backendMap'}
         torn == {k \in DOMAIN frags : health'[frags[k].bid] = "down" \/ svcOf'[frags[k].sid] # svcOf[frags[k].sid]}
     IN /\ home' = [f \in Flow |-> IF f \in moved \cup cut THEN None ELSE home[f]]
        /\ stale' = stale \cup moved \cup freed
        /\ pieces' = [f \in Flow |-> IF \E k \in torn : k.client = f.client /\ k.addr = f.addr THEN {} ELSE pieces[f]]
        /\ cpu' = [c \in Cpu |-> IF cpu[c].pc = "send" /\ (cpu[c].bid \notin DOMAIN backendMap' \/ health'[cpu[c].bid] = "down")
                                 THEN [cpu[c] EXCEPT !.raced = TRUE] ELSE cpu[c]]
  /\ admitted' = Restrict(admitted, {w \in DOMAIN admitted : w.scope \in {Node} \cup DOMAIN vipMap'})
  /\ UNCHANGED <<lru, clock, served, told, heard, pmtu, clash>>

Operate == Step /\ UNCHANGED script /\ Watch

Command ==
  /\ \/ Due("reload") /\ ReloadVIPs(item.config)
     \/ Due("probe") /\ SetBackendHealth(IdOf(bids, item.b), item.on)
     \/ Due("admin") /\ SetBackendAdminDraining(IdOf(bids, item.b), item.on)
     \/ Due("crash") /\ Crash
  /\ Watch

-----------------------------------------------------------------------------
(* The XDP program.  A packet is [flow, error, syn, more, off, id, tags, ext, big]: an
   ICMP error about the flow or a packet of it, of which more and off say whether it
   is a fragment, tags how many VLAN tags it has, ext its IPv6 extension headers, big
   that it is as long as the client believes the path allows. *)

IsV6(p) == p.flow.addr \in V6

Chain(p) ==
  IF p.more \/ p.off THEN Append(p.ext, [type |-> "fragment", units |-> 1, more |-> p.more, off |-> p.off])
  ELSE p.ext

\* The branches of handle_ipv4 up to the transport header.
Branch4(p) == IF p.off THEN "later" ELSE IF p.error THEN "icmp" ELSE "data"

\* And of handle_ipv6: an ICMPv6 error behind an extension header is passed on.
Branch6(p) ==
  LET w == rivora_v6_walk(Chain(p), IF p.error THEN "icmp" ELSE p.flow.proto, Len(Chain(p)))
  IN IF p.error /\ Chain(p) = << >> THEN "icmp"
     ELSE IF ~w.ok \/ w.proto \notin {"tcp", "udp"} THEN "pass"
     ELSE IF w.later THEN "later" ELSE "data"

FragKey(p) == [client |-> p.flow.client, addr |-> p.flow.addr, id |-> p.id, proto |-> p.flow.proto]

\* What a packet's fate shows: for a packet of the flow where it was served, for a
\* fragment where its datagram's pieces went, for an error where it was told.  A
\* packet served establishes the flow, and a first fragment its datagram, when the
\* affinity entry is good (kept).
Land(p, to, kept) ==
  LET f == p.flow
      piece == [b |-> to.b, addr |-> to.addr]
  IN /\ served' = IF p.error \/ p.off THEN served ELSE [served EXCEPT ![f] = to]
     /\ told' = IF p.error THEN [told EXCEPT ![f] = to] ELSE told
     /\ pieces' = IF p.off /\ pieces[f] # {} THEN [pieces EXCEPT ![f] = @ \cup {piece}]
                  ELSE IF p.more /\ ~p.off THEN [pieces EXCEPT ![f] = IF kept THEN {piece} ELSE {}]
                  ELSE pieces
     /\ home' = IF p.error \/ p.off \/ ~kept \/ home[f] # None THEN home ELSE [home EXCEPT ![f] = to.b]

\* scaleRateLimit: a CPU's share of a limit, the buckets being per CPU.
scaleRateLimit(limit) ==
  LET share(n) == IF n \div Cardinality(Cpu) = 0 THEN 1 ELSE n \div Cardinality(Cpu)
  IN [rate |-> share(limit.rate), burst |-> share(limit.burst)]

LimitOf(v) == IF v = NoVip THEN {} ELSE Key[v].limit

\* rate_limit_exceeded: whose bucket a SYN for service sid draws from, if any.
rate_limit_exceeded(sid) ==
  IF LimitOf(svcOf[sid]) # {} THEN {[scope |-> sid, limit |-> scaleRateLimit(The(LimitOf(svcOf[sid])))]}
  ELSE {[scope |-> Node, limit |-> scaleRateLimit(l)] : l \in NodeLimit}

rate_limit_exceeded_v6(sid) == rate_limit_exceeded(sid)

Limiter(p, sid) ==
  IF ~p.syn THEN {} ELSE IF IsV6(p) THEN rate_limit_exceeded_v6(sid) ELSE rate_limit_exceeded(sid)

Sending(p, sid, vip, bid, raced) ==
  [pc |-> "send", p |-> p, sid |-> sid, vip |-> vip, bid |-> bid, raced |-> raced]

\* Mutant: only a healthy backend keeps its flows.
KnownHealthy(f) == {b \in Entry(affinity, f) : health[b] = "healthy"}

\* The fast path: the flow's affinity entry, unless its backend is down.
Known(f) == {b \in Entry(affinity, f) : health[b] # "down"}

\* The first step of a packet with a transport header: the service it matches, the
\* limiter, the check that the service has backends, and the affinity entry, without
\* which a backend is yet to be picked.  A dropped SYN is not a packet of a connection.
Match(c, p) ==
  LET hit == ServiceFor(DOMAIN vipMap, p.flow)
      sid == vipMap[The(hit)]
      at(l) == [cpu |-> c, scope |-> l.scope, client |-> p.flow.client]
      taken(l) == rl_take(l.limit, Entry(buckets, at(l)), clock)
      who(l) == [scope |-> IF l.scope = Node THEN Node ELSE The(hit), client |-> p.flow.client]
      limiter == IF hit = {} THEN {} ELSE Limiter(p, sid)
  IN /\ buckets' = IF limiter = {} THEN buckets ELSE Give(buckets, at(The(limiter)), taken(The(limiter)).bucket)
     /\ admitted' = IF \A l \in limiter : taken(l).exceeded THEN admitted
                    ELSE LET w == who(The(limiter)) IN Give(admitted, w, Append(Default(admitted, w, << >>), clock))
     /\ IF hit # {} /\ (\A l \in limiter : ~taken(l).exceeded) /\ svcMap[sid].size # 0
        THEN /\ cpu' = [cpu EXCEPT ![c] =
                          IF Known(p.flow) # {} THEN Sending(p, sid, The(hit), The(Known(p.flow)), FALSE)
                          ELSE [pc |-> "pick", p |-> p, sid |-> sid, vip |-> The(hit), seen |-> svcMap[sid]]]
             /\ UNCHANGED <<served, told, pieces, home>>
        ELSE /\ IF \E l \in limiter : taken(l).exceeded THEN UNCHANGED <<served, told, pieces, home>> ELSE Land(p, Nowhere, FALSE)
             /\ UNCHANGED cpu
     /\ UNCHANGED <<affinity, natRev, frags, fragRevs, heard, pmtu, stale, clash>>

\* A later fragment goes where its datagram's entry says, unless that backend is down.
handle_v4_later_fragment(p) ==
  {Sending(p, v.sid, svcOf[v.sid], v.bid, FALSE) : v \in {w \in Entry(frags, FragKey(p)) : health[w.bid] # "down"}}

handle_v6_later_fragment(p) == handle_v4_later_fragment(p)

\* An ICMP error goes where the connection it quotes goes; it never picks a backend.
handle_v4_icmp(p) ==
  {Sending(p, vipMap[v], v, b, FALSE) : v \in v4_service(DOMAIN vipMap, p.flow), b \in Known(p.flow)}

handle_v6_icmp(p) ==
  {Sending(p, vipMap[v], v, b, FALSE) : v \in v6_service(DOMAIN vipMap, p.flow), b \in Known(p.flow)}

Follow(c, p, found) ==
  /\ IF found = {} THEN Land(p, Nowhere, FALSE) /\ UNCHANGED cpu
     ELSE cpu' = [cpu EXCEPT ![c] = The(found)] /\ UNCHANGED <<served, told, pieces, home>>
  /\ UNCHANGED <<lru, heard, pmtu, admitted, stale, clash>>

Pass(p) == Land(p, Nowhere, FALSE) /\ UNCHANGED <<cpu, lru, heard, pmtu, admitted, stale, clash>>

handle_ipv4(c, p) ==
  \/ Branch4(p) = "later" /\ Follow(c, p, handle_v4_later_fragment(p))
  \/ Branch4(p) = "icmp" /\ Follow(c, p, handle_v4_icmp(p))
  \/ Branch4(p) = "data" /\ Match(c, p)

\* The same on wider keys, once the extension headers are behind it.
handle_ipv6(c, p) ==
  \/ Branch6(p) = "later" /\ Follow(c, p, handle_v6_later_fragment(p))
  \/ Branch6(p) = "icmp" /\ Follow(c, p, handle_v6_icmp(p))
  \/ Branch6(p) = "data" /\ Match(c, p)
  \/ Branch6(p) = "pass" /\ Pass(p)

EtherType(p) == rivora_skip_vlan(p.tags, IF IsV6(p) THEN "ipv6" ELSE "ip")

rivora_xdp_ingress ==
  /\ Due("send") /\ cpu[item.cpu].pc = "idle"
  /\ \/ EtherType(item.p) = "ip" /\ handle_ipv4(item.cpu, item.p)
     \/ EtherType(item.p) = "ipv6" /\ handle_ipv6(item.cpu, item.p)
     \/ EtherType(item.p) = "vlan" /\ Pass(item.p)
  /\ UNCHANGED <<vars, clock, svcOf>>

\* BPF's remainder by zero leaves the dividend.
Mod(n, size) == IF size = 0 THEN n ELSE n % size

\* Mutant: the probe walks past the end of the extent.
pick_backendOn(offset, size, slot) ==
  LET good == {i \in 0 .. RIVORA_MAGLEV_PROBES - 1 : offset + slot + i \in Slot /\ health[maglev[offset + slot + i]] = "healthy"}
  IN IF good = {} THEN {} ELSE {maglev[offset + slot + Min(good)]}

\* The first healthy backend of the eight slots from slot on, inside the extent.
pick_backend(offset, size, slot) ==
  LET at(i) == offset + Mod(slot + i, size)
      good == {i \in 0 .. RIVORA_MAGLEV_PROBES - 1 : at(i) \in Slot /\ health[maglev[at(i)]] = "healthy"}
  IN IF good = {} THEN {} ELSE {maglev[at(Min(good))]}

\* The pick, for a flow without a usable entry.  The config is read through a
\* pointer: offset and size may each be as at the match or as they are now.
Pick(c) ==
  LET at == cpu[c]
      f == at.p.flow
      hash == IF svcOf[at.sid] # NoVip /\ Key[svcOf[at.sid]].sticky THEN HashSrc(f.client) ELSE Hash5(f)
  IN /\ at.pc = "pick"
     /\ \E offset \in {at.seen.offset, svcMap[at.sid].offset}, size \in {at.seen.size, svcMap[at.sid].size} :
          LET raced == [offset |-> offset, size |-> size] # svcMap[at.sid] \/ svcOf[at.sid] # at.vip \/ ServiceFor(DOMAIN vipMap, f) # {at.vip}
              found == pick_backend(offset, size, Mod(hash, size))
          IN IF found = {}
             THEN /\ Land(at.p, Nowhere, FALSE)
                  /\ cpu' = [cpu EXCEPT ![c] = Off]
                  /\ UNCHANGED <<affinity, stale>>
             ELSE /\ affinity' = Give(affinity, f, The(found))
                  /\ cpu' = [cpu EXCEPT ![c] = Sending(at.p, at.sid, at.vip, The(found), raced)]
                  /\ stale' = IF raced THEN stale \cup {f} ELSE stale \ {f}
                  /\ UNCHANGED <<served, told, pieces, home>>
     /\ UNCHANGED <<vars, script, natRev, frags, fragRevs, buckets, clock, svcOf, heard, pmtu, admitted, clash>>

-----------------------------------------------------------------------------
(* Forwarding. *)

Length(p) == IF p.big THEN pmtu[p.flow].size ELSE 100

\* The encapsulated packet is dropped without a tunnel source, left to the kernel's
\* routing when the frame is tagged, refused when it exceeds the path's MTU (in IPv4
\* only with DF set, which TCP does; else the kernel fragments it), and else sent.
tunnel_v4(p, mode) ==
  IF FALSE \notin Sourced THEN "drop"
  ELSE IF p.tags = 0 /\ p.flow.proto = "tcp" /\ Length(p) + Encap(FALSE, mode) > Mtu THEN "refuse"
  ELSE "deliver"

tunnel_v6(p, mode) ==
  IF TRUE \notin Sourced THEN "drop"
  ELSE IF p.tags = 0 /\ Length(p) + Encap(TRUE, mode) > Mtu THEN "refuse"
  ELSE "deliver"

ModeOf(sid) == IF svcOf[sid] = NoVip THEN "dsr" ELSE Key[svcOf[sid]].mode

\* forward_v4 and forward_v6: the verdict of every mode but full NAT.
forward(p, mode) ==
  IF mode = "dsr" THEN "deliver" ELSE IF IsV6(p) THEN tunnel_v6(p, mode) ELSE tunnel_v4(p, mode)

\* The port a full-NAT packet goes to: a range keeps the client's.
NatPort(sid, f, b) == IF svcOf[sid] # NoVip /\ IsRange(svcOf[sid]) THEN f.port ELSE At[b].port


\* The port an ICMP error quotes once the reply's source is undone.
QuotedPort(sid, f, b) == IF svcOf[sid] # NoVip /\ IsRange(svcOf[sid]) THEN f.port ELSE At[b].port

\* Mutant: the key of an entry is made after the address is rewritten.
RecordFirstRewritten(p, sid, bid, b) ==
  frags' = IF p.more /\ ~p.off /\ ~p.error
           THEN Give(frags, [FragKey(p) EXCEPT !.addr = IF ModeOf(sid) = "nat" THEN At[b].addr ELSE @], [bid |-> bid, sid |-> sid])
           ELSE frags

\* A first fragment is remembered under its original addresses.
RecordFirst(p, sid, bid, b) ==
  frags' = IF p.more /\ ~p.off /\ ~p.error THEN Give(frags, FragKey(p), [bid |-> bid, sid |-> sid]) ELSE frags

NatKey(f, addr, port) ==
  [baddr |-> addr, client |-> f.client, bport |-> port, cport |-> f.cport, proto |-> f.proto]

\* The flows whose replies entry k is for.
Repliers(k) == {g \in Flow : served[g].via = "nat" /\ NatKey(g, served[g].addr, served[g].port) = k}

\* Mutant: the port recorded is the rewritten one.
RecordReverseRewritten(p, b, port) ==
  IF p.error \/ p.off THEN UNCHANGED <<natRev, clash>>
  ELSE /\ natRev' = Give(natRev, NatKey(p.flow, At[b].addr, port), [addr |-> p.flow.addr, port |-> port])
       /\ clash' = (clash \ {p.flow}) \cup (Repliers(NatKey(p.flow, At[b].addr, port)) \ {p.flow})

\* A full-NAT packet leaves the way back for its replies; the flow whose entry it
\* replaces has none any more.
RecordReverse(p, b, port) ==
  IF p.error \/ p.off THEN UNCHANGED <<natRev, clash>>
  ELSE /\ natRev' = Give(natRev, NatKey(p.flow, At[b].addr, port), [addr |-> p.flow.addr, port |-> p.flow.port])
       /\ clash' = (clash \ {p.flow}) \cup (Repliers(NatKey(p.flow, At[b].addr, port)) \ {p.flow})

\* The last step of every packet that has a backend, in the modes' own ways: what
\* the backend sees is its own address in full NAT and the VIP otherwise.
Forward(c) ==
  LET at == cpu[c]
      p == at.p
      f == p.flow
      b == backendMap[at.bid].name
      mode == ModeOf(at.sid)
      port == IF p.error THEN QuotedPort(at.sid, f, b) ELSE NatPort(at.sid, f, b)
      kept == /\ ~at.raced /\ Entry(affinity, f) = {at.bid} /\ health[at.bid] # "down"
              /\ ServiceFor(DOMAIN vipMap, f) = {at.vip}
  IN /\ at.pc = "send"
     /\ cpu' = [cpu EXCEPT ![c] = Off]
     /\ \/ /\ at.bid \notin DOMAIN backendMap
           /\ Land(p, Nowhere, FALSE)
           /\ UNCHANGED <<frags, natRev, pmtu, clash>>
        \/ /\ at.bid \in DOMAIN backendMap
           /\ RecordFirst(p, at.sid, at.bid, b)
           /\ \/ /\ mode = "nat"
                 /\ RecordReverse(p, b, port)
                 /\ Land(p, [b |-> b, addr |-> At[b].addr, port |-> port, via |-> "nat"], kept)
                 /\ UNCHANGED pmtu
              \/ /\ mode # "nat" /\ forward(p, mode) # "refuse"
                 /\ IF forward(p, mode) = "drop" THEN Land(p, Nowhere, FALSE)
                    ELSE Land(p, [b |-> b, addr |-> f.addr, port |-> f.port, via |-> mode], kept)
                 /\ UNCHANGED <<natRev, pmtu, clash>>
              \/ /\ mode # "nat" /\ forward(p, mode) = "refuse"
                 /\ pmtu' = [pmtu EXCEPT ![f] = [size |-> Advertised(IsV6(p), mode, Mtu), refusals |-> @.refusals + 1]]
                 /\ UNCHANGED <<natRev, clash, served, told, pieces, home>>
     /\ UNCHANGED <<vars, script, affinity, fragRevs, buckets, clock, svcOf, heard, admitted, stale>>

-----------------------------------------------------------------------------
(* The TC program, on the packets backends send through this node. *)

\* A reply that is whole, or the first fragment of one: its source becomes that of
\* the flow's entry, and the rest of its datagram is to follow.
Reverse(p, from) ==
  LET f == p.flow
      rev == Entry(natRev, NatKey(f, from.addr, from.port))
  IN /\ heard' = [heard EXCEPT ![f] = {IF rev = {} THEN [addr |-> from.addr, port |-> from.port] ELSE The(rev)}]
     /\ fragRevs' = IF p.more /\ rev # {} THEN Give(fragRevs, [FragKey(p) EXCEPT !.addr = from.addr], The(rev).addr)
                    ELSE fragRevs

\* A later fragment of a reply, which has no port.
tc_later_fragment(p, from) ==
  LET f == p.flow
      source == Default(fragRevs, [FragKey(p) EXCEPT !.addr = from.addr], from.addr)
  IN heard' = [heard EXCEPT ![f] = {[addr |-> source, port |-> f.port]}] /\ UNCHANGED fragRevs

tc_handle_ipv4(p, from) ==
  \/ Branch4(p) = "data" /\ Reverse(p, from)
  \/ Branch4(p) = "later" /\ tc_later_fragment(p, from)

tc_handle_ipv6(p, from) ==
  \/ Branch6(p) = "data" /\ Reverse(p, from)
  \/ Branch6(p) = "later" /\ tc_later_fragment(p, from)

\* A backend answers a flow it has received the last packet of, as it saw it; only in
\* full NAT does the answer pass through this node.
rivora_tc_nat_egress ==
  /\ Due("reply")
  /\ LET p == item.p
         from == served[p.flow]
     IN /\ {c \in Cpu : cpu[c].pc # "idle" /\ cpu[c].p.flow = p.flow} = {}
        /\ \/ from.via # "nat" /\ UNCHANGED <<heard, fragRevs>>
           \/ from.via = "nat" /\ EtherType(p) = "ip" /\ tc_handle_ipv4(p, from)
           \/ from.via = "nat" /\ EtherType(p) = "ipv6" /\ tc_handle_ipv6(p, from)
  /\ UNCHANGED <<vars, cpu, affinity, natRev, frags, buckets, clock, svcOf, served, told, pieces, pmtu, admitted, notes>>

-----------------------------------------------------------------------------
(* Time, and the evictions of full LRU maps (the oldest entry of any of them). *)

Tick ==
  /\ Due("tick") /\ clock' = clock + item.by
  /\ UNCHANGED <<vars, cpu, lru, svcOf, sights, notes>>

EvictFlow(f) ==
  /\ affinity' = Drop(affinity, f) /\ home' = [home EXCEPT ![f] = None]
  /\ UNCHANGED <<natRev, frags, fragRevs, pieces, stale, clash>>

EvictReverse(k) ==
  /\ natRev' = Drop(natRev, k)
  /\ clash' = clash \cup Repliers(k)
  /\ UNCHANGED <<affinity, frags, fragRevs, pieces, home, stale>>

EvictFragment(k) ==
  /\ frags' = Drop(frags, k)
  /\ pieces' = [f \in Flow |-> IF f.client = k.client /\ f.addr = k.addr THEN {} ELSE pieces[f]]
  /\ UNCHANGED <<affinity, natRev, fragRevs, home, stale, clash>>

EvictFragmentReverse(k) ==
  /\ fragRevs' = Drop(fragRevs, k)
  /\ clash' = clash \cup {f \in Flow : f.client = k.client}
  /\ UNCHANGED <<affinity, natRev, frags, pieces, home, stale>>

Evict ==
  /\ Due("evict")
  /\ \/ \E f \in DOMAIN affinity : EvictFlow(f)
     \/ \E k \in DOMAIN natRev : EvictReverse(k)
     \/ \E k \in DOMAIN frags : EvictFragment(k)
     \/ \E k \in DOMAIN fragRevs : EvictFragmentReverse(k)
     \/ UNCHANGED <<affinity, natRev, frags, fragRevs, pieces, notes>>
  /\ UNCHANGED <<vars, cpu, buckets, clock, svcOf, served, told, heard, pmtu, admitted>>

Over ==
  /\ script = << >> /\ MuFree /\ \A c \in Cpu : cpu[c].pc = "idle"
  /\ UNCHANGED allVars

PacketNext ==
  \/ Operate \/ Command
  \/ rivora_xdp_ingress \/ rivora_tc_nat_egress
  \/ \E c \in Cpu : Pick(c) \/ Forward(c)
  \/ Tick \/ Evict \/ Over

PacketSpec == PacketInit /\ [][PacketNext]_allVars

-----------------------------------------------------------------------------
(* Properties. *)

\* The maps hold ids, VIP addresses and buckets of no fewer than no tokens.
PacketTypeOK ==
  /\ affinity \in [DOMAIN affinity -> BackendId] /\ DOMAIN affinity \subseteq Flow
  /\ \A k \in DOMAIN natRev : \E f \in Flow : natRev[k] = [addr |-> f.addr, port |-> f.port]
  /\ \A k \in DOMAIN frags : frags[k].bid \in BackendId /\ frags[k].sid \in ServiceId
  /\ \A k \in DOMAIN buckets : buckets[k].tokens \in Nat /\ buckets[k].last \in 0 .. clock
  /\ svcOf \in [ServiceId -> Vip \cup {NoVip}]

\* The backends some configuration gives a VIP.
Loaded == Configs \cup UNION {{sc[i].config : i \in {j \in DOMAIN sc : sc[j].do = "reload"}} : sc \in Scripts}
Listed == [v \in Vip |-> UNION {DOMAIN c[v] : c \in {d \in Loaded : v \in DOMAIN d}}]

\* A packet goes to a backend of the VIP it was sent to, whatever VIPs share the
\* table, the ids and the backends, and while any of them is updated (pick_backend
\* wraps inside the VIP's extent; slots are written before the config that names
\* them).  Excused are a packet whose config or backend changed under it and a flow
\* whose affinity entry outlived its backend.  The maps' entries are well formed.
OwnBackend ==
  /\ PacketTypeOK
  /\ \A c \in Cpu :
       /\ cpu[c].pc = "send" /\ ~cpu[c].raced
       /\ cpu[c].p.flow \notin stale /\ cpu[c].vip # NoVip /\ cpu[c].bid \in DOMAIN backendMap
       => backendMap[cpu[c].bid].name \in Listed[cpu[c].vip]

\* A connection's packets all reach the backend its first one reached, none of them
\* lost, through reloads of this and other VIPs, drains, crashes of rivorad and the
\* adoption after them, until that backend is down or removed, its entry is evicted,
\* or another VIP takes over the port (the affinity map is consulted first, and
\* draining backends keep their flows).
Sticky ==
  [][\A f \in Flow : home[f] # None /\ served'[f] # served[f] => served'[f].b = home[f]]_allVars

\* A client hears its replies from the VIP and port it sent to, whole or in fragments,
\* from a range or a single port, unless the entry that says so was evicted or taken
\* by a flow of the same client port to another VIP on the same backend (the reverse
\* map's key holds the backend, not the VIP).
ReplySource ==
  [][\A f \in Flow \ clash : heard'[f] # heard[f] => heard'[f] = {[addr |-> f.addr, port |-> f.port]}]_allVars

\* The fragments of a datagram that arrive in order reach one backend at one address,
\* as long as it is not down or removed and the first fragment's entry is kept.
FragmentsFollow == \A f \in Flow : Cardinality(pieces[f]) <= 1

Overtaken(f) == \E c \in Cpu : cpu[c].pc = "send" /\ cpu[c].p.flow = f /\ cpu[c].raced



\* A client of a tunnelled VIP whose packets are too big once encapsulated is told so
\* once, and of a size that is then the largest that fits.
PmtuSettles ==
  \A f \in Flow :
    /\ pmtu[f].refusals <= 1
    /\ pmtu[f].refusals = 1 =>
         \E v \in Vip : Key[v].addr = f.addr /\ pmtu[f].size + Encap(f.addr \in V6, Key[v].mode) = Mtu

=============================================================================
