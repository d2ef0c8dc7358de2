---------------------------- MODULE MCPacketPath ----------------------------
(***************************************************************************)
(* Eight VIPs over six backends and the traffic to them: two single ports  *)
(* in full NAT that may share a backend (the second with ClientIP          *)
(* affinity), a limited port range in full NAT and a single port inside    *)
(* it, an IPv6 VIP in full NAT and one behind a GRE tunnel, an IPv4 one    *)
(* behind IPIP and a UDP one in DSR.  A configuration has at most two of   *)
(* them.  The pure algorithms are checked on small inputs, in the initial  *)
(* state whose script is empty.                                            *)
(***************************************************************************)
EXTENDS PacketPath, TLC

Table == INSTANCE Maglev

MCVip == 1 .. 8
MCSizeClasses == <<2, 3>>
MCNodeLimit == {[rate |-> 4, burst |-> 4]}
MCBackend == {"b1", "b2", "b3", "b4", "b5", "b6"}

Tcp(addr, lo, hi) == [addr |-> addr, proto |-> "tcp", lo |-> lo, hi |-> hi, mode |-> "nat", sticky |-> FALSE, limit |-> {}]

MCKey ==
  << Tcp("a1", 1, 1),
     [Tcp("a2", 1, 1) EXCEPT !.sticky = TRUE],
     [Tcp("a1", 2, 6) EXCEPT !.limit = {[rate |-> 2, burst |-> 2]}],
     [Tcp("a6", 1, 1) EXCEPT !.mode = "gre"],
     [Tcp("a2", 1, 1) EXCEPT !.mode = "dsr", !.proto = "udp"],
     Tcp("a1", 4, 4),
     [Tcp("a7", 1, 1) EXCEPT !.mode = "ipip"],
     Tcp("a6", 2, 2) >>

\* A range's backend has no port of its own; b4 is the host of b1.
MCAt ==
  [b \in MCBackend |->
     CASE b = "b1" -> [addr |-> "x1", port |-> 5]
       [] b = "b4" -> [addr |-> "x1", port |-> 0]
       [] OTHER -> [addr |-> b, port |-> 5]]

Spread == ("b1" :> 1) @@ ("b2" :> 1)

OneVip == 1 :> ("b1" :> 1)
Two == (1 :> ("b1" :> 1)) @@ (2 :> ("b3" :> 1))
Grown == (1 :> Spread) @@ (2 :> ("b3" :> 1))
Shared == (1 :> ("b1" :> 1)) @@ (2 :> ("b1" :> 1))
Ranged == (1 :> ("b1" :> 1)) @@ (3 :> ("b4" :> 1))
Tunnel == (4 :> ("b6" :> 1)) @@ (7 :> ("b5" :> 1))
Six == 8 :> ("b6" :> 1)
Udp == 5 :> Spread

Moved == 2 :> ("b2" :> 1)
Wide == 3 :> ("b4" :> 1)
Inside == (3 :> ("b4" :> 1)) @@ (6 :> ("b2" :> 1))

\* What the file may say after a restart, and its specs.
MCConfigs == {Two, Grown}
MCSpecs == {"b1" :> 1, "b3" :> 1, Spread}

\* The hash: backends start next to each other and walk in steps of one.
MCBuildTable(weights, m) ==
  LET order == CHOOSE o \in Listings(DOMAIN weights) : TRUE
      copies == {<<b, c>> : b \in DOMAIN weights, c \in 0 .. 5}
      walk == [e \in copies |-> [offset |-> e[2] + (IF e[1] \in {"b2", "b3"} THEN 1 ELSE 0), skip |-> 1]]
  IN Table!FillTable(m, [i \in DOMAIN order |-> [name |-> order[i], weight |-> weights[order[i]]]], walk)

To(cport, v, port) ==
  [client |-> IF v \in {4, 8} THEN "c6" ELSE "c", cport |-> cport, addr |-> MCKey[v].addr, port |-> port, proto |-> MCKey[v].proto]

f1 == To(1, 1, 1)
f2 == To(2, 1, 1)
g1 == To(1, 2, 1)
r4 == To(1, 3, 4)
r5 == To(1, 3, 5)
t1 == To(1, 4, 1)
t2 == To(1, 7, 1)
s1 == To(1, 8, 2)
u1 == To(1, 5, 1)
u2 == To(2, 5, 1)

MCFlow == {f1, f2, g1, r4, r5, t1, t2, s1, u1, u2}

MCHash5(f) == f.cport
MCHashSrc(client) == 1

Data(f) == [flow |-> f, error |-> FALSE, syn |-> FALSE, more |-> FALSE, off |-> FALSE, id |-> f.cport,
            tags |-> 0, ext |-> << >>, big |-> FALSE]
Syn(f) == [Data(f) EXCEPT !.syn = TRUE]
FirstOf(f) == [Data(f) EXCEPT !.more = TRUE]
LaterOf(f) == [Data(f) EXCEPT !.off = TRUE]
Err(f) == [Data(f) EXCEPT !.error = TRUE]
Behind(n, p) == [p EXCEPT !.ext = [i \in 1 .. n |-> [type |-> "dstopts", units |-> 1]]]

Load(config) == [do |-> "reload", config |-> config]
Send(c, p) == [do |-> "send", cpu |-> c, p |-> p]
Answer(p) == [do |-> "reply", p |-> p]
Probe(b, on) == [do |-> "probe", b |-> b, on |-> on]
Admin(b, on) == [do |-> "admin", b |-> b, on |-> on]
After(n) == [do |-> "tick", by |-> n]
Lose == [do |-> "evict"]
Die == [do |-> "crash"]

MCScripts ==
  { << >>,
    \* updates of one VIP under the packets of two
    << Load(Two), Send(1, Syn(f1)), Load(Grown), Send(1, Data(f1)), Send(2, Data(f2)), Load(Two), Send(1, Data(f1)), Send(2, Data(g1)) >>,
    \* draining, failing and recovering
    << Load(Grown), Send(1, Data(f1)), Send(2, Data(f2)), Admin("b1", TRUE), Send(1, Data(f1)), Probe("b2", FALSE),
       Send(2, Data(f2)), Admin("b1", FALSE), Send(1, Data(f1)), Send(2, Data(f2)) >>,
    \* a crash in the middle of an update
    << Load(Two), Send(1, Data(f1)), Load(Grown), Die, Send(1, Data(f1)), Send(2, Data(f2)) >>,
    \* a VIP goes and another takes its ids
    << Load(Two), Send(1, Data(f1)), Send(2, Data(g1)), Load(Moved), Send(1, Data(f1)), Send(2, Data(g1)), Load(Shared), Send(1, Data(f1)) >>,
    \* and rivorad dies while it does
    << Load(Two), Send(1, Data(f1)), Load(Moved), Die, Send(1, Data(f1)) >>,
    \* a port of a range becomes a VIP of its own, and a range's again
    << Load(Wide), Send(1, Data(r4)), Send(2, Data(r5)), Load(Inside), Send(1, Data(r4)), Send(2, Data(r5)), Load(Wide), Send(1, Data(r4)) >>,
    \* replies, fragments and a port that two flows share
    << Load(Shared), Send(1, FirstOf(f1)), Send(1, LaterOf(f1)), Answer(FirstOf(f1)), Answer(LaterOf(f1)), Send(2, Data(g1)), Answer(Data(g1)),
       Answer(Data(f1)), Send(1, Data(f1)), Answer(Data(f1)), Lose, Answer(Data(f1)) >>,
    \* a range, its limiter and errors about its connections
    << Load(Ranged), Send(1, Syn(r4)), Send(2, Err(r4)), Send(1, Data(r4)), Answer(Data(r4)), Send(1, Syn(r5)), Send(2, Syn(r5)),
       After(1), Send(1, Syn(r5)), After(8), Send(1, Syn(r5)), Send(1, Syn(r5)), Send(1, Syn(r4)) >>,
    \* a tunnel
    << Load(Tunnel), Send(2, [Data(t2) EXCEPT !.big = TRUE]), Send(2, Behind(1, Err(t1))), Send(2, [Data(t1) EXCEPT !.tags = 3]), Send(1, [Data(t1) EXCEPT !.big = TRUE]), Send(1, [Data(t1) EXCEPT !.big = TRUE]), Send(1, Behind(3, FirstOf(t1))),
       Send(1, Behind(3, LaterOf(t1))), Send(2, Err(t1)), Send(2, [Data(t2) EXCEPT !.big = TRUE]), Send(2, [Data(t2) EXCEPT !.tags = 2]) >>,
    \* full NAT in IPv6, behind extension headers
    << Load(Six), Send(1, Behind(2, FirstOf(s1))), Send(1, Behind(3, LaterOf(s1))), Answer(Behind(1, FirstOf(s1))), Answer(LaterOf(s1)),
       Send(2, Err(s1)), Send(1, Syn(s1)) >>,
    \* fragments of UDP flows, and the eviction of an entry
    << Load(Udp), Send(1, FirstOf(u1)), Send(1, LaterOf(u1)), Send(2, FirstOf(u2)), Probe("b1", FALSE), Send(1, LaterOf(u1)), Lose,
       Send(2, LaterOf(u2)), Send(1, Data(u1)), Load(OneVip), Send(2, LaterOf(u2)) >> }

-----------------------------------------------------------------------------

AtStart == script = << >> /\ calls = 0

\* Every port range is tiled by its blocks and recovered from them (rangeBlocks,
\* blocksSpan).
RangesTile == AtStart => \A lo \in Port : \A hi \in lo .. 2^PortBits - 1 : Tiles(lo, hi)

Names == <<"x", "y">>

Weighings == {ws \in UNION {[1 .. n -> 0 .. 2] : n \in 1 .. 2} :
             Len(Table!Virtuals([i \in DOMAIN ws |-> [name |-> Names[i], weight |-> ws[i]]])) <= 3}

\* Every set of up to two weighted backends, three entries together, has its share of
\* the table, whatever the hash (maglev.BuildTable).
TablesFair ==
  AtStart =>
    \A m \in {2, 3, 5}, ws \in Weighings :
      LET backends == [i \in DOMAIN ws |-> [name |-> Names[i], weight |-> ws[i]]]
          virtuals == Table!Virtuals(backends)
      IN \A walk \in [{virtuals[v] : v \in DOMAIN virtuals} -> [offset : 0 .. m - 1, skip : 1 .. m - 1]] :
           Table!Fair(m, backends, walk)

Extension ==
  {[type |-> "hopopts", units |-> 1], [type |-> "dstopts", units |-> 15], [type |-> "routing", units |-> 1],
   [type |-> "fragment", units |-> 1, more |-> TRUE, off |-> FALSE]}

\* Every chain of up to five extension headers is walked to its end or given up on
\* (rivora_v6_walk).
WalkExact ==
  AtStart => \A chain \in UNION {[1 .. n -> Extension] : n \in 0 .. 5}, whole \in {2, 5} : WalksTo(chain, "tcp", whole)

\* Every rewriting of a two-word address and a port keeps the checksum right
\* (csum_replace).
ChecksumExact ==
  AtStart => \A old, new \in Word \X Word, p, q, rest \in Word : KeepsChecksum(old, p, rest, new, q)

\* The pure algorithms of the packet path and of the tables it reads do on every small
\* input what their reference definitions say (portrange.go, maglev.go,
\* rivora_common.h).
AlgorithmsExact == RangesTile /\ TablesFair /\ WalkExact /\ ChecksumExact

=============================================================================
