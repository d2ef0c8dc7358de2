---------------------------- MODULE AddressPools ----------------------------
(***************************************************************************)
(* The expansion of an AddressPool's spec.addresses into the addresses and  *)
(* sparse prefixes the allocator hands out (internal/ipam/pool.go).         *)
(*                                                                          *)
(* An address is [fam, n]: a family and a number of Bits[fam] bits.  The    *)
(* code's widths (32 and 128 bits, an 8 bit last octet, 16 eager host bits, *)
(* 2^20 addresses in a range) are constants here, so that the boundaries    *)
(* lie within reach of an exhaustive check.                                 *)
(***************************************************************************)
EXTENDS Integers, Sequences, FiniteSets, SequencesExt

CONSTANTS Bits,             \* [Families -> width of an address]
          OctetBits,        \* width of the last octet
          MaxEagerHostBits, \* larger prefixes are kept sparse
          MaxRange          \* the cap on the length of a start-end range

Families == {4, 6}

Address == UNION {[fam : {f}, n : 0 .. 2^Bits[f] - 1] : f \in Families}

(* spec.addresses entries, parsed: a CIDR, a range or a single address.     *)
Cidr(a, bits)  == [kind |-> "cidr", addr |-> a, bits |-> bits]
Span(a, b)     == [kind |-> "range", addr |-> a, last |-> b]
One(a)         == [kind |-> "one", addr |-> a]

HostBits(e) == Bits[e.addr.fam] - e.bits

(* netip.Prefix: Masked, Contains (InPrefix).                                          *)
Masked(e) == [e EXCEPT !.addr.n = @ - (@ % 2^HostBits(e))]

InPrefix(pfx, a) ==
  /\ a.fam = pfx.addr.fam
  /\ a.n - (a.n % 2^HostBits(pfx)) = pfx.addr.n

isBuggyIPv4(a) == a.n % 2^OctetBits \in {0, 2^OctetBits - 1}

(* nextAddr: no successor when the increment carries out of the top byte.   *)
HasNext(a) == (a.n + 1) % 2^Bits[a.fam] # 0
nextAddr(a) == [a EXCEPT !.n = @ + 1]

Failed == [ok |-> FALSE, addrs |-> <<>>, prefixes |-> {}]
Expanded(as, ps) == [ok |-> TRUE, addrs |-> as, prefixes |-> ps]

(* parseCIDR: a large prefix is kept; a small one is walked from its        *)
(* network address until it is left or the address space ends.              *)
RECURSIVE WalkCIDR(_, _, _, _)
WalkCIDR(pfx, a, avoid, out) ==
  LET kept == IF avoid /\ a.fam = 4 /\ isBuggyIPv4(a) THEN out ELSE Append(out, a)
  IN  CASE ~InPrefix(pfx, a) -> out
        [] InPrefix(pfx, a) /\ ~HasNext(a) -> kept
        [] OTHER -> WalkCIDR(pfx, nextAddr(a), avoid, kept)

\* The walk started at the address as written, host bits and all.
parseCIDRUnmasked(e, avoid) ==
  IF HostBits(e) > MaxEagerHostBits
    THEN Expanded(<<>>, {Masked(e)})
    ELSE Expanded(WalkCIDR(Masked(e), e.addr, avoid, <<>>), {})

parseCIDR(e, avoid) ==
  LET pfx == Masked(e)
  IN  IF HostBits(pfx) > MaxEagerHostBits
        THEN Expanded(<<>>, {pfx})
        ELSE Expanded(WalkCIDR(pfx, pfx.addr, avoid, <<>>), {})

(* parseRange: both ends of one family and in order; the length is checked  *)
(* after an address is appended and before the next one is computed.        *)
RECURSIVE WalkRange(_, _, _)
WalkRange(a, last, out) ==
  LET grown == Append(out, a)
  IN  CASE a = last -> Expanded(grown, {})
        [] a # last /\ (Len(grown) > MaxRange \/ ~HasNext(a)) -> Failed
        [] OTHER -> WalkRange(nextAddr(a), last, grown)

parseRange(e) ==
  IF e.addr.fam = e.last.fam /\ e.addr.n <= e.last.n
    THEN WalkRange(e.addr, e.last, <<>>)
    ELSE Failed

parseOne(e, avoid) ==
  CASE e.kind = "cidr"  -> parseCIDR(e, avoid)
    [] e.kind = "range" -> parseRange(e)
    [] e.kind = "one"   -> Expanded(<<e.addr>>, {})

(* ParsePool: the entries in order, duplicates dropped; one bad entry fails *)
(* the pool.                                                                *)
Merge(out, part) ==
  IF ~out.ok \/ ~part.ok
    THEN Failed
    ELSE Expanded(out.addrs \o SelectSeq(part.addrs,
                                         LAMBDA a : a \notin ToSet(out.addrs)),
                  out.prefixes \cup part.prefixes)

ParsePool(entries, avoid) ==
  FoldLeft(LAMBDA out, e : Merge(out, parseOne(e, avoid)), Expanded(<<>>, {}), entries)
-----------------------------------------------------------------------------
(* What an entry denotes, for the properties below.                         *)
Denotes(e, avoid) ==
  CASE e.kind = "cidr"  -> {a \in Address : /\ InPrefix(Masked(e), a)
                                            /\ ~(avoid /\ a.fam = 4 /\ isBuggyIPv4(a))}
    [] e.kind = "range" -> {a \in Address : /\ a.fam = e.addr.fam
                                            /\ a.n \in e.addr.n .. e.last.n}
    [] e.kind = "one"   -> {e.addr}

Cidrs  == {Cidr(a, b) : a \in Address, b \in 0 .. Bits[4]}
            \cup {Cidr(a, b) : a \in {x \in Address : x.fam = 6}, b \in 0 .. Bits[6]}
Spans  == {Span(a, b) : a, b \in Address}
Entry  == {e \in Cidrs : e.bits <= Bits[e.addr.fam]} \cup Spans \cup {One(a) : a \in Address}

(* The entry expands to the addresses it denotes, each once, in order; a    *)
(* prefix of too many host bits is kept whole; only a range that mixes      *)
(* families, is reversed or is too long is refused.                         *)
Exact(e, avoid) ==
  LET exp == ParsePool(<<e>>, avoid)
  IN  /\ ~exp.ok <=> /\ e.kind = "range"
                     /\ \/ e.addr.fam # e.last.fam
                        \/ e.addr.n > e.last.n
                        \/ e.last.n - e.addr.n > MaxRange
      /\ exp.ok => IF e.kind = "cidr" /\ HostBits(e) > MaxEagerHostBits
                     THEN exp.addrs = <<>> /\ exp.prefixes = {Masked(e)}
                     ELSE /\ ToSet(exp.addrs) = Denotes(e, avoid)
                          /\ \A i, j \in DOMAIN exp.addrs :
                               i < j => exp.addrs[i].n < exp.addrs[j].n

Once(e, f, avoid) ==
  LET exp == ParsePool(<<e, f>>, avoid)
  IN  exp.ok => Cardinality(ToSet(exp.addrs)) = Len(exp.addrs)
=============================================================================
