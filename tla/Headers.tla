------------------------------- MODULE Headers -------------------------------
(***************************************************************************)
(* bpf/rivora_common.h: the arithmetic both BPF programs share.  The VLAN  *)
(* tags and IPv6 extension headers they step over, the incremental         *)
(* checksum, and the token bucket; and what a tunnel adds to a packet.     *)
(* Lengths of extension headers are in units of 8 bytes.                   *)
(***************************************************************************)
EXTENDS Integers, Sequences, FiniteSets

LOCAL INSTANCE SequencesExt
LOCAL INSTANCE FiniteSetsExt

CONSTANTS
  WordBits,       \* the width of a checksum word, 16 in the code
  Second          \* the clock's units in a second, 10^9 in the code

ASSUME HeadersAssumption == WordBits \in Nat \ {0} /\ Second \in Nat \ {0}

-----------------------------------------------------------------------------

\* rivora_skip_vlan: two tags at most; under a third there is no network header.
rivora_skip_vlan(tags, ethertype) == IF tags <= 2 THEN ethertype ELSE "vlan"

RIVORA_V6_MAX_EXT == 4
RIVORA_V6_MAX_EXT_UNITS == 31

Walkable == {"hopopts", "dstopts", "fragment"}

Failed == [ok |-> FALSE, proto |-> "none", first |-> FALSE, later |-> FALSE]

\* One header of the walk w; whole is the number of headers the packet holds, most
\* the number the walk may step over.
WalkStep(w, h, whole, most) ==
  IF w.over THEN w
  ELSE IF h.type \notin Walkable THEN [w EXCEPT !.over = TRUE, !.nh = h.type]
  ELSE IF w.n = most THEN [w EXCEPT !.over = TRUE, !.bad = TRUE]
  ELSE [w EXCEPT !.n = @ + 1, !.units = @ + h.units,
                 !.bad = \/ w.bad \/ w.n >= whole
                         \/ h.type = "fragment" /\ w.frag
                         \/ w.units + h.units > RIVORA_V6_MAX_EXT_UNITS,
                 !.frag = @ \/ h.type = "fragment",
                 !.more = IF h.type = "fragment" THEN h.more ELSE @,
                 !.off = IF h.type = "fragment" THEN h.off ELSE @]

Walk(chain, proto, whole, most) ==
  LET w == FoldLeft(LAMBDA v, h : WalkStep(v, h, whole, most),
                    [over |-> FALSE, bad |-> FALSE, nh |-> proto, n |-> 0, units |-> 0,
                     frag |-> FALSE, more |-> FALSE, off |-> FALSE], chain)
  IN IF w.bad THEN Failed
     ELSE [ok |-> TRUE, proto |-> w.nh, first |-> w.frag /\ w.more /\ ~w.off, later |-> w.frag /\ w.off]

\* rivora_v6_walk of a chain of headers [type, units] before a payload of proto,
\* of which the packet holds the first whole ones.  A fragment header also has
\* more (MF is set) and off (its offset is not 0).  The walk ends at a header it
\* does not know, whose type is then the protocol, or after four.
rivora_v6_walk(chain, proto, whole) == Walk(chain, proto, whole, RIVORA_V6_MAX_EXT)

\* The walk finds the transport header exactly when every header before it is one
\* the programs step over, they are at most four and 248 bytes, all of them in the
\* packet, and at most one is a Fragment header; else it yields no transport
\* protocol.
WalksTo(chain, proto, whole) ==
  LET w == rivora_v6_walk(chain, proto, whole)
      fits == /\ \A i \in DOMAIN chain : chain[i].type \in Walkable
              /\ Len(chain) <= RIVORA_V6_MAX_EXT /\ Len(chain) <= whole
              /\ FoldLeft(LAMBDA sum, h : sum + h.units, 0, chain) <= RIVORA_V6_MAX_EXT_UNITS
              /\ Cardinality({i \in DOMAIN chain : chain[i].type = "fragment"}) <= 1
  IN (w.ok /\ w.proto = proto) <=> fits

-----------------------------------------------------------------------------
(* One's complement sums. *)

Word == 0 .. 2^WordBits - 1

Complement(w) == 2^WordBits - 1 - w

Fold(sum) == (sum % 2^WordBits) + (sum \div 2^WordBits)

Total(words) == FoldLeft(+, 0, words)

\* The checksum a sender computes (and rivora_ip_csum).
rivora_ip_csum(words) == Complement(Fold(Fold(Total(words))))

\* bpf_csum_diff: the words of old taken back and those of new added, not folded.
bpf_csum_diff(old, new) == Total([i \in DOMAIN old |-> Complement(old[i])]) + Total(new)

\* Mutant: the carry is folded in once.
csum_replaceOnce(csum, old, new) ==
  Complement(Fold(Complement(csum) + bpf_csum_diff(old, new)) % 2^WordBits)

\* csum_replace for one word (a port) and for several (an address): four folds,
\* each only while a carry is left.
csum_replace(csum, old, new) ==
  Complement(Fold(Fold(Fold(Fold(Complement(csum) + bpf_csum_diff(old, new))))))

\* Rewriting an address and a port, and the checksum for each, leaves the checksum
\* a sender of the rewritten packet would have computed.
KeepsChecksum(address, port, rest, newAddress, newPort) ==
  LET before == rivora_ip_csum(address \o <<port, rest>>)
      after == csum_replace(csum_replace(before, address, newAddress), <<port>>, <<newPort>>)
  IN rest # 0 => after = rivora_ip_csum(newAddress \o <<newPort, rest>>)

-----------------------------------------------------------------------------
(* The token bucket. *)

RIVORA_RL_MAX_ELAPSED == 10 * Second

\* The tokens in the bucket found (or, for none, in a full one) with those of the
\* time since it was last touched.
Refilled(limit, old, now) ==
  LET bucket == IF old = {} THEN [tokens |-> limit.burst, last |-> now] ELSE CHOOSE b \in old : TRUE
      elapsed == IF now > bucket.last THEN now - bucket.last ELSE 0
  IN bucket.tokens + (Min({elapsed, RIVORA_RL_MAX_ELAPSED}) * limit.rate) \div Second

Take(tokens, now) ==
  [exceeded |-> tokens < 1, bucket |-> [tokens |-> IF tokens < 1 THEN 0 ELSE tokens - 1, last |-> now]]


rl_take(limit, old, now) == Take(Min({Refilled(limit, old, now), limit.burst}), now)

-----------------------------------------------------------------------------
(* L3 DSR: the outer header, and the answer to a packet it makes too big. *)

Encap(v6, mode) == (IF v6 THEN 40 ELSE 20) + (IF mode = "gre" THEN 4 ELSE 0)

MinMtu(v6) == IF v6 THEN 1280 ELSE 68

\* Mutant: the path's MTU is advertised as it is.
AdvertisedPlain(v6, mode, mtu) == mtu

\* The MTU that frag_needed_v4 and packet_too_big_v6 advertise.
Advertised(v6, mode, mtu) ==
  IF mtu > Encap(v6, mode) + MinMtu(v6) THEN mtu - Encap(v6, mode) ELSE MinMtu(v6)

=============================================================================
