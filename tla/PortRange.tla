------------------------------ MODULE PortRange ------------------------------
(***************************************************************************)
(* internal/dataplane/portrange.go and the reading back of a range in      *)
(* adopt.go: a VIP's port range as the aligned blocks an LPM trie can      *)
(* hold, the trie's lookup, and the range recovered from its blocks.  A    *)
(* block [port, bits] fixes the first bits of the PortBits of a port.      *)
(***************************************************************************)
EXTENDS Integers, Sequences, FiniteSets

LOCAL INSTANCE FiniteSetsExt
LOCAL INSTANCE SequencesExt

CONSTANT PortBits   \* the width of a port, 16 in the code

ASSUME PortBitsAssumption == PortBits \in Nat \ {0}

Port == 0 .. 2^PortBits - 1

Block == [port : Port, bits : 0 .. PortBits]

\* portBlock.size
SizeOf(block) == 2^(PortBits - block.bits)

PortsOf(block) == block.port .. block.port + SizeOf(block) - 1

\* The bits of a block that starts at cur: the largest that is aligned to its own
\* size, inside the range and no more than half of the ports.
BitsAt(cur, end) ==
  PortBits - Max({k \in 0 .. PortBits - 1 : cur % 2^k = 0 /\ cur + 2^k - 1 <= end})

rangeBlocks(lo, hi) ==
  LET from[cur \in lo .. hi + 1] ==
        IF cur > hi THEN << >>
        ELSE LET b == [port |-> cur, bits |-> BitsAt(cur, hi)] IN <<b>> \o from[cur + SizeOf(b)]
  IN from[lo]

\* The trie (BPF_MAP_TYPE_LPM_TRIE): of the blocks that hold the port, the longest prefix.
Longest(blocks, port) ==
  LET hits == {b \in blocks : port \in PortsOf(b)}
  IN IF hits = {} THEN {} ELSE {CHOOSE b \in hits : \A c \in hits : c.bits <= b.bits}

\* blocksSpan: the range its blocks tile, or nothing when they are not exactly
\* the tiling of a range of two or more ports above 0.
blocksSpan(blocks) ==
  LET lo == Min({b.port : b \in blocks})
      hi == Max({b.port + SizeOf(b) - 1 : b \in blocks})
  IN IF blocks # {} /\ hi \in Port /\ lo # 0 /\ lo < hi /\ ToSet(rangeBlocks(lo, hi)) = blocks
     THEN {<<lo, hi>>} ELSE {}

\* The aligned blocks inside a range that no larger one inside it contains.
Maximal(lo, hi) ==
  LET inside == {b \in Block : b.bits # 0 /\ b.port % SizeOf(b) = 0 /\ PortsOf(b) \subseteq lo .. hi}
  IN {b \in inside : \A c \in inside : PortsOf(b) \subseteq PortsOf(c) => b = c}

\* A range's blocks are the fewest that tile it, no two of them overlap, and the
\* range read back from them after a restart is the one that was written; a range
\* whose writing or deleting a crash cut short is read back, if at all, as a part
\* of itself.
Tiles(lo, hi) ==
  LET blocks == rangeBlocks(lo, hi)
      torn == {SubSeq(blocks, 1, n) : n \in DOMAIN blocks} \cup {SubSeq(blocks, n, Len(blocks)) : n \in DOMAIN blocks}
  IN /\ ToSet(blocks) = Maximal(lo, hi) /\ Len(blocks) = Cardinality(Maximal(lo, hi))
     /\ \A p \in Port : Longest(ToSet(blocks), p) # {} <=> p \in lo .. hi
     /\ 0 < lo /\ lo < hi => blocksSpan(ToSet(blocks)) = {<<lo, hi>>}
     /\ \A part \in torn : \A r \in blocksSpan(ToSet(part)) : lo <= r[1] /\ r[2] <= hi

=============================================================================
