------------------------------- MODULE Maglev -------------------------------
(***************************************************************************)
(* internal/maglev: the lookup table.  A backend of weight w has w virtual *)
(* entries, each with its own walk through the slots, (offset + n * skip)  *)
(* mod m; the entries take turns, each taking the first free slot of its   *)
(* walk, until the table is full.  The hash that gives an entry its walk   *)
(* is left open: walk is the function from <<backend, copy>> to its        *)
(* [offset, skip].                                                         *)
(***************************************************************************)
EXTENDS Integers, Sequences, FiniteSets

LOCAL INSTANCE FiniteSetsExt
LOCAL INSTANCE SequencesExt

\* NormalizeWeight: a weight of 0 counts as 1.
Effective(w) == IF w = 0 THEN 1 ELSE w

\* The virtual entries, by the backends in their order.
Virtuals(backends) ==
  FlattenSeq([i \in DOMAIN backends |->
                [c \in 1 .. Effective(backends[i].weight) |-> <<backends[i].name, c - 1>>]])

\* maglev.BuildTable refuses an empty set and a table no larger than the total weight.
CanBuild(m, backends) == backends # << >> /\ Len(Virtuals(backends)) < m

Unfilled == "unfilled"

\* The places of entry v's walk, from its next one on, whose slot is free; with a
\* skip that shares no factor with m there is one within m places.
FreePlaces(fill, v, m, at) ==
  {n \in fill.next[v] .. fill.next[v] + m - 1 :
     fill.table[(at[v].offset + n * at[v].skip) % m] = Unfilled}

FillTable(m, backends, walk) ==
  LET virtuals == Virtuals(backends)
      at == [v \in DOMAIN virtuals |-> walk[virtuals[v]]]
      turn(fill, t) ==
        LET v == 1 + ((t - 1) % Len(virtuals))
            n == Min(FreePlaces(fill, v, m, at))
        IN [table |-> [fill.table EXCEPT ![(at[v].offset + n * at[v].skip) % m] = virtuals[v][1]],
            next |-> [fill.next EXCEPT ![v] = n + 1]]
      start == [table |-> [s \in 0 .. m - 1 |-> Unfilled], next |-> [v \in DOMAIN virtuals |-> 0]]
  IN FoldLeft(turn, start, [t \in 1 .. m |-> t]).table

\* Whatever the hash, a table of prime size is full and a backend has its weight's
\* share of it, to within one slot for each of its virtual entries.
Fair(m, backends, walk) ==
  CanBuild(m, backends) =>
    LET table == FillTable(m, backends, walk)
        total == Len(Virtuals(backends))
        won(i) == Cardinality({s \in DOMAIN table : table[s] = backends[i].name})
    IN /\ Unfilled \notin {table[s] : s \in DOMAIN table}
       /\ \A i \in DOMAIN backends :
            LET w == Effective(backends[i].weight)
            IN w * (m \div total) <= won(i) /\ won(i) <= w * (m \div total + 1)

=============================================================================
