---------------------------- MODULE HeldExtents ----------------------------
(***************************************************************************)
(* The callers' side of the extent allocator: the extents their            *)
(* serviceEntries hold, whichever way the allocator represents the rest.   *)
(***************************************************************************)
EXTENDS Extents

CONSTANTS
  Total,   \* slots in maglev_table
  Sizes    \* the sizes Alloc is called with

ASSUME TotalAssumption == Total \in Nat \ {0}
ASSUME SizesAssumption == Sizes \subseteq Nat \ {0}

VARIABLE held   \* the extents handed out and not given back

\* No two extents handed out share a slot: rebuilding one VIP's table never
\* writes into another's.
Disjoint == \A e, f \in held : e # f => Slots(e) \cap Slots(f) = {}
=============================================================================
