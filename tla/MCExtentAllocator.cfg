CONSTANTS
  Total <- MCTotal
  Sizes <- MCSizes
SPECIFICATION Spec
INVARIANTS
  Disjoint
  FreeListExact
PROPERTIES
  RefinesPool
