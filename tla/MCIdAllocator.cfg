CONSTANTS
  k1 = k1
  k2 = k2
  k3 = k3
  k4 = k4
  Key <- MCKey
  Max <- MCMax
SPECIFICATION Spec
INVARIANTS
  NoSharedId
  Partition
PROPERTIES
  StableIds
