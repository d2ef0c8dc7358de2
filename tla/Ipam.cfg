CONSTANTS
  Bits <- MCBits
  OctetBits = 2
  MaxEagerHostBits = 1
  MaxRange = 2
  NoAddr = NoAddr
  Service = {"s1"}
  Gateway = {"g1"}
  Key <- MCKey
  Want <- MCWant
  InitObjects <- OneEach
  PoolSets <- MCPoolSets
  MaxEdits = 2
  MaxCrashes = 1
  MaxFaults = 1
SPECIFICATION Spec
INVARIANTS   PoolsExact
PROPERTIES  Converges
CHECK_DEADLOCK FALSE
