CONSTANTS
  b1 = b1
  b2 = b2
  b3 = b3
  Vip <- MCVip
  Backend = {b1, b2, b3}
  Weight <- MCWeight
  MaxVIPs = 2
  MaxBackends = 2
  MaglevM = 5
  SizeClasses <- KubeSizeClasses
  PerBackend = 2
  MinWant = 2
  BuildTable <- MCBuildTable
  MacVips = {}
  Specs <- KubeSpecs
  Refused <- KubeRefused
  Configs = {}
  Overrides = {}
  Signals = {"drain"}
  MaxCalls = 4
  Faulty = {"backend", "health", "slot", "vip"}
  MaxFaults = 1
  MaxCrashes = 1
SPECIFICATION Spec
INVARIANTS
  TypeOK
  
  TablePartitioned
  ServiceIdsUnique
  OwnSlots
  Readopted
