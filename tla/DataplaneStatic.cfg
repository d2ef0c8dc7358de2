CONSTANTS
  b1 = b1
  b2 = b2
  b3 = b3
  Vip <- MCVip
  Backend = {b1, b2}
  Weight <- MCWeight
  MaxVIPs = 2
  MaxBackends = 2
  MaglevM = 8
  SizeClasses <- MCSizeClasses
  PerBackend = 2
  MinWant = 2
  BuildTable <- MCBuildTable
  MacVips = {}
  Specs <- StaticSpecs
  Refused = {}
  Configs <- StaticConfigs
  Overrides = {0, 2}
  Signals = {"probe", "admin"}
  MaxCalls = 4
  Faulty = {}
  MaxFaults = 0
  MaxCrashes = 1
SPECIFICATION Spec
INVARIANTS
  ReloadSound
  OverridesInForce
