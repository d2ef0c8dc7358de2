CONSTANTS
  Vip <- MCVip
  Backend <- MCBackend
  Weight = {1}
  MaxVIPs = 2
  MaxBackends = 3
  MaglevM = 7
  SizeClasses <- MCSizeClasses
  PerBackend = 2
  MinWant = 2
  BuildTable <- MCBuildTable
  MacVips = {}
  Specs <- MCSpecs
  Refused = {}
  Configs <- MCConfigs
  Overrides = {}
  Signals = {"probe", "admin"}
  MaxCalls = 9
  Faulty = {}
  MaxFaults = 0
  MaxCrashes = 1
  PortBits = 3
  WordBits = 2
  Second = 2
  Cpu = {1, 2}
  Flow <- MCFlow
  V6 = {"a6"}
  Key <- MCKey
  At <- MCAt
  Hash5 <- MCHash5
  HashSrc <- MCHashSrc
  NodeLimit <- MCNodeLimit
  Sourced = {TRUE, FALSE}
  Mtu = 1500
  Scripts <- MCScripts
SPECIFICATION PacketSpec
INVARIANTS
  OwnBackend
  FragmentsFollow
  
  PmtuSettles
  AlgorithmsExact
PROPERTIES
  ReplySource
  Sticky
  
