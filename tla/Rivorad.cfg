SPECIFICATION RivoradSpec
CONSTANTS
  None = None
  MaxWeight = 2
  LbClass = "rivora"
  LocalNode = None
  Starts <- MCStarts
  ServiceVariants <- MCServices
  SliceVariants <- MCSlices
  GatewayVariants <- MCGateways
  RouteVariants <- MCRoutes
  PolicyVariants <- MCPolicies
  SharedVariants <- MCShared
  Aggregates <- MCAggregates
  StaticPeers <- MCStatic
  IPv6NextHop = FALSE
  PeerVariants <- MCPeers
  LabelVariants = {"rack1", "rack2"}
  Nodes = {n1, n2}
  Self = n1
  Nobody = Nobody
  LeaseDuration = 6
  RenewDeadline = 4
  RetryPeriod = 1
  ReadTimeout = 1
INVARIANTS VipsAccounted   
PROPERTIES PruneSpares  Announces LanFollows ForeignKept StatusTrue
