CONSTANTS
  p0 = p0
  p1 = p1
  b0 = b0
  m1 = m1
  MAX_E_LINE_SERVICES = 1
  MAX_E_LAN_SERVICES = 2
  MAX_PORTS_IN_E_LAN_SERVICE = 3
  MAX_NHLFE_IN_E_LAN_SERVICE = 1
  MAX_COMMON_NEXTHOPS = 1
  NexthopRefModulus = 8
  Csps = {p0, p1}
  NrVlans = 2
  PushLabels = {x}
  Macs = {m1, m2}
  Cbps = {b0}
  NrLabels = 2
  Threads = {master}
  Rcu = Rcu
  Free = Free
  None = None
  ServicePortApi = FALSE
  EgressApi = TRUE
  MaxRefCnt = 4
  CACHE_SIZE = 1
  RING_SIZE = 1
  InitVlans <- MCVlans
  InitLabels <- MCLabels
  InitPorts <- MCPorts
  InitFibs <- MCFibs
  MaxBurst = 1
  MaxChanges = 1
  MaxBursts = 1
  Decisions <- LeafDecisions
SPECIFICATION ForwardingSpec
INVARIANTS
  NoStaleMac
