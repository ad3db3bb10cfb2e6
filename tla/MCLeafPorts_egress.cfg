\* An nhlfe slot of an E-LAN is used again while a label points to it.
CONSTANTS
  MAX_E_LINE_SERVICES = 0
  MAX_E_LAN_SERVICES = 1
  MAX_PORTS_IN_E_LAN_SERVICE = 1
  MAX_NHLFE_IN_E_LAN_SERVICE = 1
  MAX_COMMON_NEXTHOPS = 1
  NexthopRefModulus = 8
  Csps = {}
  NrVlans = 1
  PushLabels = {x, y}
  Macs = {}
  Cbps = {b0}
  NrLabels = 1
  Threads = {master}
  Rcu = Rcu
  Free = Free
  None = None
  ServicePortApi = FALSE
  EgressApi = TRUE
  MaxRefCnt = 4
SPECIFICATION Spec
INVARIANTS
  EgressReachesSource
