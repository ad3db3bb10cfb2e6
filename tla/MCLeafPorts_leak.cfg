\* A client registers the port of an E-LINE service twice.
CONSTANTS
  MAX_E_LINE_SERVICES = 1
  MAX_E_LAN_SERVICES = 0
  MAX_PORTS_IN_E_LAN_SERVICE = 1
  MAX_NHLFE_IN_E_LAN_SERVICE = 1
  MAX_COMMON_NEXTHOPS = 0
  NexthopRefModulus = 8
  Csps = {p0}
  NrVlans = 1
  PushLabels = {x}
  Macs = {}
  Cbps = {}
  NrLabels = 1
  Threads = {master}
  Rcu = Rcu
  Free = Free
  None = None
  ServicePortApi = TRUE
  EgressApi = FALSE
  MaxRefCnt = 4
SPECIFICATION Spec
INVARIANTS
  ReferencedELineHasUser
