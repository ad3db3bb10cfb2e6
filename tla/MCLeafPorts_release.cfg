\* A deleted E-LAN and unregistered interfaces are eventually released, while
\* clients also register and delete service ports directly, behind the VLAN
\* tables.
CONSTANTS
  MAX_E_LINE_SERVICES = 1
  MAX_E_LAN_SERVICES = 1
  MAX_PORTS_IN_E_LAN_SERVICE = 1
  MAX_NHLFE_IN_E_LAN_SERVICE = 1
  MAX_COMMON_NEXTHOPS = 1
  NexthopRefModulus = 8
  Csps = {p0}
  NrVlans = 1
  PushLabels = {x}
  Macs = {m}
  Cbps = {b0}
  NrLabels = 1
  Threads = {master}
  Rcu = Rcu
  Free = Free
  None = None
  ServicePortApi = TRUE
  EgressApi = TRUE
  MaxRefCnt = 2
SPECIFICATION FairSpec
PROPERTIES
  ReleasedELanIsReusable
  DyingIfaceIsDetached
