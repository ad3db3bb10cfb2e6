\* E-LINE and E-LAN services, one API endpoint: VLAN ports and a label FIB
\* compete for the services while interfaces come and go; nhlfes, multicast and
\* MAC entries of the E-LAN against its deletion.
CONSTANTS
  MAX_E_LINE_SERVICES = 2
  MAX_E_LAN_SERVICES = 1
  MAX_PORTS_IN_E_LAN_SERVICE = 2
  MAX_NHLFE_IN_E_LAN_SERVICE = 1
  MAX_COMMON_NEXTHOPS = 1
  NexthopRefModulus = 8
  Csps = {p0, p1}
  NrVlans = 1
  PushLabels = {x}
  Macs = {m}
  Cbps = {b0}
  NrLabels = 2
  Threads = {master}
  Rcu = Rcu
  Free = Free
  None = None
  ServicePortApi = FALSE
  EgressApi = FALSE
  MaxRefCnt = 4
SYMMETRY Symmetry
SPECIFICATION Spec
INVARIANTS
  NexthopAccounting
  ServiceAccounting
  VlansMatchPorts
  LabelsResolve
  NoStaleMac
