\* Observation: as many references to a next hop as a ref_cnt has values.
CONSTANTS
  MAX_COMMON_NEXTHOPS = 1
  MAX_MULTICAST_NEXT_HOPS = 1
  MAX_HOPS_IN_MULTICAST_GROUP = 2
  RefModulus = 3
  NrLabels = 2
  PushLabels = {x, y}
  SwapLabels = {s}
  Pbps = {p0, p1}
  Threads = {api0}
  Rcu = Rcu
  Free = Free
  None = None
SPECIFICATION Spec
INVARIANTS
  LabelsResolve
