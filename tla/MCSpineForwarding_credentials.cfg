CONSTANTS
  MAX_COMMON_NEXTHOPS = 2
  MAX_MULTICAST_NEXT_HOPS = 1
  MAX_HOPS_IN_MULTICAST_GROUP = 2
  RefModulus = 5
  NrLabels = 2
  PushLabels = {x, y}
  SwapLabels = {y}
  Pbps = {p0, p1}
  Threads = {api}
  Rcu = Rcu
  Free = Free
  None = None
  MaxBurst = 2
  PBP_CACHE_SIZE = 1
  MaxChanges = 2
  MaxBursts = 1
  Decisions <- SpineDecisions
SPECIFICATION ForwardingSpec
SYMMETRY Symmetry
INVARIANTS
  CredentialsAreReady
