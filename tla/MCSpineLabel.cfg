\* Two API threads and the RCU thread on the groups and FIBs of a spine; fair
\* calls and a fair RCU thread detach every unregistered port.
CONSTANTS
  MAX_COMMON_NEXTHOPS = 1
  MAX_MULTICAST_NEXT_HOPS = 1
  MAX_HOPS_IN_MULTICAST_GROUP = 2
  RefModulus = 5
  NrLabels = 2
  PushLabels = {x, y}
  SwapLabels = {s}
  Pbps = {p0, p1}
  Threads = {api0, api1}
  Rcu = Rcu
  Free = Free
  None = None
SPECIFICATION FairSpec
INVARIANTS
  NexthopAccounting
  MnexthopAccounting
  LabelsResolve
PROPERTIES
  DyingPortIsDetached
