\* Two API endpoints: the assertion of register_common_nexthop.
CONSTANTS
  MAX_COMMON_NEIGHBORS = 1
  MAX_COMMON_NEXTHOPS = 1
  Names = {alice}
  Macs = {m1}
  Ifaces = {if0}
  Threads = {api0, api1}
  NoThread = NoThread
  Free = Free
  RefModulus = 4
  MaxHeld = 1
SPECIFICATION Spec
CHECK_DEADLOCK FALSE
INVARIANTS
  ReferenceSucceeds
