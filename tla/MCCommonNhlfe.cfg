\* Two API endpoints (ENABLE_MULTIPLE_API_ENDPOINT): callbacks on two lcores.
CONSTANTS
  MAX_COMMON_NEIGHBORS = 2
  MAX_COMMON_NEXTHOPS = 3
  Names = {alice, bob}
  Macs = {m1, m2}
  Ifaces = {if0, if1}
  Threads = {api0, api1}
  NoThread = NoThread
  Free = Free
  RefModulus = 4
  MaxHeld = 3
SPECIFICATION Spec
\* A failed E3_ASSERT ends the process.
CHECK_DEADLOCK FALSE
INVARIANTS
  TypeOK
  NexthopAccounting
  NeighborAccounting
PROPERTIES
  ImplementsRegistry
