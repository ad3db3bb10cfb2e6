\* Observation: as many references as a ref_cnt has values.
CONSTANTS
  MAX_COMMON_NEIGHBORS = 1
  MAX_COMMON_NEXTHOPS = 1
  Names = {alice}
  Macs = {m1}
  Ifaces = {if0}
  Threads = {api0}
  NoThread = NoThread
  Free = Free
  RefModulus = 2
  MaxHeld = 2
SPECIFICATION Spec
CHECK_DEADLOCK FALSE
PROPERTIES
  ImplementsRegistry
