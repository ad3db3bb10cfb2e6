\* A registration fails after its nodes are registered.
SPECIFICATION Spec
CONSTANTS
  Ifaces = {i1, i2}
  NrPorts = 2
  NrNodes = 4
  LCores = {1, 2}
  Master = master
  SocketOf <- MCSocketOf
  None = None
  Failures = {"post_setup", "rte_ring_create"}
INVARIANT NoFreedMemoryInUse
SYMMETRY Symmetry
CHECK_DEADLOCK FALSE
