\* Two ports, four nodes: a port is used again while its last interface is freed, and
\* an interface and its tap device live beside a registration that fails.
SPECIFICATION FairSpec
CONSTANTS
  Ifaces = {i1, i2, i3}
  NrPorts = 2
  NrNodes = 4
  LCores = {1, 2}
  Master = master
  SocketOf <- MCSocketOf
  None = None
  Failures = {"rte_eth_dev_configure", "post_setup"}
INVARIANTS
  WalksAreSafe IndicesLeadToOwnNodes NodesAreScheduled PeersAreMutual
PROPERTY WithdrawnIfaceIsFreed
