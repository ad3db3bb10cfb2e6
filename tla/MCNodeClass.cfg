CONSTANTS
  MAX_NR_NODES = 2
  MAX_NODE_IN_CLASS = 2
  CountModulus = 3
  Senders = {s1, s2}
  Sockets = {0, 1}
  SocketOf <- MCSocketOf
  None = None
SPECIFICATION Spec
INVARIANTS
  AttachmentsAreCounted
PROPERTIES
  OnlyAddsMakeMembers
