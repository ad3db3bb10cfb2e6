\* A client whose call timed out is returned to the pool.
CONSTANTS
  NrClients = 2
  Callers = {s, t}
  None = None
  Calls = {c, d}
  Unknown = None
  KnownCalls <- MCKnownCalls
  MaxRestarts = 0
SPECIFICATION Spec
INVARIANT
  PooledClientIsReady
CHECK_DEADLOCK FALSE
