\* Two clients that three threads use for three calls, and one restart.
CONSTANTS
  NrClients = 2
  Callers = {s, t, u}
  None = None
  Calls = {c, d, x}
  Unknown = x
  KnownCalls <- MCKnownCalls
  MaxRestarts = 1
SPECIFICATION FairSpec
INVARIANTS
  ClientExclusion
  TicketsAreConserved
  ScanSucceeds
  ReadySocketIsQuiet
PROPERTIES
  ImplementsRemoteCall
  EveryCallReturns
\* All calls have been made.
CHECK_DEADLOCK FALSE
