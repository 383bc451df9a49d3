\* A plain call and an https call that share a group, and a direct call.  The
\* ip_hash balancer, which chooses in one step and counts nothing, has no steps
\* of its own to race with an exchange; it is checked in Balancing.cfg.
CONSTANTS
  Calls = {c1, c2}
  DirectCalls = {d}
  Https = {c2}
  MaxReads = 1
  N = 2
  MaxFails = 1
  FailTimeout = 1
  MaxTime = 1
  U32Max = 3
  Balancings = {"RoundRobin", "LeastConnected"}
SPECIFICATION PPSpec
INVARIANTS
  PPTypeOK
  SocketsCounted
  FailuresAreFailedExchanges
PROPERTIES
  PlainCallsEnd
  EveryCallGetsAServer
  ImplementsPool
  ImplementsUpstream
