\* One call to an https server.
CONSTANTS
  Calls = {c1}
  DirectCalls = {}
  Https = {c1}
  MaxReads = 1
  N = 1
  MaxFails = 1
  FailTimeout = 1
  MaxTime = 0
  U32Max = 2
  Balancings = {"RoundRobin", "LeastConnected", "IpHash"}
SPECIFICATION PPSpec
PROPERTIES
  AllCallsEnd
