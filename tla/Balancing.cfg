\* Four calls on a group of two servers, with each of the three balancers.  One
\* failure makes a server unusable (max_fails is 1 in the code) and expires
\* after one tick of three.
CONSTANTS
  Calls = {c1, c2, c3, c4}
  N = 2
  MaxFails = 1
  FailTimeout = 1
  MaxTime = 2
  U32Max = 5
  Balancings = {"RoundRobin", "LeastConnected", "IpHash"}
SYMMETRY Symmetry
SPECIFICATION HSpec
INVARIANTS
  TypeOK
  ConnectionsCounted
  FailuresInOrder
  TurnsEven
  VerdictIsOfTheWindow
PROPERTIES
  LeastConnectedAvoidsFailed
  RoundRobinAvoidsFailedWhenQuiet
  LeastConnectedIsLeastLoaded
