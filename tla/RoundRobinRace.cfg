\* Five calls are the fewest with which three others can take every turn of the
\* healthy server away from the last one.  Nothing expires.
CONSTANTS
  Calls = {c1, c2, c3, c4, c5}
  N = 2
  MaxFails = 1
  FailTimeout = 1
  MaxTime = 0
  U32Max = 6
  Balancings = {"RoundRobin"}
SYMMETRY Symmetry
SPECIFICATION HSpec
PROPERTIES
  RoundRobinAvoidsFailed
