SPECIFICATION Spec
CONSTANTS
  n1 = n1  n2 = n2
  Nodes <- TwoNodes
  None = None
  MaxStarts = 3
  MaxToggles = 1
  FaultKinds = {"redis", "db", "factory", "crash"}
  MaxFaults = 1

INVARIANTS Exclusive NoLeak
PROPERTIES StopsInTheEnd TakenOver
CHECK_DEADLOCK FALSE
