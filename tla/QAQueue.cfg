SPECIFICATION Spec
CONSTANTS
  r1 = r1  r2 = r2  r3 = r3  u1 = u1  n1 = n1  n2 = n2
  Requests <- MCRequests
  Users <- MCUsers
  UserOf <- MCUserOf
  Nodes <- MCNodes
  None = None
  Workers = 2
  MaxQueue = 1
  MaxPerUser = 2
  GlobalMax = 1
  MaxStops = 1
  FaultKinds = {"incr", "gate", "marker", "crash", "cancel"}
  MaxFaults = 1
SYMMETRY Symmetry
INVARIANTS CountersExact LimitsHold StopReaches
CHECK_DEADLOCK FALSE
