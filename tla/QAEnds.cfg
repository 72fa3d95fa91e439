SPECIFICATION Spec
CONSTANTS
  r1 = r1  r2 = r2  r3 = r3  u1 = u1  n1 = n1  n2 = n2
  Requests <- MCRequests
  Users <- MCUsers
  UserOf <- MCUserOf
  Nodes <- OneNode
  None = None
  Workers = 2
  MaxQueue = 3
  MaxPerUser = 2
  GlobalMax = 1
  MaxStops = 0
  FaultKinds = {"incr", "decr", "gate", "ttl", "cancel", "close"}
  MaxFaults = 1
PROPERTY Ends
CHECK_DEADLOCK FALSE
