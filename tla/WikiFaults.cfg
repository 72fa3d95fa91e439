SPECIFICATION Spec
CONSTANTS
  d1 = d1  d2 = d2  b1 = b1  b2 = b2
  Docs <- MCDocs
  Batches <- MCBatches
  NoBatch = NoBatch
  NoDoc = NoDoc
  MaxOps = 2
  BatchSize = 2
  MaxInflight = 2
  MaxQueued = 1
  MaxFail = 0
  FaultKinds = {"crash", "panic", "timeout", "db", "llm", "redis", "ttl"}
  MaxFaults = 1
  Deletes <- MCReparses
  Cancels <- MCReparses
  Reparses <- MCReparses
SYMMETRY Symmetry
INVARIANTS ClaimsDisjoint NoneDropped SlotReleased  
CHECK_DEADLOCK FALSE
