SPECIFICATION Spec
CONSTANTS
  d1 = d1  d2 = d2  b1 = b1  b2 = b2
  Docs <- MCDocs
  Batches <- MCBatches
  NoBatch = NoBatch
  NoDoc = NoDoc
  MaxOps = 3
  BatchSize = 2
  MaxInflight = 2
  MaxQueued = 1
  MaxFail = 1
  FaultKinds = {}
  MaxFaults = 0
  Deletes <- MCDeletes
  Cancels = {}
  Reparses = {}
PROPERTY Drains
INVARIANT TypeOK
CHECK_DEADLOCK FALSE
