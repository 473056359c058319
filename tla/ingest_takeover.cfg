SPECIFICATION Spec
CONSTANTS
  Notes = {"a_captured", "a_failed"}
  Unsupported = {}
  Keys = {"a"}
  KeyOf <- MCKeyOf
  Requests = {r1, r2}
  Workers = {w1, w2}
  ClaimMax = 2
  DocMax = 2
  BatchSize = 1
  Concurrency = 1
  None = None
  MaxDeliveries = 2
  MaxFaults = 1
  MaxCrashes = 1
  MaxStops = 2
CHECK_DEADLOCK FALSE
SYMMETRY Symmetry
INVARIANTS
  TypeOK
  ProcessedIsHandled
  OverlapOnlyAfterStop
PROPERTY
  QueueSpec
