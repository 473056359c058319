SPECIFICATION Spec
CONSTANTS
  Notes = {"a_captured"}
  Unsupported = {}
  Keys = {"a"}
  KeyOf <- MCKeyOf
  Requests = {r1}
  Workers = {w1}
  ClaimMax = 2
  DocMax = 2
  BatchSize = 1
  Concurrency = 1
  None = None
  MaxDeliveries = 2
  MaxFaults = 1
  MaxCrashes = 0
  MaxStops = 0
CHECK_DEADLOCK FALSE
INVARIANT
  AckedIsIngested
