SPECIFICATION FairSpec
CONSTANTS
  Notes = {"a_captured", "b_captured", "b_authorized"}
  Unsupported = {"b_authorized"}
  Keys = {"a", "b"}
  KeyOf <- MCKeyOf
  Requests = {r1}
  Workers = {w1, w2}
  ClaimMax = 2
  DocMax = 2
  BatchSize = 2
  Concurrency = 1
  None = None
  MaxDeliveries = 2
  MaxFaults = 0
  MaxCrashes = 0
  MaxStops = 0
INVARIANT NoOrphans
CHECK_DEADLOCK FALSE
PROPERTY
  IngestedIsSettled
