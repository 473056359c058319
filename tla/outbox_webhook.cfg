\* One event of the payment webhook, two workers, every kind of trouble once.
CONSTANTS
  e1 = e1
  w1 = w1
  w2 = w2
  a1 = a1
  None = None
  Events = {e1}
  VerifyEvents = {}
  Workers = {w1, w2}
  Mortal = {w1, w2}
  Admins = {a1}
  TargetOrder <- MCTargetOrder
  UniqueTargets <- MCUniqueTargets
  ClaimMax = 2
  DocMax = 2
  BatchSize = 2
  MaxFaults = 2
  MaxCrashes = 1
  MaxStops = 1
  MaxReplays = 2
SPECIFICATION Spec
SYMMETRY WorkerSymmetry
INVARIANTS
  TypeOK
  WebhookProcessedIsCovered
  StrandedIsBounded
  OverlapOnlyAfterTakeover
  DeadLetterIsExhausted
PROPERTIES
  ProgressIsKept
  KeepsItsPromise
CHECK_DEADLOCK FALSE
