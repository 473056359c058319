CONSTANTS
  e1 = e1
  e2 = e2
  w1 = w1
  w2 = w2
  a1 = a1
  None = None
  Events = {e1, e2}
  VerifyEvents = {e2}
  Workers = {w1}
  Mortal = {}
  Admins = {a1}
  TargetOrder <- MCTargetOrder
  UniqueTargets <- MCUniqueTargets
  ClaimMax = 3
  DocMax = 3
  BatchSize = 2
  MaxFaults = 1
  MaxCrashes = 1
  MaxStops = 0
  MaxReplays = 0
SPECIFICATION FairSpec
PROPERTIES
  EventuallySettled
  RecoversMissedEffects
CHECK_DEADLOCK FALSE
