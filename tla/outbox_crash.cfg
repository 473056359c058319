CONSTANTS
  e1 = e1
  w1 = w1
  w2 = w2
  a1 = a1
  None = None
  Events = {e1}
  VerifyEvents = {}
  Workers = {w1, w2}
  Mortal = {w1, w2}
  Admins = {a1}
  TargetOrder <- MCTargetOrder
  UniqueTargets <- MCUniqueTargets
  ClaimMax = 2
  DocMax = 2
  BatchSize = 2
  MaxFaults = 0
  MaxCrashes = 2
  MaxStops = 0
  MaxReplays = 0
SPECIFICATION FairSpec
PROPERTY RecoversMissedEffects
CHECK_DEADLOCK FALSE
