SPECIFICATION Spec
CONSTANTS
  a1 = a1
  a2 = a2
  e1 = e1
  u1 = u1
  Alerts = {a1, a2}
  Entities = {e1}
  EntityOf <- MCEntityOf
  Stuck = {a1}
  Lanes = {l1, l2}
  Admins = {m1}
  Uids = {u1}
  UidOf <- MCUidOf
  Timers = {t1}
  MaxRetries = 1
  MaxCopies = 1
  MaxLapses = 1
  MaxCrashes = 1
  MaxFaults = 1
  NoAlert = NoAlert
  NoOwner = NoOwner
INVARIANTS
  TypeOK
  OverlapIsBounded
  CancelledIsExhausted
CHECK_DEADLOCK FALSE
CONSTRAINT Focus
SYMMETRY Symmetry
