SPECIFICATION FairSpec
CONSTANTS
  a1 = a1
  a2 = a2
  e1 = e1
  u1 = u1
  Alerts = {a1}
  Entities = {e1}
  EntityOf <- MCEntityOf
  Stuck = {}
  Lanes = {l1, l2}
  Admins = {}
  Uids = {u1}
  UidOf <- MCUidOf
  Timers = {t1}
  MaxRetries = 1
  MaxCopies = 1
  MaxLapses = 0
  MaxCrashes = 1
  MaxFaults = 0
  NoAlert = NoAlert
  NoOwner = NoOwner
PROPERTIES
  AlertIsSettled
CHECK_DEADLOCK FALSE
CONSTRAINT FocusLive
