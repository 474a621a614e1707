CONSTANTS
  k1 = k1
  k2 = k2
  e1 = e1
  e2 = e2
  Keys = {k1}
  Events = {e1}
  NoKey = NoKey
  MaxTries = 2
  Lease = 2
  CallTime = 1
  Cooldown = 2
  RetryDelays <- MCRetryDelays
  MaxOverdue = 1
  MaxFaults = 2
SPECIFICATION FairSpec
PROPERTIES RowsSettle
CHECK_DEADLOCK FALSE
