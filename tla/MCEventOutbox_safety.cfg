CONSTANTS
  k1 = k1
  k2 = k2
  e1 = e1
  e2 = e2
  Keys = {k1, k2}
  Events = {e1, e2}
  NoKey = NoKey
  MaxTries = 2
  Lease = 2
  CallTime = 1
  Cooldown = 2
  RetryDelays <- MCRetryDelays
  MaxOverdue = 1
  MaxFaults = 1
SPECIFICATION Spec
SYMMETRY Symmetry
INVARIANTS OneUnresolvedPerKey TransitionsQueued NoUnseenRecovery
PROPERTIES AckPrecedesRecovery CooldownRespected
CHECK_DEADLOCK FALSE
