SPECIFICATION FairSpec
CONSTANTS
  External = External
  NoRelease = NoRelease
  NoRequest = NoRequest
  Requests = {r1, r2}
  Hosts = {h1}
  Releases = {a}
  MaxHubRestarts = 1
  MaxAgentRestarts = 0
PROPERTIES
  LockReleased
  RowSettles
CHECK_DEADLOCK FALSE
