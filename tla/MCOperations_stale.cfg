SPECIFICATION Spec
CONSTANTS
  External = External
  NoRelease = NoRelease
  NoRequest = NoRequest
  Requests = {r1, r2}
  Hosts = {h1}
  Releases = {a, b}
  MaxHubRestarts = 0
  MaxAgentRestarts = 0
SYMMETRY Symmetry
INVARIANT
  ConfirmedExecution
CHECK_DEADLOCK FALSE
