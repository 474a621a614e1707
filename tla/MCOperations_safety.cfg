SPECIFICATION Spec
CONSTANTS
  External = External
  NoRelease = NoRelease
  NoRequest = NoRequest
  Requests = {r1, r2}
  Hosts = {h1}
  Releases = {a, b}
  MaxHubRestarts = 1
  MaxAgentRestarts = 1
SYMMETRY Symmetry
INVARIANTS
  AuditedBeforeContact
  SingleExecution
  TruthfulRow
  OneHelperPerHost
  NoAbandonedRow
PROPERTIES
  ImplementsLedger
CHECK_DEADLOCK FALSE
