SPECIFICATION MCSpec
CONSTANTS
  e1 = e1
  e2 = e2
  e3 = e3
  log = log
  dep1 = dep1
  dep2 = dep2
  Events = {e1, e2, e3}
  HostOf <- MCHostOf
  Filters <- MCFilters
  DefaultFilter <- MCDefault
  Hosts = {"h1"}
  Tokens = {1, 2, 3, 4, 5, 6}
  NoEvent = NoEvent
  NoToken = 0
  MaxPage = 2
  PageSize = 1
  TokenLimit = 2
  MaxChanges = 1
  MaxMoves = 4
  Slots = {c1, c2}
  Actions = {log}
  Deployments = {dep1, dep2}
  AgentOf <- MCAgentOf
  NoItem = NoItem
  MaxSubmits = 3
  MaxOpenings = 3
  MaxSessions = 2
SYMMETRY MCSymmetry
INVARIANTS
  ListIsPrefix
  BusyHasOwner
  ResultsOwned
  OneSubmission
PROPERTIES
  RowsKept
  RowsLeaveFilter
CHECK_DEADLOCK FALSE
