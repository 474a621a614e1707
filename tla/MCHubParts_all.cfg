SPECIFICATION MCSpec
CONSTANTS
  a = a
  b = b
  f = f
  h1 = h1
  h2 = h2
  u1 = u1
  u2 = u2
  u3 = u3
  j1 = j1
  j2 = j2
  j3 = j3
  Hosts = {h1, h2}
  Keys = {k}
  Contents = {a, b}
  Unset = Unset
  NoFile = NoFile
  Files = {f}
  LegacyNotes <- MCNotes
  Editors = {x, y}
  MaxEdits = 2
  MaxStarts = 3
  Services = {s1, s2}
  Urls = {u1, u2, u3}
  NoUrl = NoUrl
  Views <- MCViews
  MaxTargets = 2
  Concurrency = 1
  Requests = {q1, q2}
  MaxViews = 1
  Jobs = {j1, j2, j3}
  WorkOf <- MCWork
  AgentIDs = {"a", "b"}
  Records = {"r", "s"}
  Absent = "absent"
  MaxHandEdits = 1
  Releases = {"old", "new", "edited"}
  PlanOf <- MCPlan
  Destinations = {"shared", "bundle", "final"}
  PathOf <- MCPath
  NoDatabase = NoDatabase
  Partial = Partial
  MaxRuns = 4
  Clients = {"c", "d"}
  Logins = {l1, l2}
  Calls = {g1, g2}
  Threshold = 1
  MaxDelay = 3
  IdleTTL = 4
  VerifySlots = 1
  FailThreshold = 2
  Window = 2
  Lockout = 2
  MaxTime = 5
  MaxAttempts = 5
  Helpers = {"stopper", "restarter", "reader"}
  Approvals <- MCApprovals
  RequestOf <- MCRequest
  MaxPolicies = 1
  MaxDrifts = 1
INVARIANTS
  CopyMatchesRows
  EditsSurvive
  ProbeRecordWhole
  MigrationContinued
  BackupIsWhole
  RollbackServes
PROPERTIES
  ComparedIsRead
  LockHolds
  SuccessIsOwn
CHECK_DEADLOCK FALSE
