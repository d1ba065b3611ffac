SPECIFICATION Spec
CONSTANTS
  p1 = p1
  s1 = s1
  s2 = s2
  p2 = p2
  k1 = k1
  a1 = a1
  q1 = q1
  twoColumns = twoColumns
  twoNodes = twoNodes
  Parts = {"retrieval"}
  RowsUpTo <- MCMixed
  QueueSize = 2
  Budgets = {4, 5}
  HasDeadline = TRUE
  MayAbandon = TRUE
  SourceMayFail = TRUE
  Paths = {p1, p2}
  Keys = {k1}
  Names <- MCNames
  Loaders = {l1, l2}
  MaxEdits = 2
  Candidate = {twoColumns, twoNodes}
  ShapeOf <- MCShapes
  Validators = {v1, v2}
  Limit = 1
  MinAlgorithms = 2
  Assets = {a1}
  PointOf <- MCPoints
  TTL <- MCTTL
  MaxEntries = 2
  MaxTime = 2
  Plan <- MCPlan
  MaxAttempts <- MCAttempts
  MaxFaults = 2
  Subjects = {s1, s2}
  TableOf <- MCTableOf
  Appenders = {w1, w2}
  MaxClock = 4
  MaxLost = 1
  Directories <- MCDirectories
  Commands = {c1, c2}
  FailFast = {c2}
  MaxMishaps <- MCMishaps
  Runtimes = {r1, r2}
  Recipes = {x1}
  MaxBreakdowns = 3
  NoOne = NoOne
PROPERTIES
  HitsAreHydrated
CHECK_DEADLOCK FALSE
