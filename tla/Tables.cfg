SPECIFICATION TablesSpec
CONSTANTS
  asset = asset  field = field  causal = causal  bundle = bundle  w1 = w1  w2 = w2
  NoTask = NoTask
  Workers = {w1}
  Rows = {asset, causal}
  KindOf <- MCKindOf
  TaskKinds <- MCDefaultKinds
  TaskIds = {1, 2, 3}
  BatchSize = 2
  MaxAttempts = 2
  FaultKinds = {"raise", "commit", "mark", "crash"}
  MaxVersion = 2
  MaxFaults = 2
  c1 = c1  c2 = c2  n1 = n1  n2 = n2  n3 = n3  v = v  u = u
  default = default  pg = pg  None = None
  MaxId = 2
  KeyValues = {v, u}
  Payloads <- MCPayloads
  DeleteBy <- MCDeleteBy
  StoreUsers = {c1, c2}
  PageLimit = 1
  SweepPage = 1
  MaxWrites = 4
  Shelf = {n1, n2, n3}
  NameOf <- MCNames
  PageSize = 1
  MaxMoves = 2
  StopWords = {"id"}
  ShortWords = {"of"}
  NoName = None
  Whole = pg
  Fields = {n1, n2}
  PrimaryKeys = {n1}
  FkShaped = {n2}
  Cards = {v, u}
  CausalNodes = {u}
  Unknown = default
  Databases <- MCDatabases
  Wanted = {"a"}
  MaxDdl = 1
INVARIANTS
  SettledMeansFresh
  VectorInv
  ReadsOK
  EnrichmentOK
PROPERTIES
  MirrorSpec
  WorkConverges
  VectorSteps
CHECK_DEADLOCK FALSE
