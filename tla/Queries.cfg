SPECIFICATION Spec
CONSTANTS
  pg = pg  sf = sf  c1 = c1  c2 = c2  c3 = c3  o1 = o1  o2 = o2
  default = default  p1 = p1  p2 = p2
  None = None
  Sources = {pg, sf}
  Clients = {c1, c2, c3}
  Pools = {o1, o2}
  MaxSize = 1
  MaxCloses = 1
  Queries = {c1, c2}
  Tenants = {default, t}
  Default = default
  MaxEdits = 1
  Runs = {r1, r2}
  Cases = {k1}
  Scorers <- MCScorers
  Processes = {p1, p2}
  ClaimLimit = 2
  MaxFailures = 1
INVARIANTS
  PoolInv
  NoLeak
  FederationOK
  EvalInv
PROPERTIES
  QueriesEnd
CHECK_DEADLOCK FALSE
