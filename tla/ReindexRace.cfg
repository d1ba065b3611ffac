SPECIFICATION Spec
CONSTANTS
    asset = asset  field = field  causal = causal  bundle = bundle  w1 = w1  w2 = w2
    NoTask = NoTask
    Workers = {w1, w2}
    Rows = {asset}
    KindOf <- MCKindOf
    TaskKinds <- MCDefaultKinds
    TaskIds = {1, 2}
    BatchSize = 1
    MaxAttempts = 2
    FaultKinds = {}
    MaxVersion = 2
    MaxFaults = 0
INVARIANTS SettledMeansFresh
CHECK_DEADLOCK FALSE
