SPECIFICATION WritersSpec
CONSTANTS
    asset = asset  field = field  causal = causal  bundle = bundle  w1 = w1  w2 = w2
    NoTask = NoTask
    Workers = {w1, w2}
    Rows = {asset, bundle}
    KindOf <- MCKindOf
    TaskKinds <- MCAllKinds
    TaskIds = {1, 2, 3}
    BatchSize = 2
    MaxAttempts = 2
    FaultKinds = {"raise", "qdrant", "commit", "mark", "crash"}
    MaxVersion = 2
    MaxFaults = 2
    l1 = l1  l2 = l2  concepts = concepts  x = x  y = y  a1 = a1  a2 = a2  a3 = a3
    Empty = Empty
    Writers = {a1, a2, a3}
    Fields = {concepts}
    Values = {x, y}
    Documented = {asset}
    DocFields = {field, causal}
    Claims = {l1, l2}
    RowFile <- MCRowFile
    Answers <- MCAnswers
    CrossAnswers <- MCCross
    MaxPreviews = 2
    MaxImports = 1
    MaxSlips = 1
SYMMETRY MCSymmetry
INVARIANTS TypeOK ClaimExclusive AnnotationInv OverruledOnlyBeside PreviewInv
PROPERTIES OrphanIsNeverReclaimed FieldSteps
CHECK_DEADLOCK FALSE
