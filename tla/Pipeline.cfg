SPECIFICATION FairSpec
CONSTANTS
  t1 = t1
  t2 = t2
  c1 = c1
  c2 = c2
  cli = cli
  Tables = {t1, t2}
  Columns = {c1, c2}
  Links = {l1}
  Predicates = {p1}
  Concepts = {k1}
  Workers = {cli}
  Altered = {t1}
  MaxVersion = 3
  Hash <- MCHash
  MaxFaults = 1
  Declared <- MCDeclared
  Guesses <- MCGuesses
  Classifications <- MCClassifications
  Vocabulary <- MCVocabulary
  Stages = {"profile", "protect", "annotate"}
  ReEnrich = FALSE
  MinSupport = 2
  MaxCluster = 2
INVARIANTS RecordedMeansStored StoreInv
PROPERTIES Converges
CHECK_DEADLOCK FALSE
