SPECIFICATION FairSpec
CONSTANTS
  t1 = t1
  t2 = t2
  c1 = c1
  c2 = c2
  Tables = {t1, t2}
  Columns = {c1}
  Links = {}
  Predicates = {p1}
  Concepts = {}
  Workers = {w1, w2}
  Altered = {t1}
  MaxVersion = 3
  Hash <- MCHash
  MaxFaults = 1
  Declared <- MCDeclared
  Guesses <- MCGuesses
  Classifications <- MCClassifications
  Vocabulary <- MCVocabulary
  Stages = {}
  ReEnrich = FALSE
  MinSupport = 1
  Concurrency = 2
  Attempts = 2
INVARIANTS ThreadsInv CountedMeansStored
PROPERTIES WorkflowProgress
CHECK_DEADLOCK FALSE
