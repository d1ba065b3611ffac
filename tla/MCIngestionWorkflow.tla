------------------------ MODULE MCIngestionWorkflow ------------------------
EXTENDS IngestionWorkflow, TLC
CONSTANTS t1, t2, c1, c2
MCDeclared == (t1 :> {}) @@ (t2 :> {[column |-> c1, to |-> t1]})
MCGuesses == {{[column |-> c1, to |-> t2, strong |-> FALSE]}}
MCClassifications == {[pii |-> {}, hint |-> NoHint]}
MCHash == [t \in Tables |-> [v \in Versions |-> IF v = 3 THEN 1 ELSE v]]
MCVocabulary == [t \in Tables |-> {NoConcept}]
=============================================================================
