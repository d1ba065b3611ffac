--------------------------- MODULE MCPipelineRun ---------------------------
EXTENDS PipelineRun, TLC
CONSTANTS t1, t2, c1, c2
\* t1 has two columns that look like keys, t2 one declared key.
MCDeclared == (t1 :> {}) @@ (t2 :> {[column |-> c1, to |-> t1]})
G(c, t, s) == [column |-> c, to |-> t, strong |-> s]
MCGuesses == {{}, {G(c1, t2, TRUE), G(c2, t2, TRUE)}}
MCClassifications == {[pii |-> {c1}, hint |-> [cls |-> {c2}, rls |-> FALSE]]}
\* t1 may be altered back to what it was.
MCHash == (t1 :> (0 :> 0 @@ 1 :> 1 @@ 2 :> 2 @@ 3 :> 1)) @@ (t2 :> (0 :> 0 @@ 1 :> 1 @@ 2 :> 2 @@ 3 :> 3))
\* t1 may be left without a concept.
MCVocabulary == (t1 :> Concepts \union {NoConcept}) @@ (t2 :> Concepts)
=============================================================================
