--------------------------- MODULE MCStoreWriters ---------------------------
(* Concurrent writers, one sort at a time: the workers of the queue, the       *)
(* writers of annotations, or the pipeline and the import over a preview tree. *)
EXTENDS MCReindexWorker, AnnotationDAO, PreviewTree

CONSTANTS concepts, x, y, a1, a2, a3, l1, l2
VARIABLE focus

WritersInit ==
  /\ Init /\ AnnotationInit /\ PreviewInit
  /\ focus \in {"queue", "annotations", "preview"}
  /\ focus # "annotations" => value = NoValues

WritersNext ==
  \/ focus = "queue" /\ Next /\ UNCHANGED <<focus, annotationVars, previewVars>>
  \/ focus = "annotations" /\ AnnotationNext /\ UNCHANGED <<focus, vars, previewVars>>
  \/ focus = "preview" /\ PreviewNext /\ UNCHANGED <<focus, vars, annotationVars>>

WritersSpec == WritersInit /\ [][WritersNext]_<<focus, vars, annotationVars, previewVars>>

\* Only a predicate on rows is found in a table, or everything else is; a claim across tables has the
\* file name of the one about a table.
MCAnswers ==
  {[bundle |-> FALSE, rows |-> FALSE, pii |-> {}, cls |-> {}, rls |-> TRUE,
    rels |-> FALSE, claims |-> {}],
   [bundle |-> TRUE, rows |-> TRUE, pii |-> {field}, cls |-> {causal}, rls |-> FALSE,
    rels |-> TRUE, claims |-> {l1}]}
MCCross == {{l2}}
MCRowFile == (l1 :> "a") @@ (l2 :> "a")

\* The sessions that annotate an asset are alike, and so are the values.
MCSymmetry == Permutations({a1, a2, a3}) \union Permutations({x, y})
=============================================================================
