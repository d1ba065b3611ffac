---------------------------- MODULE PreviewTree ----------------------------
(***************************************************************************)
(* The preview sink and the import of what it leaves.  A run of the        *)
(* pipeline writes to a tree of files what the store and Qdrant would      *)
(* receive; a script reads the tree and upserts it into Qdrant.  A file    *)
(* appears whole, by a rename.  The script may run beside the pipeline,    *)
(* any write or upsert may fail and either process may die.                *)
(***************************************************************************)
EXTENDS Naturals, SequencesExt

CONSTANTS Documented,  \* the tables of the pipeline
          DocFields,   \* the columns of each
          Claims,      \* candidates the LLM may propose, in a table or across tables
          RowFile,     \* [Claims -> file names]: the name of the row of a candidate
          Answers,     \* what the profiler and the LLM may say of a table
          CrossAnswers,\* what the LLM may propose across tables
          MaxPreviews, MaxImports, MaxSlips  \* bounds: runs, imports, failures

VARIABLES tree,     \* path :> what the file says, and (history) the run that wrote it
          mdlDir,   \* whether the directory mdl/ is there
          queued,   \* the lines of reindex_queue.jsonl
          preview,  \* the run of the pipeline
          importer, \* the run of the script
          indexed,  \* point id :> payload, in Qdrant
          imports, slips

previewVars == <<tree, mdlDir, queued, preview, importer, indexed, imports, slips>>

ASSUME PreviewAssumption ==
  /\ Answers \subseteq [bundle : BOOLEAN, rows : BOOLEAN, pii : SUBSET DocFields,
                        cls : SUBSET DocFields, rls : BOOLEAN, rels : BOOLEAN,
                        claims : SUBSET Claims]
  /\ CrossAnswers \subseteq SUBSET Claims /\ IsFiniteSet(Claims)
  /\ DOMAIN RowFile = Claims
  /\ {MaxPreviews, MaxImports, MaxSlips} \subseteq Nat

TableOps == <<"spine", "aggregates", "protect", "relate", "cause", "samples", "model">>
WithoutBundle == <<"protect", "relate", "cause", "model">>
PassOps == <<"cross", "schema">>
\* _route_enrichment_side_output and _run_cross_asset_causal catch what the sink raises.
Routed == {"protect", "relate", "cause", "cross"}
EventDirs == <<"causal", "relation", "protection">>

NoPreview(n) == [run |-> n, phase |-> "idle", left |-> {}, todo |-> <<>>,
                 inferred |-> FALSE]
NoImport == [at |-> "idle", left |-> {}, lost |-> {}, quiet |-> FALSE,
             asset |-> CHOOSE a \in Documented : TRUE, flags |-> {}]

PreviewInit ==
  /\ tree = <<>> /\ mdlDir = FALSE /\ queued = {} /\ indexed = <<>>
  /\ preview = NoPreview(0) /\ importer = NoImport
  /\ imports = 0 /\ slips = 0

PreviewTypeOK ==
  /\ preview.run \in 0 .. MaxPreviews
  /\ preview.phase \in {"idle", "tables", "passes"}
  /\ preview.left \subseteq Documented
  /\ importer.at \in {"idle", "assets", "fields", "done"} \union Range(EventDirs)
  /\ imports \in 0 .. MaxImports /\ slips \in 0 .. MaxSlips

With(f, x, y) == [z \in DOMAIN f \union {x} |-> IF z = x THEN y ELSE f[z]]
Slips == slips < MaxSlips /\ slips' = slips + 1

-----------------------------------------------------------------------------
(* The files an operation of the sink writes, in order. *)

File(path, says) == [path |-> path, says |-> says, line |-> FALSE]

\* Mutant of Emitted: the line is queued before its event is written.
EmittedLast(kind, key, says) ==
  LET path == <<"event", kind, key, preview.run>>
  IN <<[path |-> path, says |-> says, line |-> TRUE], File(path, says)>>

\* An event has an id of its own; its file is written, then its line is queued.
Emitted(kind, key, says) ==
  LET path == <<"event", kind, key, preview.run>>
  IN <<File(path, says), [path |-> path, says |-> says, line |-> TRUE]>>

RowThenEvent(row, kind, key, says) == <<File(row, says)>> \o Emitted(kind, key, says)

\* An empty list writes nothing: the file of an earlier run stays.
CandidateFiles(label, claims) ==
  IF claims = {} THEN <<>>
  ELSE <<File(<<"causal", label>>, claims)>>
       \o FlattenSeq([i \in 1 .. Cardinality(claims) |->
            LET c == SetToSeq(claims)[i]
            IN RowThenEvent(<<"row", RowFile[c]>>, "causal", <<label, c>>, c)])

\* Columns to protect, predicates on rows, or both.
HintFiles(a, x) ==
  IF x.cls = {} /\ ~x.rls THEN <<>>
  ELSE <<File(<<"hints", a>>, x.pii \union x.cls)>>
       \o RowThenEvent(<<"row", "hint", a>>, "protection", a, x.cls)

\* Values of the columns that this run did not flag, with the rows of the sample
\* if there are any; table_stat says that samples were persisted in any case.
SampleFiles(a, x) ==
  LET safe == DocFields \ (x.pii \union x.cls)
  IN (IF x.rows THEN <<File(<<"samples", a>>, safe)>> ELSE <<>>)
     \o <<File(<<"row", "table", a>>, TRUE)>>
     \o (IF x.rows /\ safe # {} THEN <<File(<<"row", "columns' samples", a>>, safe)>> ELSE <<>>)

SchemaFiles ==
  IF ~preview.inferred THEN <<>>
  ELSE <<File(<<"relation schema">>, "types and edges")>>
       \o RowThenEvent(<<"row", "type">>, "relation", "type", "type")
       \o RowThenEvent(<<"row", "edge">>, "relation", "edge", "edge")

\* The model of the early write is not yet classified.
FilesOf(op, a, x) ==
  CASE op = "spine" -> <<File(<<"mdl", a>>, {})>>
    [] op = "model" -> <<File(<<"mdl", a>>, x.pii), File(<<"annotations", a>>, {})>>
    [] op = "aggregates" -> <<File(<<"aggregates", a>>, DocFields),
                              File(<<"row", "columns", a>>, DocFields),
                              File(<<"row", "table", a>>, FALSE)>>
    [] op = "protect" -> HintFiles(a, x)
    [] op = "relate" -> IF x.rels THEN <<File(<<"rels", a>>, {})>> ELSE <<>>
    [] op = "cause" -> CandidateFiles(a, x.claims)
    [] op = "samples" -> SampleFiles(a, x)

-----------------------------------------------------------------------------
(* A run of the pipeline over this sink. *)

\* What is left to write, each file with the operation it belongs to.
Todo(ops, FilesFor(_)) ==
  FlattenSeq([i \in DOMAIN ops |-> [k \in DOMAIN FilesFor(ops[i]) |->
    [op |-> ops[i], file |-> FilesFor(ops[i])[k]]]])

Working(phase) ==
  /\ preview.phase = phase /\ preview.todo = <<>>
  /\ UNCHANGED <<tree, mdlDir, queued, importer, indexed, imports, slips>>

BeginPreview ==
  /\ Working("idle") /\ preview.run < MaxPreviews
  /\ preview' = [NoPreview(preview.run + 1) EXCEPT !.phase = "tables", !.left = Documented]

\* A table is taken; its operations follow one another.
TakeTable(a, x) ==
  LET Files(op) == FilesOf(op, a, x)
  IN /\ Working("tables") /\ a \in preview.left
     /\ preview' = [preview EXCEPT !.left = @ \ {a}, !.inferred = @ \/ x.rels,
                                   !.todo = Todo(IF x.bundle THEN TableOps ELSE WithoutBundle, Files)]

\* Its content hash is the one of an earlier run.
TakeUnchanged(a) ==
  /\ Working("tables") /\ a \in preview.left
  /\ preview' = [preview EXCEPT !.left = @ \ {a}]

BeginPasses(claims) ==
  LET Files(op) == IF op = "cross" THEN CandidateFiles("cross", claims) ELSE SchemaFiles
  IN /\ Working("tables") /\ preview.left = {}
     /\ preview' = [preview EXCEPT !.phase = "passes", !.todo = Todo(PassOps, Files)]

\* The directory of a file is made before the file is.
MakesDir == preview.todo # <<>> /\ Head(preview.todo).file.path[1] = "mdl"

\* A temporary file is written and renamed, or a line is appended.
Put ==
  /\ preview.todo # <<>> /\ mdlDir' = (mdlDir \/ MakesDir)
  /\ LET w == Head(preview.todo).file
     IN IF w.line THEN queued' = queued \union {w.path} /\ UNCHANGED tree
        ELSE /\ tree' = With(tree, w.path, [says |-> w.says, run |-> preview.run])
             /\ UNCHANGED queued
  /\ preview' = [preview EXCEPT !.todo = Tail(@)]
  /\ importer' = [importer EXCEPT !.quiet = FALSE]
  /\ UNCHANGED <<indexed, imports, slips>>

\* What is left to write without the operation at the head; the files of an operation
\* are next to each other.
GivenUp(todo) ==
  LET others == {k \in DOMAIN todo : todo[k].op # Head(todo).op}
  IN IF others = {} THEN <<>>
     ELSE SubSeq(todo, CHOOSE k \in others : \A l \in others : k <= l, Len(todo))

\* A write raises.  What is routed is given up, a table is an error, the
\* write of the relation schema ends the run.
PutFails ==
  /\ preview.todo # <<>> /\ Slips /\ mdlDir' \in {mdlDir, mdlDir \/ MakesDir}
  /\ LET op == Head(preview.todo).op
     IN preview' = IF op \in Routed THEN [preview EXCEPT !.todo = GivenUp(@)]
                   ELSE IF op = "schema" THEN NoPreview(preview.run)
                   ELSE [preview EXCEPT !.todo = <<>>]
  /\ UNCHANGED <<tree, queued, importer, indexed, imports>>

EndPreview ==
  /\ Working("passes")
  /\ preview' = NoPreview(preview.run)

PreviewDies ==
  /\ preview.phase # "idle" /\ Slips
  /\ preview' = NoPreview(preview.run)
  /\ UNCHANGED <<tree, mdlDir, queued, importer, indexed, imports>>

-----------------------------------------------------------------------------
(* The script that imports the tree. *)

Has(path) == path \in DOMAIN tree
Models == {a \in Documented : Has(<<"mdl", a>>)}
EventFiles(dir) == {p \in DOMAIN tree : p[1] = "event" /\ p[2] = dir}

\* The payload of an asset: its sidecar files are looked up when it is reached.
count_causal_for_table(a) ==
  IF Has(<<"causal", a>>) THEN Cardinality(tree[<<"causal", a>>].says) ELSE 0
AssetPayload(a) == [inferred |-> Has(<<"rels", a>>), causal |-> count_causal_for_table(a)]

\* The columns that are marked as personal data: by the model that was read, or
\* by the hints as they are when its columns are reached.
PiiColumns(a, flags) == flags \union (IF Has(<<"hints", a>>) THEN tree[<<"hints", a>>].says ELSE {})

Importing == UNCHANGED <<tree, mdlDir, queued, preview, imports>>

\* upsert_points logs what Qdrant refuses, and the script counts it as upserted.
Upserts(id, payload, then) ==
  /\ Importing
  /\ \/ indexed' = With(indexed, id, payload) /\ importer' = then /\ UNCHANGED slips
     \/ Slips /\ importer' = [then EXCEPT !.lost = @ \union {id}] /\ UNCHANGED indexed

\* Without the directory mdl/ the script ends with code 2; without a model in it,
\* the events are imported.
BeginImport ==
  /\ importer.at \in {"idle", "done"} /\ imports < MaxImports /\ mdlDir
  /\ importer' = [NoImport EXCEPT !.at = "assets", !.left = Models, !.quiet = TRUE]
  /\ imports' = imports + 1
  /\ UNCHANGED <<tree, mdlDir, queued, preview, indexed, slips>>

ImportAsset(a) ==
  /\ importer.at = "assets" /\ a \in importer.left
  /\ Upserts(<<"asset", a>>, AssetPayload(a),
             [importer EXCEPT !.at = "fields", !.left = @ \ {a}, !.asset = a,
                              !.flags = tree[<<"mdl", a>>].says])

ImportFields ==
  /\ importer.at = "fields"
  /\ Upserts(<<"fields", importer.asset>>, PiiColumns(importer.asset, importer.flags),
             [importer EXCEPT !.at = "assets", !.flags = {}])

\* The files of a directory are listed when the one before is done.
ListEvents(i) ==
  /\ importer.at = (IF i = 1 THEN "assets" ELSE EventDirs[i - 1]) /\ importer.left = {}
  /\ importer' = [importer EXCEPT !.at = EventDirs[i], !.left = EventFiles(EventDirs[i])]
  /\ Importing /\ UNCHANGED <<indexed, slips>>

\* The files are read in one order, that of their names.
ImportEvent ==
  /\ importer.at \in Range(EventDirs) /\ importer.left # {}
  /\ LET p == CHOOSE q \in importer.left : TRUE
     IN Upserts(p, tree[p].says, [importer EXCEPT !.left = @ \ {p}])

EndImport ==
  /\ importer.at = Last(EventDirs) /\ importer.left = {}
  /\ importer' = [importer EXCEPT !.at = "done"]
  /\ Importing /\ UNCHANGED <<indexed, slips>>

\* An embedding fails, or the process dies.
ImporterDies ==
  /\ importer.at \notin {"idle", "done"} /\ Slips
  /\ importer' = NoImport
  /\ Importing /\ UNCHANGED indexed

PreviewNext ==
  \/ BeginPreview \/ Put \/ PutFails \/ EndPreview \/ PreviewDies
  \/ \E a \in Documented : TakeUnchanged(a) \/ \E x \in Answers : TakeTable(a, x)
  \/ \E claims \in CrossAnswers : BeginPasses(claims)
  \/ BeginImport \/ ImportFields \/ ImportEvent \/ EndImport \/ ImporterDies
  \/ \E a \in Documented : ImportAsset(a)
  \/ \E i \in DOMAIN EventDirs : ListEvents(i)

-----------------------------------------------------------------------------
(* Properties. *)

\* Every line of reindex_queue.jsonl names an event file that is there
\* (_write_event), whatever failed or died between two files.
QueueNamesFiles == queued \subseteq DOMAIN tree

\* An event that can be imported is about a row that was dumped: the row of a
\* candidate, a hint or a relation type is there before its event (write_*).
RowOf(p) ==
  CASE p[2] = "causal" -> <<"row", RowFile[p[3][2]]>>
    [] p[2] = "protection" -> <<"row", "hint", p[3]>>
    [] p[2] = "relation" -> <<"row", p[3]>>
EventsHaveRows == \A p \in DOMAIN tree : p[1] = "event" => RowOf(p) \in DOMAIN tree

\* A column that the model of a run marks as personal data is not among the
\* sampled values of that run, although they are written before the model
\* (_persist_pii_gated_samples).
SamplesFollowModel ==
  \A a \in Documented :
    LET model == <<"mdl", a>> samples == <<"samples", a>> IN
    {model, samples} \subseteq DOMAIN tree /\ tree[model].run = tree[samples].run =>
      tree[model].says \intersect tree[samples].says = {}

\* An import that ended while nothing was written mirrors the tree, except for
\* what Qdrant refused: each event file is a point, each asset carries what its
\* sidecar files say, and what the model marks as personal data is marked
\* (main of import_preview_to_qdrant).
QuietImportMirrors ==
  importer.at = "done" /\ importer.quiet =>
    /\ \A p \in DOMAIN tree :
         p[1] = "event" /\ p \notin importer.lost =>
           p \in DOMAIN indexed /\ indexed[p] = tree[p].says
    /\ \A a \in Models :
         /\ <<"asset", a>> \notin importer.lost => indexed[<<"asset", a>>] = AssetPayload(a)
         /\ <<"fields", a>> \notin importer.lost =>
              tree[<<"mdl", a>>].says \subseteq indexed[<<"fields", a>>]

\* What was imported of events stays true of the tree: an event file is never
\* written again, so a later import adds points and changes none.
EventPointsAreFiles ==
  \A id \in DOMAIN indexed :
    id[1] = "event" => id \in DOMAIN tree /\ indexed[id] = tree[id].says

PreviewInv ==
  /\ PreviewTypeOK /\ QueueNamesFiles /\ EventsHaveRows /\ SamplesFollowModel
  /\ QuietImportMirrors /\ EventPointsAreFiles
=============================================================================
