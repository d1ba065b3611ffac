--------------------------- MODULE OntologyStore ---------------------------
(***************************************************************************)
(* The rows of ontology-store that the ontology pipeline writes, and what  *)
(* each DAO call does to them.  The module has no state of its own: a      *)
(* store is a record, and each operator gives the store its transaction    *)
(* leaves behind.  The DAOs work in sessions that do not flush by          *)
(* themselves, so a SELECT does not see the rows the same call added       *)
(* before: the operators named ...Clash say when such a call meets a       *)
(* unique constraint, and its whole transaction is rolled back.  A DAO     *)
(* catches what enqueueing a task raises, but only the flush of the task   *)
(* can raise there, and a session whose flush failed takes no statement    *)
(* and no commit any more: a row and its task are stored both or not.      *)
(***************************************************************************)
EXTENDS Naturals, FiniteSets

CONSTANTS Tables,      \* the tables of one source
          Columns,     \* the columns of a table
          Links,       \* (subject, predicate, object) of a causal candidate
          Predicates,  \* canonical predicate names
          Concepts     \* concepts a table may be annotated with

NoPredicate == "no predicate"
NoConcept == "no concept"
Asset == "asset"         \* the type of an asset that has no concept
Thing == "Thing"         \* the type when no type dominates
Kinds == Concepts \union {Asset, Thing}

Edges == [from : Tables, to : Tables,
          evidence : {"declared_fk", "inferred_relationship"},
          predicate : Predicates \union {NoPredicate}]
Candidates == [asset : Tables, link : Links]
RelationTypes == [predicate : Predicates, domain : Kinds, range : Kinds]
Tasks == ({"reindex", "fields", "annotation", "protection"} \X Tables)
           \union ({"causal"} \X Candidates) \union ({"relation"} \X RelationTypes)

\* What may be stored of a table's protection: columns, predicates on rows, or both.
Hints == [cls : SUBSET Columns, rls : BOOLEAN]
NoHint == [cls |-> {}, rls |-> FALSE]

Stores == [root : BOOLEAN,                  \* organization, source, cluster, schema
           spine : [Tables -> Nat],         \* the version the table rows describe; 0: no row
           concept : [Tables -> Concepts \union {NoConcept}],
           edges : SUBSET Edges,
           hints : [Tables -> Hints],
           candidates : SUBSET Candidates,
           profiled : SUBSET Tables,        \* tables with a table_stat row
           rows : [Tables -> SUBSET Columns],   \* the columns kept in sample_rows
           freqs : [Tables -> SUBSET Columns],  \* columns with top_frequencies
           types : SUBSET RelationTypes,
           tasks : SUBSET Tasks]            \* every task ever enqueued

EmptyStore == [root |-> FALSE, spine |-> [t \in Tables |-> 0],
               concept |-> [t \in Tables |-> NoConcept], edges |-> {},
               hints |-> [t \in Tables |-> NoHint], candidates |-> {}, profiled |-> {},
               rows |-> [t \in Tables |-> {}], freqs |-> [t \in Tables |-> {}],
               types |-> {}, tasks |-> {}]

Enqueue(st, ts) == [st EXCEPT !.tasks = @ \union ts]

-----------------------------------------------------------------------------
(* Lineage edges: one per (from, to), found by a SELECT before the INSERT. *)

Path(e) == <<e.from, e.to>>
HasEdge(st, f, t) == \E e \in st.edges : Path(e) = <<f, t>>
WithEdges(st, f, targets, evidence) ==
  [st EXCEPT !.edges = @ \union
     {[from |-> f, to |-> t, evidence |-> evidence, predicate |-> NoPredicate] :
        t \in {x \in targets : ~HasEdge(st, f, x)}}]

\* HierarchyDAO._upsert_column, for each column in turn: its row and the task of its point.
_upsert_columns(st, t, version) ==
  Enqueue([st EXCEPT !.spine[t] = version], {<<"fields", t>>})

\* HierarchyDAO._upsert_table_ext: concepts of the model are copied only with a new row.
_upsert_table_ext(st, t, concept) ==
  [st EXCEPT !.concept[t] = IF st.spine[t] = 0 THEN concept ELSE @]

\* HierarchyDAO._upsert_model: the row of the table, a reindex task, its columns, and an
\* edge for every column that references a table, flushed one by one.
_upsert_model(st, t, version, references, concept) ==
  WithEdges(_upsert_columns(_upsert_table_ext(Enqueue(st, {<<"reindex", t>>}), t, concept), t, version),
            t, references, "declared_fk")

\* HierarchyDAO.upsert_mdl_document: what is above the table, and the table.
UpsertMdl(st, t, version, references, concept) ==
  _upsert_model([st EXCEPT !.root = TRUE], t, version, references, concept)

\* AnnotationDAO.write (its no-clobber rule is the subject of AnnotationDAO).
WriteAnnotations(st, t, concept) ==
  Enqueue([st EXCEPT !.concept[t] = concept], {<<"annotation", t>>})

\* InferenceDAO.upsert_inferred_relationships: items are a set of
\* [column, to, strong].  Nothing is flushed between two items, so two new ones
\* with one target are both inserted.
InferredClash(st, f, items) ==
  \E i, j \in items : i.column # j.column /\ i.to = j.to /\ ~HasEdge(st, f, i.to)
UpsertInferred(st, f, items) ==
  WithEdges(st, f, {i.to : i \in items}, "inferred_relationship")

-----------------------------------------------------------------------------
\* Mutant of UpsertHint: the row is committed without its task.
UpsertHintQuietly(st, t, hint) == [st EXCEPT !.hints[t] = hint]

\* InferenceDAO.upsert_data_protection_hint and the event of its row.
UpsertHint(st, t, hint) ==
  Enqueue([st EXCEPT !.hints[t] = hint], {<<"protection", t>>})

\* InferenceDAO.upsert_causal_candidates and an event for each row: a candidate
\* listed twice and not stored yet is inserted twice.
CandidateClash(st, repeated) == ~(repeated \subseteq st.candidates)
UpsertCandidates(st, cs) ==
  Enqueue([st EXCEPT !.candidates = @ \union cs], {"causal"} \X cs)

\* ColumnStatDAO.upsert_aggregates and attach_sampled_values.  The values of a
\* column the gate rejects are left as they were.
UpsertAggregates(st, t) == [st EXCEPT !.profiled = @ \union {t}]
AttachSamples(st, t, safe) ==
  [st EXCEPT !.rows[t] = safe, !.freqs[t] = @ \union safe]

\* RelationTypeDAO: a type is known by all it says, an edge found by its two ends.
upsert_relation_types(st, types) == [st EXCEPT !.types = @ \union types]
attach_predicates(st, attachments) ==
  LET Attached(e) == {a \in attachments : <<a.from, a.to>> = Path(e)} IN
  [st EXCEPT !.edges = {IF Attached(e) = {} THEN e
                        ELSE [e EXCEPT !.predicate = (CHOOSE a \in Attached(e) : TRUE).predicate] :
                          e \in @}]

\* HierarchyStoreSink.write_relation_schema: the types and their events first, then the
\* predicate of every edge of attachments ([from, to, predicate]) that is stored.
UpsertRelationSchema(st, types, attachments) ==
  attach_predicates(Enqueue(upsert_relation_types(st, types), {"relation"} \X types), attachments)
=============================================================================
