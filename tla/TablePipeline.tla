--------------------------- MODULE TablePipeline ---------------------------
(***************************************************************************)
(* _process_table of the ontology pipeline: what happens to one table, in  *)
(* the process or thread of a worker, between introspection and the record *)
(* of its content hash.  Each write through the sink is a transaction of   *)
(* the store and a step of its own; what an LLM answers is chosen freely.  *)
(* The two drivers of this code, the command line and the Temporal         *)
(* workflow, are PipelineRun and IngestionWorkflow.                        *)
(***************************************************************************)
EXTENDS OntologyStore

CONSTANTS Workers,
          Altered,          \* bound: the tables whose owner alters them
          MaxVersion,       \* bound: changes of a source table
          Hash,             \* [Tables -> [Versions -> number]]: content_hash; 0: no record
          MaxFaults,        \* bound: transactions that fail and processes that die
          Declared,         \* [Tables -> sets of [column, to]]: foreign keys of the source
          Guesses,          \* sets of [column, to, strong] the LLM may infer
          Classifications,  \* [pii, hint]: what the LLM may call sensitive
          Vocabulary,       \* [Tables -> concepts, or none, it may be annotated with]
          Stages,           \* the optional steps that are configured
          ReEnrich          \* re_enrich_unchanged

VARIABLES source,   \* [Tables -> version]: the tables as introspection finds them
          disk,     \* run_state.json: the version whose hash was recorded; 0: none
          store,    \* what the sink has committed
          job,      \* what a worker knows of the table it processes
          faults    \* transactions and processes that have failed

Versions == 0 .. MaxVersion
Reference == [column : Columns, to : Tables]
Guess == [column : Columns, to : Tables, strong : BOOLEAN]

ASSUME PipelineAssumption ==
  /\ Tables # {}   \* a source without tables gives _process_table nothing to do
  /\ Altered \subseteq Tables /\ MaxVersion \in Nat \ {0} /\ MaxFaults \in Nat
  /\ Declared \in [Tables -> SUBSET Reference]
  /\ Guesses \subseteq SUBSET Guess /\ Guesses # {}
  /\ Hash \in [Tables -> [Versions -> Nat]]
  /\ \A t \in Tables, v \in Versions : Hash[t][v] = 0 <=> v = 0
  /\ Classifications \subseteq [pii : SUBSET Columns, hint : Hints]
  /\ Vocabulary \in [Tables -> (SUBSET (Concepts \union {NoConcept})) \ {{}}]
  /\ Stages \subseteq {"profile", "protect", "annotate"} /\ ReEnrich \in BOOLEAN

Outcomes == {"unchanged", "done", "error"}
Steps == {"profile", "spine", "aggregate", "protect", "relate", "cause", "samples",
          "annotate", "write", "concept"}

NoJob(memory) ==
  [pc |-> "idle", table |-> CHOOSE t \in Tables : TRUE, version |-> 0, memory |-> memory,
   root |-> FALSE, bundle |-> FALSE, references |-> {}, flagged |-> {}, concept |-> NoConcept,
   guessed |-> {}, index |-> NoConcept, captured |-> {}]

Jobs == [pc : {"idle"} \union Steps \union Outcomes, table : Tables, version : Versions,
         memory : [Tables -> Versions], root : BOOLEAN, bundle : BOOLEAN,
         references : SUBSET Reference, flagged : SUBSET Columns,
         concept : Concepts \union {NoConcept}, index : Concepts \union {NoConcept},
         guessed : SUBSET Guess, captured : SUBSET Guess]

PipelineTypeOK ==
  /\ source \in [Tables -> Versions]
  /\ disk \in [Tables -> Versions]
  /\ store \in Stores
  /\ faults \in 0 .. MaxFaults
  /\ job \in [Workers -> Jobs]

PipelineInit ==
  /\ source = [t \in Tables |-> 1]
  /\ disk = [t \in Tables |-> 0]
  /\ store = EmptyStore
  /\ job = [w \in Workers |-> NoJob(disk)]
  /\ faults = 0

\* The owner of the source alters a table; its content may be one it had before.
Change(t) ==
  /\ t \in Altered /\ source[t] < MaxVersion
  /\ source' = [source EXCEPT ![t] = @ + 1]
  /\ UNCHANGED <<disk, store, job, faults>>

-----------------------------------------------------------------------------
(* How a transaction of worker w ends. *)

At(w, pc) == job[w].pc = pc
Become(w, j) == job' = [job EXCEPT ![w] = j]
Fault == faults < MaxFaults /\ faults' = faults + 1

Commits(w, st, j) == store' = st /\ Become(w, j) /\ UNCHANGED <<source, disk, faults>>

\* An exception leaves _process_table: the outcome of the table is "error".
Raises(w) == Become(w, [job[w] EXCEPT !.pc = "error"]) /\ UNCHANGED <<source, disk, store>>
Fails(w) == Fault /\ Raises(w)

\* An exception while a side output is routed is logged and forgotten.
Swallows(w, j) == Become(w, j) /\ UNCHANGED <<source, disk, store>>

\* Two sessions that both found no organization and source insert them: the
\* later one violates a primary key.
RootClash(w) == ~job[w].root /\ store.root

Recorded(j) == [j EXCEPT !.pc = "done", !.memory[j.table] = j.version]
Targets(j) == {r.to : r \in j.references}

-----------------------------------------------------------------------------
(* The steps of _process_table. *)

EnrichFrom == IF "protect" \in Stages THEN "protect" ELSE "relate"
FirstStage == IF "profile" \in Stages THEN "profile" ELSE EnrichFrom
\* The session of write_mdl begins by looking for the rows above the table.
Finish(j) == IF "annotate" \in Stages THEN [j EXCEPT !.pc = "annotate"]
             ELSE [j EXCEPT !.pc = "write", !.root = store.root]

\* The hashes of two versions are the same: of one that was recorded and one introspected.
Alike(t, recorded, version) == Hash[t][recorded] = Hash[t][version]

\* Mutant of Begin: the hash is recorded when the table is taken up.
BeginRecords(w, t, version, memory) ==
  LET j == [NoJob(memory) EXCEPT !.table = t, !.version = version,
                                        !.references = Declared[t],
                                        !.memory[t] = version]
  IN /\ At(w, "idle")
     /\ Become(w, [j EXCEPT !.pc = IF Alike(t, memory[t], version) /\ ~ReEnrich
                                   THEN "unchanged" ELSE FirstStage])
     /\ UNCHANGED <<source, disk, store, faults>>

\* Mutant of Begin: any table that was recorded once is taken as unchanged.
BeginStale(w, t, version, memory) ==
  LET j == [NoJob(memory) EXCEPT !.table = t, !.version = version,
                                        !.references = Declared[t]]
  IN /\ At(w, "idle")
     /\ Become(w, [j EXCEPT !.pc = IF j.memory[t] # 0 /\ ~ReEnrich
                                   THEN "unchanged" ELSE FirstStage])
     /\ UNCHANGED <<source, disk, store, faults>>

\* The hash of the introspected table is looked up in the run state loaded.
Begin(w, t, version, memory) ==
  LET j == [NoJob(memory) EXCEPT !.table = t, !.version = version,
                                        !.references = Declared[t]]
  IN /\ At(w, "idle")
     /\ Become(w, [j EXCEPT !.pc = IF Alike(t, j.memory[t], version) /\ ~ReEnrich
                                   THEN "unchanged" ELSE FirstStage])
     /\ UNCHANGED <<source, disk, store, faults>>

\* The profiler gives a bundle or fails; with a bundle the spine is written
\* first, because the statistics refer to it.
Profile(w) ==
  /\ At(w, "profile")
  /\ \/ Become(w, [job[w] EXCEPT !.pc = "spine", !.bundle = TRUE, !.root = store.root])
     \/ Become(w, [job[w] EXCEPT !.pc = EnrichFrom])
  /\ UNCHANGED <<source, disk, store, faults>>

WriteSpine(w) ==
  LET j == job[w] IN
  /\ At(w, "spine")
  /\ \/ /\ ~RootClash(w)
        /\ Commits(w, UpsertMdl(store, j.table, j.version, Targets(j), j.concept),
                   [j EXCEPT !.pc = "aggregate"])
     \/ RootClash(w) /\ Raises(w) /\ UNCHANGED faults
     \/ Fails(w)

WriteAggregates(w) ==
  /\ At(w, "aggregate")
  /\ \/ Commits(w, UpsertAggregates(store, job[w].table), [job[w] EXCEPT !.pc = EnrichFrom])
     \/ Fails(w)

\* The data_protection stage and the routing of its hints, if it has any.
Protect(w) ==
  /\ At(w, "protect")
  /\ \E c \in Classifications :
       LET j == [job[w] EXCEPT !.pc = "relate", !.flagged = c.pii \union c.hint.cls] IN
       \/ Commits(w, IF c.hint = NoHint THEN store ELSE UpsertHint(store, j.table, c.hint), j)
       \/ c.hint # NoHint /\ Fault /\ Swallows(w, j)

\* The relationship_inference stage runs only on a table without declared keys.
\* A strong guess becomes the reference of its column.
Relate(w) ==
  /\ At(w, "relate")
  /\ \E g \in IF Declared[job[w].table] = {} THEN Guesses ELSE {{}} :
       LET j == [job[w] EXCEPT !.pc = "cause", !.guessed = g,
                   !.references = @ \union {[column |-> i.column, to |-> i.to] :
                                              i \in {x \in g : x.strong}}]
       IN \/ /\ ~InferredClash(store, j.table, g)
             /\ Commits(w, UpsertInferred(store, j.table, g), j)
          \/ InferredClash(store, j.table, g) /\ Swallows(w, j) /\ UNCHANGED faults
          \/ g # {} /\ Fault /\ Swallows(w, j)

\* The causal_dependency stage; then the inferred relationships and the first
\* concept of the model are kept for the passes over all tables.
Cause(w) ==
  /\ At(w, "cause")
  /\ \E found \in SUBSET [asset : {job[w].table}, link : Links] : \E twice \in SUBSET found :
       LET kept == [job[w] EXCEPT !.captured = job[w].guessed, !.index = job[w].concept]
           j == IF kept.bundle THEN [kept EXCEPT !.pc = "samples"] ELSE Finish(kept)
       IN \/ /\ ~CandidateClash(store, twice)
             /\ Commits(w, UpsertCandidates(store, found), j)
          \/ CandidateClash(store, twice) /\ Swallows(w, j) /\ UNCHANGED faults
          \/ found # {} /\ Fault /\ Swallows(w, j)

\* The sampled values of every column that was not flagged.
WriteSamples(w) ==
  /\ At(w, "samples")
  /\ \/ Commits(w, AttachSamples(store, job[w].table, Columns \ job[w].flagged),
                Finish(job[w]))
     \/ Fails(w)

\* The model is annotated with a concept of the vocabulary, or with none.
Annotate(w) ==
  /\ At(w, "annotate")
  /\ \E c \in Vocabulary[job[w].table] :
       Become(w, [job[w] EXCEPT !.pc = "write", !.concept = c, !.root = store.root])
  /\ UNCHANGED <<source, disk, store, faults>>

WriteMdl(w) ==
  LET j == job[w]
      next == IF j.concept = NoConcept THEN Recorded(j) ELSE [j EXCEPT !.pc = "concept"]
  IN /\ At(w, "write")
     /\ \/ /\ ~RootClash(w)
           /\ Commits(w, UpsertMdl(store, j.table, j.version, Targets(j), j.concept), next)
        \/ RootClash(w) /\ Raises(w) /\ UNCHANGED faults
        \/ Fails(w)

WriteConcept(w) ==
  LET j == job[w] IN
  /\ At(w, "concept")
  /\ \/ Commits(w, WriteAnnotations(store, j.table, j.concept), Recorded(j))
     \/ Fails(w)

Process(w) ==
  \/ Profile(w) \/ WriteSpine(w) \/ WriteAggregates(w) \/ Protect(w) \/ Relate(w)
  \/ Cause(w) \/ WriteSamples(w) \/ Annotate(w) \/ WriteMdl(w) \/ WriteConcept(w)
=============================================================================
