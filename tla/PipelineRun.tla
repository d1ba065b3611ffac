---------------------------- MODULE PipelineRun ----------------------------
(***************************************************************************)
(* run() of the ontology pipeline, as the command line calls it: one       *)
(* process that takes the tables its filter selects in turn, then looks    *)
(* at them together for causal candidates and for relation types, and at   *)
(* last writes the run state to disk.  The process may die between any two *)
(* steps, and is run again and again.                                      *)
(***************************************************************************)
EXTENDS TablePipeline

CONSTANTS cli,         \* the worker: the process of the command line
          MinSupport,  \* relation_induction_min_support
          MaxCluster   \* cross_asset_cluster_max_size

VARIABLE run

vars == <<source, disk, store, job, faults, run>>

ASSUME RunAssumption ==
  /\ Workers = {cli}
  /\ MinSupport \in Nat /\ MaxCluster \in Nat \ {0, 1}

Phases == {"idle", "tables", "cross", "induce", "flush"}
Relationship == [from : Tables, column : Columns, to : Tables]

Idle == [phase |-> "idle", snapshot |-> [t \in Tables |-> 0], left |-> {},
         built |-> [t \in Tables |-> NoConcept], relationships |-> {},
         index |-> [t \in Tables |-> NoConcept], clusters |-> {}]

TypeOK ==
  /\ PipelineTypeOK
  /\ run \in [phase : Phases, snapshot : [Tables -> Versions], left : SUBSET Tables,
              built : [Tables -> Concepts \union {NoConcept}],
              relationships : SUBSET Relationship,
              index : [Tables -> Concepts \union {NoConcept}], clusters : SUBSET Concepts]

Init == PipelineInit /\ run = Idle

\* The run state is loaded and the source introspected.
Start ==
  /\ run.phase = "idle"
  /\ run' = [Idle EXCEPT !.phase = "tables", !.snapshot = source, !.left = Tables]
  /\ job' = [job EXCEPT ![cli] = NoJob(disk)]
  /\ UNCHANGED <<source, disk, store, faults>>

Take(t) ==
  /\ run.phase = "tables" /\ t \in run.left
  /\ Begin(cli, t, run.snapshot[t], job[cli].memory)
  /\ run' = [run EXCEPT !.left = @ \ {t}]

Work == run.phase = "tables" /\ Process(cli) /\ UNCHANGED run

\* The models built, the relationships inferred and the concepts indexed are
\* gathered for the passes over all tables; those of a table that failed on
\* the way are kept as far as it came, its model is not.
Collect ==
  LET j == job[cli] IN
  /\ run.phase = "tables" /\ j.pc \in Outcomes
  /\ run' = [run EXCEPT
       !.built[j.table] = IF j.pc = "done" THEN j.concept ELSE @,
       !.relationships = @ \union {[from |-> j.table, column |-> i.column, to |-> i.to] :
                                     i \in j.captured},
       !.index[j.table] = j.index]
  /\ job' = [job EXCEPT ![cli] = NoJob(j.memory)]
  /\ UNCHANGED <<source, disk, store, faults>>

Members(c) == {t \in Tables : run.built[t] = c}

EndTables ==
  /\ run.phase = "tables" /\ run.left = {} /\ At(cli, "idle")
  /\ run' = [run EXCEPT !.phase = "cross",
                        !.clusters = {c \in Concepts : Cardinality(Members(c)) >= 2}]
  /\ UNCHANGED <<source, disk, store, job, faults>>

-----------------------------------------------------------------------------
(* The passes over all tables. *)

\* The assets that share a concept, MaxCluster of them at most, are shown to the
\* LLM, which answers with candidates about one of them, or fails.
CrossCluster(c) ==
  /\ run.phase = "cross" /\ c \in run.clusters
  /\ run' = [run EXCEPT !.clusters = @ \ {c}]
  /\ \E ms \in SUBSET Members(c) :
       /\ Cardinality(ms) <= MaxCluster
       /\ ms = Members(c) \/ Cardinality(ms) = MaxCluster
       /\ \E found \in SUBSET [asset : ms, link : Links] : \E twice \in SUBSET found :
            \/ ~CandidateClash(store, twice) /\ store' = UpsertCandidates(store, found)
                 /\ UNCHANGED faults
            \/ CandidateClash(store, twice) /\ UNCHANGED <<store, faults>>
            \/ found # {} /\ Fault /\ UNCHANGED store
  /\ UNCHANGED <<source, disk, job>>

EndCross ==
  /\ run.phase = "cross" /\ run.clusters = {}
  /\ run' = [run EXCEPT !.phase = "induce"]
  /\ UNCHANGED <<source, disk, store, job, faults>>

\* induce_schema: an asset has the type of its indexed concept; the type that
\* three fifths of the relationships have at one end is the type of that end.
\* Every relationship has the same surface, so there is one group.
Kind(t) == IF run.index[t] = NoConcept THEN Asset ELSE run.index[t]
Dominant(kind) ==
  LET Share(k) == Cardinality({r \in DOMAIN kind : kind[r] = k})
      top == {k \in Kinds : 5 * Share(k) >= 3 * Cardinality(DOMAIN kind)}
  IN IF top = {} THEN Thing ELSE CHOOSE k \in top : TRUE
InducedType(p) ==
  [predicate |-> p,
   domain |-> Dominant([r \in run.relationships |-> Kind(r.from)]),
   range |-> Dominant([r \in run.relationships |-> Kind(r.to)])]
Attachments(type) ==
  {[from |-> r.from, to |-> r.to, predicate |-> type.predicate] :
     r \in {x \in run.relationships : <<Kind(x.from), Kind(x.to)>> = <<type.domain, type.range>>}}

\* Nothing to induce from, a failing LLM, or too few relationships.
SkipInduction ==
  /\ run.phase = "induce"
  /\ run' = [run EXCEPT !.phase = "flush"]
  /\ UNCHANGED <<source, disk, store, job, faults>>

Induce(p) ==
  /\ run.phase = "induce" /\ run.relationships # {}
  /\ Cardinality(run.relationships) >= MinSupport
  /\ store' = UpsertRelationSchema(store, {InducedType(p)}, Attachments(InducedType(p)))
  /\ run' = [run EXCEPT !.phase = "flush"]
  /\ UNCHANGED <<source, disk, job, faults>>

\* The exception of write_relation_schema is not caught: the run ends before
\* its state is flushed.
InduceRaises ==
  /\ run.phase = "induce" /\ run.relationships # {}
  /\ Cardinality(run.relationships) >= MinSupport
  /\ Fault /\ run' = Idle
  /\ UNCHANGED <<source, disk, store, job>>

Flush ==
  /\ run.phase = "flush"
  /\ disk' = job[cli].memory
  /\ run' = Idle
  /\ UNCHANGED <<source, store, job, faults>>

\* The process dies.
Crash ==
  /\ run.phase # "idle"
  /\ Fault /\ run' = Idle
  /\ UNCHANGED <<source, disk, store, job>>

Alter == (\E t \in Tables : Change(t)) /\ UNCHANGED run

Step == Start \/ (\E t \in Tables : Take(t)) \/ Work \/ Collect \/ EndTables
          \/ (\E c \in Concepts : CrossCluster(c)) \/ EndCross
          \/ SkipInduction \/ (\E p \in Predicates : Induce(p)) \/ Flush
Next == Step \/ InduceRaises \/ Crash \/ Alter
Spec == Init /\ [][Next]_vars
\* Somebody runs the pipeline again when it has ended.
FairSpec == Spec /\ WF_vars(Step)

-----------------------------------------------------------------------------
(* Properties. *)

\* A version is recorded on disk only when the store has the rows of that
\* version or of a later one, whatever failed or died: a table that is skipped
\* as unchanged is not missing from the store (_process_table, RunState).
RecordedMeansStored == \A t \in Tables : disk[t] <= store.spine[t]

\* Each row that consumers learn about through an event was committed together
\* with the task of that event (write_mdl, write_data_protection_hints,
\* write_causal_candidates, write_relation_schema).
EventPerRow ==
  /\ \A t \in Tables : /\ store.hints[t] # NoHint => <<"protection", t>> \in store.tasks
                       /\ store.spine[t] # 0 => {"reindex", "fields"} \X {t} \subseteq store.tasks
  /\ {"causal"} \X store.candidates \subseteq store.tasks
  /\ {"relation"} \X store.types \subseteq store.tasks

\* An edge that carries a predicate carries one of a stored relation type
\* (write_relation_schema upserts the types before it attaches).
PredicatesAreTyped ==
  \A e \in store.edges :
    e.predicate # NoPredicate => \E type \in store.types : type.predicate = e.predicate

\* Statistics exist only for a table whose rows do, and values only for a
\* profiled table (the early write_mdl of _process_table).
StatsHaveSpine ==
  \A t \in Tables :
    /\ t \in store.profiled => store.spine[t] # 0
    /\ store.rows[t] \union store.freqs[t] # {} => t \in store.profiled

\* The rows are of a later version than the record: the run that wrote them did not
\* come to its flush.  A table that is then altered back to what is recorded is
\* skipped ever after.
Unrecorded(t) == disk[t] < store.spine[t]

\* When the source is left alone, every table is at last recorded as it is, after
\* any faults and crashes, and stored as it is unless a record was lost before it
\* was altered back (run, _process_table).
Converges ==
  \A t \in Tables : <>[](/\ Alike(t, disk[t], source[t])
                        /\ (Alike(t, store.spine[t], source[t]) \/ Unrecorded(t)))

\* The tables of the store fit together after any faults (write_mdl, write_stats,
\* write_relation_schema and the sinks' event tasks).
StoreInv == TypeOK /\ EventPerRow /\ PredicatesAreTyped /\ StatsHaveSpine
=============================================================================
