------------------------- MODULE IngestionWorkflow -------------------------
(***************************************************************************)
(* OntologyIngestionWorkflow: the pipeline run by Temporal.  One activity  *)
(* per table, as many at a time as the semaphore and the worker's threads  *)
(* allow; then the passes over all tables.  An activity is a thread of the *)
(* worker process: it introspects the source and loads the run state by    *)
(* itself, and writes the whole run state back.  When its time is up or    *)
(* its process dies Temporal tries again; a thread whose time is up is not *)
(* stopped.                                                                *)
(***************************************************************************)
EXTENDS TablePipeline

CONSTANTS Concurrency,  \* per_table_concurrency
          Attempts,     \* bound on the attempts of one activity
          MinSupport    \* relation_induction_min_support

VARIABLES wf,       \* the workflow: what its history tells it
          act,      \* the activity each thread runs
          tmp,      \* run_state.json.tmp: NoFile or a run state
          overrun   \* history: tables two attempts of which may have overlapped

workflowVars == <<wf, overrun>>
vars == <<source, disk, store, job, faults, wf, act, tmp, overrun>>

NoWorker == "no worker"
ASSUME IngestionAssumption ==
  /\ Concurrency \in Nat \ {0} /\ Attempts \in Nat \ {0} /\ MinSupport \in Nat
  /\ NoWorker \notin Workers

NoFile == <<>>
\* A file that cannot be parsed is read as an empty run state.
Unreadable == [t \in Tables |-> 0]
RunStates == [Tables -> Versions]

Free == [pc |-> "free", table |-> CHOOSE t \in Tables : TRUE, file |-> "none"]
Fresh == [phase |-> "introspect", tries |-> 0, left |-> {},
          attempt |-> [t \in Tables |-> 0], runner |-> [t \in Tables |-> NoWorker],
          outcome |-> [t \in Tables |-> "none"], relationships |-> {},
          index |-> [t \in Tables |-> NoConcept]]
Relationship == [from : Tables, column : Columns, to : Tables]

TypeOK ==
  /\ PipelineTypeOK
  /\ wf \in [phase : {"introspect", "tables", "cross", "induce", "validate", "done", "failed"},
             tries : 0 .. Attempts, left : SUBSET Tables, attempt : [Tables -> 0 .. Attempts],
             runner : [Tables -> Workers \union {NoWorker}],
             outcome : [Tables -> Outcomes \union {"none"}],
             relationships : SUBSET Relationship, index : [Tables -> Concepts \union {NoConcept}]]
  /\ act \in [Workers -> [pc : {"free", "process", "write", "replace", "report"}, table : Tables,
                          file : {"none", "tmp", "disk", "gone"}]]
  /\ tmp \in RunStates \union {NoFile}
  /\ overrun \subseteq Tables

Init == PipelineInit /\ wf = Fresh /\ act = [w \in Workers |-> Free] /\ tmp = NoFile /\ overrun = {}

Doing(w, pc) == act[w].pc = pc
Goto(w, pc) == act' = [act EXCEPT ![w].pc = pc]
\* The workflow still waits for the attempt that w makes.
Awaited(w) == wf.runner[act[w].table] = w
Running == {t \in Tables : wf.runner[t] # NoWorker}

-----------------------------------------------------------------------------
(* The workflow. *)

Introspect ==
  /\ wf.phase = "introspect"
  /\ wf' = [wf EXCEPT !.phase = "tables", !.left = Tables, !.tries = 0]
  /\ UNCHANGED <<source, disk, store, job, faults, act, tmp, overrun>>

\* An activity that every attempt at has failed fails the workflow.
AfterFailure(tries) == IF tries = Attempts THEN "failed" ELSE wf.phase
PassFails ==
  /\ wf.phase \in {"introspect", "cross", "induce", "validate"}
  /\ Fault
  /\ wf' = [wf EXCEPT !.tries = @ + 1, !.phase = AfterFailure(wf.tries + 1)]
  /\ UNCHANGED <<source, disk, store, job, act, tmp, overrun>>

\* Mutant of Schedule: the table of a running attempt is taken up again.
ScheduleTwice(w, t) ==
  /\ wf.phase = "tables" /\ t \in wf.left
  /\ Cardinality(Running) < Concurrency
  /\ Doing(w, "free")
  /\ Begin(w, t, source[t], disk)
  /\ act' = [act EXCEPT ![w] = [pc |-> "process", table |-> t, file |-> "none"]]
  /\ wf' = [wf EXCEPT !.runner[t] = w]
  /\ UNCHANGED <<tmp, overrun>>

\* A thread takes up an attempt: it introspects the source, loads the run state
\* and looks the table up.
Schedule(w, t) ==
  /\ wf.phase = "tables" /\ t \in wf.left /\ wf.runner[t] = NoWorker
  /\ Cardinality(Running) < Concurrency
  /\ Doing(w, "free")
  /\ Begin(w, t, source[t], disk)
  /\ act' = [act EXCEPT ![w] = [pc |-> "process", table |-> t, file |-> "none"]]
  /\ wf' = [wf EXCEPT !.runner[t] = w]
  /\ overrun' = IF \E v \in Workers : ~Doing(v, "free") /\ act[v].table = t
                THEN overrun \union {t} ELSE overrun
  /\ UNCHANGED tmp

EndTables ==
  /\ wf.phase = "tables" /\ wf.left = {}
  /\ wf' = [wf EXCEPT !.phase = "cross"]
  /\ UNCHANGED <<source, disk, store, job, faults, act, tmp, overrun>>

\* run_cross_asset_causal builds its models anew from the source: they carry no
\* concepts, no two tables share one, and nothing is asked or written.
CrossAsset ==
  /\ wf.phase = "cross"
  /\ wf' = [wf EXCEPT !.tries = 0,
                      !.phase = IF wf.relationships = {} THEN "validate" ELSE "induce"]
  /\ UNCHANGED <<source, disk, store, job, faults, act, tmp, overrun>>

Kind(t) == IF wf.index[t] = NoConcept THEN Asset ELSE wf.index[t]
InducedTypes(p) ==
  {[predicate |-> p, domain |-> Kind(r.from), range |-> Kind(r.to)] : r \in wf.relationships}

\* Types that a dominant share of the relationships supports (PipelineRun says
\* which): here any one of those that occur, or none.
Induce(p) ==
  /\ wf.phase = "induce"
  /\ \/ /\ Cardinality(wf.relationships) >= MinSupport
        /\ \E type \in InducedTypes(p) :
             store' = UpsertRelationSchema(store, {type},
                        {[from |-> r.from, to |-> r.to, predicate |-> p] : r \in
                           {x \in wf.relationships : Kind(x.from) = type.domain
                                                       /\ Kind(x.to) = type.range}})
     \/ UNCHANGED store
  /\ wf' = [wf EXCEPT !.phase = "validate", !.tries = 0]
  /\ UNCHANGED <<source, disk, job, faults, act, tmp, overrun>>

\* run_causal_validation changes the status of candidates (CausalValidation),
\* which no other step here reads.
Validate ==
  /\ wf.phase = "validate"
  /\ wf' = [wf EXCEPT !.phase = "done", !.tries = 0]
  /\ UNCHANGED <<source, disk, store, job, faults, act, tmp, overrun>>

\* The next workflow over the source.  What threads of the last one still do
\* is no concern of it.
Restart ==
  /\ wf.phase \in {"done", "failed"}
  /\ wf' = Fresh
  /\ UNCHANGED <<source, disk, store, job, faults, act, tmp, overrun>>

-----------------------------------------------------------------------------
(* A thread that runs process_one_table. *)

Keep == UNCHANGED <<source, store, job, faults, wf, overrun>>

Work(w) ==
  /\ Doing(w, "process")
  /\ Process(w)
  /\ UNCHANGED <<wf, act, tmp, overrun>>

\* RunState.flush, for every outcome: the temporary file is emptied or made,
\* written, and renamed.  All threads use the same name for it.
Open(w) ==
  /\ Doing(w, "process") /\ job[w].pc \in Outcomes
  /\ tmp' = Unreadable
  /\ act' = [act EXCEPT ![w].pc = "write", ![w].file = "tmp"]
  /\ Keep /\ UNCHANGED disk

\* What w writes goes to the file it opened, whatever name that has by now; over
\* what another thread wrote there it may leave something unreadable.
Write(w) ==
  /\ Doing(w, "write")
  /\ Goto(w, "replace")
  /\ \E content \in {job[w].memory, Unreadable} :
       \/ /\ act[w].file = "tmp"
          /\ content = job[w].memory \/ tmp # Unreadable
          /\ tmp' = content /\ UNCHANGED disk
       \/ /\ act[w].file = "disk"
          /\ content = job[w].memory \/ disk # Unreadable
          /\ disk' = content /\ UNCHANGED tmp
       \/ /\ act[w].file = "gone" /\ content = job[w].memory
          /\ UNCHANGED <<tmp, disk>>
  /\ Keep

\* Where the rename leaves the file that another thread has open.
AfterRename(file) == IF file = "tmp" THEN "disk" ELSE IF file = "disk" THEN "gone" ELSE file

Replace(w) ==
  /\ Doing(w, "replace") /\ tmp # NoFile
  /\ disk' = tmp /\ tmp' = NoFile
  /\ act' = [v \in Workers |->
              IF v = w THEN [act[w] EXCEPT !.pc = "report", !.file = "none"]
              ELSE [act[v] EXCEPT !.file = AfterRename(@)]]
  /\ Keep

\* The result of an attempt the workflow still waits for.
Report(w) ==
  LET j == job[w] t == act[w].table IN
  /\ Doing(w, "report")
  /\ wf' = IF ~Awaited(w) THEN wf
           ELSE [wf EXCEPT !.left = @ \ {t}, !.runner[t] = NoWorker, !.outcome[t] = j.pc,
                           !.index[t] = j.index,
                           !.relationships = @ \union
                              {[from |-> t, column |-> i.column, to |-> i.to] : i \in j.captured}]
  /\ act' = [act EXCEPT ![w] = Free] /\ job' = [job EXCEPT ![w] = NoJob(Unreadable)]
  /\ UNCHANGED <<source, disk, store, faults, tmp, overrun>>

\* Mutant of Failed: without a timeout nobody hears of a thread that died.
Unheard(w) == wf

\* The workflow hears of a failed attempt: it tries again, or gives up at all.
Failed(w) ==
  LET t == act[w].table n == wf.attempt[t] + 1 IN
  IF ~Awaited(w) THEN wf
  ELSE IF n = Attempts
       THEN [wf EXCEPT !.attempt[t] = n, !.runner = [x \in Tables |-> NoWorker], !.phase = "failed"]
       ELSE [wf EXCEPT !.attempt[t] = n, !.runner[t] = NoWorker]

\* Another thread has renamed the temporary file: the attempt raises.
ReplaceRaises(w) ==
  /\ Doing(w, "replace") /\ tmp = NoFile
  /\ wf' = Failed(w)
  /\ act' = [act EXCEPT ![w] = Free] /\ job' = [job EXCEPT ![w] = NoJob(Unreadable)]
  /\ UNCHANGED <<source, disk, store, faults, tmp, overrun>>

\* The attempt fails outside _process_table, or its result is lost.
Dies(w) ==
  /\ ~Doing(w, "free") /\ Fault
  /\ wf' = Failed(w)
  /\ act' = [act EXCEPT ![w] = Free] /\ job' = [job EXCEPT ![w] = NoJob(Unreadable)]
  /\ UNCHANGED <<source, disk, store, tmp, overrun>>

\* start_to_close_timeout passes; the thread goes on.
TimesOut(w) ==
  /\ ~Doing(w, "free") /\ Awaited(w) /\ Fault
  /\ wf' = Failed(w)
  /\ UNCHANGED <<source, disk, store, job, act, tmp, overrun>>

\* Bound: the source changes only after a workflow that was done (threads that
\* were given up may still run), and more than once only before anything has failed.
\* PipelineRun lets it change at any time.
Alter ==
  /\ wf.phase = "done"
  /\ \E t \in Tables : Change(t) /\ (faults = 0 \/ source[t] = 1)
  /\ UNCHANGED <<wf, act, tmp, overrun>>

Orchestrate ==
  \/ Introspect \/ EndTables \/ CrossAsset \/ (\E p \in Predicates : Induce(p))
  \/ Validate \/ Restart
  \/ \E w \in Workers, t \in Tables : Schedule(w, t)
Thread(w) ==
  Work(w) \/ Open(w) \/ Write(w) \/ Replace(w) \/ Report(w) \/ ReplaceRaises(w)
Next ==
  \/ Orchestrate \/ PassFails \/ Alter
  \/ \E w \in Workers : Thread(w) \/ Dies(w) \/ TimesOut(w)

Spec == Init /\ [][Next]_vars
\* The system does not stop while Temporal can schedule something or a thread
\* can run; the workflow is started again when it has ended.
FairSpec == Spec /\ WF_vars(Orchestrate \/ \E w \in Workers : Thread(w))

-----------------------------------------------------------------------------
(* Properties. *)

\* Whatever the threads do to the file they share, a version is recorded on disk
\* only when the store has rows of it or of a later one - unless attempts at the
\* table overlapped, when the one given up may write its older rows last.
RecordedMeansStored == \A t \in Tables \ overrun : disk[t] <= store.spine[t]

\* A table the workflow counts as unchanged or built is stored: an attempt that
\* finds the work of a lost one done reports "unchanged" truthfully.
CountedMeansStored ==
  \A t \in Tables : wf.outcome[t] \in {"done", "unchanged"} => store.spine[t] # 0

\* Two threads never process a table at once unless a timeout has cut one of
\* them off from the workflow (the retry starts when the attempt is over).
OneThreadPerTable ==
  \A v, w \in Workers :
    v # w /\ ~Doing(v, "free") /\ ~Doing(w, "free") /\ act[v].table = act[w].table =>
      act[v].table \in overrun /\ ~(Awaited(v) /\ Awaited(w))

\* The workflow of the moment comes to an end, whatever fails.
WorkflowEnds == []<>(wf.phase \in {"done", "failed"})

\* The record of the rows was lost to a thread that wrote back an older run state, and
\* the table was altered back to what it was before: that is taken as unchanged.
Masked(t) ==
  disk[t] # store.spine[t] /\ \E v \in Versions \ {0} : v < store.spine[t] /\ Alike(t, v, source[t])

\* The rows of every table at last describe the source, although concurrent
\* threads may lose what others recorded - unless attempts overlapped, or a record
\* was lost before the table was altered back.
SpineConverges ==
  \A t \in Tables : <>[](t \in overrun \/ Alike(t, store.spine[t], source[t]) \/ Masked(t))

\* What the threads of process_one_table leave behind, although they share the run
\* state file and are given up at a timeout.
ThreadsInv == TypeOK /\ RecordedMeansStored /\ OneThreadPerTable

\* A workflow ends, and workflows run again and again bring the store up to date
\* (OntologyIngestionWorkflow.run).
WorkflowProgress == WorkflowEnds /\ SpineConverges
=============================================================================
