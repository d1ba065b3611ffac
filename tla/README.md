# Nexcraft in TLA+

This directory is a verification project for the Nexcraft packages under
`src/packages/`. It models the parts of the system whose correctness depends on
interleavings, failures, cancellations and stale reads, and the calculations whose
results other parts rely on; checks them with TLC on small instances; and proves some
of the results with TLAPS for every size.

Paths below are relative to `src/packages/`. `PROJECT.json` holds the same information
by line: components, runs, a mutant for every property, the lines each definition
models, findings, hazards and theorems.

## 1. Inventory of the system

Nexcraft is a set of Python packages around a federated SQL layer and an ontology of
the data behind it. The pipeline reads a source, describes it with the help of an LLM
and writes the hierarchy store (Postgres); a queue table tells workers what to copy
into Qdrant; the retrieval service reads both. Independently, a driver (Arrow Flight)
and job workflows (Temporal) run SQL over many sources.

| Part | Code | State it keeps | Operations | Talks to |
|---|---|---|---|---|
| Source introspection | `ontology-pipeline/.../introspect*.py` | none | five catalog queries, or a dump and a manifest | the source database |
| Enrichment of a table | `mdl.py`, `enrich/`, `annotate*.py`, `cards/vocab_source.py` | the model of a table, in memory | build, describe, classify, relate, annotate | an LLM |
| Pipeline run | `pipeline.py`, `output.py`, `state.py`, `profile/` | run state file of content hashes | tables in turn, then two passes over all | the sinks |
| Ingestion workflow | `ontology-pipeline/.../temporal/` | workflow history, the same run state file | five activities | Temporal, the pipeline |
| Preview sink and import | `output_preview.py`, `ontology-store/scripts/` | a tree of files | write, import | Qdrant |
| DAOs of the store | `ontology-store/.../dao/` | rows of the spine, provenance, candidates, cards, statistics | upserts in sessions without autoflush | the reindex queue, in the same transaction |
| Causal validation | `validate/causal_validation.py`, `dao/inferences.py` | status of candidates | passes of validators, promotions by hand | the store |
| Cards | `cards/loader.py`, `dao/cards.py` | versions, hashes, deprecation | sync of a directory | the store |
| Reindex queue and worker | `ontology-store/.../workers/`, `vector/` | `reindex_queue`, points, events | claim, hydrate, upsert, mark | Postgres, Qdrant |
| Vector collections | `vector/store.py`, `collections.py` | collections, store objects | upsert, filtered delete, sweep, drop | Qdrant |
| Retrieval service | `ontology-retrieval/.../pipeline/`, `compat.py`, `dao/reader.py` | LRU cache | requests by kind | both stores |
| Evaluation | `ontology-retrieval/.../eval/`, `cli.py` | runs, results, aggregates | claim, execute, score | the retrieval service |
| FedSQL router, catalogs, Flight server | `nexcraft/nexcraft/router.py`, `catalog/`, `nexcraft-driver/.../server.py` | none, or a table of connections | describe, execute | providers, executors |
| Cancellable stream | `nexcraft/nexcraft/streaming/` | a bounded queue, a pump task, counters | iteration, cancellation, deadline, budgets | producer below, caller above |
| Pooled provider | `connection/pooled.py`, `asyncpg_pool.py` | cached pools, build locks | `acquire`, `release`, `close` | asyncpg |
| Async query store, lakehouse executor | `nexcraft-driver/.../async_store.py`, `source_executors.py` | statuses, tasks, spool files; one DuckDB connection | `submit`, `cancel`, `aclose`, `execute` | event loop and thread pool |
| Job workflows | `nexcraft-jobs/.../runtime/`, `yaml_jobs/` | staged files, histories, registries | query, pipeline, multi-hop, staged and inline recipes; `run-dir` | Temporal, the FedSQL client |
| Recipes, foundry, admin, archived UDFs | - | none that is shared | computations, views | - |

What is hard in it: claims that are committed before the work is done; rows that change
between hydration and write; sessions that do not see what they have added; a run state
written whole by several threads; attempts that outlive their timeouts; a coroutine that
catches its own cancellation; clean-up that waits for what it has cut off; decisions
taken in a session opened minutes ago; caches and store objects that are never looked at
again; files replaced while a script reads them.

## 2. Modules

| Module | Models | Uses |
|---|---|---|
| `ReindexQueue` | `QueueDAO`: the table and each operation that writes it | - |
| `ReindexWorker` | worker processes, producers, failures, points and events | EXTENDS `ReindexQueue`; INSTANCE `PointMirror` |
| `PointMirror` | abstract specification: what the points promise, with no queue or worker | - |
| `WorkListProofs` | theorems about `JobWorkflows`, `PreviewTree`, and `ReindexWorker` with its refinement of `PointMirror`; lemmas on lists of lists | TLAPS |
| `SourceProofs` | theorems about `Introspection`, `TableEnrichment`, `LakehouseDriver` | TLAPS |
| `StoreProofs` | theorems about `AnnotationDAO`, `VectorCollections`, `RetrievalService`, `CatalogReads` | TLAPS |
| `QueryProofs` | theorems about `FederatedQueries`, `EvalRuns`, `EvalScorers`, `PooledProvider` | TLAPS |
| `ServiceProofs` | theorems about `CancellableStream`, `CardStore`, `CausalValidation`, `WorkerRuntime`, `StagedJob`, `EventLog` | TLAPS |
| `TablePipelineProofs` | lemmas: what each transaction of a table does to the store | TLAPS |
| `PipelineRunProofs`, `IngestionProofs` | theorems about `PipelineRun`, `IngestionWorkflow` | EXTENDS `TablePipelineProofs` |
| `AnnotationDAO` | `AnnotationDAO.write` in concurrent sessions | - |
| `PreviewTree` | the filesystem and preview sinks, and the import script beside them | - |
| `OntologyStore` | the rows the pipeline writes, one operator per DAO transaction | - |
| `TablePipeline` | `_process_table`: one step per transaction | EXTENDS `OntologyStore` |
| `PipelineRun` | the run of the command line: all tables, the passes over them, the run state | EXTENDS `TablePipeline` |
| `IngestionWorkflow` | the same tables as activities of threads of one worker | EXTENDS `TablePipeline` |
| `Introspection` | five queries with tables altered between them; dumps | - |
| `TableEnrichment` | the stages of a table in memory | - |
| `LexiconMatches`, `AssetClusters` | which cards names point to; groups of tables and the links proposed in them | - |
| `CardStore`, `CausalValidation`, `EventLog` | cards; candidates; event collections | - |
| `VectorCollections` | store objects of several processes over one collection; filters | - |
| `RetrievalService`, `CatalogReads` | requests and cache; walks, scopes, pages, legacy calls | - |
| `EvalRuns`, `EvalScorers` | evaluation runs; metrics and gates | - |
| `CancellableStream`, `PooledProvider` | the stream over its producer; pools | - |
| `FederatedQueries` | a query through server, router, catalog and connections, in both deployments | - |
| `AsyncQueryStore`, `LakehouseExecutor` | submitted queries; threads on one DuckDB connection | - |
| `LakehouseDriver` | composition of these two | EXTENDS `AsyncQueryStore`; INSTANCE `LakehouseExecutor` |
| `StagedJob` | the staged recipe workflow and its files | - |
| `JobWorkflows` | YAML job files, `run-dir`, the three workflows without staging | - |
| `WorkerRuntime` | several recipe runtimes of one process | - |
| `MC*` | instances for TLC | see section 4 |

Definitions commented "Mutant of" are not part of a model. Each is a plausible bug in
the definition that follows it; with that definition replaced by it, TLC finds the
property named in `PROJECT.json` violated, which shows that the property can fail.

An MC module that joins parts which share no state explores one of them at a time:
`focus`, or `question`, names the part, and the others keep their initial states. This
is a sum of the state spaces, not a product; nothing is composed that the code does not
compose. Parts that interact in the code are composed by EXTENDS and meet in actions:
store, table, run; queue, worker; query store, executor.

## 3. How state and actions correspond to the code

A step runs from one point at which another actor can be seen to the next: between two
awaits on an event loop, between two transactions of a process, between two calls of a
file system. What an LLM, a database or Temporal answers is chosen freely among what
the code can be given.

**ReindexQueue, ReindexWorker.** `queue` maps a task id to status, attempts and row; ids
are handed out in order, so "oldest first" is "smallest first". The content of a row is
a version: `spine[r]` in Postgres, `index[r]` in the point, `log[r]` in the event
collection. Steps: `Dequeue` (claim and commit), `Hydrate`, `Write` (the Qdrant call),
`CommitDone`, `CommitRetry`; each failure is an action of its own, enabled by
`FaultKinds`.

**OntologyStore, TablePipeline, PipelineRun.** A store is a record of the tables' rows;
each DAO call is an operator from store to store, its tasks enqueued in it. `...Clash`
says when a call meets a unique constraint because its session did not see its own rows.
(`_upsert_model` swallows an exception of its enqueue; but an enqueue can raise only when
it flushes the session, and a session whose flush failed can only be rolled back, so that
is a failure of the whole transaction: `Fails`.) A table has versions, and `Hash` gives
each its content hash: a table that is altered back has a hash it had before, and all the
code compares is the hash (`Alike`).
`job[w]` is what a worker knows of the table in hand; `spine`, `aggregate`, `protect`,
`relate`, `cause`, `samples`, `annotate`, `write`, `concept` are its transactions in
order, each of which may fail. Failures of side outputs are swallowed, others end the
table. The run keeps what it collects for the cross-asset pass and for relation
induction and at last writes the run state. **IngestionWorkflow** runs the same steps in
threads of a worker; each thread loads and writes the run state for itself, through one
temporary file (`tmp`); an attempt that is timed out goes on while its retry runs.

**TableEnrichment** has `given` (configuration), `mdl` and `out`. A stage asks if it has
anything to ask, and a failed call leaves the model alone. **LexiconMatches**,
**AssetClusters**, **EvalScorers**, **CatalogReads** and the dump reader of
**Introspection** are operators over sequences and sets that follow the code's loops as
folds, selections and counts; the rest of **Introspection** is a state machine of five
queries and the owner of the source. The joins of the catalog queries are modelled as they
are written.

**AnnotationDAO.** `Open` loads the row, `Decide` looks at one field and the latest
committed provenance, `Commit` is the flush, in which only columns that differ from the
*loaded* value are updated. `beside` is a history variable: which annotations were under
way at the same time; `alone`, that none were.

**PreviewTree.** `tree` maps paths to what files say; a file appears whole by a rename.
The script reads one file after another while the pipeline may replace them; it asks for
the directory `mdl/` (`mdlDir`), not for a model in it.

**CausalValidation, CardStore, EventLog.** A pass lists, tests and commits in the session
it listed in. A loader sees committed rows, rows it changed, and rows it added once the
enqueue of an event has flushed them. In `EventLog` a session dates a row when it writes
it (`Dates`) and commits when it is through with others (`TellCommits`, `ChangeCommits`): a
validator may test the rest of its list in between, while the row is told again. An event
is built from the row as it is when its task is drained.

**VectorCollections.** Each client keeps the store object it opened; a delete is a scroll
and a delete of the ids it returned.

**RetrievalService.** A request is one step (synchronous fetchers on one loop); between
requests assets, points, Qdrant and the clock change. Only a failing `client.search`
counts as no hits; when the collection cannot be looked up or the query not embedded, the
fetch raises (`FetchRaises`), after the read of the cache has dropped the expired entry.
**EvalRuns** has a step for each transaction of a case.

**CancellableStream.** `pump` and `consumer` are the positions of two coroutines. The
cancellation of the pump is a request delivered at its next await, and what its
`except BaseException` catches goes into the queue, waiting if that is full.
**PooledProvider.** A client is `locking`, `building`, `acquiring` or `using`, and may
fail or be cancelled at each. **AsyncQueryStore** bodies never await under the lock, so
each handler is one step. **LakehouseExecutor** has for each query the position of its
thread and what the awaiting coroutine sees.

**FederatedQueries.** A call passes the stages of `Router`: executor chosen, tenant
checked, handle acquired, running. The table of connections may be edited in between.

**StagedJob** has every attempt that runs, and for every file who wrote to it before and
after the rename. **JobWorkflows** sees a workflow as the activities its input asks for;
rows are the set of steps they come from. Runs of recipes, whose input no file check looks
at, end or stay open. **WorkerRuntime** has what the process holds
globally: registry, client, store.

## 4. The runs and their bounds

Passing runs:

| Run | Explores | Shows |
|---|---|---|
| `store_writers` (`MCStoreWriters`) | queue: 2 workers, 3 tasks, 2 rows (a point, a kind nobody handles), batches of 2, 2 attempts, 2 faults of any kind; annotations: 3 writers, 1 field, 2 values; preview: 2 runs, 1 import, 1 slip | claims exclusive; orphaned tasks untouched; trust undercut only by overlapping writes, changes reindexed; the tree and what is imported agree |
| `reindex_and_tables` (`MCTables`) | queue: 1 worker, 3 tasks, a table row and a causal row, 2 faults; vectors, listings, walks, scopes, legacy calls, scores, lexicon, clusters, enrichment, introspection, dumps | settled rows have fresh points; the system implements `PointMirror`; tasks settle unless orphaned; see below |
| `pipeline` (`MCPipelineRun`) | 2 tables, one of which is altered and altered back, 2 columns, 1 fault or death | what is recorded is stored; rows come with their events and types; the record converges, and the store unless a table was altered back after an unrecorded run |
| `ingestion` (`MCIngestionWorkflow`) | 2 tables, one of which is altered and altered back, 2 threads, 2 attempts, 1 fault, timeouts | one thread per table; what is counted is stored; the workflow ends |
| `queries` (`MCQueries`) | pools, routes, evaluation | see below |
| `services` (`MCServices`) | stream, cards, validation, retrieval, staged job, events, job files, runtimes | see below |
| `driver_queries` (`MCLakehouseDriver`) | 3 queries, 2 threads, shutdown | ends are final, the spool agrees, every query is reported finished |

`queries`, one question at a time. *Pools*: three clients on one source with one
connection, or two on two sources, one `close()`: builds are exclusive, `max_size` bounds
a source, nothing leaks, acquire ends. *Routes*: two calls, one edit: no handle of another
kind or tenant reaches an executor, what is borrowed is returned. *Evaluation*: two
processes over two runs without failures, or one in which anything may fail: one
execution per claim, counts agree with results, runs end.

`reindex_and_tables`, beside the queue. *Vectors*: two store objects, four writes, pages
of one: deletes remove what was meant and all of it; filters only widen. *Reads*: all
graphs over three nodes, all scopes and assets, all sets of legacy names, a listing in
pages while assets move; a scope has tags, kinds, stages, schemas and catalogs; scores of
lists of up to three with grades 0 to 2. *Enrichment*: one table of two columns with two
stages, or the three whose order matters, any answer or failure; lexicons of up to two
cards; clusters of three assets. *Introspection*: two schemas, up to three relations and
two constraints, one change between queries; dumps of up to three statements, with and
without a manifest.

`services`, one part at a time. *Stream*: four batches (one empty), a queue of two,
budgets below and at the number of rows, deadline, cancellation, a failing source, a
caller that leaves. *Cards*: two loaders, two files about one card, two edits.
*Validation*: two validators with a limit of one, two candidates. *Retrieval*: a cache of
two entries, clock up to 2, outages, fetches that raise. *Staged job*: three activities
with 3, 2 and 5 attempts, two faults. *Events*: a causal row and a card, three writes that
commit in any order, one lost event. *Job files*: seven directories of up to three files;
two mishaps where there is one file and one otherwise; a second, fail-fast command except
on one-file directories, where it would repeat the first. *Runtimes*: two runtimes, one
recipe, three breakdowns.

Why this is enough: the protocols are symmetric in tasks, rows, queries and writers and
interact in pairs (two tasks of one row, a writer and the one it overtakes); a third lets
a batch leave something behind, a pool or thread pool run out, or a stray row decide the
next write. `MaxAttempts = 2` is the least at which "retry" and "give up" differ; two
faults let a failure hit the handling of a failure, and where the state space allows only
one, that handling writes nothing. Queues, pages and caches are one shorter than what
passes through them. Every bound is a constant of its module; those of the environment are
called `Max...`. The theorems of section 6 do not depend on them.

Runs that show a disagreement of the code with what its documents say (findings in
`PROJECT.json`, with the quotations):

| Run | What happens |
|---|---|
| `reindex_race` | Two workers hold two tasks of one row; the one that read the older version writes last, and the point stays stale. `SKIP LOCKED` makes the claims disjoint, not the rows. |
| `stream_hang` | The deadline passes with the queue full: the cancelled pump waits for room that nobody makes, the generator for the pump. |
| `pool_close_hangs` | `close()` empties the cache first; a query that still holds a connection finds no pool to return it to. |
| `driver_mixup` | Two threads on one DuckDB connection: one gets the rows of the other. |
| `vector_search` | A hit carries the id of its point, not the asset's rk, and is looked up as an rk: no hit is ever returned. |

Earlier runs were merged where they asked about parts of one state space:
`reindex_claims` and `annotation` are in `store_writers`, `pool` in `queries`, `stream` in
`services`. `reindex_crash` (a task stays `running` for ever when its worker dies) is the
premise of `OrphanIsNeverReclaimed` and of `WorkConverges`, which excepts it;
`annotation_race` (two sessions read the provenance before either commits) is why
`AnnotationInv` promises trust only for annotations that do not overlap;
`OverruledOnlyBeside` says what they can do when they do.

The longest runs take about three minutes with two workers (`store_writers`: 170 s;
`ingestion`: 153 s; `services`: 138 s and 68 thousand states; `reindex_and_tables`: 70 s and
228 thousand), the others less than one.

Every configuration says `CHECK_DEADLOCK FALSE`: a system with nothing left to do may
stop, and all of these may. What should still happen is said by liveness properties.

## 5. Fairness

Temporal properties of joined parts are leads-to properties whose premise is false while
a part rests, and fairness carries the guard of its part.

- `ReindexWorker`: `run_forever` loops while its process lives and a supervisor restarts
  it: weak fairness of a worker's normal steps. Producers and failures need not act. The
  run uses `LoudSpec`, which is `Spec` without the two steps its configuration disables
  (a swallowed upsert, a kind without a handler).
- `PipelineRun`: whoever runs the command runs it again; weak fairness of its steps, none
  of changes, faults or deaths. `IngestionWorkflow`: Temporal and the threads go on.
- `CancellableStream`: the loop runs every ready task, a caller with a batch comes back.
  The source owes nothing; `StreamEnds` assumes in its premise that it answers.
- `PooledProvider`: what is awaited is answered in the end. `asyncio.Lock` wakes waiters
  in order, hence strong fairness of taking the lock. Nobody has to ask or to close.
- `LakehouseDriver`: the loop runs what is ready, a thread runs until its source answers.
  The clean-up of a stream is not assumed to end; `EveryQuerySettles` holds nevertheless.
- `CardStore`: a started sync goes on. `CausalValidation`: passes are scheduled, and a
  pass whose session does not conflict for ever commits (strong fairness of `Decide`).
- `EventLog`: workers drain. `EvalRuns`: a process that executes goes on, claims repeat.
- `StagedJob`, `JobWorkflows`, `WorkerRuntime`: workers that live run their attempts, and
  Temporal ends attempts that are nobody's. Multi-hop activities are retried without
  limit; their runs end because mishaps are bounded. A run of a type no worker knows stays
  open and the command that waits for it hangs: `CommandsEnd` excepts it (`Stuck`).

## 6. What is proved

Every theorem holds for all values of the constants that the assumptions named in the
modules admit. Those are typing and a few facts the code rests on: there is a table to
introspect (`Tables # {}`), a run and a case to evaluate (`Runs # {}`, `Cases` finite and
not empty), a scorer at least; an activity writes a file and is tried at least once; the
value for "nobody" names nobody; the rows of the first batches of a source (`RowsUpTo`) do
not decrease; the cache has room for an entry; a scroll asks for at least one id and there
is one; there are finitely many assets to list, of which a page takes one at least; a
foreign key refers to one column for each of its own. The fault bounds are any number.

**Reindexing** (`WorkListProofs`): `TypeCorrect`, `Exclusive`, `Budget` (`TypeOK`,
`ClaimExclusive`, `AttemptBudget`) and the action properties `VerdictStays`,
`OrphanStays`, for any number of workers. None is inductive alone: `mark_done` and
`mark_failed_retry` check only the id, so the budget depends on the task being `running`
when they are called, which depends on what workers hold, which depends on where each
worker is. `IInv` joins these.

For one worker and no swallowed upsert (`OneLoudWorker`; `reindex_race` shows what happens
without the first): `NoRefreshLost` (`SettledMeansFresh`), `NoRegress` (no point goes back)
and `Refinement`: queue and worker implement `PointMirror`, with `spine` and `index`
restricted to the rows with points and the debt mapped to the rows with an open task. By
`FreshInv`, what a worker has hydrated is the last version, or some *other* task of the row
is open, since a change enqueues its task in the same transaction; between write and commit
the point holds what was hydrated; hence a point is fresh or its row has an open task.

**Job workflows** (`WorkListProofs`): `FlowsAreWhole` (`FlowSafety`), for any directories of
files, any number of commands and any bound on mishaps. An activity is attempted, dies, is
retried and answers late in any order, so `FlowHistory` never speaks of attempts: it says
of an open run which activity of its plan (`Acts`) it waits for, and that the rows and
artifacts it holds are those of the activities before that one (`Ahead`, `Made`): a step
all of whose activities are behind it (`Over`) has rows made of all that a complete run
would make them of. `Upstream` is stated as what lies in every set of steps closed under
being fed, so that the proof needs no recursion along the steps. Of a command it says that
each verdict in `oks` is still true of its run, which is why a zero means done. The plan is
a list of lists; the lemmas on `FlattenSeq` (`Flattening`, `Places`, `Counted`) say which
activity stands where. Assumed of the files: a directory has at least one (`_cmd_run_dir`
refuses an empty one), and a file that can be read has a step and only kinds of step that
the input models know.

**The preview tree** (`WorkListProofs`): `PreviewIsMirrored` (`PreviewInv`), for any tables,
answers and claims, of which an answer has finitely many. What a run has yet to write is a
list, and a failure drops the rest of the operation it hits, so that `QueueNamesFiles` and
`EventsHaveRows` rest on `Backed`: whatever a file on the list refers to is in the tree, or
is the file just before it, in the same operation. `SamplesFollowModel` relates two files
that are written far apart; it rests on one answer being behind all that this run has
written of a table, and behind all it has yet to write of it (`Accords`, `InTable`), and on
nothing of a later table being there (`Untouched`). `QuietImportMirrors` rests on
`ImportFits`: whatever the script has passed is imported, as long as the run kept still.

**Introspection** (`SourceProofs`): `IntrospectionIsTrue` (`UntouchedTablesAreRead`), for
any database and any changes between the five queries. What a table is said to be is
joined from five snapshots, of which no two need be of the same database. The invariant
(`IntrospectInv`) therefore never speaks of the database as it was: it says of a table
that nobody touched that each query made so far returned of it what its own part of the
database says (`Learnt`), and nothing else if the source is plain. That is true of a query
when it is made because each reads one table's part at a time (`Part`), and stays true
because a change touches what it changes. The rows of the references of one column
overwrite each other in an order the database chooses, so what is read is one of several
truths (`Truths`): the column has one of its targets.

**Enrichment of a table** (`SourceProofs`): `TablesAreEnriched` (`TableEnriched`), for any
columns, vocabulary and answers. A stage relies on what stages before it left, some of which
are not configured. `EnrichInv` therefore speaks of the place of the stage that is next
(`Place`): no surface has been shown before data protection is over, no card is
taken and the table has no tags before the causal stage is over, nothing is recorded before
the annotation, there are fewer calls than stages behind, and the tags of a table are those
it took until it is recorded, and then those of the record.

**Reads** (`StoreProofs`): `WalksAreExact` (`TraceIsExact`), for any finite set of edges,
any root and any number of hops. After n hops the two frontiers are what n hops reach and
n - 1 do not, and the rows are the edges at what n - 1 hops reach (`Found`); so no later
hop can fetch a row again (`HopGoesOn`). In both directions this needs the sides of the
root to be `Apart`: an edge that both fetch would lead from the root to itself.
`ScopesAreKept` (`RoutesAgree`: the vector route loses nothing, and shows more only where
it does not filter, `Unfiltered`; `DeprecatedIsAskedFor`, `HelperGivesViews`) and
`LegacyCallsAreServed` (`LegacyCallIsServed`) are calculations over any tags and any
arguments. `PagesAreComplete` (`PagesCoverTheList`): while nothing moves, assets with
names of their own have one order (`PlaceCounts`: place i is the place of the asset that
has i names up to its own), so pages cut from different answers of the database are pages
of one list (`PagesInv`).

**Scores** (`QueryProofs`): `ScoresMeanSomething` (`ScoresAreFractions`) and
`JudgesAreStrict` (`JudgeIsStrict`), for any list, ratings and k. In a list without
duplicates the places that are hit are as many as the assets that are (`HitsAreAssets`),
so recall is a fraction.

**Queries on the lakehouse** (`SourceProofs`): `TasksLeaveAVerdict` (`DriverInv`),
`SpoolIsExact` (`SpoolMatchesState`), `VerdictsAreFinal`. Status and task are written by
different handlers, so the invariant (`StatusInv`) says for each position of a task which
statuses it admits (`Reported`), and that while the store is open only `cancel` asks a task
to stop, having reported it cancelled first.

**The route of a query** (`QueryProofs`): `RoutesAreSafe` (`FederationOK`). What a call
returns was decided by rows that may have been edited since, so `FederationInv` says of
each call, by its position, what it has read (`CallInv`); that a deployment by environment
configures each source with its own kind for one tenant, and gives a pool to Postgres only
(`EnvInv`); and that a connection is lent only to a call that has still to give it back
(`NothingLeaks`).

**Evaluation** (`QueryProofs`): `RunsCountTheirCases` (`EvalInv`). That a run which was
executed once has one row per case and scorer, and one that two processes executed at most
two, is not inductive: an execution half-way owes the rest. `EvalHistory` keeps a budget of
two executions per run, of which each may still write what its position leaves it
(`RowBudget`, `MetricBudget`), one of the two being unspent while the run can still be
claimed; the budget is two because a run is claimed once and executed by `run-once` once
(`OneClaim`). A run that only one process executes has exactly the rows of that execution
(`UnsharedExact`).

**Pools** (`QueryProofs`): `PoolsAreKnown` (`PoolInv`), `ConnectionsComeBack` (`NoLeak`).
`release()` looks the pool up by source, not by connection; that this finds the right one
rests on `BeforeClose`: until `close()` runs, a pool once built stays the one of its source,
and whoever acquires, acquires from that one; which rests on builds being made only for a
source without a pool (`BuildsMissing`), under the lock.

**Streams** (`ServiceProofs`): `StreamKeepsItsWord` (`StreamSafety`): the caller gets the
batches in order, an end without error means all of them, rows stay within the budget,
the source is at most one batch ahead of a full queue. `DeliveryInv` says of delivered,
queued and held batches that together they are the batches sent, in order, and of the pump
where it may be for each state of the consumer; `BudgetInv` that whatever was queued is
within the budget, counted by the pump and not by the caller.

**Cards, candidates, events** (`ServiceProofs`): `CardsKeepFaith` (`CardHistory`): a
deprecated card stays so, and a row never changes without the event of its new content.
`UntestedStayOpen`, `DecisionsAreKept`: a pass decides from a list made earlier; a promotion
stands because such a candidate is in no list (`PromotedUnlisted`), unless it was listed
before it was promoted, which the model remembers (`exposed`). `LogsTellTheTruth`
(`EventsTellTheTruth`): rows are dated when they are written and committed in any order,
and events are built from the row as it is and appended in any order. The invariant
(`EventLogInv`) therefore refers to the commits of a row (`said`): an event, appended or in
hand, tells what the commit with its date left; where no commit crossed another
(`Crossed`) and the row has changed since, it is older than one built now would be
(`EventInv`); and the last write of a row is told or still to be told (`Told`).

**Runtimes and staged jobs** (`ServiceProofs`): `RuntimesShareSafely` (`RuntimeSafety`),
from `ConfiguredByStart` (the process is configured as soon as anybody tried to start) and
`RunKnown` for each run submitted. `HandlesAreWhole` (`JobSafety`): files of an attempt that
was overtaken may be renamed or removed under its hands. `JobInv` therefore keeps the owner
apart from the presence of a file: the files of the steps an attempt has passed are in
place whoever put them there (`Handed`), and they are its own as long as no attempt was
overtaken (`Own`, `Undisturbed`).

**Pipeline** (`PipelineRunProofs`): `RecordIsHonest` (`RecordedMeansStored`),
`StoreFitsTogether` (`StoreInv`) and `SkippedIsStored`, which no run checks: a table
skipped as unchanged has rows of the content just introspected, or of a version that was
stored and not recorded before the table was altered back to the recorded content.
`RunInv` orders four versions of a table: recorded, stored, as introspected, and the
source's. What each transaction of `_process_table` does to the store is proved once
(`TablePipelineProofs`): it keeps the store sound (`SoundStores`) and a version that is
stored is never replaced by an older one of the same job.

**Ingestion** (`IngestionProofs`): `ThreadsAreHonest` (`ThreadsInv`), `CountsAreHonest`
(`CountedMeansStored`), `StoreFitsTogether`. The file that threads write, rename and read is
honest (`Files`) because every memory it was written from is; attempts at one table overlap
only after a timeout, which the model remembers (`overrun`), and only such a table may be
recorded newer than it is stored (`Alone`).

**Annotations** (`StoreProofs`): `LatestIsTrue` (`AnnotationInv`), `FieldsChangeForCause`
(`FieldSteps`), and for any overlap `TrustIsUndercutBeside` (`OverruledOnlyBeside`): a row
of lower trust that is later than one of higher trust was decided either before that one
was committed, and then the two were beside each other, or behind a third of lower trust
that hid it, of which the same is true; there is no chain of sessions that undercuts trust
without an overlap. The part that is not local to a write is that the latest row is also
the one of most trust, when annotations do not overlap: stamps are handed out by a clock
that counts the annotations begun (`ClockCounts`), so the order of stamps is that of the
writes (`InOrder`).

**Points** (`StoreProofs`): `FiltersAreSafe` (`VectorInv`), `DeletesKeepFaith`
(`VectorSteps`). The first needs no history: it says of every filter and point that what is
sent matches whatever is meant. The second rests on `OnCourse`, kept for each delete under
way whoever writes meanwhile: a sweep has every id it is still meant for at or behind its
cursor or in its page; the page of a filtered delete holds all that is meant, or is full,
and nothing else but what was rewritten since the scroll. A page that is not
full leaves nothing out (`Pages`): before an id that is left out there is a page of smaller
ones. A collection that does not exist has only store objects that were opened
before it was dropped (`VectorHistory`), so a write without it comes from one of these.

**The cache** (`StoreProofs`): `CacheKeepsOrder` (`CacheIsLRU`), `AnswersStayFresh`
(`AnswersAreRecent`). The cache knows nothing of the inputs that were asked for; the
invariant (`CacheHistory`) says that its entries are those of the last `MaxEntries` inputs
that were answered, each once, in the order of their last use. A hit of an entry moves the
same input in both; a miss whose input was dropped earlier, and one whose entry has just
been found expired, shift them differently and are separate cases; a fetch that raises
leaves its place empty (`Unanswered`). Each entry expires its time to live after it was
fetched (`Fresh`), which a hit does not change.

**Only model-checked**, and why:

- every liveness property: fairness and `ENABLED` are beyond the prover;
- `ReadsOK` and `EnrichmentOK` as they stand, because of what they have besides the parts
  proved above: that the best order has the best score (`BestOrderIsOne`: a sum over a
  fold, compared with that of a sorted list), the lexicon pass (`MatchesAreExact`), the
  clusters and links (`ClustersAreMeant`, `LinksStayInside`) and dumps (`DumpIsRead`). They
  are folds, selections (`SelectSeq`) and sorts that take an operator as a parameter; the
  provers cannot unfold a selection, and a fold only step by step.

The library's induction theorems take an operator as a parameter, which the provers cannot
instantiate. Where a proof needs induction on numbers (`Climb` under the lemmas on
`FlattenSeq`, `Climbing` under those on walks), it takes the least counterexample out of a
set (`WFMin`).

## 7. What the models showed beside the findings

Each is in the model as the code has it, and excepted by name in the property it touches.

- `introspect.py`: `pg_class` is joined by the name of a relation alone, so a table whose
  name occurs in any other schema is listed twice, once with a comment that is not its
  own, its columns doubled. Constraint views are joined by name and schema, so constraints
  of one name are mixed; of the references of one column (a composite key gives a cross
  product, and a column may have two keys) the row that comes last is kept, in no order;
  references to other schemas are dropped. Five queries are five snapshots.
- `introspect_sql.py` says CREATE VIEW surfaces as a view; the code has no path for it.
  Named constraints and FOREIGN KEY in a body are not read; a manifest knows bare names.
- `pipeline.py:225`: a table whose new version was stored but not recorded, and that is
  then altered back to the recorded content, is skipped by every later run with the rows of
  the version in between. `Converges` and `SpineConverges` except this and nothing else.
- `causal_validation.py:301`: decisions are dated one by one and committed together at the
  end of the list; a candidate told again meanwhile has a newer event that says proposed.
  `CurrentStateFromLog` excepts such rows (`Crossed`).
- `kinds.py:177`: the vector route filters neither by schema nor by catalog of the scope.
- `pipeline.py`: the docstring of the samples gate says that without data protection no
  column is cleared, the code writes all; samples of columns flagged later stay. The
  concept index is filled before the model is annotated, so relation types are induced
  without concepts.
- `cross_asset_causal.py` says that subsets of a cluster are dropped, only equal sets are;
  a card named twice makes a cluster of one asset; links of an asset to itself pass.
- `annotate.py` replaces causal relations that `causal.py` says are preserved.
  `relationships.py` applies an answer about a column that was not offered.
- `metrics.py`: an asset listed twice counts twice, so recall and ndcg may exceed 1.
- `kinds.py`: the aliases `lineage_upstream` and `lineage_downstream` ignore their
  direction; the alias `views` is not narrowed to views, and `get_sql_functions` narrows to
  a sort of asset that the relational route does not know.
- `pipeline_workflow.py:82`: a step of SQL may name what it consumes and the input is
  accepted; only Python and combining steps are fed anything, so the name is without effect.
- A relationship inferred twice in one answer for one target violates a key, and the whole
  answer is forgotten (`InferredClash`); so does a candidate named twice.

## 8. Hazards

`PROJECT.json` lists the forty that matter most, each with its properties. Others the
models also meet:

*atomicity*

- `ontology-retrieval/ontology_retrieval/eval/worker.py:119`: Results, aggregates and the
  count are written in transactions of their own.

*crash recovery*

- `ontology-store/ontology_store/workers/reindex.py:160`: mark_done of an unknown kind is
  outside the try.
- `nexcraft-driver/nexcraft_driver/async_store.py:112`: aclose cancels the tasks and does
  not wait.
- `nexcraft-jobs/nexcraft_jobs/runtime/parquet_extract.py:24`: A worker that dies leaves its
  temporary file.

*interleaving*

- `nexcraft/nexcraft/streaming/cancellable_stream.py:92`: A batch, the timer and the
  cancellation reach the consumer together.
- `nexcraft/nexcraft/connection/pooled.py:172`: close() empties the cache while a build is
  under way.
- `ontology-store/ontology_store/dao/hierarchy.py:72`: The first sessions of two tables both
  find no organisation and insert it.
- `ontology-pipeline/ontology_pipeline/validate/causal_validation.py:280`: Two passes list
  the same pending candidates and both write a verdict.
- `ontology-store/ontology_store/dao/cards.py:115`: Two loaders read a card and both insert
  or update it.
- `ontology-store/scripts/import_preview_to_qdrant.py:336`: The script reads model, hints
  and side files one after another while the pipeline replaces them.

*liveness*

- `ontology-store/ontology_store/workers/reindex.py:124`: The whitelist passed to dequeue
  and the kinds producers enqueue may differ.
- `nexcraft-jobs/nexcraft_jobs/runtime/recipe_staged_workflow.py:35`: A workflow whose
  activities fail, time out or lose their workers ends, done or failed, once its attempts
  are used.
- `ontology-retrieval/ontology_retrieval/eval/worker.py:86`: A run whose cases raise, every
  one of them, still ends.
- `nexcraft-jobs/nexcraft_jobs/yaml_jobs/loader.py:25`: The input of a type that is not
  registered is not checked.

*numeric edge*

- `nexcraft/nexcraft/streaming/cancellable_stream.py:76`: The budget is checked by a task
  that runs ahead of the caller.
- `ontology-retrieval/ontology_retrieval/pipeline/base.py:263`: A ttl of 0 is falsy and
  becomes the default.
- `ontology-store/ontology_store/dao/reader.py:131`: Four times k rows are taken in no order
  and then ranked.
- `nexcraft-driver/nexcraft_driver/integration/source_executors.py:116`: A result of no rows
  has no batch at all.
- `ontology-retrieval/ontology_retrieval/eval/metrics.py:45`: A list with an asset twice
  counts it twice.

*ordering*

- `ontology-store/ontology_store/workers/reindex.py:348`: Events are built at drain time, in
  any order of the batch, from whatever version the row then has.
- `ontology-store/ontology_store/dao/annotations.py:125`: _latest_provenance orders by a
  stamp made before the write, not by commit.
- `ontology-pipeline/ontology_pipeline/pipeline.py:524`: Statistics have a foreign key to
  the table.
- `ontology-pipeline/ontology_pipeline/output.py:528`: A predicate is attached to edges by
  name.
- `ontology-store/ontology_store/workers/event_narrative.py:60`: A promoted candidate keeps
  its validated_at.
- `ontology-store/ontology_store/vector/store.py:184`: The scroll of a sweep goes on from an
  offset while the pages before it are deleted and others write.
- `ontology-store/ontology_store/dao/reader.py:95`: Pages are cut by offset from an order by
  name, which is not unique, of a list that changes.
- `nexcraft-jobs/nexcraft_jobs/runtime/pipeline_workflow.py:82`: A step may consume one that
  comes later, or itself.
- `ontology-pipeline/ontology_pipeline/pipeline.py:910`: The stages read what those before
  them left.

*other*

- `ontology-retrieval/ontology_retrieval/eval/worker.py:177`: Every kind is called with
  query, scope and k, and the inputs of asset_by_rk forbid them.
- `ontology-store/ontology_store/vector/store.py:180`: A delete whose filter cannot be
  translated, or whose list of ids is empty, is a delete without a filter.
- `ontology-store/ontology_store/vector/collections.py:308`: "-" becomes "_" and case is
  lost.
- `ontology-retrieval/ontology_retrieval/pipeline/kinds.py:178`: The vector route filters on
  what the payload holds.
- `nexcraft-driver/nexcraft_driver/integration/source_executors.py:109`:
  SnowflakeTableExecutor.describe passes the handle where execute passes the connection in
  it.
- `nexcraft-driver/nexcraft_driver/server.py:120`: The endpoint of a ticket is
  localhost:50051 whatever host and port the server has.
- `ontology-pipeline/ontology_pipeline/output_preview.py:463`: _safe_filename maps different
  keys to one name, and cuts long ones.
- `ontology-pipeline/ontology_pipeline/pipeline.py:577`: The docstring of the samples gate
  says that without the data-protection stage no column is cleared.
- `ontology-pipeline/ontology_pipeline/enrich/cross_asset_causal.py:180`: A list of
  annotations with a card twice puts its asset twice into a bucket.
- `ontology-pipeline/ontology_pipeline/introspect.py:118`: pg_class is joined by the name of
  a relation alone.

*partial failure*

- `ontology-store/ontology_store/vector/store.py:319`: upsert_points catches the Qdrant
  exception and reports it by a count that _upsert_one does not read.
- `nexcraft/nexcraft/connection/pooled.py:162`: Secrets or the driver fail, or the query is
  cancelled, while the build lock is held.
- `nexcraft-driver/nexcraft_driver/integration/source_executors.py:196`: _con is stored
  before the extensions, the credentials and the views are loaded.
- `nexcraft-driver/nexcraft_driver/async_store.py:128`: The write of the Parquet file fails
  half-way, or the query fails or is cancelled after it.
- `ontology-store/ontology_store/dao/annotations.py:105`: Some fields of one write are
  applied, others held back or empty.
- `ontology-pipeline/ontology_pipeline/pipeline.py:821`: write_relation_schema raises after
  every table was stored.
- `ontology-pipeline/ontology_pipeline/pipeline.py:937`: A side output that cannot be
  written is logged and forgotten and the table is recorded as processed.
- `ontology-pipeline/ontology_pipeline/temporal/workflows.py:190`: One table whose attempts
  are used up ends the gather with an exception, and so the workflow (the comment above says
  that such a table comes back with an error result).
- `ontology-retrieval/ontology_retrieval/eval/worker.py:114`: Some scorers of a case have
  committed their results when a later one raises.
- `nexcraft-driver/nexcraft_driver/server.py:115`: A describe that fails is answered with an
  empty schema and a ticket.
- `nexcraft/nexcraft/router.py:46`: describe and execute fail at each await.
- `nexcraft-jobs/nexcraft_jobs/runtime/genieml_post_output.py:53`: The artifacts are made
  inside the run.
- `ontology-store/scripts/import_preview_to_qdrant.py:349`: upsert_points logs what Qdrant
  refuses and the script counts it.
- `ontology-pipeline/ontology_pipeline/annotate.py:269`: The LLM fails, or is not
  configured, after the lexicon has found cards.

*protocol sequence*

- `ontology-store/ontology_store/workers/queue.py:193`: mark_done and mark_failed_retry test
  no status.
- `nexcraft-driver/nexcraft_driver/async_store.py:104`: A task cancelled before its first
  step never enters _run, so no handler of _run reports the end.
- `ontology-store/ontology_store/dao/inferences.py:241`: A candidate that an answer of the
  LLM lists twice is inserted twice in one session.
- `ontology-pipeline/ontology_pipeline/cards/loader.py:206`: The event of a card is queued
  only when the row has its primary key.
- `ontology-store/ontology_store/dao/inferences.py:226`: A decision of the validator, a
  promotion by hand and mark_deprecated queue no event task.
- `ontology-store/ontology_store/db/eval_models.py:76`: scorer_names of a row is never read.
- `ontology-retrieval/ontology_retrieval/compat.py:80`: A legacy call that gives a scope and
  also its parts is handed the parts as well, and the input model forbids them.
- `nexcraft-driver/nexcraft_driver/server.py:114`: The tenant of a synchronous query is
  "default".
- `ontology-pipeline/ontology_pipeline/enrich/relationships.py:150`: An answer may name a
  column that was not offered as a candidate, the primary key for one, and it is given a
  reference.

*resource bound*

- `nexcraft/nexcraft/streaming/cancellable_stream.py:35`: Read-ahead: the pump must not
  buffer a source that is faster than its caller.
- `nexcraft/nexcraft/connection/asyncpg_pool.py:66`: More queries than max_size on one
  source.
- `nexcraft-driver/nexcraft_driver/async_store.py:64`: Statuses, tasks and files of finished
  queries are kept for ever.
- `ontology-retrieval/ontology_retrieval/pipeline/cache.py:66`: The cache at its limit: a
  key that is set again, one that is read and one that has expired compete for the last
  place.
- `ontology-store/ontology_store/vector/store.py:455`: delete_by_filter scrolls one page of
  10_000.

*stale state*

- `ontology-store/ontology_store/workers/reindex.py:191`: The row is hydrated in one
  transaction and written to Qdrant later.
- `nexcraft/nexcraft/connection/pooled.py:148`: A pool is built once, from the details of
  the first call, and kept for ever.
- `ontology-pipeline/ontology_pipeline/pipeline.py:369`: The concept index of the passes
  over all tables is filled before the model is annotated.
- `ontology-store/ontology_store/dao/inferences.py:164`: The enricher proposes a candidate
  again on every run.
- `ontology-pipeline/ontology_pipeline/temporal/activities.py:186`: The cross-asset pass
  rebuilds its models by introspection.
- `nexcraft-jobs/nexcraft_jobs/runtime/temporal_staged_activities.py:66`: Files are named
  after the job.
- `ontology-store/ontology_store/workers/event_narrative.py:34`: An event is built from the
  row as it is when the task is drained, and dated by the row.
- `ontology-store/ontology_store/vector/hierarchy.py:323`: A store object is cached for
  ever.
- `nexcraft-jobs/nexcraft_jobs/runtime/temporal.py:79`: Re-registration is dropped silently.
- `ontology-pipeline/ontology_pipeline/output_preview.py:89`: A run that finds nothing
  writes nothing.

*timeout retry*

- `ontology-store/ontology_store/workers/reindex.py:166`: The point is written and the
  commit of mark_done fails.
- `ontology-store/ontology_store/workers/queue.py:209`: A failed task is pending again at
  once.
- `nexcraft-driver/nexcraft_driver/async_store.py:126`: QueryContext is built without the
  deadline the client submitted (SubmitRequest.deadline_seconds is never read).
- `ontology-pipeline/ontology_pipeline/temporal/activities.py:147`: The table is stored and
  recorded and its answer is lost.
- `nexcraft-jobs/nexcraft_jobs/runtime/temporal_staged_activities.py:158`: compute sends a
  heartbeat only at its start and end.
- `nexcraft-jobs/nexcraft_jobs/runtime/fedsql_activities.py:112`: A rejected statement is
  retried, or its error is lost behind the retries.

## 9. Not modelled, and why

- *Data*: SQL, Arrow batches, prompts, narratives, payload layout, embeddings and the
  ranking of hits. A version, a position or a model value stands for them. Byte budgets
  are counted and checked like row budgets.
- *Time*: a deadline is a flag; back-off is not modelled. `SubmitRequest.deadline_seconds`
  is never read by the code and has no counterpart.
- *Event history*: versions overwritten before the queue is drained are not logged, and a
  retried event is appended again; `EventLog` promises what the write of that date left,
  not one event per version. Its run has rows of two of the four tables; the others have
  the same actions without decisions by hand.
- *Runtimes*: one that was shut down is not started again.
- *External systems*: Postgres is a store with atomic commits, Qdrant a map with atomic
  upserts, asyncpg, DuckDB, asyncio and Temporal what the code relies on of them.
  Definitions for them are marked external in the map.
- *Recipes and compute engines, foundry, admin, archived UDFs, start-up of workers*: pure
  computations, views, or the building of objects; no state outlives a call, and
  `_archive` is imported by nothing.

## 10. Plan

Done: the modules of section 2. Left:

1. An abstract specification of the store ("the store follows the source") and the
   refinement of `PipelineRun` and `IngestionWorkflow` to it.
2. `FederatedQueries` over `CancellableStream` and `PooledProvider`: no connection outlives
   its stream, whichever gives up first.
3. The ranking of hits as a calculation, and the sink that writes to several sinks.
