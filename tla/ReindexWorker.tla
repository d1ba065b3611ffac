--------------------------- MODULE ReindexWorker ---------------------------
(***************************************************************************)
(* ReindexWorker (ontology-store workers/reindex.py): processes that drain *)
(* reindex_queue into the Qdrant collections while producers keep          *)
(* committing spine changes.  A worker claims a batch in one transaction,  *)
(* then takes its tasks one by one; for each it opens a session, hydrates  *)
(* the row, upserts the point over the network and commits mark_done.  A   *)
(* failure anywhere in there rolls the session back (never the point) and  *)
(* a second session runs mark_failed_retry.                                *)
(*                                                                         *)
(* The content of a row is abstracted to a version.  index[r] is the       *)
(* version held by the point of row r (0: no point); log[r] is the         *)
(* sequence of versions appended to an event collection for row r.         *)
(***************************************************************************)
EXTENDS ReindexQueue, Sequences

CONSTANTS
    Workers,      \* worker processes
    NoTask,       \* cur[w] when w processes nothing
    FaultKinds,   \* which failures the environment may inject
    MaxVersion,   \* bound: changes a producer makes to one row
    MaxFaults     \* bound: failures injected in a behaviour

\* raise:  the handler raises (hydration, embedder, missing collection)
\* qdrant: client.upsert raises, and upsert_points logs it and returns
\* commit: the session that holds mark_done fails to commit
\* mark:   the session of mark_failed_retry fails, which is only logged
\* crash:  the process dies, or run_once raises out of run_forever
AllFaultKinds == {"raise", "qdrant", "commit", "mark", "crash"}

ASSUME WorkerAssumption ==
    /\ NoTask \notin TaskIds
    /\ FaultKinds \subseteq AllFaultKinds
    /\ MaxVersion \in Nat
    /\ MaxFaults \in Nat

\* Kinds whose handler overwrites one point, appends an event, or does
\* nothing: the catalog stub, and the card handler on the payload that
\* enqueue_card_reindex builds, which has no body.
PointKinds == {"qdrant_asset", "qdrant_field", "qdrant_source", "qdrant_schema"}
EventKinds == {"event_causal", "event_relation", "event_protection", "event_card"}
NoopKinds == {"qdrant_catalog", "qdrant_card"}
HandledKinds == PointKinds \union EventKinds \union NoopKinds
PointRows == {r \in Rows : KindOf[r] \in PointKinds}

VARIABLES
    spine,    \* Rows -> version of the row in Postgres
    index,    \* Rows -> version held by its point
    log,      \* Rows -> versions appended to its event collection
    pc,       \* Workers -> where the process is
    batch,    \* Workers -> claimed tasks not yet taken up
    cur,      \* Workers -> the task being processed
    snap,     \* Workers -> the version hydrated for cur
    faults    \* failures injected so far

store == <<spine, index, log>>
procs == <<pc, batch, cur, snap>>
vars == <<queue, store, procs, faults>>

\* poll: at the top of run_forever; next: between two tasks of a batch;
\* write: hydrated, before the upsert; commit: before the commit of mark_done;
\* retry: before mark_failed_retry; down: the process is not running.
Locations == {"poll", "next", "write", "commit", "retry", "down"}

Row(w) == queue[cur[w]].row
Held(w) == batch[w] \union ({cur[w]} \ {NoTask})

Init ==
    /\ EmptyQueue
    /\ spine = [r \in Rows |-> 0]
    /\ index = [r \in Rows |-> 0]
    /\ log = [r \in Rows |-> << >>]
    /\ pc = [w \in Workers |-> "poll"]
    /\ batch = [w \in Workers |-> {}]
    /\ cur = [w \in Workers |-> NoTask]
    /\ snap = [w \in Workers |-> 0]
    /\ faults = 0

Fault(kind) ==
    /\ kind \in FaultKinds
    /\ faults < MaxFaults
    /\ faults' = faults + 1

(***************************************************************************)
(* A DAO changes a row and enqueues its task in the same transaction.      *)
(***************************************************************************)
ChangeRow(r, t) ==
    /\ spine[r] < MaxVersion
    /\ Enqueue(t, r)
    /\ spine' = [spine EXCEPT ![r] = @ + 1]
    /\ UNCHANGED <<index, log, procs, faults>>

\* run_once: claim a batch and commit the claim.
Dequeue(w) ==
    /\ pc[w] = "poll"
    /\ \E B \in SUBSET Claimable :
          /\ IsOldestBatch(B)
          /\ Claim(B)
          /\ batch' = [batch EXCEPT ![w] = B]
    /\ pc' = [pc EXCEPT ![w] = "next"]
    /\ UNCHANGED <<store, cur, snap, faults>>

\* Mutant of Hydrate: the version is the one the enqueue saw, as if the
\* payload carried the narrative.
HydrateAtEnqueue(w) ==
    /\ pc[w] = "next"
    /\ \E t \in batch[w] :
          /\ KindOf[queue[t].row] \in HandledKinds
          /\ batch' = [batch EXCEPT ![w] = @ \ {t}]
          /\ cur' = [cur EXCEPT ![w] = t]
          /\ snap' = [snap EXCEPT ![w] =
                        Cardinality({u \in TasksOf(queue[t].row) : u <= t})]
    /\ pc' = [pc EXCEPT ![w] = "write"]
    /\ UNCHANGED <<queue, store, faults>>

\* _process_task, handled kinds: open a session and hydrate the row.
Hydrate(w) ==
    /\ pc[w] = "next"
    /\ \E t \in batch[w] :
          /\ KindOf[queue[t].row] \in HandledKinds
          /\ batch' = [batch EXCEPT ![w] = @ \ {t}]
          /\ cur' = [cur EXCEPT ![w] = t]
          /\ snap' = [snap EXCEPT ![w] = spine[queue[t].row]]
    /\ pc' = [pc EXCEPT ![w] = "write"]
    /\ UNCHANGED <<queue, store, faults>>

\* _process_task, a kind with no handler: mark_done at once.
SkipUnknown(w) ==
    /\ pc[w] = "next"
    /\ \E t \in batch[w] :
          /\ KindOf[queue[t].row] \notin HandledKinds
          /\ MarkDone(t)
          /\ batch' = [batch EXCEPT ![w] = @ \ {t}]
    /\ UNCHANGED <<store, pc, cur, snap, faults>>

\* The whole batch is processed: back to the loop of run_forever.
EndBatch(w) ==
    /\ pc[w] = "next"
    /\ batch[w] = {}
    /\ pc' = [pc EXCEPT ![w] = "poll"]
    /\ UNCHANGED <<queue, store, batch, cur, snap, faults>>

(***************************************************************************)
(* The network write.  A point is overwritten; an event gets a fresh       *)
(* event_id, so writing it again adds a second one.  On Qdrant's failure   *)
(* upsert_points logs, returns documents_written = 0, and _upsert_one      *)
(* ignores the count: the handler goes on as if the point were written.    *)
(***************************************************************************)
Write(w) ==
    /\ pc[w] = "write"
    /\ pc' = [pc EXCEPT ![w] = "commit"]
    /\ \/ /\ KindOf[Row(w)] \in PointKinds
          /\ index' = [index EXCEPT ![Row(w)] = snap[w]]
          /\ UNCHANGED log
       \/ /\ KindOf[Row(w)] \in EventKinds
          /\ log' = [log EXCEPT ![Row(w)] = Append(@, snap[w])]
          /\ UNCHANGED index
       \/ /\ KindOf[Row(w)] \in NoopKinds
          /\ UNCHANGED <<index, log>>
    /\ UNCHANGED <<queue, spine, batch, cur, snap, faults>>

WriteSwallowed(w) ==
    /\ pc[w] = "write"
    /\ Fault("qdrant")
    /\ pc' = [pc EXCEPT ![w] = "commit"]
    /\ UNCHANGED <<queue, store, batch, cur, snap>>

\* Mutant of HandlerRaises: the exception is logged and the task marked done.
HandlerRaisesQuietly(w) ==
    /\ \/ pc[w] = "write" /\ Fault("raise")
       \/ pc[w] = "commit" /\ Fault("commit")
    /\ pc' = [pc EXCEPT ![w] = "commit"]
    /\ UNCHANGED <<queue, store, batch, cur, snap>>

\* The handler raises before the write, or the commit fails after it.
HandlerRaises(w) ==
    /\ \/ pc[w] = "write" /\ Fault("raise")
       \/ pc[w] = "commit" /\ Fault("commit")
    /\ pc' = [pc EXCEPT ![w] = "retry"]
    /\ UNCHANGED <<queue, store, batch, cur, snap>>

\* Leave the current task and go on with the batch.
NextTask(w) ==
    /\ pc' = [pc EXCEPT ![w] = "next"]
    /\ cur' = [cur EXCEPT ![w] = NoTask]
    /\ snap' = [snap EXCEPT ![w] = 0]
    /\ UNCHANGED <<store, batch>>

\* The handler's session commits mark_done.
CommitDone(w) ==
    /\ pc[w] = "commit"
    /\ MarkDone(cur[w])
    /\ NextTask(w)
    /\ UNCHANGED faults

\* A session of its own runs mark_failed_retry.
CommitRetry(w) ==
    /\ pc[w] = "retry"
    /\ MarkFailedRetry(cur[w])
    /\ NextTask(w)
    /\ UNCHANGED faults

\* mark_failed_retry fails too; the worker logs it and takes the next task.
LoseRetry(w) ==
    /\ pc[w] = "retry"
    /\ Fault("mark")
    /\ NextTask(w)
    /\ UNCHANGED queue

\* The process dies: open transactions roll back, claims stay committed.
Crash(w) ==
    /\ pc[w] # "down"
    /\ Fault("crash")
    /\ pc' = [pc EXCEPT ![w] = "down"]
    /\ batch' = [batch EXCEPT ![w] = {}]
    /\ cur' = [cur EXCEPT ![w] = NoTask]
    /\ snap' = [snap EXCEPT ![w] = 0]
    /\ UNCHANGED <<queue, store>>

Restart(w) ==
    /\ pc[w] = "down"
    /\ pc' = [pc EXCEPT ![w] = "poll"]
    /\ UNCHANGED <<queue, store, batch, cur, snap, faults>>

Work(w) ==
    \/ Dequeue(w) \/ Hydrate(w) \/ SkipUnknown(w) \/ EndBatch(w)
    \/ Write(w) \/ CommitDone(w) \/ CommitRetry(w) \/ Restart(w)

Failure(w) == WriteSwallowed(w) \/ HandlerRaises(w) \/ LoseRetry(w) \/ Crash(w)

Next ==
    \/ \E r \in Rows, t \in TaskIds : ChangeRow(r, t)
    \/ \E w \in Workers : Work(w) \/ Failure(w)

Spec == Init /\ [][Next]_vars

\* run_forever never stops taking steps while its process lives, and the
\* service restarts a process that died; nothing forces a producer or a
\* failure to happen.
FairSpec == Spec /\ \A w \in Workers : WF_vars(Work(w))
-----------------------------------------------------------------------------
TypeOK ==
    /\ queue \in [TaskIds -> Task]
    /\ spine \in [Rows -> 0..MaxVersion]
    /\ index \in [Rows -> 0..MaxVersion]
    /\ log \in [Rows -> Seq(0..MaxVersion)]
    /\ pc \in [Workers -> Locations]
    /\ batch \in [Workers -> SUBSET TaskIds]
    /\ cur \in [Workers -> TaskIds \union {NoTask}]
    /\ snap \in [Workers -> 0..MaxVersion]
    /\ faults \in 0..MaxFaults

(***************************************************************************)
(* SKIP LOCKED hands out disjoint batches, and nothing afterwards lets two *)
(* processes hold one task: what a worker holds stays running until that   *)
(* worker lets go of it, through retries, crashes and restarts.            *)
(***************************************************************************)
HeldIsRunning == \A w \in Workers : \A t \in Held(w) : queue[t].status = "running"
ClaimsDisjoint == \A v, w \in Workers : v # w => Held(v) \intersect Held(w) = {}
CurLeftBatch == \A w \in Workers : cur[w] \notin batch[w]
ClaimExclusive == HeldIsRunning /\ ClaimsDisjoint /\ CurLeftBatch

\* Where a worker holds what: cur only while a task is processed, a batch only
\* while one is under way.
HoldsInPlace ==
    \A w \in Workers :
        /\ cur[w] # NoTask <=> pc[w] \in {"write", "commit", "retry"}
        /\ pc[w] \in {"poll", "down"} => batch[w] = {}

(***************************************************************************)
(* The retry budget: a task is offered again only while attempts are left, *)
(* and it is given up only when all MaxAttempts were spent, however many   *)
(* workers and crashes the attempts were spread over.                      *)
(***************************************************************************)
AttemptBudget ==
    \A t \in TaskIds :
        /\ queue[t].status = "pending" => queue[t].attempts < MaxAttempts
        /\ queue[t].status = "failed" => queue[t].attempts = MaxAttempts
        /\ queue[t].status \in {"running", "done"} => queue[t].attempts > 0

(***************************************************************************)
(* mark_done and mark_failed_retry test nothing but the id: only because   *)
(* no other process still holds the task does a verdict stay.              *)
(***************************************************************************)
VerdictIsFinal ==
    [][\A t \in TaskIds :
          queue[t].status \in {"done", "failed"} => queue'[t] = queue[t]]_queue

(***************************************************************************)
(* A running task whose worker died or lost its retry is an orphan, and    *)
(* nothing in the package ever touches an orphan again (there is no        *)
(* reaper on started_at).                                                  *)
(***************************************************************************)
Orphan(t) == queue[t].status = "running" /\ \A w \in Workers : t \notin Held(w)
OrphanIsNeverReclaimed ==
    [][\A t \in TaskIds : Orphan(t) => queue'[t] = queue[t]]_vars

(***************************************************************************)
(* When every task of a row is done its point holds the row's last         *)
(* version: hydrating at drain time, and not at enqueue time, makes the    *)
(* order in which the tasks are taken harmless.                            *)
(***************************************************************************)
Settled(r) == \A t \in TasksOf(r) : queue[t].status = "done"
SettledMeansFresh == \A r \in PointRows : Settled(r) => index[r] = spine[r]

(***************************************************************************)
(* With one worker a point never goes back to an older version, even when  *)
(* a crash or a retry makes the worker write it again.                     *)
(***************************************************************************)
PointNeverRegresses == [][\A r \in Rows : index'[r] >= index[r]]_index

(***************************************************************************)
(* What one worker promises about points, as an abstract specification:    *)
(* a row owes a refresh from its change until all its tasks are done.      *)
(***************************************************************************)
Owed == {r \in PointRows : ~Settled(r)}
OnPoints(version) == [r \in PointRows |-> version[r]]
Mirror == INSTANCE PointMirror WITH
    Rows <- PointRows, spine <- OnPoints(spine), index <- OnPoints(index), owed <- Owed
MirrorSpec == Mirror!Spec

Verdict(t) == queue[t].status \in {"done", "failed"}

\* What holds in spite of crashes: no task waits in the queue for ever, and
\* the only way to stay without a verdict is to become an orphan (which the
\* README's "workers crash-resume from pending rows" does not say).
TaskSettlesOrIsOrphaned ==
    \A t \in TaskIds : (queue[t].status = "pending") ~> (Verdict(t) \/ Orphan(t))

\* Once producers are quiet each point catches up, unless a task failed or
\* became an orphan.
PointsConverge ==
    <>[](\A r \in PointRows :
            \/ index[r] = spine[r]
            \/ \E t \in TasksOf(r) : queue[t].status = "failed" \/ Orphan(t))

\* What a single worker guarantees in the end: no task is left waiting, and no
\* point is left behind its row (run_forever, mark_failed_retry).
WorkConverges == TaskSettlesOrIsOrphaned /\ PointsConverge
=============================================================================
