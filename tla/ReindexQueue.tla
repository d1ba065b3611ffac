---------------------------- MODULE ReindexQueue ----------------------------
(***************************************************************************)
(* The table reindex_queue of ontology-store and the operations that       *)
(* QueueDAO (workers/queue.py) performs on it.  A row of the table is a    *)
(* task; a task names a row of the spine whose Qdrant points must be       *)
(* rebuilt.  Each operation is one statement of a committed transaction,   *)
(* so each one is a single function of the table; ReindexWorker composes   *)
(* them with the producers and with the worker processes.                  *)
(***************************************************************************)
EXTENDS Integers, FiniteSets

CONSTANTS
    TaskIds,      \* queue_id values; their order is the order of enqueued_at
    Rows,         \* spine rows (assets, fields, causal candidates, ...)
    KindOf,       \* the task kind a change of each row enqueues
    TaskKinds,    \* the worker's whitelist, passed to every dequeue
    BatchSize,    \* ReindexWorker(batch_size=...)
    MaxAttempts   \* ReindexWorker(max_attempts=...)

ASSUME QueueAssumption ==
    /\ TaskIds \subseteq Nat
    /\ Rows # {}
    /\ MaxAttempts \in Nat \ {0}
    /\ BatchSize \in Nat \ {0}

VARIABLE queue    \* TaskIds -> the row of reindex_queue with that id

\* "absent": no row with this id has been committed yet.
TaskStatus == {"pending", "running", "done", "failed"}
Task == [status : TaskStatus \union {"absent"},
         row : Rows,
         attempts : 0..MaxAttempts]

Absent == {t \in TaskIds : queue[t].status = "absent"}
TasksOf(r) == {t \in TaskIds : queue[t].status # "absent" /\ queue[t].row = r}

\* The table before the first enqueue.
EmptyQueue ==
    queue = [t \in TaskIds |->
               [status |-> "absent", row |-> CHOOSE r \in Rows : TRUE, attempts |-> 0]]

(***************************************************************************)
(* enqueue: insert a pending row with no attempts.  The id is any unused   *)
(* one: producer transactions commit in any order, whatever the order of   *)
(* the enqueued_at they were given when they began.                        *)
(***************************************************************************)
Enqueue(t, r) ==
    /\ t \in Absent
    /\ queue' = [queue EXCEPT ![t] = [status |-> "pending", row |-> r, attempts |-> 0]]

(***************************************************************************)
(* dequeue_batch: the oldest pending tasks of a whitelisted kind, at most  *)
(* BatchSize of them, go to running with one more attempt.  FOR UPDATE     *)
(* SKIP LOCKED makes the claim atomic against other claims.  The order in  *)
(* which UPDATE ... RETURNING yields the batch is not specified, so a      *)
(* batch is a set.                                                         *)
(***************************************************************************)
\* Mutant of Claimable: a filter that forgets what is in flight.
ClaimableRunningToo == {t \in TaskIds : /\ queue[t].status \in {"pending", "running"}
                                        /\ KindOf[queue[t].row] \in TaskKinds}
\* Mutant of Claimable: tasks that were tried before are left out.
ClaimableOnce == {t \in TaskIds : /\ queue[t].status = "pending" /\ queue[t].attempts = 0
                                  /\ KindOf[queue[t].row] \in TaskKinds}

Claimable == {t \in TaskIds : /\ queue[t].status = "pending"
                              /\ KindOf[queue[t].row] \in TaskKinds}

IsOldestBatch(B) ==
    /\ B \subseteq Claimable
    /\ B # {}
    /\ \/ Cardinality(B) = BatchSize
       \/ Cardinality(B) < BatchSize /\ B = Claimable
    /\ \A b \in B, t \in Claimable \ B : b < t

Claim(B) ==
    queue' = [t \in TaskIds |->
                IF t \in B
                THEN [status |-> "running", row |-> queue[t].row,
                      attempts |-> queue[t].attempts + 1]
                ELSE queue[t]]

\* mark_done: by queue_id alone, whatever the row holds.
MarkDone(t) == queue' = [queue EXCEPT ![t].status = "done"]

\* Mutant of MarkFailedRetry: the limit is off by one.
MarkFailedRetryLate(t) ==
    queue' = [queue EXCEPT ![t].status =
                IF queue[t].attempts > MaxAttempts THEN "failed" ELSE "pending"]

\* mark_failed_retry: pending again below max_attempts, failed for good at it.
MarkFailedRetry(t) ==
    queue' = [queue EXCEPT ![t].status =
                IF queue[t].attempts >= MaxAttempts THEN "failed" ELSE "pending"]
=============================================================================
