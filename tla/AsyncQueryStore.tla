-------------------------- MODULE AsyncQueryStore --------------------------
(***************************************************************************)
(* InProcessAsyncQueryStore (nexcraft-driver async_store.py): submit,      *)
(* status, fetch, cancel and aclose arrive from the Flight server's        *)
(* threads as coroutines of one event loop, where each submission runs as  *)
(* a task.  No body under self._lock awaits, so the lock is never seen     *)
(* held and each handler is one step; a submission is suspended only       *)
(* inside execute_to_table (see CancellableStream).  status and fetch read *)
(* the state and the file in one step and change nothing: no actions.      *)
(***************************************************************************)
EXTENDS Naturals, FiniteSets

CONSTANTS
    Queries,  \* query_id values
    MayClose  \* the server may be shut down

ASSUME StoreAssumption == MayClose \in BOOLEAN

VARIABLES
    state,      \* _statuses: Queries -> QueryState, "unknown" without an entry
    task,       \* _tasks: Queries -> where the task is
    cancelReq,  \* queries whose task was cancelled and has not seen it yet
    spooled,    \* queries with a Parquet file in the spool directory
    loop        \* "up", "closed" (aclose has run), "stopped"

vars == <<state, task, cancelReq, spooled, loop>>

\* created: scheduled, no step taken; executing: suspended in
\* execute_to_table; unwinding: cancelled in there, its stream cleaning up.
TaskAt == {"none", "created", "executing", "unwinding", "done"}
QueryState == {"pending", "running", "succeeded", "failed", "cancelled"}
Terminal == {"succeeded", "failed", "cancelled"}

Init ==
    /\ state = [q \in Queries |-> "unknown"]
    /\ task = [q \in Queries |-> "none"]
    /\ cancelReq = {}
    /\ spooled = {}
    /\ loop = "up"

Running == loop # "stopped"
Live(q) == task[q] \in {"created", "executing", "unwinding"}

SetState(q, s) == state' = [state EXCEPT ![q] = s]
SetTask(q, t) == task' = [task EXCEPT ![q] = t]

-----------------------------------------------------------------------------
\* submit: a pending status and a task.
Submit(q) ==
    /\ loop = "up"
    /\ task[q] = "none"
    /\ SetState(q, "pending")
    /\ SetTask(q, "created")
    /\ UNCHANGED <<cancelReq, spooled, loop>>

\* Mutant of Cancel: the status is left to the task.
CancelTaskOnly(q) ==
    /\ loop = "up"
    /\ state[q] # "unknown"
    /\ cancelReq' = IF Live(q) THEN cancelReq \union {q} ELSE cancelReq
    /\ UNCHANGED <<state, task, spooled, loop>>

\* cancel: ask the task to stop, and report the query cancelled at once.
Cancel(q) ==
    /\ loop = "up"
    /\ state[q] # "unknown"
    /\ cancelReq' = IF Live(q) THEN cancelReq \union {q} ELSE cancelReq
    /\ SetState(q, IF state[q] \in Terminal THEN state[q] ELSE "cancelled")
    /\ UNCHANGED <<task, spooled, loop>>

\* aclose: cancel every task, wait for none; then the loop is stopped.
Close ==
    /\ MayClose /\ loop = "up"
    /\ cancelReq' = cancelReq \union {q \in Queries : Live(q)}
    /\ loop' = "closed"
    /\ UNCHANGED <<state, task, spooled>>

StopLoop ==
    /\ loop = "closed"
    /\ loop' = "stopped"
    /\ UNCHANGED <<state, task, cancelReq, spooled>>

-----------------------------------------------------------------------------
\* _run up to its first suspension.
Start(q) ==
    /\ Running
    /\ task[q] = "created" /\ q \notin cancelReq
    /\ SetState(q, "running")
    /\ SetTask(q, "executing")
    /\ UNCHANGED <<cancelReq, spooled, loop>>

\* A task cancelled before its first step never enters _run.
NeverStarts(q) ==
    /\ Running
    /\ task[q] = "created" /\ q \in cancelReq
    /\ SetTask(q, "done")
    /\ cancelReq' = cancelReq \ {q}
    /\ UNCHANGED <<state, spooled, loop>>

\* The table is there: write it and report success, without an await.
Succeed(q) ==
    /\ Running
    /\ task[q] = "executing" /\ q \notin cancelReq
    /\ SetState(q, "succeeded")
    /\ SetTask(q, "done")
    /\ spooled' = spooled \union {q}
    /\ UNCHANGED <<cancelReq, loop>>

\* Mutant of Fail: a half-written file is not unlinked.
FailKeepsFile(q) ==
    /\ Running
    /\ task[q] = "executing" /\ q \notin cancelReq
    /\ SetState(q, "failed")
    /\ SetTask(q, "done")
    /\ spooled' \in {spooled, spooled \union {q}}
    /\ UNCHANGED <<cancelReq, loop>>

\* The source, the stream or the write raised; what was written is unlinked.
Fail(q) ==
    /\ Running
    /\ task[q] = "executing" /\ q \notin cancelReq
    /\ SetState(q, "failed")
    /\ SetTask(q, "done")
    /\ spooled' = spooled \ {q}
    /\ UNCHANGED <<cancelReq, loop>>

\* The CancelledError reaches the stream, whose cleanup waits for its pump.
Interrupt(q) ==
    /\ Running
    /\ task[q] = "executing" /\ q \in cancelReq
    /\ SetTask(q, "unwinding")
    /\ cancelReq' = cancelReq \ {q}
    /\ UNCHANGED <<state, spooled, loop>>

\* The handler of CancelledError; a second cancel was swallowed by the cleanup.
Unwound(q) ==
    /\ Running
    /\ task[q] = "unwinding"
    /\ SetState(q, "cancelled")
    /\ SetTask(q, "done")
    /\ cancelReq' = cancelReq \ {q}
    /\ spooled' = spooled \ {q}
    /\ UNCHANGED loop

Client(q) == Submit(q) \/ Cancel(q)
-----------------------------------------------------------------------------
TypeOK ==
    /\ state \in [Queries -> QueryState \union {"unknown"}]
    /\ task \in [Queries -> TaskAt]
    /\ cancelReq \subseteq {q \in Queries : Live(q)}
    /\ spooled \subseteq Queries
    /\ loop \in {"up", "closed", "stopped"}

(***************************************************************************)
(* A client that has seen a query end never sees it in another state:      *)
(* cancel races _run for the status, and the loser must not overwrite it.  *)
(***************************************************************************)
TerminalIsFinal ==
    [][\A q \in Queries : state[q] \in Terminal => state'[q] = state[q]]_state

(***************************************************************************)
(* The spool directory holds the results of the queries reported           *)
(* succeeded, and nothing of the failed and the cancelled ones.            *)
(***************************************************************************)
SpoolMatchesState == spooled = {q \in Queries : state[q] = "succeeded"}

\* Until the store is closed, no task ends and leaves its query unfinished.
DoneMeansTerminal ==
    loop = "up" => \A q \in Queries : task[q] = "done" => state[q] \in Terminal
=============================================================================
