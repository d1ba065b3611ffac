-------------------------- MODULE LakehouseDriver --------------------------
(***************************************************************************)
(* Submitted queries (AsyncQueryStore) on a lakehouse source               *)
(* (LakehouseExecutor): the task of a query waits in execute_to_table      *)
(* while a pump task of its stream runs the executor, which hands the SQL  *)
(* to the thread pool.  The two parts share the event loop, and meet where *)
(* a query starts, is answered, fails or is cancelled.                     *)
(***************************************************************************)
EXTENDS AsyncQueryStore

CONSTANTS Threads, None

ASSUME DriverAssumption == Threads \in Nat \ {0} /\ None \notin Queries

VARIABLES con, open, thread, caller, got

Exec == INSTANCE LakehouseExecutor

execVars == <<con, open, thread, caller, got>>
driverVars == <<vars, execVars>>

DriverInit == Init /\ Exec!Init

ClientStep(q) == Client(q) /\ UNCHANGED execVars
ServerStep == (Close \/ StopLoop) /\ UNCHANGED execVars

\* _run up to execute_to_table, which has created the pump; or never.
StartStep(q) == (Start(q) \/ NeverStarts(q)) /\ UNCHANGED execVars

\* The first step of the pump; a cancelled query may still get there.
PumpBegins(q) ==
    /\ Running
    /\ task[q] = "executing"
    /\ Exec!Begin(q)
    /\ UNCHANGED vars

\* What threads do after the loop has stopped reaches nobody, and is left out.
ThreadStep(q) == Running /\ Exec!Thread(q) /\ UNCHANGED vars

(***************************************************************************)
(* The rows, or the error, reach the task.  With rows the write of the     *)
(* file may still fail; a query without a tenant or with a source nobody   *)
(* knows fails before it gets to the executor.                             *)
(***************************************************************************)
Finish(q) ==
    /\ \/ caller[q] = "answered" /\ Succeed(q)
       \/ caller[q] \in {"none", "answered", "failed"} /\ Fail(q)
    /\ UNCHANGED execVars

\* The cancelled task cancels its pump.
InterruptStep(q) ==
    /\ Interrupt(q)
    /\ \/ caller[q] = "waiting" /\ Exec!Cancel(q)
       \/ caller[q] # "waiting" /\ UNCHANGED execVars

UnwindStep(q) == Unwound(q) /\ UNCHANGED execVars

LoopStep(q) == StartStep(q) \/ PumpBegins(q) \/ Finish(q) \/ InterruptStep(q)

DriverNext ==
    \/ \E q \in Queries : ClientStep(q) \/ LoopStep(q) \/ ThreadStep(q) \/ UnwindStep(q)
    \/ ServerStep

(***************************************************************************)
(* The loop runs what can take a step and a thread runs until the source   *)
(* has answered.  The cleanup of a cancelled stream need not end (see      *)
(* CancellableStream): nothing is assumed of UnwindStep.                   *)
(***************************************************************************)
DriverSpec ==
    /\ DriverInit /\ [][DriverNext]_driverVars
    /\ \A q \in Queries : WF_driverVars(LoopStep(q)) /\ WF_driverVars(ThreadStep(q))
-----------------------------------------------------------------------------
DriverTypeOK == TypeOK /\ Exec!TypeOK

(***************************************************************************)
(* Whatever is cancelled and when, and whatever becomes of the results on  *)
(* the shared connection, a submitted query is reported finished, unless   *)
(* the server is shut down (InProcessAsyncQueryStore.cancel, _run).        *)
(***************************************************************************)
EveryQuerySettles ==
    \A q \in Queries :
        (state[q] = "pending") ~> (state[q] \in Terminal \/ loop # "up")

(***************************************************************************)
(* core/protocols.py: an executor "runs dialect-correct SQL against one    *)
(* source and streams Arrow batches".  Says that the file of a query that  *)
(* succeeded holds the rows of its own SQL.                                *)
(***************************************************************************)
OwnResult == \A q \in spooled : got[q] = q

\* Tasks, statuses and the executor agree: a task that is over has left a final
\* status while the store is open (InProcessAsyncQueryStore._run, cancel).
DriverInv == DriverTypeOK /\ DoneMeansTerminal
=============================================================================
