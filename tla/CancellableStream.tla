------------------------- MODULE CancellableStream -------------------------
(***************************************************************************)
(* CancellableArrowStream (nexcraft streaming/cancellable_stream.py) over  *)
(* the producer that FedSQLClient.execute builds on Router.execute.  Two   *)
(* tasks of one event loop: the pump moves batches from the producer into  *)
(* a bounded queue, the consumer's generator takes them out.  A step runs  *)
(* from one await to the next, as the loop runs it.                        *)
(*                                                                         *)
(* A batch is its position in the source; what is given of the batches is  *)
(* how many rows the first i of them have together.  The byte budget is    *)
(* counted and checked exactly as the row budget is.                       *)
(***************************************************************************)
EXTENDS Integers, Sequences, SequencesExt

CONSTANTS
    RowsUpTo,     \* rows of the batches the source yields, up to and with each
    QueueSize,    \* CancellableArrowStream(queue_size=...)
    Budgets,      \* values of ctx.max_rows
    HasDeadline,  \* ctx.deadline is not None
    MayAbandon,   \* the caller may close the generator, or be cancelled, early
    SourceMayFail \* the producer may raise

ASSUME StreamAssumption ==
    /\ RowsUpTo \in Seq(Nat)
    /\ \A i, j \in 1..Len(RowsUpTo) : i <= j => RowsUpTo[i] <= RowsUpTo[j]
    /\ QueueSize \in Nat \ {0}
    /\ Budgets \subseteq Nat
    /\ {HasDeadline, MayAbandon, SourceMayFail} \subseteq BOOLEAN

VARIABLES
    sent,       \* batches the producer has yielded
    released,   \* Router.execute's finally has released the handle
    pump,       \* where the pump task is
    held,       \* the item the pump waits to put
    cancelReq,  \* pump_task.cancel() was called and not yet delivered
    queue,      \* the asyncio.Queue
    rows,       \* _rows_seen
    maxRows,    \* ctx.max_rows
    consumer,   \* where the consumer's generator is
    delivered,  \* batches yielded to the caller
    outcome,    \* how the stream ended, for the caller
    expired,    \* the deadline has passed
    cancelSet   \* ctx.cancel.is_set()

pumpVars == <<sent, released, pump, held, rows, maxRows>>
callVars == <<consumer, delivered, outcome>>
streamVars == <<pumpVars, callVars, cancelReq, queue, expired, cancelSet>>

Item(tag, id) == [tag |-> tag, id |-> id]
Batch(i) == Item("batch", i)
Nothing == Item("none", 0)
\* What the consumer raises when it takes an item that is no batch.
Endings == {"done", "cancelled", "timeout", "budget", "error", "pump cancelled"}
Items == [tag : Endings \union {"batch"}, id : 0..Len(RowsUpTo)]

N == Len(RowsUpTo)
Total(i) == IF i = 0 THEN 0 ELSE RowsUpTo[i]
BatchRows(i) == Total(i) - Total(i - 1)  \* num_rows
Room == Len(queue) < QueueSize

\* fetch: awaiting the producer; putting: awaiting room, inside the try;
\* handler: awaiting room inside "except BaseException"; done: task finished.
PumpAt == {"fetch", "putting", "handler", "done"}
\* get: about to call _next_item; wait: awaiting queue.get(); yielded: the
\* caller has the batch; cleanup: entering _cleanup; joining: awaiting the
\* pump task; ended: on_cancel was called and the generator is finished.
ConsumerAt == {"get", "wait", "yielded", "cleanup", "joining", "ended"}

StreamInit ==
    /\ sent = 0
    /\ released = FALSE
    /\ pump = "fetch"
    /\ held = Nothing
    /\ cancelReq = FALSE
    /\ queue = << >>
    /\ rows = 0
    /\ maxRows \in Budgets
    /\ consumer = "get"
    /\ delivered = << >>
    /\ outcome = "none"
    /\ expired = FALSE
    /\ cancelSet = FALSE

-----------------------------------------------------------------------------
\* The environment.
DeadlinePasses ==
    /\ HasDeadline /\ ~expired
    /\ expired' = TRUE
    /\ UNCHANGED <<pumpVars, callVars, cancelReq, queue, cancelSet>>

\* ctx.cancel.set(), by anybody.
SetCancel ==
    /\ ~cancelSet
    /\ cancelSet' = TRUE
    /\ UNCHANGED <<pumpVars, callVars, cancelReq, queue, expired>>

-----------------------------------------------------------------------------
\* The pump.
ShouldStop == cancelSet \/ expired
StopReason == IF cancelSet THEN "cancelled" ELSE "timeout"

\* await self._queue.put(item): at once if there is room, else the pump
\* blocks at "at"; afterwards it goes to "next".
Put(item, at, next) ==
    \/ /\ Room
       /\ queue' = Append(queue, item)
       /\ pump' = next
       /\ held' = Nothing
    \/ /\ ~Room
       /\ pump' = at
       /\ held' = item
       /\ UNCHANGED queue

AfterPut(item) == IF item.tag = "batch" THEN "fetch" ELSE "done"
PutInTry(item) == Put(item, "putting", AfterPut(item))

\* Mutant of SourceYields: the pump just stops, as if the source had ended.
SourceYieldsQuietStop ==
    /\ pump = "fetch" /\ ~cancelReq
    /\ sent < N
    /\ sent' = sent + 1
    /\ \/ ShouldStop /\ PutInTry(Item("done", 0)) /\ UNCHANGED rows
       \/ /\ ~ShouldStop
          /\ rows' = rows + BatchRows(sent + 1)
          /\ PutInTry(IF rows' > maxRows THEN Item("budget", 0) ELSE Batch(sent + 1))
    /\ UNCHANGED <<released, maxRows, callVars, cancelReq, expired, cancelSet>>

\* The producer yields a batch: stop, count, check the budget, put.
SourceYields ==
    /\ pump = "fetch" /\ ~cancelReq
    /\ sent < N
    /\ sent' = sent + 1
    /\ \/ /\ ShouldStop
          /\ PutInTry(Item(StopReason, 0))
          /\ UNCHANGED rows
       \/ /\ ~ShouldStop
          /\ rows' = rows + BatchRows(sent + 1)
          /\ PutInTry(IF rows' > maxRows THEN Item("budget", 0) ELSE Batch(sent + 1))
    /\ UNCHANGED <<released, maxRows, callVars, cancelReq, expired, cancelSet>>

\* The producer is exhausted; Router.execute released the handle on the way.
SourceEnds ==
    /\ pump = "fetch" /\ ~cancelReq
    /\ sent = N
    /\ released' = TRUE
    /\ PutInTry(Item("done", 0))
    /\ UNCHANGED <<sent, rows, maxRows, callVars, cancelReq, expired, cancelSet>>

\* Mutant of SourceFails: the exception ends the pump and reaches nobody.
SourceFailsSilently ==
    /\ SourceMayFail
    /\ pump = "fetch" /\ ~cancelReq
    /\ released' = TRUE
    /\ pump' = "done"
    /\ UNCHANGED <<sent, held, queue, rows, maxRows, callVars, cancelReq, expired, cancelSet>>

\* The producer raises: the exception itself is queued for the consumer.
SourceFails ==
    /\ SourceMayFail
    /\ pump = "fetch" /\ ~cancelReq
    /\ released' = TRUE
    /\ Put(Item("error", 0), "handler", "done")
    /\ UNCHANGED <<sent, rows, maxRows, callVars, cancelReq, expired, cancelSet>>

\* Room at last for the item the pump was waiting to put.
Unblock ==
    /\ pump \in {"putting", "handler"} /\ ~cancelReq
    /\ Room
    /\ queue' = Append(queue, held)
    /\ pump' = AfterPut(held)
    /\ held' = Nothing
    /\ UNCHANGED <<sent, released, rows, maxRows, callVars, cancelReq, expired, cancelSet>>

(***************************************************************************)
(* The cancellation reaches the pump.  Inside the try it is caught by      *)
(* "except BaseException", which puts the CancelledError itself into the   *)
(* queue: with the queue full, that put waits for a consumer that has left *)
(* the loop for good.  Only a second cancellation, raised inside the       *)
(* handler, ends the task.  If the producer was being awaited it gets the  *)
(* CancelledError first and its finally releases the handle.               *)
(***************************************************************************)
PumpCancelled ==
    /\ cancelReq
    /\ pump # "done"
    /\ cancelReq' = FALSE
    /\ \/ /\ pump \in {"fetch", "putting"}
          /\ Put(Item("pump cancelled", 0), "handler", "done")
          /\ released' = (released \/ pump = "fetch")
       \/ /\ pump = "handler"
          /\ pump' = "done"
          /\ held' = Nothing
          /\ UNCHANGED <<queue, released>>
    /\ UNCHANGED <<sent, rows, maxRows, callVars, expired, cancelSet>>

-----------------------------------------------------------------------------
\* The consumer's generator.
Leave(how) ==
    /\ outcome' = how
    /\ consumer' = "cleanup"
    /\ UNCHANGED delivered

\* An item from the queue: yield the batch, or leave the loop.
Take ==
    /\ queue # << >>
    /\ queue' = Tail(queue)
    /\ \/ /\ Head(queue).tag = "batch"
          /\ delivered' = Append(delivered, Head(queue).id)
          /\ consumer' = "yielded"
          /\ UNCHANGED outcome
       \/ /\ Head(queue).tag # "batch"
          /\ Leave(Head(queue).tag)

\* _next_item: the deadline first, then the queue.
NextItem ==
    /\ consumer = "get"
    /\ \/ expired /\ Leave("timeout") /\ UNCHANGED queue
       \/ ~expired /\ Take
       \/ /\ ~expired /\ queue = << >>
          /\ consumer' = "wait"
          /\ UNCHANGED <<queue, delivered, outcome>>
    /\ UNCHANGED <<pumpVars, cancelReq, expired, cancelSet>>

\* asyncio.wait_for(queue.get(), timeout): the item and the timer may race.
WaitEnds ==
    /\ consumer = "wait"
    /\ \/ expired /\ Leave("timeout") /\ UNCHANGED queue
       \/ Take
    /\ UNCHANGED <<pumpVars, cancelReq, expired, cancelSet>>

\* The caller asks for the next batch.
Resume ==
    /\ consumer = "yielded"
    /\ consumer' = "get"
    /\ UNCHANGED <<pumpVars, cancelReq, queue, delivered, outcome, expired, cancelSet>>

\* The caller stops iterating, or its task is cancelled while it waits.
Abandon ==
    /\ MayAbandon
    /\ consumer \in {"wait", "yielded"}
    /\ Leave("closed")
    /\ UNCHANGED <<pumpVars, cancelReq, queue, expired, cancelSet>>

\* _cleanup: cancel a pump that still runs and wait for it.
Cleanup ==
    /\ consumer = "cleanup"
    /\ cancelReq' = (pump # "done")
    /\ consumer' = IF pump = "done" THEN "ended" ELSE "joining"
    /\ UNCHANGED <<pumpVars, queue, delivered, outcome, expired, cancelSet>>

\* The pump task is finished: on_cancel runs, the generator ends.
Join ==
    /\ consumer = "joining"
    /\ pump = "done"
    /\ consumer' = "ended"
    /\ UNCHANGED <<pumpVars, cancelReq, queue, delivered, outcome, expired, cancelSet>>

\* Cancelling the caller's task while it waits for the pump cancels the pump
\* again, and _cleanup swallows the CancelledError that comes back.
CancelJoin ==
    /\ MayAbandon
    /\ consumer = "joining"
    /\ cancelReq' = (pump # "done")
    /\ UNCHANGED <<pumpVars, callVars, queue, expired, cancelSet>>

\* A producer left suspended at its yield is closed when it is collected.
Finalize ==
    /\ consumer = "ended" /\ pump = "done"
    /\ ~released
    /\ released' = TRUE
    /\ UNCHANGED <<sent, pump, held, rows, maxRows, callVars, cancelReq, queue, expired, cancelSet>>

Source == SourceYields \/ SourceEnds \/ SourceFails
Pump == Unblock \/ PumpCancelled
Generator == NextItem \/ WaitEnds \/ Cleanup \/ Join

StreamNext ==
    \/ DeadlinePasses \/ SetCancel
    \/ Source \/ Pump \/ Generator
    \/ Resume \/ Abandon \/ CancelJoin \/ Finalize

\* The loop runs every ready task and collects what is left of a producer,
\* and the caller comes back for the next batch; the source owes nothing, and
\* a deadline may be too far away to matter.
StreamFairness ==
    /\ WF_streamVars(Pump) /\ WF_streamVars(Generator)
    /\ WF_streamVars(Resume) /\ WF_streamVars(Finalize)
-----------------------------------------------------------------------------
StreamTypeOK ==
    /\ sent \in 0..N
    /\ pump \in PumpAt
    /\ held \in Items \union {Nothing}
    /\ queue \in Seq(Items)
    /\ rows \in Nat
    /\ maxRows \in Budgets
    /\ consumer \in ConsumerAt
    /\ delivered \in Seq(1..N)
    /\ outcome \in Endings \union {"none", "closed"}
    /\ {released, cancelReq, expired, cancelSet} \subseteq BOOLEAN

(***************************************************************************)
(* The caller gets the source's batches in order and without a gap, and an *)
(* end without an error means it got all of them: a stop, a budget or a    *)
(* lost item can never look like a short result.                           *)
(***************************************************************************)
NoSilentTruncation ==
    /\ delivered = [i \in 1..Len(delivered) |-> i]
    /\ outcome = "done" => Len(delivered) = N

\* The rows yielded, those of the last batch and all before it, never exceed
\* max_rows, although the pump runs ahead.
BudgetRespected == delivered # << >> => Total(Last(delivered)) <= maxRows

\* Backpressure: the source is at most one batch ahead of a full queue.
BoundedReadAhead == sent - Len(delivered) <= QueueSize + 1

\* The CancelledError the pump catches is its own; the caller never sees it.
CancelStaysInside == outcome # "pump cancelled"

(***************************************************************************)
(* If the source always answers, a stream that is neither abandoned nor    *)
(* timed out ends, and its connection handle is released: not even a full  *)
(* queue, an error or a cancellation can make its two tasks wait for each  *)
(* other.                                                                  *)
(***************************************************************************)
StreamEnds ==
    WF_streamVars(Source) /\ [](outcome \notin {"closed", "timeout"})
        => <>(consumer = "ended" /\ released)

\* Once the deadline has passed, nothing but a pump that was cancelled with the
\* queue full keeps the generator from ending, whatever the source does.
ExpiryEndsOrPumpStuck == expired ~> (consumer = "ended" \/ pump = "handler")

\* 04-streaming.md: "On expiry, the stream raises `TimeoutError` and `_cleanup` runs
\* the source-side cancel": an expired stream ends.
ExpiryEndsStream == expired ~> consumer = "ended"

\* What the caller of a stream may rely on at every moment (CancellableArrowStream).
StreamSafety ==
    NoSilentTruncation /\ BudgetRespected /\ BoundedReadAhead /\ CancelStaysInside

\* How a stream ends: the two facts above.
StreamLiveness == StreamEnds /\ ExpiryEndsOrPumpStuck
=============================================================================
