---------------------------- MODULE ServiceProofs ----------------------------
(***************************************************************************)
(* Proofs about the parts that MCServices explores side by side: the       *)
(* stream, the cards, the causal candidates, the recipe runtimes, the      *)
(* staged jobs and the events.  They share no state, and no proof leans on *)
(* another part's.                                                         *)
(***************************************************************************)
EXTENDS CancellableStream, CardStore, CausalValidation, WorkerRuntime, StagedJob,
        EventLog, TLAPS

-----------------------------------------------------------------------------
(***************************************************************************)
(* Proofs about the cancellable stream, for every sequence of batches, any *)
(* size of the queue and any budgets.  The queue always holds the batches  *)
(* that come next for the caller, then at most one ending, which the pump  *)
(* leaves as its last word; and what the pump still holds comes after it.  *)
(***************************************************************************)

StreamSpec == StreamInit /\ [][StreamNext]_streamVars

Counted ==
    /\ sent \in 0..N
    /\ queue \in Seq(Items) /\ Len(queue) <= QueueSize
    /\ held \in Items \union {Nothing}
    /\ delivered \in Seq(Nat)
    /\ pump \in PumpAt /\ consumer \in ConsumerAt

Gone == {"joining", "ended"}

\* What may stand at place i behind n delivered batches, with the pump at p and the
\* consumer at c; the queue has len items.
Fits(item, i, n, len, p, c) ==
    /\ item.tag = "batch" => item.id = n + i
    /\ item.tag # "batch" => i = len /\ p = "done"
    /\ item.tag = "done" => n + i = N + 1
    /\ item.tag = "pump cancelled" => c \in Gone

Ordered(q, n, p, c) ==
    \A i \in 1..Len(q) : Fits(q[i], i, n, Len(q), p, c)

\* The pump has queued all it was sent, but for what it holds.
PumpInStep ==
    /\ pump = "fetch" => sent = Len(delivered) + Len(queue)
    /\ pump = "putting" =>
          /\ held \in Items
          /\ held.tag \notin {"pump cancelled"}
          /\ held.tag = "batch" =>
                held.id = sent /\ sent = Len(delivered) + Len(queue) + 1
          /\ held.tag = "done" => Len(delivered) + Len(queue) = N
    /\ pump = "handler" =>
          /\ held \in Items
          /\ held.tag \notin {"batch", "done"}
          /\ held.tag = "pump cancelled" => consumer \in Gone
    /\ cancelReq => consumer = "joining" /\ pump # "done"

\* What the caller was given.
CallerServed ==
    /\ \A i \in 1..Len(delivered) : delivered[i] = i
    /\ outcome = "done" => Len(delivered) = N
    /\ outcome # "pump cancelled"
    /\ consumer \in {"get", "wait", "yielded"} => outcome = "none"

DeliveryInv ==
    /\ Counted /\ Ordered(queue, Len(delivered), pump, consumer)
    /\ PumpInStep /\ CallerServed /\ BoundedReadAhead

LEMMA SizesAreNat == N \in Nat /\ QueueSize \in Nat
  BY StreamAssumption DEF N

LEMMA Shift ==
    \A a, b \in Nat :
        /\ (a + 1) + b = a + (b + 1) /\ (a + b) + 1 = a + (b + 1)
        /\ a + 1 = b => a = b - 1
  OBVIOUS

LEMMA Ahead ==
    \A a, b, c \in Nat : b <= c => ((a + b) + 1) - a <= c + 1
  OBVIOUS

LEMMA InitDelivery == StreamInit => DeliveryInv
  BY SizesAreNat DEF StreamInit, DeliveryInv, Counted, Ordered, PumpInStep, CallerServed,
     BoundedReadAhead, PumpAt, ConsumerAt

\* An item that fits behind the queue keeps it in order.
LEMMA AppendKeepsOrder ==
    ASSUME NEW q \in Seq(Items), NEW item \in Items, NEW n \in Nat, NEW p, NEW next, NEW c,
           Ordered(q, n, p, c), p # "done",
           Fits(item, Len(q) + 1, n, Len(q) + 1, next, c)
    PROVE  Ordered(Append(q, item), n, next, c)
<1> DEFINE r == Append(q, item)
<1> SUFFICES ASSUME NEW i \in 1..Len(r)
             PROVE  Fits(r[i], i, n, Len(r), next, c)
  BY DEF Ordered
<1>1. CASE i = Len(q) + 1
  <2>1. r[i] = item /\ Len(r) = Len(q) + 1
    BY <1>1
  <2>2. QED
    BY <1>1, <2>1 DEF Fits
<1>2. CASE i \in 1..Len(q)
  <2>1. r[i] = q[i]
    BY <1>2
  <2>2. Fits(q[i], i, n, Len(q), p, c)
    BY <1>2 DEF Ordered
  <2>3. QED
    BY <2>1, <2>2 DEF Fits
<1>3. QED
  BY <1>1, <1>2

\* Taking the first batch moves every other one place forward.
LEMMA TakeKeepsOrder ==
    ASSUME NEW q \in Seq(Items), q # << >>, NEW n \in Nat, NEW p, NEW c, NEW d,
           Ordered(q, n, p, c), c \notin Gone
    PROVE  /\ Head(q).tag = "batch" => Head(q).id = n + 1 /\ Ordered(Tail(q), n + 1, p, d)
           /\ Head(q).tag # "batch" => Len(Tail(q)) = 0 /\ Head(q).tag # "pump cancelled"
           /\ Head(q).tag = "done" => n = N
<1>1. Fits(q[1], 1, n, Len(q), p, c)
  BY DEF Ordered
<1>2. ASSUME NEW i \in 1..Len(Tail(q))
      PROVE  Fits(Tail(q)[i], i, n + 1, Len(Tail(q)), p, d)
  <2>1. /\ Tail(q)[i] = q[i + 1] /\ i + 1 \in 1..Len(q)
        /\ Len(Tail(q)) = Len(q) - 1 /\ Len(q) \in Nat /\ i \in Nat
    OBVIOUS
  <2>2. Fits(q[i + 1], i + 1, n, Len(q), p, c)
    BY <2>1 DEF Ordered
  <2>3. (n + 1) + i = n + (i + 1)
    BY <2>1, Shift, Zenon
  <2>4. i + 1 = Len(q) => i = Len(Tail(q))
    BY <2>1, Shift, Zenon
  <2>5. QED
    BY <2>1, <2>2, <2>3, <2>4, Zenon DEF Fits
<1>3. Head(q) = q[1] /\ Len(q) \in Nat
  OBVIOUS
<1>4. Head(q).tag = "batch" => Head(q).id = n + 1
  BY <1>1, <1>3 DEF Fits
<1>5. Ordered(Tail(q), n + 1, p, d)
  BY <1>2 DEF Ordered
<1>6. Head(q).tag # "batch" => Len(q) = 1 /\ Head(q).tag # "pump cancelled"
  BY <1>1, <1>3 DEF Fits
<1>7. Len(q) = 1 => Len(Tail(q)) = 0
  OBVIOUS
<1>8. Head(q).tag = "done" => n = N
  <2>1. Head(q).tag = "done" => n + 1 = N + 1
    BY <1>1, <1>3, Zenon DEF Fits
  <2>2. QED
    BY <2>1, SizesAreNat
<1>9. QED
  BY <1>4, <1>5, <1>6, <1>7, <1>8

-----------------------------------------------------------------------------
\* The pump puts an item that fits behind the queue, or waits to.
LEMMA PutKeeps ==
    ASSUME DeliveryInv, NEW item \in Items, NEW at, NEW next, pump # "done",
           Fits(item, Len(queue) + 1, Len(delivered), Len(queue) + 1, next, consumer),
           next \in PumpAt, at \in PumpAt, next \in {"fetch", "done"},
           Put(item, at, next), UNCHANGED callVars
    PROVE  /\ queue' \in Seq(Items) /\ Len(queue') <= QueueSize
           /\ Ordered(queue', Len(delivered)', pump', consumer')
           /\ held' \in Items \union {Nothing} /\ pump' \in PumpAt
           /\ \/ Len(queue') = Len(queue) + 1 /\ pump' = next
              \/ queue' = queue /\ pump' = at /\ held' = item
<1> USE SizesAreNat DEF DeliveryInv, Counted, callVars
<1>1. CASE Room /\ queue' = Append(queue, item) /\ pump' = next /\ held' = Nothing
  <2>1. Ordered(queue', Len(delivered)', pump', consumer')
    BY <1>1, AppendKeepsOrder
  <2>2. queue' \in Seq(Items) /\ Len(queue') = Len(queue) + 1
    BY <1>1
  <2>3. QED
    BY <1>1, <2>1, <2>2 DEF Room
<1>2. CASE ~Room /\ pump' = at /\ held' = item /\ UNCHANGED queue
  <2>1. Ordered(queue', Len(delivered)', pump', consumer')
    <3>1. \A i \in 1..Len(queue) : Fits(queue[i], i, Len(delivered), Len(queue), pump, consumer)
      BY DEF Ordered
    <3>2. \A i \in 1..Len(queue) : Fits(queue[i], i, Len(delivered), Len(queue), at, consumer)
      BY <3>1 DEF Fits
    <3>3. QED
      BY <1>2, <3>2 DEF Ordered
  <2>2. QED
    BY <1>2, <2>1
<1>3. QED
  BY <1>1, <1>2 DEF Put

\* The producer yields a batch, and the pump queues it or the reason to stop.
LEMMA YieldKeeps == DeliveryInv /\ SourceYields => DeliveryInv'
<1> SUFFICES ASSUME DeliveryInv, SourceYields PROVE DeliveryInv'
  OBVIOUS
<1> USE SizesAreNat
<1>0. /\ pump = "fetch" /\ ~cancelReq /\ sent < N /\ sent' = sent + 1
      /\ UNCHANGED callVars /\ UNCHANGED cancelReq
  BY DEF SourceYields
<1>1. /\ Counted /\ CallerServed /\ BoundedReadAhead
      /\ sent = Len(delivered) + Len(queue)
      /\ Len(delivered) \in Nat /\ Len(queue) \in Nat /\ sent \in 0..N
  BY <1>0 DEF DeliveryInv, PumpInStep, Counted
<1>2. PICK item \in Items :
          /\ PutInTry(item)
          /\ item.tag = "batch" => item.id = sent + 1
          /\ item.tag \notin {"done", "pump cancelled"}
  <2>1. /\ Item(StopReason, 0) \in Items
        /\ Item(StopReason, 0).tag \in {"cancelled", "timeout"}
    BY DEF Item, Items, Endings, StopReason, N
  <2>2. Item("budget", 0) \in Items /\ Item("budget", 0).tag = "budget"
    BY DEF Item, Items, Endings, N
  <2>3. /\ Batch(sent + 1) \in Items /\ Batch(sent + 1).tag = "batch"
        /\ Batch(sent + 1).id = sent + 1
    <3>1. sent + 1 \in 0..Len(RowsUpTo)
      BY <1>0, <1>1 DEF N
    <3>2. QED
      BY <3>1 DEF Batch, Item, Items
  <2>4. \/ PutInTry(Item(StopReason, 0))
        \/ PutInTry(Item("budget", 0))
        \/ PutInTry(Batch(sent + 1))
    BY DEF SourceYields
  <2>5. QED
    BY <2>1, <2>2, <2>3, <2>4
<1> DEFINE next == AfterPut(item)
<1>3. /\ item.tag = "batch" => next = "fetch"
      /\ item.tag # "batch" => next = "done"
      /\ next \in PumpAt /\ next \in {"fetch", "done"} /\ "putting" \in PumpAt
  BY DEF AfterPut, PumpAt
<1>4. Fits(item, Len(queue) + 1, Len(delivered), Len(queue) + 1, next, consumer)
  <2>1. Len(delivered) + (Len(queue) + 1) = sent + 1
    BY <1>1, Shift, Zenon
  <2>2. QED
    BY <1>2, <1>3, <2>1, Zenon DEF Fits
<1>5. /\ queue' \in Seq(Items) /\ Len(queue') <= QueueSize
      /\ Ordered(queue', Len(delivered)', pump', consumer')
      /\ held' \in Items \union {Nothing} /\ pump' \in PumpAt
      /\ \/ Len(queue') = Len(queue) + 1 /\ pump' = next
         \/ queue' = queue /\ pump' = "putting" /\ held' = item
  BY <1>0, <1>2, <1>3, <1>4, PutKeeps DEF PutInTry
<1>6. delivered' = delivered /\ consumer' = consumer /\ outcome' = outcome
  BY <1>0 DEF callVars
<1>7. Counted'
  BY <1>0, <1>1, <1>5, <1>6 DEF Counted
<1>8. PumpInStep'
  <2>1. pump' = "fetch" => sent' = Len(delivered') + Len(queue')
    BY <1>0, <1>1, <1>3, <1>5, <1>6
  <2>2. pump' = "putting" =>
          /\ held' \in Items /\ held'.tag # "pump cancelled" /\ held'.tag # "done"
          /\ held'.tag = "batch" =>
                held'.id = sent' /\ sent' = Len(delivered') + Len(queue') + 1
    BY <1>0, <1>1, <1>2, <1>3, <1>5, <1>6
  <2>3. pump' # "handler" /\ ~cancelReq'
    BY <1>0, <1>3, <1>5
  <2>4. QED
    BY <2>1, <2>2, <2>3 DEF PumpInStep
<1>9. CallerServed' /\ BoundedReadAhead'
  <2>1. sent' - Len(delivered) <= QueueSize + 1
    BY <1>0, <1>1, Ahead DEF Counted
  <2>2. QED
    BY <1>1, <1>6, <2>1 DEF CallerServed, BoundedReadAhead
<1>10. QED
  BY <1>5, <1>7, <1>8, <1>9 DEF DeliveryInv

\* The producer is exhausted or raises: the pump's last item.
LEMMA SourceStopKeeps == DeliveryInv /\ (SourceEnds \/ SourceFails) => DeliveryInv'
<1> SUFFICES ASSUME DeliveryInv, SourceEnds \/ SourceFails PROVE DeliveryInv'
  OBVIOUS
<1> USE SizesAreNat
<1>0. /\ pump = "fetch" /\ ~cancelReq /\ UNCHANGED <<sent, cancelReq>> /\ UNCHANGED callVars
  BY DEF SourceEnds, SourceFails
<1>1. /\ Counted /\ CallerServed /\ BoundedReadAhead
      /\ sent = Len(delivered) + Len(queue)
      /\ Len(delivered) \in Nat /\ Len(queue) \in Nat /\ sent \in 0..N
  BY <1>0 DEF DeliveryInv, PumpInStep, Counted
<1>2. PICK item \in Items, at \in {"putting", "handler"} :
          /\ Put(item, at, "done")
          /\ \/ item.tag = "done" /\ sent = N /\ at = "putting"
             \/ item.tag = "error" /\ at = "handler"
  <2>1. /\ Item("done", 0) \in Items /\ Item("done", 0).tag = "done"
        /\ Item("error", 0) \in Items /\ Item("error", 0).tag = "error"
    BY DEF Item, Items, Endings, N
  <2>2. AfterPut(Item("done", 0)) = "done"
    BY <2>1 DEF AfterPut
  <2>3. QED
    BY <2>1, <2>2 DEF SourceEnds, SourceFails, PutInTry
<1>3. "done" \in PumpAt /\ at \in PumpAt
  BY DEF PumpAt
<1>4. Fits(item, Len(queue) + 1, Len(delivered), Len(queue) + 1, "done", consumer)
  <2>1. Len(delivered) + (Len(queue) + 1) = sent + 1
    BY <1>1, Shift, Zenon
  <2>2. QED
    BY <1>2, <2>1, Zenon DEF Fits
<1>5. /\ queue' \in Seq(Items) /\ Len(queue') <= QueueSize
      /\ Ordered(queue', Len(delivered)', pump', consumer')
      /\ held' \in Items \union {Nothing} /\ pump' \in PumpAt
      /\ \/ Len(queue') = Len(queue) + 1 /\ pump' = "done"
         \/ queue' = queue /\ pump' = at /\ held' = item
  BY <1>0, <1>2, <1>3, <1>4, PutKeeps
<1>6. delivered' = delivered /\ consumer' = consumer /\ outcome' = outcome
  BY <1>0 DEF callVars
<1>7. Counted'
  BY <1>0, <1>1, <1>5, <1>6 DEF Counted
<1>8. PumpInStep'
  BY <1>0, <1>1, <1>2, <1>5, <1>6 DEF PumpInStep
<1>9. CallerServed' /\ BoundedReadAhead'
  BY <1>0, <1>1, <1>6 DEF CallerServed, BoundedReadAhead, Counted
<1>10. QED
  BY <1>5, <1>7, <1>8, <1>9 DEF DeliveryInv

\* There is room at last for what the pump held.
LEMMA UnblockKeeps == DeliveryInv /\ Unblock => DeliveryInv'
<1> SUFFICES ASSUME DeliveryInv, Unblock PROVE DeliveryInv'
  OBVIOUS
<1> USE SizesAreNat
<1>0. /\ pump \in {"putting", "handler"} /\ ~cancelReq /\ Room
      /\ queue' = Append(queue, held) /\ pump' = AfterPut(held) /\ held' = Nothing
      /\ UNCHANGED <<sent, cancelReq>> /\ UNCHANGED callVars
  BY DEF Unblock
<1>1. /\ Counted /\ CallerServed /\ BoundedReadAhead /\ PumpInStep
      /\ Ordered(queue, Len(delivered), pump, consumer)
      /\ Len(delivered) \in Nat /\ Len(queue) \in Nat /\ held \in Items
  <2>1. Counted /\ CallerServed /\ BoundedReadAhead /\ PumpInStep
        /\ Ordered(queue, Len(delivered), pump, consumer)
    BY DEF DeliveryInv
  <2>2. Len(delivered) \in Nat /\ Len(queue) \in Nat
    BY <2>1 DEF Counted
  <2>3. held \in Items
    BY <1>0, <2>1 DEF PumpInStep
  <2>4. QED
    BY <2>1, <2>2, <2>3
<1> DEFINE next == AfterPut(held)
<1>2. /\ held.tag = "batch" => next = "fetch"
      /\ held.tag # "batch" => next = "done"
      /\ next \in PumpAt
  BY DEF AfterPut, PumpAt
<1>3. /\ held.tag = "batch" => held.id = sent /\ sent = Len(delivered) + Len(queue) + 1
      /\ held.tag = "done" => Len(delivered) + Len(queue) = N
      /\ held.tag = "pump cancelled" => consumer \in Gone
  BY <1>0, <1>1 DEF PumpInStep
<1>4. Fits(held, Len(queue) + 1, Len(delivered), Len(queue) + 1, next, consumer)
  <2>1. (Len(delivered) + Len(queue)) + 1 = Len(delivered) + (Len(queue) + 1)
    BY <1>1, Shift, Zenon
  <2>2. QED
    BY <1>2, <1>3, <2>1, Zenon DEF Fits
<1>5. Ordered(Append(queue, held), Len(delivered), next, consumer)
  BY <1>0, <1>1, <1>4, AppendKeepsOrder DEF Counted
<1>6. delivered' = delivered /\ consumer' = consumer /\ outcome' = outcome
  BY <1>0 DEF callVars
<1>7. /\ queue' \in Seq(Items) /\ Len(queue') = Len(queue) + 1
      /\ Len(queue) < QueueSize
  BY <1>0, <1>1 DEF Counted, Room
<1>8. Counted'
  BY <1>0, <1>1, <1>2, <1>6, <1>7 DEF Counted
<1>9. PumpInStep'
  <2>1. pump' = "fetch" => sent' = Len(delivered') + Len(queue')
    <3>1. (Len(delivered) + Len(queue)) + 1 = Len(delivered) + (Len(queue) + 1)
      BY <1>1, Shift, Zenon
    <3>2. pump' = "fetch" => sent = (Len(delivered) + Len(queue)) + 1
      BY <1>0, <1>2, <1>3, Zenon
    <3>3. QED
      BY <1>0, <1>6, <1>7, <3>1, <3>2, Zenon
  <2>2. pump' \in {"fetch", "done"} /\ ~cancelReq'
    BY <1>0, <1>2
  <2>3. QED
    BY <2>1, <2>2 DEF PumpInStep
<1>10. CallerServed' /\ BoundedReadAhead'
  BY <1>0, <1>1, <1>6 DEF CallerServed, BoundedReadAhead
<1>11. QED
  BY <1>0, <1>5, <1>6, <1>8, <1>9, <1>10 DEF DeliveryInv

\* The cancellation reaches the pump, which queues it or gives up.
LEMMA PumpCancelledKeeps == DeliveryInv /\ PumpCancelled => DeliveryInv'
<1> SUFFICES ASSUME DeliveryInv, PumpCancelled PROVE DeliveryInv'
  OBVIOUS
<1> USE SizesAreNat
<1>0. /\ cancelReq /\ pump # "done" /\ ~cancelReq'
      /\ UNCHANGED sent /\ UNCHANGED callVars
  BY DEF PumpCancelled
<1>1. /\ Counted /\ CallerServed /\ BoundedReadAhead /\ consumer = "joining"
      /\ Ordered(queue, Len(delivered), pump, consumer)
      /\ Len(delivered) \in Nat /\ Len(queue) \in Nat
  <2>1. Counted /\ CallerServed /\ BoundedReadAhead /\ PumpInStep
        /\ Ordered(queue, Len(delivered), pump, consumer)
    BY DEF DeliveryInv
  <2>2. Len(delivered) \in Nat /\ Len(queue) \in Nat
    BY <2>1 DEF Counted
  <2>3. consumer = "joining"
    BY <1>0, <2>1, Zenon DEF PumpInStep
  <2>4. QED
    BY <2>1, <2>2, <2>3
<1>2. delivered' = delivered /\ consumer' = consumer /\ outcome' = outcome
  BY <1>0 DEF callVars
<1>3. CallerServed' /\ BoundedReadAhead'
  BY <1>0, <1>1, <1>2 DEF CallerServed, BoundedReadAhead
<1>4. CASE Put(Item("pump cancelled", 0), "handler", "done")
  <2> DEFINE item == Item("pump cancelled", 0)
  <2>1. item \in Items /\ item.tag = "pump cancelled"
    BY DEF Item, Items, Endings, N
  <2>2. "done" \in PumpAt /\ "handler" \in PumpAt /\ consumer \in Gone
    BY <1>1 DEF PumpAt, Gone
  <2>3. Fits(item, Len(queue) + 1, Len(delivered), Len(queue) + 1, "done", consumer)
    BY <2>1, <2>2, Zenon DEF Fits
  <2>4. /\ queue' \in Seq(Items) /\ Len(queue') <= QueueSize
        /\ Ordered(queue', Len(delivered)', pump', consumer')
        /\ held' \in Items \union {Nothing} /\ pump' \in PumpAt
        /\ \/ Len(queue') = Len(queue) + 1 /\ pump' = "done"
           \/ queue' = queue /\ pump' = "handler" /\ held' = item
    BY <1>0, <1>4, <2>1, <2>2, <2>3, PutKeeps
  <2>5. Counted'
    BY <1>0, <1>1, <1>2, <2>4 DEF Counted
  <2>6. PumpInStep'
    BY <1>0, <1>2, <2>1, <2>2, <2>4 DEF PumpInStep
  <2>7. QED
    BY <1>3, <2>4, <2>5, <2>6 DEF DeliveryInv
<1>5. CASE pump = "handler" /\ pump' = "done" /\ held' = Nothing /\ UNCHANGED queue
  <2>1. Ordered(queue', Len(delivered)', pump', consumer')
    <3>1. \A i \in 1..Len(queue) : Fits(queue[i], i, Len(delivered), Len(queue), pump, consumer)
      BY <1>1 DEF Ordered
    <3>2. \A i \in 1..Len(queue) : Fits(queue[i], i, Len(delivered), Len(queue), "done", consumer)
      BY <1>0, <3>1 DEF Fits
    <3>3. QED
      BY <1>2, <1>5, <3>2 DEF Ordered
  <2>2. Counted'
    BY <1>0, <1>1, <1>2, <1>5 DEF Counted, PumpAt
  <2>3. PumpInStep'
    BY <1>0, <1>5 DEF PumpInStep
  <2>4. QED
    BY <1>3, <2>1, <2>2, <2>3 DEF DeliveryInv
<1>6. QED
  BY <1>4, <1>5 DEF PumpCancelled

\* The consumer takes an item: a batch for the caller, or the end of the stream.
LEMMA TakeKeeps ==
    ASSUME DeliveryInv, Take, consumer \in {"get", "wait"},
           UNCHANGED <<pumpVars, cancelReq>>
    PROVE  DeliveryInv'
<1> USE SizesAreNat
<1>0. Counted /\ CallerServed /\ BoundedReadAhead /\ PumpInStep
      /\ Ordered(queue, Len(delivered), pump, consumer)
  BY DEF DeliveryInv
<1>1. /\ Len(delivered) \in Nat /\ Len(queue) \in Nat
      /\ queue \in Seq(Items) /\ delivered \in Seq(Nat) /\ sent \in 0..N
  BY <1>0 DEF Counted
<1>2. queue # << >> /\ queue' = Tail(queue) /\ Len(queue') = Len(queue) - 1
      /\ queue' \in Seq(Items)
  BY <1>1 DEF Take
<1>3. consumer \notin Gone /\ ~cancelReq
  BY <1>0 DEF Gone, PumpInStep
<1>4. /\ pump' = pump /\ held' = held /\ sent' = sent /\ cancelReq' = cancelReq
  BY DEF pumpVars
<1>5. /\ Head(queue).tag = "batch" => Head(queue).id = Len(delivered) + 1
      /\ Head(queue).tag = "batch" => Ordered(Tail(queue), Len(delivered) + 1, pump, "yielded")
      /\ Head(queue).tag # "batch" =>
            Len(Tail(queue)) = 0 /\ Head(queue).tag # "pump cancelled"
      /\ Head(queue).tag = "done" => Len(delivered) = N
  BY <1>0, <1>1, <1>2, <1>3, TakeKeepsOrder
<1>6. CASE Head(queue).tag = "batch"
  <2>1. /\ delivered' = Append(delivered, Len(delivered) + 1)
        /\ consumer' = "yielded" /\ outcome' = outcome
    BY <1>5, <1>6 DEF Take
  <2>2. /\ delivered' \in Seq(Nat) /\ Len(delivered') = Len(delivered) + 1
        /\ \A i \in 1..Len(delivered') :
              delivered'[i] = IF i = Len(delivered') THEN i ELSE delivered[i]
    BY <1>1, <2>1
  <2>3. Ordered(queue', Len(delivered)', pump', consumer')
    BY <1>2, <1>4, <1>5, <1>6, <2>1, <2>2
  <2>4. Len(delivered') + Len(queue') = Len(delivered) + Len(queue)
    BY <1>1, <1>2, <2>2
  <2>5. Counted'
    BY <1>0, <1>1, <1>2, <1>4, <2>1, <2>2 DEF Counted, ConsumerAt
  <2>6. PumpInStep'
    <3>1. held.tag # "pump cancelled" \/ pump # "handler"
      BY <1>0, <1>3, Zenon DEF PumpInStep
    <3>2. pump = "fetch" => sent = Len(delivered) + Len(queue)
      BY <1>0, Zenon DEF PumpInStep
    <3>3. pump = "putting" =>
            /\ held \in Items /\ held.tag # "pump cancelled"
            /\ held.tag = "batch" => held.id = sent /\ sent = Len(delivered) + Len(queue) + 1
            /\ held.tag = "done" => Len(delivered) + Len(queue) = N
      BY <1>0 DEF PumpInStep
    <3>4. pump = "handler" => held \in Items /\ held.tag \notin {"batch", "done"}
      BY <1>0 DEF PumpInStep
    <3>5. QED
      <4>1. pump' = "putting" =>
              /\ held' \in Items /\ held'.tag \notin {"pump cancelled"}
              /\ held'.tag = "batch" =>
                    held'.id = sent' /\ sent' = Len(delivered') + Len(queue') + 1
              /\ held'.tag = "done" => Len(delivered') + Len(queue') = N
        BY <1>4, <2>4, <3>3
      <4>2. pump' = "handler" =>
              /\ held' \in Items /\ held'.tag \notin {"batch", "done"}
              /\ held'.tag # "pump cancelled"
        BY <1>4, <3>1, <3>4, Zenon
      <4>3. (pump' = "fetch" => sent' = Len(delivered') + Len(queue')) /\ ~cancelReq'
        BY <1>3, <1>4, <2>4, <3>2
      <4>4. QED
        BY <4>1, <4>2, <4>3, Zenon DEF PumpInStep
  <2>7. CallerServed'
    <3>1. outcome = "none" /\ \A i \in 1..Len(delivered) : delivered[i] = i
      BY <1>0 DEF CallerServed
    <3>2. \A i \in 1..Len(delivered') : delivered'[i] = i
      BY <1>1, <2>2, <3>1
    <3>3. QED
      BY <2>1, <3>1, <3>2 DEF CallerServed
  <2>8. BoundedReadAhead'
    BY <1>0, <1>1, <1>4, <2>2 DEF BoundedReadAhead
  <2>9. QED
    BY <2>3, <2>5, <2>6, <2>7, <2>8 DEF DeliveryInv
<1>7. CASE Head(queue).tag # "batch"
  <2>1. /\ delivered' = delivered /\ consumer' = "cleanup"
        /\ outcome' = Head(queue).tag
    BY <1>7 DEF Take, Leave
  <2>2. Ordered(queue', Len(delivered)', pump', consumer')
    <3>1. Len(queue') = 0
      BY <1>2, <1>5, <1>7
    <3>2. QED
      BY <3>1 DEF Ordered
  <2>3. pump = "done"
    <3>1. 1 \in 1..Len(queue) /\ Head(queue) = queue[1]
      BY <1>1, <1>2
    <3>2. Fits(Head(queue), 1, Len(delivered), Len(queue), pump, consumer)
      BY <1>0, <3>1, Zenon DEF Ordered
    <3>3. QED
      BY <1>7, <3>2, Zenon DEF Fits
  <2>4. Counted'
    BY <1>0, <1>1, <1>2, <1>4, <2>1 DEF Counted, ConsumerAt
  <2>5. PumpInStep'
    BY <1>3, <1>4, <2>3 DEF PumpInStep
  <2>6. CallerServed' /\ BoundedReadAhead'
    BY <1>0, <1>4, <1>5, <1>7, <2>1 DEF CallerServed, BoundedReadAhead
  <2>7. QED
    BY <2>2, <2>4, <2>5, <2>6 DEF DeliveryInv
<1>8. QED
  BY <1>6, <1>7

\* The generator leaves its loop without an item.
LEMMA LeaveKeeps ==
    ASSUME DeliveryInv, NEW how \in {"timeout", "closed"}, Leave(how),
           consumer \in {"get", "wait", "yielded"},
           UNCHANGED <<pumpVars, cancelReq, queue>>
    PROVE  DeliveryInv'
<1>1. /\ sent' = sent /\ queue' = queue /\ held' = held /\ pump' = pump
      /\ cancelReq' = cancelReq /\ delivered' = delivered
      /\ consumer' = "cleanup" /\ outcome' = how
  BY DEF Leave, pumpVars
<1>2. QED
  <2>1. Counted'
    BY <1>1 DEF DeliveryInv, Counted, ConsumerAt
  <2>2. Ordered(queue', Len(delivered)', pump', consumer')
    BY <1>1 DEF DeliveryInv, Ordered, Fits, Gone
  <2>3. PumpInStep'
    <3>1. PumpInStep /\ consumer \notin Gone /\ ~cancelReq
      BY DEF DeliveryInv, PumpInStep, Gone
    <3>2. pump = "handler" => held.tag # "pump cancelled"
      BY <3>1, Zenon DEF PumpInStep
    <3>3. /\ pump' = "fetch" => sent' = Len(delivered') + Len(queue')
          /\ pump' = "putting" =>
                /\ held' \in Items /\ held'.tag \notin {"pump cancelled"}
                /\ held'.tag = "batch" =>
                      held'.id = sent' /\ sent' = Len(delivered') + Len(queue') + 1
                /\ held'.tag = "done" => Len(delivered') + Len(queue') = N
      BY <1>1, <3>1 DEF PumpInStep
    <3>4. pump' = "handler" =>
            /\ held' \in Items /\ held'.tag \notin {"batch", "done"}
            /\ held'.tag # "pump cancelled"
      BY <1>1, <3>1, <3>2 DEF PumpInStep
    <3>5. ~cancelReq'
      BY <1>1, <3>1
    <3>6. QED
      BY <3>3, <3>4, <3>5, Zenon DEF PumpInStep
  <2>4. CallerServed' /\ BoundedReadAhead'
    BY <1>1 DEF DeliveryInv, CallerServed, BoundedReadAhead
  <2>5. QED
    BY <2>1, <2>2, <2>3, <2>4 DEF DeliveryInv

\* The consumer moves on; once it waits for the pump, it goes on waiting.
LEMMA MoveKeeps ==
    ASSUME DeliveryInv,
           UNCHANGED <<sent, pump, held, queue, delivered, outcome>>,
           \/ consumer = "get" /\ consumer' = "wait" /\ UNCHANGED cancelReq
           \/ Resume \/ Cleanup \/ Join \/ CancelJoin
    PROVE  DeliveryInv'
<1>1. /\ consumer \in Gone => consumer' \in Gone
      /\ consumer' \in ConsumerAt
      /\ cancelReq' => consumer' = "joining" /\ pump' # "done"
      /\ consumer' \in {"get", "wait", "yielded"} => consumer \in {"get", "wait", "yielded"}
  <2>1. /\ consumer \in ConsumerAt
        /\ cancelReq => consumer = "joining" /\ pump # "done"
    BY Zenon DEF DeliveryInv, Counted, PumpInStep
  <2>2. CASE consumer = "get" /\ consumer' = "wait" /\ UNCHANGED cancelReq
    BY <2>1, <2>2 DEF Gone, ConsumerAt
  <2>3. CASE Resume
    BY <2>1, <2>3 DEF Resume, Gone, ConsumerAt
  <2>4. CASE Cleanup
    BY <2>1, <2>4 DEF Cleanup, Gone, ConsumerAt
  <2>5. CASE Join
    BY <2>1, <2>5 DEF Join, Gone, ConsumerAt
  <2>6. CASE CancelJoin
    BY <2>1, <2>6 DEF CancelJoin, Gone, ConsumerAt, callVars
  <2>7. QED
    BY <2>2, <2>3, <2>4, <2>5, <2>6
<1>2. Counted'
  BY <1>1 DEF DeliveryInv, Counted
<1>3. Ordered(queue', Len(delivered)', pump', consumer')
  BY <1>1 DEF DeliveryInv, Ordered, Fits
<1>4. PumpInStep'
  BY <1>1 DEF DeliveryInv, PumpInStep
<1>5. CallerServed' /\ BoundedReadAhead'
  BY <1>1 DEF DeliveryInv, CallerServed, BoundedReadAhead
<1>6. QED
  BY <1>2, <1>3, <1>4, <1>5 DEF DeliveryInv

\* Nothing the invariant speaks of changes.
LEMMA RestKeeps ==
    ASSUME DeliveryInv,
           UNCHANGED <<sent, pump, held, queue, cancelReq, callVars>>
    PROVE  DeliveryInv'
  BY DEF DeliveryInv, Counted, Ordered, Fits, PumpInStep, CallerServed, BoundedReadAhead, callVars

LEMMA StepKeeps == DeliveryInv /\ [StreamNext]_streamVars => DeliveryInv'
<1> SUFFICES ASSUME DeliveryInv, [StreamNext]_streamVars PROVE DeliveryInv'
  OBVIOUS
<1>1. CASE DeadlinePasses \/ SetCancel \/ Finalize
  BY <1>1, RestKeeps DEF DeadlinePasses, SetCancel, Finalize, pumpVars
<1>2. CASE Source
  BY <1>2, YieldKeeps, SourceStopKeeps DEF Source
<1>3. CASE Pump
  BY <1>3, UnblockKeeps, PumpCancelledKeeps DEF Pump
<1>4. CASE NextItem
  <2>1. CASE Leave("timeout") /\ UNCHANGED queue
    BY <1>4, <2>1, LeaveKeeps DEF NextItem
  <2>2. CASE Take
    BY <1>4, <2>2, TakeKeeps DEF NextItem
  <2>3. CASE consumer' = "wait" /\ UNCHANGED <<queue, delivered, outcome>>
    BY <1>4, <2>3, MoveKeeps DEF NextItem, pumpVars
  <2>4. QED
    BY <1>4, <2>1, <2>2, <2>3 DEF NextItem
<1>5. CASE WaitEnds
  BY <1>5, LeaveKeeps, TakeKeeps DEF WaitEnds
<1>6. CASE Abandon
  BY <1>6, LeaveKeeps DEF Abandon
<1>7. CASE Resume \/ Cleanup \/ Join \/ CancelJoin
  BY <1>7, MoveKeeps DEF Resume, Cleanup, Join, CancelJoin, pumpVars, callVars
<1>8. CASE UNCHANGED streamVars
  BY <1>8, RestKeeps DEF streamVars, pumpVars
<1>9. QED
  BY <1>1, <1>2, <1>3, <1>4, <1>5, <1>6, <1>7, <1>8 DEF StreamNext, Generator

-----------------------------------------------------------------------------
(* The budget: the pump counts as it goes, and queues what is within it. *)

Within(item) == item.tag = "batch" => Total(item.id) <= maxRows

BudgetInv ==
    /\ maxRows \in Nat
    /\ pump = "fetch" => rows = Total(sent)
    /\ pump = "putting" /\ held.tag = "batch" => rows = Total(sent)
    /\ pump = "putting" => Within(held)
    /\ \A i \in 1..Len(queue) : Within(queue[i])
    /\ BudgetRespected

LEMMA TotalIsInt == \A i \in 0..N : Total(i) \in Int
  BY StreamAssumption DEF Total, N

LEMMA InitBudget == StreamInit => BudgetInv
  BY StreamAssumption DEF StreamInit, BudgetInv, BudgetRespected, Total

\* What is put behind the queue, or held until it can be, is within the budget.
LEMMA PutBudget ==
    ASSUME Counted, BudgetInv, NEW item \in Items, NEW at, NEW next,
           Put(item, at, next), Within(item),
           UNCHANGED <<maxRows, delivered>>,
           pump' = "fetch" => rows' = Total(sent'),
           pump' = "putting" => at = "putting",
           pump' = "putting" /\ item.tag = "batch" => rows' = Total(sent'),
           next # "putting"
    PROVE  BudgetInv'
<1>1. \A i \in 1..Len(queue') : Within(queue'[i])
  <2>1. CASE queue' = queue
    BY <2>1 DEF BudgetInv
  <2>2. CASE queue' = Append(queue, item)
    <3>1. /\ queue \in Seq(Items) /\ Len(queue') = Len(queue) + 1
          /\ \A i \in 1..Len(queue') :
                queue'[i] = IF i = Len(queue) + 1 THEN item ELSE queue[i]
      BY <2>2 DEF Counted
    <3>2. \A i \in 1..Len(queue') : i = Len(queue) + 1 \/ i \in 1..Len(queue)
      BY <3>1
    <3>3. \A i \in 1..Len(queue) : Within(queue[i])
      BY DEF BudgetInv
    <3>4. QED
      BY <3>1, <3>2, <3>3
  <2>3. QED
    BY <2>1, <2>2 DEF Put
<1>2. pump' = "putting" => held' = item
  BY DEF Put
<1>3. \A i \in 1..Len(queue') :
          queue'[i].tag = "batch" => Total(queue'[i].id) <= maxRows'
  BY <1>1 DEF Within
<1>4. pump' = "putting" => (held'.tag = "batch" => Total(held'.id) <= maxRows')
  BY <1>2 DEF Within
<1>5. pump' = "putting" /\ held'.tag = "batch" => rows' = Total(sent')
  BY <1>2
<1>6. BudgetRespected'
  BY DEF BudgetInv, BudgetRespected
<1>7. QED
  BY <1>3, <1>4, <1>5, <1>6 DEF BudgetInv, Within

\* What is left of the queue when its first item is taken was in it before.
LEMMA TakeBudget ==
    ASSUME Counted, BudgetInv, Take, UNCHANGED pumpVars,
           Head(queue).tag = "batch" => Head(queue).id \in Nat
    PROVE  BudgetInv'
<1>1. queue \in Seq(Items) /\ queue # << >> /\ queue' = Tail(queue) /\ delivered \in Seq(Nat)
  BY DEF Counted, Take
<1>2. \A i \in 1..Len(queue') : queue'[i] = queue[i + 1] /\ i + 1 \in 1..Len(queue)
  BY <1>1
<1>3. \A i \in 1..Len(queue') : Within(queue'[i])
  BY <1>2 DEF BudgetInv
<1>4. UNCHANGED <<pump, rows, sent, held, maxRows>>
  BY DEF pumpVars
<1>5. Head(queue) = queue[1] /\ 1 \in 1..Len(queue)
  BY <1>1
<1>6. BudgetRespected'
  <2>1. CASE Head(queue).tag = "batch"
    <3>1. delivered' = Append(delivered, Head(queue).id)
      BY <2>1 DEF Take
    <3>2. Last(delivered') = Head(queue).id
      BY <1>1, <2>1, <3>1 DEF Last
    <3>3. Total(Head(queue).id) <= maxRows
      BY <1>5, <2>1 DEF BudgetInv, Within
    <3>4. QED
      BY <1>4, <3>2, <3>3 DEF BudgetRespected
  <2>2. CASE Head(queue).tag # "batch"
    BY <1>4, <2>2 DEF Take, Leave, BudgetInv, BudgetRespected
  <2>3. QED
    BY <2>1, <2>2
<1>7. \A i \in 1..Len(queue') :
          queue'[i].tag = "batch" => Total(queue'[i].id) <= maxRows'
  BY <1>3, <1>4 DEF Within
<1>8. QED
  BY <1>4, <1>6, <1>7 DEF BudgetInv, Within

LEMMA RestBudget ==
    ASSUME BudgetInv, UNCHANGED <<pumpVars, queue, delivered>>
    PROVE  BudgetInv'
  BY DEF BudgetInv, Within, BudgetRespected, pumpVars

LEMMA StepBudget == DeliveryInv /\ BudgetInv /\ [StreamNext]_streamVars => BudgetInv'
<1> SUFFICES ASSUME DeliveryInv, BudgetInv, [StreamNext]_streamVars PROVE BudgetInv'
  OBVIOUS
<1>0. Counted
  BY DEF DeliveryInv
<1>1. CASE SourceYields
  <2>1. /\ pump = "fetch" /\ sent < N /\ sent' = sent + 1 /\ rows = Total(sent)
        /\ UNCHANGED <<maxRows, delivered>>
    BY <1>1 DEF SourceYields, BudgetInv, callVars
  <2>2. Total(sent + 1) \in Int /\ Total(sent) \in Int /\ sent \in Nat
    BY <1>0, <2>1, TotalIsInt, SizesAreNat DEF Counted
  <2>3. Total(sent) + BatchRows(sent + 1) = Total(sent + 1)
    BY <2>2 DEF BatchRows
  <2>4. PICK item \in Items :
          /\ Put(item, "putting", AfterPut(item))
          /\ item.tag = "batch" => item.id = sent + 1 /\ rows' = Total(sent + 1)
          /\ item.tag = "batch" => Total(sent + 1) <= maxRows
    <3>1. CASE ShouldStop /\ PutInTry(Item(StopReason, 0))
      <4>1. Item(StopReason, 0) \in Items /\ Item(StopReason, 0).tag # "batch"
        BY DEF Item, Items, Endings, StopReason, N
      <4>2. QED
        BY <3>1, <4>1 DEF PutInTry
    <3>2. CASE /\ rows' = rows + BatchRows(sent + 1)
               /\ PutInTry(IF rows' > maxRows THEN Item("budget", 0) ELSE Batch(sent + 1))
      <4>1. rows' = Total(sent + 1)
        BY <2>1, <2>3, <3>2
      <4>2. CASE rows' > maxRows
        <5>1. Item("budget", 0) \in Items /\ Item("budget", 0).tag # "batch"
          BY DEF Item, Items, Endings, N
        <5>2. QED
          BY <3>2, <4>2, <5>1 DEF PutInTry
      <4>3. CASE ~(rows' > maxRows)
        <5>1. /\ Batch(sent + 1) \in Items /\ Batch(sent + 1).id = sent + 1
              /\ Batch(sent + 1).tag = "batch"
          <6>1. sent + 1 \in 0..Len(RowsUpTo)
            BY <2>1, <2>2, SizesAreNat DEF N
          <6>2. QED
            BY <6>1 DEF Batch, Item, Items
        <5>2. Total(sent + 1) <= maxRows
          BY <2>2, <4>1, <4>3 DEF BudgetInv
        <5>3. QED
          BY <3>2, <4>1, <4>3, <5>1, <5>2 DEF PutInTry
      <4>4. QED
        BY <4>2, <4>3
    <3>3. QED
      BY <1>1, <3>1, <3>2 DEF SourceYields
  <2>5. /\ item.tag # "batch" => AfterPut(item) = "done"
        /\ AfterPut(item) \in {"fetch", "done"}
    BY DEF AfterPut
  <2>6. pump' \in {"putting", AfterPut(item)}
    BY <2>4 DEF Put
  <2>7. QED
    BY <1>0, <2>1, <2>4, <2>5, <2>6, PutBudget DEF Within
<1>2. CASE SourceEnds \/ SourceFails
  <2>1. PICK item \in Items, at \in {"putting", "handler"} :
          Put(item, at, "done") /\ item.tag # "batch"
    <3>1. /\ Item("done", 0) \in Items /\ Item("done", 0).tag = "done"
          /\ Item("error", 0) \in Items /\ Item("error", 0).tag = "error"
      BY DEF Item, Items, Endings, N
    <3>2. AfterPut(Item("done", 0)) = "done"
      BY <3>1 DEF AfterPut
    <3>3. QED
      BY <1>2, <3>1, <3>2 DEF SourceEnds, SourceFails, PutInTry
  <2>2. pump' # "fetch" /\ UNCHANGED <<maxRows, delivered>>
    BY <1>2, <2>1 DEF SourceEnds, SourceFails, Put, callVars
  <2>3. pump' = "putting" => at = "putting"
    BY <2>1 DEF Put
  <2>4. QED
    BY <1>0, <2>1, <2>2, <2>3, PutBudget DEF Within
<1>3. CASE Unblock
  <2>1. /\ Put(held, pump, AfterPut(held)) /\ pump \in {"putting", "handler"}
        /\ UNCHANGED <<maxRows, delivered, rows, sent>>
    BY <1>3 DEF Unblock, Put, callVars
  <2>2. /\ held \in Items /\ (held.tag = "batch" => pump = "putting")
    BY <2>1 DEF DeliveryInv, PumpInStep
  <2>3. /\ held.tag # "batch" => AfterPut(held) = "done"
        /\ AfterPut(held) \in {"fetch", "done"}
    BY DEF AfterPut
  <2>4. Within(held)
    BY <2>2 DEF BudgetInv, Within
  <2>5. pump' = AfterPut(held)
    BY <1>3 DEF Unblock
  <2>6. pump' = "fetch" => rows' = Total(sent')
    BY <2>1, <2>2, <2>3, <2>5 DEF BudgetInv
  <2>7. QED
    BY <1>0, <2>1, <2>2, <2>3, <2>4, <2>5, <2>6, PutBudget
<1>4. CASE PumpCancelled
  <2>1. UNCHANGED <<maxRows, delivered, rows, sent>>
    BY <1>4 DEF PumpCancelled, callVars
  <2>2. CASE Put(Item("pump cancelled", 0), "handler", "done")
    <3> DEFINE item == Item("pump cancelled", 0)
    <3>1. item \in Items /\ item.tag # "batch"
      BY DEF Item, Items, Endings, N
    <3>2. pump' \in {"handler", "done"}
      BY <2>2 DEF Put
    <3>3. QED
      BY <1>0, <2>1, <2>2, <3>1, <3>2, PutBudget DEF Within
  <2>3. CASE pump' = "done" /\ UNCHANGED queue
    BY <2>1, <2>3 DEF BudgetInv, Within, BudgetRespected
  <2>4. QED
    BY <1>4, <2>2, <2>3 DEF PumpCancelled
<1>5. CASE Take /\ UNCHANGED pumpVars
  <2>1. Head(queue).tag = "batch" => Head(queue).id \in Nat
    <3>1. Head(queue) \in Items
      BY <1>0, <1>5 DEF Counted, Take
    <3>2. QED
      BY <3>1 DEF Items
  <2>2. QED
    BY <1>0, <1>5, <2>1, TakeBudget
<1>6. CASE UNCHANGED <<pumpVars, queue, delivered>>
  BY <1>6, RestBudget
<1>7. CASE Finalize
  BY <1>7 DEF Finalize, callVars, BudgetInv, Within, BudgetRespected
<1>8. CASE NextItem \/ WaitEnds
  BY <1>5, <1>6, <1>8 DEF NextItem, WaitEnds, Leave
<1>9. CASE DeadlinePasses \/ SetCancel \/ Cleanup \/ Join \/ Resume \/ Abandon \/ CancelJoin
  BY <1>6, <1>9 DEF DeadlinePasses, SetCancel, Cleanup, Join, Resume, Abandon, CancelJoin,
     callVars, Leave
<1>10. CASE UNCHANGED streamVars
  BY <1>6, <1>10 DEF streamVars, callVars
<1>11. QED
  BY <1>1, <1>2, <1>3, <1>4, <1>7, <1>8, <1>9, <1>10 DEF StreamNext, Source, Pump, Generator

-----------------------------------------------------------------------------
LEMMA NothingIsLost == DeliveryInv => NoSilentTruncation
<1> SUFFICES ASSUME DeliveryInv PROVE NoSilentTruncation
  OBVIOUS
<1>1. /\ delivered \in Seq(Nat) /\ \A i \in 1..Len(delivered) : delivered[i] = i
      /\ outcome = "done" => Len(delivered) = N
  BY DEF DeliveryInv, Counted, CallerServed
<1>2. delivered = [i \in 1..Len(delivered) |-> i]
  BY <1>1
<1>3. QED
  BY <1>1, <1>2 DEF NoSilentTruncation

(***************************************************************************)
(* The caller gets the batches of the source in order and without a gap,   *)
(* an end without an error means all of them, the rows stay within the     *)
(* budget, the source is at most one batch ahead of a full queue, and the  *)
(* pump's own CancelledError never reaches the caller                      *)
(* (CancellableArrowStream.__aiter__, _pump, _next_item, _cleanup).        *)
(***************************************************************************)
THEOREM StreamKeepsItsWord == StreamSpec => []StreamSafety
<1>1. StreamSpec => [](DeliveryInv /\ BudgetInv)
  BY InitDelivery, StepKeeps, InitBudget, StepBudget, PTL DEF StreamSpec
<1>2. DeliveryInv /\ BudgetInv => StreamSafety
  BY NothingIsLost DEF StreamSafety, DeliveryInv, CallerServed, CancelStaysInside, BudgetInv
<1>3. QED
  BY <1>1, <1>2, PTL

-----------------------------------------------------------------------------
(***************************************************************************)
(* Proofs about the card store, for any number of files, cards and loaders *)
(* and any edits: what the commit of a sync may do to a row that exists.   *)
(* A session that would insert a row that exists rolls back, so such a row *)
(* is only updated, column by column and with its event.                   *)
(***************************************************************************)

CardSpec == CardInit /\ [][CardNext]_cardVars

Session == [open : BOOLEAN, left : SUBSET Paths, changed : [Keys -> FileVersions],
            added : [Keys -> FileVersions], flushed : SUBSET Keys,
            twice : BOOLEAN, broken : BOOLEAN]

LEMMA NoSyncType == NoSync \in Session
<1>1. 0 \in FileVersions
  BY CardAssumption DEF FileVersions
<1>2. QED
  BY <1>1, Zenon DEF NoSync, Session

LEMMA OpenedType == [NoSync EXCEPT !.open = TRUE, !.left = Paths] \in Session
  BY NoSyncType DEF Session

LEMMA FlushedType ==
    ASSUME NEW s \in Session
    PROVE  Flushed(s) \in Session
<1>1. [s EXCEPT !.broken = TRUE] \in Session
  BY DEF Session
<1>2. [s EXCEPT !.flushed = {k \in Keys : s.added[k] # 0}] \in Session
  BY DEF Session
<1>3. QED
  BY <1>1, <1>2, Zenon DEF Flushed

LEMMA SyncedType ==
    ASSUME NEW s \in Session, NEW p \in Paths, file \in [Paths -> FileVersions]
    PROVE  Synced(s, p) \in Session
<1> DEFINE k == Names[p]
           rest == [s EXCEPT !.left = @ \ {p}]
<1>1. k \in Keys /\ file[p] \in FileVersions
  BY CardAssumption
<1>2. rest \in Session
  BY DEF Session
<1>3. [rest EXCEPT !.added[k] = file[p], !.twice = @ \/ s.added[k] # 0] \in Session
  BY <1>1, <1>2 DEF Session
<1>4. [rest EXCEPT !.changed[k] = file[p]] \in Session
  BY <1>1, <1>2 DEF Session
<1>5. Flushed([rest EXCEPT !.changed[k] = file[p]]) \in Session
  BY <1>4, FlushedType, Zenon
<1>6. QED
  BY <1>2, <1>3, <1>5, Zenon DEF Synced

\* A row that exists and is changed by a commit is updated, not inserted.
LEMMA StoredUpdates ==
    ASSUME NEW s \in Session, ~Clashes(s), NEW k \in Keys, row[k] # NoRow,
           row \in [Keys -> Row]
    PROVE  \/ Stored(s)[k] = row[k]
           \/ /\ s.changed[k] # 0
              /\ Stored(s)[k] = [row[k] EXCEPT !.version = s.changed[k]]
  BY DEF Clashes, Stored

LEMMA StoredType ==
    ASSUME NEW s \in Session, row \in [Keys -> Row]
    PROVE  Stored(s) \in [Keys -> Row]
<1> SUFFICES ASSUME NEW k \in Keys
             PROVE  Stored(s)[k] \in Row
  BY DEF Stored
<1>1. s.changed[k] \in FileVersions /\ s.added[k] \in FileVersions
  BY DEF Session
<1>2. [version |-> s.added[k], deprecated |-> FALSE] \in Row
  BY <1>1, Zenon DEF Row
<1>3. [row[k] EXCEPT !.version = s.changed[k]] \in Row
  BY <1>1 DEF Row
<1>4. QED
  BY <1>2, <1>3, Zenon DEF Stored

LEMMA AnnouncedType ==
    ASSUME NEW s \in Session
    PROVE  Announced(s) \subseteq Keys \X FileVersions
  BY DEF Announced, Session

LEMMA TypeInit == CardInit => CardTypeOK
<1> SUFFICES ASSUME CardInit PROVE CardTypeOK
  OBVIOUS
<1>1. 0 \in FileVersions
  BY CardAssumption DEF FileVersions
<1>2. NoRow \in Row
  BY <1>1, Zenon DEF NoRow, Row
<1>3. sync \in [Loaders -> Session]
  BY NoSyncType DEF CardInit
<1>4. QED
  BY <1>1, <1>2, <1>3 DEF CardInit, CardTypeOK, Session

LEMMA TypeStep == CardTypeOK /\ [CardNext]_cardVars => CardTypeOK'
<1> SUFFICES ASSUME CardTypeOK, [CardNext]_cardVars
             PROVE  CardTypeOK'
  OBVIOUS
<1> USE DEF CardTypeOK
<1>0. /\ file \in [Paths -> FileVersions]
      /\ row \in [Keys -> Row]
      /\ told \subseteq Keys \X FileVersions
      /\ sync \in [Loaders -> Session]
  BY DEF Session
<1> SUFFICES /\ file' \in [Paths -> FileVersions]
             /\ row' \in [Keys -> Row]
             /\ told' \subseteq Keys \X FileVersions
             /\ sync' \in [Loaders -> Session]
  BY DEF Session
<1> HIDE DEF CardTypeOK
<1>1. ASSUME NEW p \in Paths, Edit(p)
      PROVE  file' \in [Paths -> FileVersions]
  BY <1>0, <1>1, CardAssumption DEF Edit, FileVersions
<1>2. ASSUME NEW l \in Loaders, OpenSync(l)
      PROVE  sync' \in [Loaders -> Session]
  BY <1>0, <1>2, OpenedType DEF OpenSync
<1>3. ASSUME NEW l \in Loaders, NEW p \in Paths, SyncFile(l, p)
      PROVE  sync' \in [Loaders -> Session]
  <2>1. Synced(sync[l], p) \in Session
    BY <1>0, SyncedType
  <2>2. QED
    BY <1>0, <1>3, <2>1 DEF SyncFile
<1>4. ASSUME NEW l \in Loaders, CommitSync(l)
      PROVE  /\ row' \in [Keys -> Row]
             /\ told' \subseteq Keys \X FileVersions
             /\ sync' \in [Loaders -> Session]
  <2>1. sync[l] \in Session
    BY <1>0
  <2>2. Stored(sync[l]) \in [Keys -> Row] /\ Announced(sync[l]) \subseteq Keys \X FileVersions
    BY <1>0, <2>1, StoredType, AnnouncedType
  <2>3. sync' \in [Loaders -> Session]
    BY <1>0, <1>4, NoSyncType DEF CommitSync
  <2>4. QED
    BY <1>0, <1>4, <2>2, <2>3 DEF CommitSync
<1>5. ASSUME NEW k \in Keys, Deprecate(k)
      PROVE  row' \in [Keys -> Row]
  BY <1>0, <1>5 DEF Deprecate, Row
<1>6. QED
  <2>1. CASE \E p \in Paths : Edit(p)
    BY <1>0, <1>1, <2>1 DEF Edit
  <2>2. ASSUME NEW l \in Loaders, SyncStep(l)
        PROVE  /\ file' \in [Paths -> FileVersions]
               /\ row' \in [Keys -> Row]
               /\ told' \subseteq Keys \X FileVersions
               /\ sync' \in [Loaders -> Session]
    <3>1. CASE OpenSync(l)
      BY <1>0, <1>2, <3>1 DEF OpenSync
    <3>2. CASE \E p \in Paths : SyncFile(l, p)
      BY <1>0, <1>3, <3>2 DEF SyncFile
    <3>3. CASE CommitSync(l)
      BY <1>0, <1>4, <3>3 DEF CommitSync
    <3>4. QED
      BY <2>2, <3>1, <3>2, <3>3 DEF SyncStep
  <2>3. CASE \E k \in Keys : Deprecate(k)
    BY <1>0, <1>5, <2>3 DEF Deprecate
  <2>4. CASE UNCHANGED cardVars
    BY <1>0, <2>4 DEF cardVars
  <2>5. QED
    BY <2>1, <2>2, <2>3, <2>4 DEF CardNext

-----------------------------------------------------------------------------
\* What one step may do to a row that exists.
LEMMA RowSteps ==
    ASSUME CardTypeOK, [CardNext]_cardVars, NEW k \in Keys, row[k] # NoRow
    PROVE  \/ row'[k] = row[k]
           \/ row'[k] = [row[k] EXCEPT !.deprecated = TRUE]
           \/ \E v \in FileVersions :
                 row'[k] = [row[k] EXCEPT !.version = v] /\ <<k, v>> \in told'
<1>1. row \in [Keys -> Row] /\ sync \in [Loaders -> Session]
  BY DEF CardTypeOK, Session
<1>2. ASSUME NEW x \in Keys, Deprecate(x)
      PROVE  row'[k] = row[k] \/ row'[k] = [row[k] EXCEPT !.deprecated = TRUE]
  BY <1>1, <1>2 DEF Deprecate
<1>3. ASSUME NEW l \in Loaders, CommitSync(l)
      PROVE  \/ row'[k] = row[k]
             \/ \E v \in FileVersions :
                   row'[k] = [row[k] EXCEPT !.version = v] /\ <<k, v>> \in told'
  <2> DEFINE s == sync[l]
  <2>1. s \in Session
    BY <1>1
  <2>2. CASE Clashes(s)
    BY <1>3, <2>2 DEF CommitSync
  <2>3. CASE ~Clashes(s)
    <3>1. row' = Stored(s) /\ told' = told \union Announced(s)
      BY <1>3, <2>3 DEF CommitSync
    <3>2. \/ Stored(s)[k] = row[k]
          \/ /\ s.changed[k] # 0
             /\ Stored(s)[k] = [row[k] EXCEPT !.version = s.changed[k]]
      BY <1>1, <2>1, <2>3, StoredUpdates
    <3>3. s.changed[k] # 0 => <<k, s.changed[k]>> \in Announced(s)
      BY DEF Announced
    <3>4. s.changed[k] \in FileVersions
      BY <2>1 DEF Session
    <3>5. QED
      BY <3>1, <3>2, <3>3, <3>4
  <2>4. QED
    BY <2>2, <2>3
<1>4. CASE \E p \in Paths : Edit(p)
  BY <1>4 DEF Edit
<1>5. CASE \E l \in Loaders : SyncStep(l)
  <2> PICK l \in Loaders : SyncStep(l)
    BY <1>5
  <2>1. CASE OpenSync(l) \/ \E p \in Paths : SyncFile(l, p)
    BY <2>1 DEF OpenSync, SyncFile
  <2>2. QED
    BY <1>3, <2>1 DEF SyncStep
<1>6. CASE UNCHANGED cardVars
  BY <1>6 DEF cardVars
<1>7. QED
  BY <1>2, <1>4, <1>5, <1>6 DEF CardNext

(***************************************************************************)
(* A deprecated card stays deprecated, although a sync may have loaded it  *)
(* before, and a row never changes without the event of its new content in *)
(* the same commit (CardDAO.upsert_card, mark_deprecated, _sync_file).     *)
(***************************************************************************)
THEOREM CardsKeepFaith == CardSpec => CardHistory
<1>1. CardSpec => []CardTypeOK
  BY TypeInit, TypeStep, PTL DEF CardSpec
<1>2. ASSUME CardTypeOK, [CardNext]_cardVars
      PROVE  \A k \in Keys : row[k].deprecated => row'[k].deprecated
  <2> SUFFICES ASSUME NEW k \in Keys, row[k].deprecated
               PROVE  row'[k].deprecated
    OBVIOUS
  <2>1. row[k] \in Row
    BY <1>2 DEF CardTypeOK
  <2>2. row[k] # NoRow
    <3>1. NoRow.deprecated = FALSE
      BY DEF NoRow
    <3>2. QED
      BY <3>1, Zenon
  <2>3. \A v \in FileVersions : [row[k] EXCEPT !.version = v].deprecated = row[k].deprecated
    BY <2>1 DEF Row
  <2>4. [row[k] EXCEPT !.deprecated = TRUE].deprecated
    BY <2>1 DEF Row
  <2>5. QED
    BY <1>2, <2>2, <2>3, <2>4, RowSteps, Zenon
<1>3. ASSUME CardTypeOK, [CardNext]_cardVars
      PROVE  \A k \in Keys : row[k].version \notin {0, row'[k].version} =>
               <<k, row'[k].version>> \in told'
  <2> SUFFICES ASSUME NEW k \in Keys, row[k].version \notin {0, row'[k].version}
               PROVE  <<k, row'[k].version>> \in told'
    OBVIOUS
  <2>1. row[k] \in Row
    BY <1>3 DEF CardTypeOK
  <2>2. row[k] # NoRow
    BY DEF NoRow
  <2>3. [row[k] EXCEPT !.deprecated = TRUE].version = row[k].version
    BY <2>1 DEF Row
  <2>4. \A v \in FileVersions : [row[k] EXCEPT !.version = v].version = v
    BY <2>1 DEF Row
  <2>5. QED
    BY <1>3, <2>2, <2>3, <2>4, RowSteps, Zenon
<1>4. QED
  BY <1>1, <1>2, <1>3, PTL DEF CardSpec, CardHistory, DeprecationSticks, UpdatesAreTold

-----------------------------------------------------------------------------
(***************************************************************************)
(* Proofs about the life of a causal candidate, for any number of          *)
(* candidates and passes and every limit.                                  *)
(***************************************************************************)

ValidationSpec == ValidationInit /\ [][ValidationNext]_validationVars

\* A promoted candidate that no pass had listed is in no list of any pass: lists are
\* made of the proposed, and a promotion of a listed one is remembered.
PromotedUnlisted ==
    \A c \in Candidate \ exposed, v \in Validators :
        status[c] = "promoted_to_claim" => c \notin pass[v].listed

CandidateInv == ValidationTypeOK /\ PromotedUnlisted /\ OnlyTestedAreDecided

USE DEF CandidateStatuses, Decisions

\* A test decides; it never leaves a candidate proposed, and never promotes one.
LEMMA VerdictsDecide == ASSUME NEW c PROVE DecisionsOf(c) \subseteq Decisions
  BY DEF DecisionsOf, Verdict

\* Without two columns of one asset nothing is tested.
LEMMA UntestedInconclusive ==
  ASSUME NEW c, ShapeOf[c] # "columns" PROVE DecisionsOf(c) = {"inconclusive"}
  BY DEF DecisionsOf

\* What a pass does to each candidate.
LEMMA PassDecides ==
  ASSUME NEW v \in Validators, Decide(v), CandidateInv, NEW c \in Candidate
  PROVE  IF c \in pass[v].listed THEN status'[c] \in DecisionsOf(c) ELSE status'[c] = status[c]
  BY DEF Decide, CandidateInv, ValidationTypeOK

LEMMA InitCandidates == ValidationInit => CandidateInv
  BY DEF ValidationInit, CandidateInv, ValidationTypeOK, PromotedUnlisted,
         OnlyTestedAreDecided, NoPass

LEMMA NextCandidates == CandidateInv /\ [ValidationNext]_validationVars => CandidateInv'
<1> SUFFICES ASSUME CandidateInv, [ValidationNext]_validationVars PROVE CandidateInv'
  OBVIOUS
<1> USE DEF CandidateInv, ValidationTypeOK, PromotedUnlisted, OnlyTestedAreDecided, NoPass
<1>1. CASE \E found \in SUBSET Candidate : Propose(found)
  BY <1>1 DEF Propose
<1>2. ASSUME NEW v \in Validators, ListPending(v) PROVE CandidateInv'
  <2>1. PICK batch \in SUBSET Proposed :
          pass' = [pass EXCEPT ![v] = [listing |-> TRUE, listed |-> batch]]
    BY <1>2 DEF ListPending
  <2>2. \A c \in batch : c \in Candidate /\ status[c] = "proposed"
    BY <2>1 DEF Proposed
  <2>3. UNCHANGED <<stored, status, exposed>>
    BY <1>2 DEF ListPending
  <2> QED BY <2>1, <2>2, <2>3
<1>3. ASSUME NEW v \in Validators, Decide(v) PROVE CandidateInv'
  <2>1. pass' = [pass EXCEPT ![v] = NoPass] /\ UNCHANGED <<stored, exposed>>
    BY <1>3 DEF Decide
  <2>2. \A c \in Candidate : status'[c] \in Decisions \/ status'[c] = status[c]
    BY <1>3, PassDecides, VerdictsDecide
  <2>3. ValidationTypeOK'
    <3>1. status' = [c \in Candidate |-> status'[c]]
      BY <1>3 DEF Decide
    <3>2. \A c \in Candidate : status'[c] \in CandidateStatuses
      BY <2>2
    <3> QED BY <2>1, <3>1, <3>2
  <2>4. PromotedUnlisted'
    BY <2>1, <2>2
  <2>5. OnlyTestedAreDecided'
    <3> SUFFICES ASSUME NEW c \in Candidate, ShapeOf[c] # "columns"
                 PROVE  status'[c] \notin {"validated", "rejected"}
      OBVIOUS
    <3> QED BY <1>3, PassDecides, UntestedInconclusive
  <2> QED BY <2>3, <2>4, <2>5
<1>4. ASSUME NEW v \in Validators, LoseTest(v) PROVE CandidateInv'
  BY <1>4 DEF LoseTest
<1>5. ASSUME NEW c \in Candidate, Promote(c) PROVE CandidateInv'
  <2> USE <1>5 DEF Promote
  <2>1. ValidationTypeOK'
    OBVIOUS
  <2>2. PromotedUnlisted'
    OBVIOUS
  <2>3. OnlyTestedAreDecided'
    OBVIOUS
  <2> QED BY <2>1, <2>2, <2>3
<1>6. CASE UNCHANGED validationVars
  BY <1>6 DEF validationVars
<1> QED BY <1>1, <1>2, <1>3, <1>4, <1>5, <1>6 DEF ValidationNext

LEMMA CandidatesAlways == ValidationSpec => []CandidateInv
  BY InitCandidates, NextCandidates, PTL DEF ValidationSpec

(***************************************************************************)
(* Only candidates that name two columns of one asset are ever validated   *)
(* or rejected: nothing else is tested (_validate_one).                    *)
(***************************************************************************)
THEOREM UntestedStayOpen == ValidationSpec => []OnlyTestedAreDecided
<1>1. CandidateInv => OnlyTestedAreDecided
  BY DEF CandidateInv
<1> QED BY <1>1, CandidatesAlways, PTL

(***************************************************************************)
(* No decision is undone: a candidate that was decided is never proposed   *)
(* again, and one that an operator promoted while no pass had it listed    *)
(* stays promoted, however many passes and enrichments follow              *)
(* (upsert_causal_candidate, list_pending_causal_candidates, run_once).    *)
(***************************************************************************)
THEOREM DecisionsAreKept == ValidationSpec => DecisionsStand
<1> DEFINE Kept(c) == status[c] # "proposed" => status'[c] # "proposed"
           Stays(c) == status[c] = "promoted_to_claim" => status'[c] = "promoted_to_claim"
           Decided == \A c \in Candidate : Kept(c)
           Promoted == \A c \in Candidate \ exposed : Stays(c)
<1>1. CandidateInv /\ [ValidationNext]_validationVars => Decided /\ Promoted
  <2> SUFFICES ASSUME CandidateInv, [ValidationNext]_validationVars,
                      NEW c \in Candidate
               PROVE  Kept(c) /\ (c \notin exposed => Stays(c))
    OBVIOUS
  <2> USE DEF CandidateInv, ValidationTypeOK
  <2>1. CASE \E found \in SUBSET Candidate : Propose(found)
    BY <2>1 DEF Propose
  <2>2. ASSUME NEW v \in Validators, ListPending(v) \/ LoseTest(v)
        PROVE  Kept(c) /\ (c \notin exposed => Stays(c))
    BY <2>2 DEF ListPending, LoseTest
  <2>3. ASSUME NEW v \in Validators, Decide(v)
        PROVE  Kept(c) /\ (c \notin exposed => Stays(c))
    <3>1. CASE c \in pass[v].listed
      <4>1. status'[c] \in Decisions
        BY <2>3, <3>1, PassDecides, VerdictsDecide
      <4> QED BY <4>1, <3>1 DEF PromotedUnlisted
    <3>2. CASE c \notin pass[v].listed
      <4>1. status'[c] = status[c]
        BY <2>3, <3>2, PassDecides
      <4> QED BY <4>1
    <3> QED BY <3>1, <3>2
  <2>4. ASSUME NEW p \in Candidate, Promote(p)
        PROVE  Kept(c) /\ (c \notin exposed => Stays(c))
    BY <2>4 DEF Promote
  <2>5. CASE UNCHANGED validationVars
    BY <2>5 DEF validationVars
  <2> QED BY <2>1, <2>2, <2>3, <2>4, <2>5 DEF ValidationNext
<1>2. CandidateInv /\ [ValidationNext]_validationVars => [Decided]_validationVars
  BY <1>1
<1>3. CandidateInv /\ [ValidationNext]_validationVars => [Promoted]_validationVars
  BY <1>1
<1>4. ValidationSpec => NeverProposedAgain
  BY <1>2, CandidatesAlways, PTL DEF ValidationSpec, NeverProposedAgain
<1>5. ValidationSpec => PromotionStands
  BY <1>3, CandidatesAlways, PTL DEF ValidationSpec, PromotionStands
<1> QED BY <1>4, <1>5 DEF DecisionsStand

-----------------------------------------------------------------------------
(***************************************************************************)
(* Proofs about WorkerRuntime, for any number of runtimes in the process,  *)
(* recipes and failures.                                                   *)
(***************************************************************************)

RuntimeSpec == RuntimeInit /\ [][RuntimeNext]_runtimeVars

RunRecords == [phase : {"none", "validate", "run", "done", "failed"}, tries : Nat,
               validated : Runtimes \union {NoOne}, ran : Runtimes \union {NoOne},
               stored : SUBSET Runtimes, error : {"none", "unknown", "invalid", "unconfigured", "ran"}]

RunsTyped ==
  /\ begun \subseteq Runtimes /\ configured \in Runtimes \union {NoOne}
  /\ registry \in [Recipes -> Runtimes \union {NoOne}]
  /\ worker \in [Runtimes -> {"no", "connecting", "polling", "down"}]
  /\ job \in [Jobs -> RunRecords]

\* The process is configured as soon as anybody has tried to start, by one who has.
ConfiguredByStart ==
  /\ configured # NoOne => configured \in begun
  /\ \A r \in Runtimes : worker[r] # "no" => configured # NoOne

\* What is known of a run that was submitted.
RunKnown(j) ==
  /\ job[j].phase # "none" => configured # NoOne
  /\ job[j].error = "none" \/ job[j].phase = "failed"
  /\ job[j].error # "unconfigured"
  /\ j[1] \notin private => /\ job[j].phase # "none" => registry[j[2]] # NoOne
                            /\ job[j].error # "unknown"
  /\ job[j].phase = "run" => job[j].validated = registry[j[2]] /\ registry[j[2]] # NoOne
  /\ job[j].phase = "done" => job[j].ran = job[j].validated /\ job[j].stored # {}
  /\ job[j].stored \subseteq begun

RuntimeInv == RunsTyped /\ ConfiguredByStart /\ \A j \in Jobs : RunKnown(j)

\* A runtime that is built, started or stopped leaves the runs alone: what is
\* registered stays so, and the process never loses its configuration.
LEMMA RuntimeStepKeeps ==
  ASSUME RuntimeInv, RunsTyped', ConfiguredByStart', UNCHANGED <<private, job>>,
         begun \subseteq begun',
         configured # NoOne => configured' # NoOne,
         \A k \in Recipes : registry[k] # NoOne => registry'[k] = registry[k]
  PROVE  RuntimeInv'
<1>1. ASSUME NEW j \in Jobs PROVE RunKnown(j)'
  <2>1. RunKnown(j) /\ j[2] \in Recipes
    BY DEF RuntimeInv, Jobs
  <2> QED
    BY <2>1 DEF RunKnown
<1> QED
  BY <1>1 DEF RuntimeInv

\* A step of one run touches no other.
LEMMA RunStepKeeps ==
  ASSUME RuntimeInv, NEW j \in Jobs, NEW k \in RunRecords, job' = [job EXCEPT ![j] = k],
         UNCHANGED <<private, begun, registry, configured, worker>>, RunKnown(j)'
  PROVE  RuntimeInv'
<1>1. RunsTyped' /\ ConfiguredByStart'
  BY DEF RuntimeInv, RunsTyped, ConfiguredByStart
<1>2. ASSUME NEW i \in Jobs PROVE RunKnown(i)'
  <2>1. CASE i = j
    BY <2>1
  <2>2. CASE i # j
    <3>1. job'[i] = job[i] /\ RunKnown(i)
      BY <2>2 DEF RuntimeInv, RunsTyped
    <3> QED
      BY <3>1 DEF RunKnown
  <2> QED
    BY <2>1, <2>2
<1> QED
  BY <1>1, <1>2 DEF RuntimeInv

LEMMA RuntimeInitInv == RuntimeInit => RuntimeInv
BY RuntimeAssumption
   DEF RuntimeInit, RuntimeInv, RunsTyped, ConfiguredByStart, RunKnown, NoJob, RunRecords, Jobs

LEMMA RuntimesKeep ==
  ASSUME NEW r \in Runtimes, RuntimeInv,
         Build(r) \/ BeginStart(r) \/ ConnectFails(r) \/ Connected(r) \/ Shutdown(r)
  PROVE  RuntimeInv'
<1>1. CASE Build(r)
  <2>1. UNCHANGED <<private, begun, configured, worker, job>>
        /\ (registry' = registry \/ registry' = Registration(r))
    BY <1>1 DEF Build
  <2>2. registry' \in [Recipes -> Runtimes \union {NoOne}]
        /\ \A k \in Recipes : registry[k] # NoOne => registry'[k] = registry[k]
    BY <2>1 DEF Registration, RuntimeInv, RunsTyped
  <2> QED
    BY <2>1, <2>2, RuntimeStepKeeps DEF RuntimeInv, RunsTyped, ConfiguredByStart
<1>2. CASE BeginStart(r)
  <2>1. RunsTyped' /\ ConfiguredByStart'
    BY <1>2, RuntimeAssumption DEF BeginStart, RuntimeInv, RunsTyped, ConfiguredByStart
  <2> QED
    BY <1>2, <2>1, RuntimeAssumption, RuntimeStepKeeps DEF BeginStart
<1>3. CASE ConnectFails(r) \/ Connected(r) \/ Shutdown(r)
  <2>1. /\ UNCHANGED <<private, begun, registry, configured, job>>
        /\ \E s \in {"no", "polling", "down"} : worker' = [worker EXCEPT ![r] = s]
        /\ worker[r] # "no"
    BY <1>3 DEF ConnectFails, Connected, Shutdown
  <2>2. RunsTyped' /\ ConfiguredByStart'
    BY <2>1 DEF RuntimeInv, RunsTyped, ConfiguredByStart
  <2> QED
    BY <2>1, <2>2, RuntimeStepKeeps
<1> QED
  BY <1>1, <1>2, <1>3

LEMMA SubmitKeeps ==
  ASSUME NEW r \in Runtimes, NEW k \in Recipes, RuntimeInv, Submit(r, k)
  PROVE  RuntimeInv'
<1> DEFINE new == [NoJob EXCEPT !.phase = "validate", !.tries = 1]
<1>1. /\ worker[r] # "no" /\ Known(r, k) /\ job' = [job EXCEPT ![<<r, k>>] = new]
      /\ UNCHANGED <<private, begun, registry, configured, worker>>
  BY DEF Submit
<1>2. <<r, k>> \in Jobs /\ new \in RunRecords /\ new.phase = "validate" /\ new.error = "none"
      /\ new.stored = {}
  BY RuntimeAssumption DEF Jobs, NoJob, RunRecords
<1> HIDE DEF new
<1>3. job'[<<r, k>>] = new /\ configured # NoOne
  BY <1>1, <1>2 DEF RuntimeInv, RunsTyped, ConfiguredByStart
<1>4. RunKnown(<<r, k>>)'
  BY <1>1, <1>2, <1>3 DEF RunKnown, Known
<1> QED
  BY <1>1, <1>2, <1>4, RunStepKeeps

LEMMA JobStepKeeps ==
  ASSUME NEW j \in Jobs, RuntimeInv, JobStep(j)
  PROVE  RuntimeInv'
<1> DEFINE old == job[j]
<1>1. old \in RunRecords /\ RunKnown(j) /\ registry[j[2]] \in Runtimes \union {NoOne}
      /\ configured \in begun \union {NoOne} /\ begun \subseteq Runtimes
  BY DEF RuntimeInv, RunsTyped, Jobs, ConfiguredByStart
<1>2. UNCHANGED <<private, begun, registry, configured, worker>>
  BY DEF JobStep, ValidateRecipe, RunInline, AttemptFails
<1>3. CASE ValidateRecipe(j)
  <2>1. old.phase = "validate" /\ old.error = "none"
    BY <1>1, <1>3 DEF ValidateRecipe, RunKnown
  <2>2. PICK k \in {[old EXCEPT !.phase = "run", !.validated = registry[j[2]]],
                    [old EXCEPT !.phase = "failed", !.error = "unknown"],
                    [old EXCEPT !.phase = "failed", !.error = "invalid"]} :
          /\ job' = [job EXCEPT ![j] = k]
          /\ k.error = "unknown" => registry[j[2]] = NoOne
          /\ k.phase = "run" => registry[j[2]] # NoOne
    BY <1>1, <1>3, <2>1 DEF ValidateRecipe, RunRecords
  <2>3. k \in RunRecords /\ k.stored = old.stored
        /\ \/ k.phase = "run" /\ k.validated = registry[j[2]] /\ k.error = "none"
           \/ k.phase = "failed" /\ k.error \in {"unknown", "invalid"}
    <3>1. CASE k = [old EXCEPT !.phase = "run", !.validated = registry[j[2]]]
      BY <1>1, <2>1, <3>1 DEF RunRecords
    <3>2. CASE k = [old EXCEPT !.phase = "failed", !.error = "unknown"]
      BY <1>1, <3>2 DEF RunRecords
    <3>3. CASE k = [old EXCEPT !.phase = "failed", !.error = "invalid"]
      BY <1>1, <3>3 DEF RunRecords
    <3> QED
      BY <2>2, <3>1, <3>2, <3>3
  <2>4. job'[j] = k
    BY <2>2 DEF RuntimeInv, RunsTyped
  <2>5. RunKnown(j)'
    BY <1>1, <1>2, <2>1, <2>2, <2>3, <2>4 DEF RunKnown
  <2> QED
    BY <1>2, <2>2, <2>3, <2>5, RunStepKeeps
<1>4. CASE RunInline(j)
  <2> DEFINE k == [old EXCEPT !.phase = "done", !.ran = registry[j[2]],
                              !.stored = @ \union {configured}]
  <2>1. old.phase = "run" /\ configured # NoOne /\ job' = [job EXCEPT ![j] = k]
    <3>1. old.phase = "run" /\ configured # NoOne
      BY <1>4 DEF RunInline
    <3>2. job' = [job EXCEPT ![j] = k]
      BY <1>4 DEF RunInline
    <3> QED
      BY <3>1, <3>2
  <2>2. k \in RunRecords /\ k.phase = "done" /\ k.ran = registry[j[2]] /\ k.error = old.error
        /\ k.validated = old.validated /\ k.stored = old.stored \union {configured}
    BY <1>1, <2>1 DEF RunRecords
  <2> HIDE DEF k
  <2>3. job'[j] = k
    BY <2>1 DEF RuntimeInv, RunsTyped
  <2>4. RunKnown(j)'
    BY <1>1, <1>2, <2>1, <2>2, <2>3 DEF RunKnown
  <2> QED
    BY <1>2, <2>1, <2>2, <2>4, RunStepKeeps
<1>5. CASE AttemptFails(j)
  <2>1. old.phase = "run" /\ configured # NoOne
    BY <1>1, <1>5 DEF AttemptFails, RunKnown
  <2>2. PICK written \in {{}, {configured} \ {NoOne}} :
          LET after == [old EXCEPT !.stored = @ \union written] IN
          job' = [job EXCEPT ![j] = IF after.tries < 3 THEN [after EXCEPT !.tries = @ + 1]
                  ELSE [after EXCEPT !.phase = "failed",
                                     !.error = IF configured = NoOne THEN "unconfigured" ELSE "ran"]]
    BY <1>5 DEF AttemptFails
  <2> DEFINE after == [old EXCEPT !.stored = @ \union written]
             k == IF after.tries < 3 THEN [after EXCEPT !.tries = @ + 1]
                  ELSE [after EXCEPT !.phase = "failed", !.error = "ran"]
  <2>3. job' = [job EXCEPT ![j] = k]
    BY <2>1, <2>2
  <2>4. written \subseteq begun
    BY <1>1, <2>1
  <2>5. /\ after \in RunRecords /\ after.phase = "run" /\ after.error = old.error
        /\ after.validated = old.validated /\ after.stored \subseteq begun
    BY <1>1, <2>1, <2>4 DEF RunRecords, RunKnown
  <2> HIDE DEF after
  <2>6. /\ k \in RunRecords /\ k.stored \subseteq begun /\ k.validated = old.validated
        /\ (k.phase = "run" /\ k.error = old.error) \/ (k.phase = "failed" /\ k.error = "ran")
    <3>1. CASE after.tries < 3
      <4>1. k = [after EXCEPT !.tries = after.tries + 1] /\ after.tries + 1 \in Nat
        BY <2>5, <3>1 DEF RunRecords
      <4> QED
        BY <2>5, <4>1 DEF RunRecords
    <3>2. CASE ~(after.tries < 3)
      BY <2>5, <3>2 DEF RunRecords
    <3> QED
      BY <3>1, <3>2
  <2> HIDE DEF k
  <2>7. job'[j] = k
    BY <2>3 DEF RuntimeInv, RunsTyped
  <2>8. RunKnown(j)'
    BY <1>1, <1>2, <2>1, <2>6, <2>7 DEF RunKnown
  <2> QED
    BY <1>2, <2>3, <2>6, <2>8, RunStepKeeps
<1> QED
  BY <1>3, <1>4, <1>5 DEF JobStep

LEMMA RuntimeNextKeeps == RuntimeInv /\ [RuntimeNext]_runtimeVars => RuntimeInv'
<1> SUFFICES ASSUME RuntimeInv, [RuntimeNext]_runtimeVars PROVE RuntimeInv'
  OBVIOUS
<1>1. CASE UNCHANGED runtimeVars
  BY <1>1 DEF RuntimeInv, RunsTyped, ConfiguredByStart, RunKnown, runtimeVars
<1>2. CASE RuntimeNext
  BY <1>2, RuntimesKeep, SubmitKeeps, JobStepKeeps DEF RuntimeNext
<1> QED
  BY <1>1, <1>2

\* Whoever registers, starts, fails or stops in the process: a run ends with the recipe
\* that validated it, meets no unconfigured process, is known where it was accepted, and
\* its result is stored only where start() was called (RecipeRegistry.register,
\* TemporalRuntime.start, the two activities).
THEOREM RuntimesShareSafely == RuntimeSpec => []RuntimeSafety
<1>1. RuntimeInv => RuntimeSafety
  BY DEF RuntimeInv, RunKnown, RuntimeSafety, OneRecipePerJob, NeverUnconfigured,
         AcceptedIsKnown, StoredWhereBegun
<1> QED
  BY <1>1, RuntimeInitInv, RuntimeNextKeeps, PTL DEF RuntimeSpec

-----------------------------------------------------------------------------
(***************************************************************************)
(* Proofs about StagedJob, for any plan of files, any number of attempts   *)
(* and of faults.                                                          *)
(***************************************************************************)

JobSpec == JobInit /\ [][JobNext]_jobVars

\* An attempt that runs: within its plan, and with a file open only while it has one to write.
Runners ==
  {a \in [stage : Activities, n : Nat, at : Nat \ {0},
          where : {"closed", "temp", "final", "nowhere"}] :
     /\ a.n \in 1 .. MaxAttempts[a.stage] /\ a.at <= Len(Plan[a.stage]) + 1
     /\ a.where # "closed" => a.at <= Len(Plan[a.stage])}

\* The files of the steps an attempt has passed are in place, whoever put them there.
Handed(a) ==
  /\ \A i \in 1 .. (a.at - 1) : final[<<a.stage, Plan[a.stage][i]>>] # {}
  /\ a.where = "final" => final[File(a)] # {}

\* As long as nobody was overtaken they are all its own.
Own(a) ==
  /\ \A i \in 1 .. (a.at - 1) : final[<<a.stage, Plan[a.stage][i]>>] = {Id(a)}
  /\ a.where # "nowhere"
  /\ a.where = "temp" => a.stage # "persist" /\ temp[File(a)] = {Id(a)}
  /\ a.where = "final" => a.stage = "persist" /\ final[File(a)] = {Id(a)}

FilesTyped == temp \in [Files -> SUBSET Attempts] /\ final \in [Files -> SUBSET Attempts]

StageTyped ==
  /\ stage \in Activities \union {"validate", "done", "failed"}
  /\ stage \in Activities => tries \in 1 .. MaxAttempts[stage]

Undisturbed ==
  ~overtaken => /\ \A a \in running : Awaited(a) /\ Own(a)
                /\ \A a, b \in running : a = b

JobInv ==
  /\ StageTyped /\ FilesTyped /\ overtaken \in BOOLEAN
  /\ running \in SUBSET Runners /\ \A a \in running : Handed(a)
  /\ HandlesResolve /\ OneAttemptPerStage /\ Undisturbed

LEMMA FileOf ==
  ASSUME NEW s \in Activities, NEW i \in 1 .. Len(Plan[s])
  PROVE  <<s, Plan[s][i]>> \in Files /\ <<s, Plan[s][i]>> \in FilesOf(s)
<1>1. i \in DOMAIN Plan[s]
  BY JobAssumption
<1>2. <<s, Plan[s][i]>> \in Files
  BY <1>1 DEF Files
<1> QED
  BY <1>2 DEF FilesOf

LEMMA PlannedFile ==
  ASSUME NEW s \in Activities, NEW f \in FilesOf(s)
  PROVE  \E i \in 1 .. Len(Plan[s]) : f = <<s, Plan[s][i]>>
<1>1. PICK r \in Activities : \E i \in DOMAIN Plan[r] : f = <<r, Plan[r][i]>>
  BY DEF FilesOf, Files
<1>2. r = s
  BY <1>1 DEF FilesOf
<1> QED
  BY <1>1, <1>2, JobAssumption

LEMMA RunnerFacts ==
  ASSUME NEW a \in Runners
  PROVE  /\ a.stage \in Activities /\ a.n \in 1 .. MaxAttempts[a.stage] /\ a.at \in Nat /\ a.at # 0
         /\ Id(a) \in Attempts
         /\ Len(Plan[a.stage]) \in Nat
         /\ a.at <= Len(Plan[a.stage]) => File(a) \in Files /\ File(a) \in FilesOf(a.stage)
<1>1. /\ a.stage \in Activities /\ a.n \in 1 .. MaxAttempts[a.stage] /\ a.at \in Nat /\ a.at # 0
  BY DEF Runners
<1>2. Len(Plan[a.stage]) \in Nat
  BY <1>1, JobAssumption
<1>3. Id(a) \in Attempts
  BY <1>1 DEF Id, Attempts
<1>4. ASSUME a.at <= Len(Plan[a.stage]) PROVE File(a) \in Files /\ File(a) \in FilesOf(a.stage)
  <2>1. a.at \in 1 .. Len(Plan[a.stage])
    BY <1>1, <1>2, <1>4
  <2> QED
    BY <1>1, <2>1, FileOf DEF File
<1> QED
  BY <1>1, <1>2, <1>3, <1>4

LEMMA FirstAttempt ==
  ASSUME NEW s \in Activities, NEW n \in 1 .. MaxAttempts[s]
  PROVE  /\ Attempt(s, n) \in Runners /\ Attempt(s, n).stage = s /\ Attempt(s, n).n = n
         /\ Attempt(s, n).at = 1 /\ Attempt(s, n).where = "closed"
<1>1. Len(Plan[s]) \in Nat /\ MaxAttempts[s] \in Nat
  BY JobAssumption
<1> QED
  BY <1>1 DEF Attempt, Runners

\* Whatever an attempt has done to the files, leaving rest at work: the workflow goes on
\* waiting, tries again, gives up, or proceeds to the next activity.
LEMMA Controlled ==
  ASSUME JobInv, FilesTyped', overtaken' \in BOOLEAN, overtaken => overtaken',
         NEW rest \in SUBSET Runners, \A a \in rest : Handed(a)',
         \A f \in Files : final[f] # {} => final'[f] # {},
         ~overtaken' => /\ \A a, b \in rest : a = b
                        /\ \A a \in rest : a.stage = stage /\ a.n = tries /\ Own(a)'
                        /\ \A f \in Files : f[1] # stage => final'[f] = final[f],
         \/ running' = rest /\ UNCHANGED <<stage, tries>>
         \/ /\ stage \in Activities /\ tries < MaxAttempts[stage] /\ UNCHANGED stage
            /\ tries' = tries + 1 /\ running' = rest \union {Attempt(stage, tries + 1)}
            /\ ~overtaken' => rest = {}
         \/ stage' = "failed" /\ running' = rest /\ (~overtaken' => rest = {})
         \/ /\ Proceed(rest) /\ (~overtaken' => rest = {})
            /\ \/ stage = "validate"
               \/ /\ stage \in Activities
                  /\ \A f \in FilesOf(stage) : final'[f] # {}
                  /\ ~overtaken' => \E n \in 1 .. MaxAttempts[stage] :
                                      \A f \in FilesOf(stage) : final'[f] = {<<stage, n>>}
  PROVE  JobInv'
<1>a. \A s \in Activities : MaxAttempts[s] \in Nat \ {0}
  BY JobAssumption
<1>b. \A s \in Activities : \A f \in FilesOf(s) : f \in Files /\ f[1] = s
  BY DEF FilesOf
<1>c. StageTyped /\ HandlesResolve /\ OneAttemptPerStage
  BY DEF JobInv
<1>0. ASSUME NEW s \in Activities, NEW n \in 1 .. MaxAttempts[s]
      PROVE  Handed(Attempt(s, n))' /\ Own(Attempt(s, n))'
  BY <1>0, FirstAttempt DEF Handed, Own
<1>d. \A s \in Activities : Completed(s) =>
        /\ s # stage
        /\ \A f \in FilesOf(s) : final'[f] # {}
        /\ ~overtaken' => \E n \in 1 .. MaxAttempts[s] :
                            \A f \in FilesOf(s) : final'[f] = {<<s, n>>}
  <2> TAKE s \in Activities
  <2> HAVE Completed(s)
  <2>1. s # stage
    BY DEF Completed
  <2>2. \A f \in FilesOf(s) : final'[f] # {}
    BY <1>b, <1>c DEF HandlesResolve
  <2>3. ASSUME ~overtaken'
        PROVE  \E n \in 1 .. MaxAttempts[s] : \A f \in FilesOf(s) : final'[f] = {<<s, n>>}
    <3>1. ~overtaken
      BY <2>3
    <3>2. PICK n \in 1 .. MaxAttempts[s] : \A f \in FilesOf(s) : final[f] = {<<s, n>>}
      BY <1>c, <3>1 DEF OneAttemptPerStage
    <3>3. \A f \in FilesOf(s) : final'[f] = {<<s, n>>}
      BY <1>b, <2>1, <2>3, <3>2
    <3> QED
      BY <3>3
  <2> QED
    BY <2>1, <2>2, <2>3
<1>1. CASE running' = rest /\ UNCHANGED <<stage, tries>>
  <2>1. StageTyped'
    BY <1>c, <1>1 DEF StageTyped
  <2>2. HandlesResolve' /\ OneAttemptPerStage'
    BY <1>d, <1>1 DEF HandlesResolve, OneAttemptPerStage, Completed
  <2>3. Undisturbed'
    BY <1>1 DEF Undisturbed, Awaited
  <2> QED
    BY <1>1, <2>1, <2>2, <2>3 DEF JobInv
<1>2. CASE /\ stage \in Activities /\ tries < MaxAttempts[stage] /\ UNCHANGED stage
           /\ tries' = tries + 1 /\ running' = rest \union {Attempt(stage, tries + 1)}
           /\ ~overtaken' => rest = {}
  <2>1. tries' \in 1 .. MaxAttempts[stage]
    BY <1>a, <1>c, <1>2 DEF StageTyped
  <2>2. StageTyped'
    BY <1>2, <2>1 DEF StageTyped
  <2>a. PICK s \in Activities : s = stage /\ s = stage'
    BY <1>2
  <2>b. PICK n \in 1 .. MaxAttempts[s] : n = tries' /\ n = tries + 1
    BY <1>2, <2>1, <2>a
  <2> DEFINE b == Attempt(s, n)
  <2>3. b \in Runners /\ b.stage = s /\ b.n = n /\ Handed(b)' /\ Own(b)'
    BY <1>0, FirstAttempt
  <2>4. running' = rest \union {b}
    BY <1>2, <2>a, <2>b
  <2> HIDE DEF b
  <2>5. HandlesResolve' /\ OneAttemptPerStage'
    BY <1>d, <1>2 DEF HandlesResolve, OneAttemptPerStage, Completed
  <2>6. Undisturbed'
    BY <1>2, <2>a, <2>b, <2>3, <2>4 DEF Undisturbed, Awaited
  <2> QED
    BY <2>2, <2>3, <2>4, <2>5, <2>6 DEF JobInv
<1>3. CASE stage' = "failed" /\ running' = rest /\ (~overtaken' => rest = {})
  <2>1. StageTyped'
    BY <1>3 DEF StageTyped, Activities
  <2>2. HandlesResolve' /\ OneAttemptPerStage'
    BY <1>3 DEF HandlesResolve, OneAttemptPerStage, Completed
  <2>3. Undisturbed'
    BY <1>3 DEF Undisturbed
  <2> QED
    BY <1>3, <2>1, <2>2, <2>3 DEF JobInv
<1>4. CASE /\ Proceed(rest) /\ (~overtaken' => rest = {})
           /\ \/ stage = "validate"
              \/ /\ stage \in Activities
                 /\ \A f \in FilesOf(stage) : final'[f] # {}
                 /\ ~overtaken' => \E n \in 1 .. MaxAttempts[stage] :
                                     \A f \in FilesOf(stage) : final'[f] = {<<stage, n>>}
  <2>1. /\ tries' = 1 /\ stage' \in Activities \union {"done"}
        /\ \/ stage = "validate" /\ stage' = "extract"
           \/ stage = "extract" /\ stage' = "compute"
           \/ stage = "compute" /\ stage' = "persist"
           \/ stage = "persist" /\ stage' = "done"
    BY <1>4 DEF Proceed, After, Activities
  <2>2. StageTyped'
    BY <1>a, <2>1 DEF StageTyped, Activities
  <2>3. \A s \in Activities : Completed(s)' => Completed(s) \/ (s = stage /\ stage \in Activities)
    BY <2>1 DEF Completed, Activities
  <2>4. HandlesResolve'
    BY <1>4, <1>d, <2>3 DEF HandlesResolve, Activities
  <2>5. OneAttemptPerStage'
    <3> SUFFICES ASSUME NEW s \in Activities, Completed(s)', ~overtaken'
                 PROVE  \E n \in 1 .. MaxAttempts[s] : \A f \in FilesOf(s) : final'[f] = {<<s, n>>}
      BY DEF OneAttemptPerStage
    <3>1. CASE Completed(s)
      BY <1>d, <3>1
    <3>2. CASE s = stage /\ stage \in Activities
      BY <1>4, <3>2 DEF Activities
    <3> QED
      BY <2>3, <3>1, <3>2
  <2>6. running' \in SUBSET Runners /\ (\A a \in running' : Handed(a)') /\ Undisturbed'
    <3>1. CASE stage' = "done"
      <4>1. running' = rest
        BY <1>4, <3>1 DEF Proceed
      <4> QED
        BY <1>4, <4>1 DEF Undisturbed
    <3>2. CASE stage' # "done"
      <4>1. PICK s \in Activities : s = stage'
        BY <2>1, <3>2
      <4> DEFINE b == Attempt(s, 1)
      <4>2. running' = rest \union {b}
        BY <1>4, <3>2, <4>1 DEF Proceed
      <4>a. 1 \in 1 .. MaxAttempts[s]
        BY <1>a
      <4>3. b \in Runners /\ b.stage = s /\ b.n = 1 /\ Handed(b)' /\ Own(b)'
        BY <1>0, <4>a, FirstAttempt
      <4> HIDE DEF b
      <4> QED
        BY <1>4, <2>1, <4>1, <4>2, <4>3 DEF Undisturbed, Awaited
    <3> QED
      BY <3>1, <3>2
  <2> QED
    BY <2>2, <2>4, <2>5, <2>6 DEF JobInv
<1> QED
  BY <1>1, <1>2, <1>3, <1>4

Places == {"closed", "temp", "final", "nowhere"}

LEMMA Moved ==
  ASSUME NEW a \in Runners, NEW w \in Places, a.at <= Len(Plan[a.stage])
  PROVE  /\ [a EXCEPT !.where = w] \in Runners
         /\ [a EXCEPT !.where = w].stage = a.stage /\ [a EXCEPT !.where = w].n = a.n
         /\ [a EXCEPT !.where = w].at = a.at /\ [a EXCEPT !.where = w].where = w
  BY DEF Runners, Places

LEMMA Advanced ==
  ASSUME NEW a \in Runners, a.at <= Len(Plan[a.stage])
  PROVE  /\ Advance(a) \in Runners
         /\ Advance(a).stage = a.stage /\ Advance(a).n = a.n
         /\ Advance(a).at = a.at + 1 /\ Advance(a).where = "closed"
<1>1. Len(Plan[a.stage]) \in Nat /\ a.at \in Nat
  BY RunnerFacts
<1>2. /\ a.stage \in Activities /\ a.n \in Nat /\ a.n \in 1 .. MaxAttempts[a.stage]
      /\ a = [stage |-> a.stage, n |-> a.n, at |-> a.at, where |-> a.where]
  BY DEF Runners
<1>3. a.at + 1 \in Nat \ {0} /\ a.at + 1 <= Len(Plan[a.stage]) + 1
  BY <1>1
<1> QED
  BY <1>2, <1>3 DEF Runners, Advance

LEMMA PassedFile ==
  ASSUME NEW a \in Runners, NEW i \in 1 .. (a.at - 1)
  PROVE  <<a.stage, Plan[a.stage][i]>> \in Files
<1>1. Len(Plan[a.stage]) \in Nat /\ a.at \in Nat /\ a.stage \in Activities
  BY RunnerFacts
<1>2. i \in 1 .. Len(Plan[a.stage])
  BY <1>1 DEF Runners
<1> QED
  BY <1>1, <1>2, FileOf

\* A file in place stays in place, so what an attempt has handed over stays there.
LEMMA StillHanded ==
  ASSUME NEW a \in Runners, Handed(a), \A f \in Files : final[f] # {} => final'[f] # {}
  PROVE  Handed(a)'
<1>2. ASSUME NEW i \in 1 .. (a.at - 1) PROVE final'[<<a.stage, Plan[a.stage][i]>>] # {}
  BY PassedFile DEF Handed
<1>3. ASSUME a.where = "final" PROVE final'[File(a)] # {}
  <2>1. a.at <= Len(Plan[a.stage])
    BY <1>3 DEF Runners
  <2> QED
    BY <1>3, <2>1, RunnerFacts DEF Handed
<1> QED
  BY <1>2, <1>3 DEF Handed, File

LEMMA Alone ==
  ASSUME JobInv, ~overtaken, NEW a \in running
  PROVE  /\ running = {a} /\ a.stage = stage /\ a.n = tries /\ Own(a)
         /\ \A w : Rivals(a, w) = {}
  BY DEF JobInv, Undisturbed, Awaited, Rivals

\* An activity whose attempt is over is tried again or has failed.
LEMMA Tried ==
  ASSUME NEW rest, NEW retryable, Retry(rest, retryable)
  PROVE  \/ /\ tries < MaxAttempts[stage] /\ UNCHANGED stage
            /\ tries' = tries + 1 /\ running' = rest \union {Attempt(stage, tries + 1)}
         \/ stage' = "failed" /\ running' = rest
  BY DEF Retry

\* The server hears of it only when it was the attempt it waits for.
LEMMA Reported ==
  ASSUME JobInv, NEW a \in running, NEW rest \in SUBSET Runners, FilesTyped', UNCHANGED overtaken,
         \A b \in rest : Handed(b)', \A f \in Files : final[f] # {} => final'[f] # {},
         ~overtaken => rest = {} /\ UNCHANGED final,
         \/ /\ Awaited(a) /\ \E retryable \in BOOLEAN : Retry(rest, retryable)
         \/ running' = rest /\ UNCHANGED <<stage, tries>>
  PROVE  JobInv'
<1>1. a.stage \in Activities /\ overtaken' \in BOOLEAN
  BY RunnerFacts DEF JobInv
<1>2. \/ running' = rest /\ UNCHANGED <<stage, tries>>
      \/ /\ stage \in Activities /\ tries < MaxAttempts[stage] /\ UNCHANGED stage
         /\ tries' = tries + 1 /\ running' = rest \union {Attempt(stage, tries + 1)}
         /\ ~overtaken' => rest = {}
      \/ stage' = "failed" /\ running' = rest /\ (~overtaken' => rest = {})
  <2>1. CASE Awaited(a) /\ \E retryable \in BOOLEAN : Retry(rest, retryable)
    BY <1>1, <2>1, Tried DEF Awaited
  <2>2. CASE running' = rest /\ UNCHANGED <<stage, tries>>
    BY <2>2
  <2> QED
    BY <2>1, <2>2
<1> QED
  BY <1>1, <1>2, Controlled

LEMMA AttemptTyped ==
  ASSUME JobInv, NEW a \in running
  PROVE  a \in Runners /\ Handed(a)
  BY DEF JobInv

-----------------------------------------------------------------------------
(* The steps. *)

LEMMA ValidateStep ==
  ASSUME JobInv, Validate
  PROVE  JobInv'
<1>1. ~overtaken => running = {}
  BY AttemptTyped, RunnerFacts, Alone DEF Validate, Activities
<1>2. running \in SUBSET Runners /\ FilesTyped' /\ overtaken' \in BOOLEAN /\ UNCHANGED overtaken
  BY DEF JobInv, Validate, FilesTyped
<1>3. /\ \A a \in running : Handed(a)'
      /\ \A f \in Files : final'[f] = final[f]
  BY StillHanded DEF JobInv, Validate
<1>4. \/ Proceed(running) /\ stage = "validate"
      \/ stage' = "failed" /\ running' = running
  BY DEF Validate
<1> QED
  BY <1>1, <1>2, <1>3, <1>4, Controlled

LEMMA TimesOutStep ==
  ASSUME JobInv, TimesOut
  PROVE  JobInv'
<1>1. ~overtaken' => ~overtaken /\ running = {}
  <2> SUFFICES ASSUME ~overtaken' PROVE ~overtaken /\ running = {}
    OBVIOUS
  <2>1. ~overtaken /\ ~\E a \in running : Awaited(a)
    BY DEF TimesOut
  <2> QED
    BY <2>1 DEF JobInv, Undisturbed
<1>2. running \in SUBSET Runners /\ FilesTyped'
  BY DEF JobInv, TimesOut, FilesTyped
<1>3. overtaken' \in BOOLEAN /\ (overtaken => overtaken')
  BY DEF JobInv, TimesOut
<1>4. /\ \A a \in running : Handed(a)'
      /\ \A f \in Files : final'[f] = final[f]
  BY StillHanded DEF JobInv, TimesOut
<1>5. stage \in Activities /\ Retry(running, TRUE)
  BY DEF TimesOut
<1>6. \/ /\ tries < MaxAttempts[stage] /\ UNCHANGED stage
         /\ tries' = tries + 1 /\ running' = running \union {Attempt(stage, tries + 1)}
      \/ stage' = "failed" /\ running' = running
  BY <1>5, Tried
<1> QED
  BY <1>1, <1>2, <1>3, <1>4, <1>5, <1>6, Controlled

LEMMA CompleteStep ==
  ASSUME JobInv, NEW a \in running, Complete(a)
  PROVE  JobInv'
<1>a. a \in Runners /\ Handed(a)
  BY AttemptTyped
<1>1. running \ {a} \in SUBSET Runners /\ FilesTyped' /\ overtaken' \in BOOLEAN /\ UNCHANGED overtaken
  BY DEF JobInv, Complete, FilesTyped
<1>2. /\ \A b \in running \ {a} : Handed(b)'
      /\ \A f \in Files : final'[f] = final[f]
  BY StillHanded DEF JobInv, Complete
<1>3. ~overtaken => running \ {a} = {}
  BY Alone
<1>4. Awaited(a) => Proceed(running \ {a})
  BY DEF Complete
<1>5. ~Awaited(a) => running' = running \ {a} /\ UNCHANGED <<stage, tries>>
  BY DEF Complete
<1>6. a.at = Len(Plan[a.stage]) + 1 /\ Len(Plan[a.stage]) \in Nat
  BY <1>a, RunnerFacts DEF Runners, Complete
<1>7. \A f \in FilesOf(a.stage) :
        final[f] # {} /\ (~overtaken => final[f] = {<<a.stage, a.n>>})
  <2> TAKE f \in FilesOf(a.stage)
  <2>1. PICK i \in 1 .. Len(Plan[a.stage]) : f = <<a.stage, Plan[a.stage][i]>>
    BY <1>a, PlannedFile, RunnerFacts
  <2>2. i \in 1 .. (a.at - 1)
    BY <1>6
  <2>3. final[f] # {}
    BY <1>a, <2>1, <2>2 DEF Handed
  <2>4. ~overtaken => final[f] = {<<a.stage, a.n>>}
    BY <2>1, <2>2, Alone DEF Own, Id
  <2> QED
    BY <2>3, <2>4
<1>8. a.stage \in Activities /\ a.n \in 1 .. MaxAttempts[a.stage]
  BY <1>a, RunnerFacts
<1>9. \A f \in FilesOf(a.stage) : f \in Files
  BY DEF FilesOf
<1>10. CASE Awaited(a)
  <2>1. a.stage = stage
    BY <1>10 DEF Awaited
  <2>2. \A f \in FilesOf(stage) : final'[f] # {}
    BY <1>2, <1>7, <1>9, <2>1
  <2>3. ~overtaken' => \E n \in 1 .. MaxAttempts[stage] :
                         \A f \in FilesOf(stage) : final'[f] = {<<stage, n>>}
    BY <1>1, <1>2, <1>7, <1>8, <1>9, <2>1
  <2> QED
    BY <1>1, <1>2, <1>3, <1>4, <1>8, <1>10, <2>1, <2>2, <2>3, Controlled
<1>11. CASE ~Awaited(a)
  BY <1>1, <1>2, <1>3, <1>5, <1>11, Controlled
<1> QED
  BY <1>10, <1>11

LEMMA DiesStep ==
  ASSUME JobInv, NEW a \in running, Dies(a)
  PROVE  JobInv'
<1>1. running \ {a} \in SUBSET Runners /\ FilesTyped' /\ UNCHANGED overtaken
  BY DEF JobInv, Dies, FilesTyped
<1>2. /\ \A b \in running \ {a} : Handed(b)'
      /\ \A f \in Files : final[f] # {} => final'[f] # {}
  BY StillHanded DEF JobInv, Dies
<1>3. ~overtaken => running \ {a} = {} /\ UNCHANGED final
  BY Alone DEF Dies
<1>4. running' = running \ {a} /\ UNCHANGED <<stage, tries>>
  BY DEF Dies
<1> QED
  BY <1>1, <1>2, <1>3, <1>4, Reported

LEMMA RaiseStep ==
  ASSUME JobInv, NEW a \in running, Raise(a)
  PROVE  JobInv'
<1>1. running \ {a} \in SUBSET Runners /\ FilesTyped' /\ UNCHANGED overtaken
  BY DEF JobInv, Raise, FilesTyped
<1>2. /\ \A b \in running \ {a} : Handed(b)'
      /\ \A f \in Files : final[f] # {} => final'[f] # {}
  BY StillHanded DEF JobInv, Raise
<1>3. ~overtaken => running \ {a} = {} /\ UNCHANGED final
  BY Alone DEF Raise
<1>4. \/ Awaited(a) /\ \E retryable \in BOOLEAN : Retry(running \ {a}, retryable)
      \/ running' = running \ {a} /\ UNCHANGED <<stage, tries>>
  BY DEF Raise, Report
<1> QED
  BY <1>1, <1>2, <1>3, <1>4, Reported

LEMMA RenameFailsStep ==
  ASSUME JobInv, NEW a \in running, RenameFails(a)
  PROVE  JobInv'
<1>1. running \ {a} \in SUBSET Runners /\ FilesTyped' /\ UNCHANGED overtaken
  BY DEF JobInv, RenameFails, FilesTyped
<1>2. /\ \A b \in running \ {a} : Handed(b)'
      /\ \A f \in Files : final[f] # {} => final'[f] # {}
  BY StillHanded DEF JobInv, RenameFails
<1>3. ~overtaken => running \ {a} = {} /\ UNCHANGED final
  BY Alone DEF RenameFails
<1>4. \/ Awaited(a) /\ \E retryable \in BOOLEAN : Retry(running \ {a}, retryable)
      \/ running' = running \ {a} /\ UNCHANGED <<stage, tries>>
  BY DEF RenameFails, Report
<1> QED
  BY <1>1, <1>2, <1>3, <1>4, Reported

\* A writer somebody else's rename or removal has moved on.
LEMMA RivalMoved ==
  ASSUME JobInv, NEW a \in running, a.at <= Len(Plan[a.stage]), NEW w \in {"temp", "final"},
         NEW to \in {"final", "nowhere"}, NEW b \in Move(Rivals(a, w), to),
         \A f \in Files : final[f] # {} => final'[f] # {},
         to = "final" => final'[File(a)] # {}
  PROVE  b \in Runners /\ Handed(b)'
<1>1. PICK c \in running \ {a} : c.where = w /\ File(c) = File(a) /\ b = [c EXCEPT !.where = to]
  BY DEF Move, Rivals
<1>2. c \in Runners /\ Handed(c) /\ c.at <= Len(Plan[c.stage]) /\ w # "closed"
  BY <1>1, AttemptTyped DEF Runners
<1>a. to \in Places
  BY DEF Places
<1>3. /\ b \in Runners /\ b.stage = c.stage /\ b.at = c.at /\ b.where = to
  BY <1>1, <1>2, <1>a, Moved
<1>4. Handed(c)'
  BY <1>2, StillHanded
<1>5. File(b) = File(a)
  BY <1>1, <1>3 DEF File
<1>6. File(b)' = File(b)
  BY DEF File
<1>7. b.where = "final" => final'[File(b)] # {}
  BY <1>3, <1>5
<1> QED
  BY <1>3, <1>4, <1>6, <1>7 DEF Handed

LEMMA RaiseWritingStep ==
  ASSUME JobInv, NEW a \in running, RaiseWriting(a)
  PROVE  JobInv'
<1> DEFINE kept == IF final[File(a)] = {}
                   THEN (running \ Rivals(a, "temp")) \union Move(Rivals(a, "temp"), "nowhere")
                   ELSE running
           rest == kept \ {a}
<1>a. a \in Runners /\ a.at <= Len(Plan[a.stage]) /\ File(a) \in Files
  BY AttemptTyped, RunnerFacts DEF RaiseWriting, Staging, Runners
<1>b. UNCHANGED <<final, overtaken>>
  BY DEF RaiseWriting
<1>1. \A b \in rest : b \in Runners /\ Handed(b)'
  <2> TAKE b \in rest
  <2>1. CASE b \in running
    BY <1>b, <2>1, AttemptTyped, StillHanded
  <2>2. CASE b \in Move(Rivals(a, "temp"), "nowhere")
    BY <1>a, <1>b, <2>2, RivalMoved
  <2> QED
    BY <2>1, <2>2
<1>2. FilesTyped'
  BY <1>a DEF RaiseWriting, FilesTyped, JobInv
<1>3. ~overtaken => rest = {}
  BY Alone DEF Move
<1>4. \/ Awaited(a) /\ \E retryable \in BOOLEAN : Retry(rest, retryable)
      \/ running' = rest /\ UNCHANGED <<stage, tries>>
  BY DEF RaiseWriting
<1> HIDE DEF rest
<1> QED
  BY <1>1, <1>2, <1>3, <1>4, <1>b, Reported

LEMMA CloseStep ==
  ASSUME JobInv, NEW a \in running, Close(a)
  PROVE  JobInv'
<1>1. a \in Runners /\ Handed(a) /\ a.at <= Len(Plan[a.stage]) /\ a.at \in Nat
  BY AttemptTyped, RunnerFacts DEF Close, Runners
<1>2. PICK b \in Runners : /\ b = Advance(a) /\ b.stage = a.stage /\ b.n = a.n
                           /\ b.at = a.at + 1 /\ b.where = "closed"
  BY <1>1, Advanced
<1> DEFINE rest == (running \ {a}) \union {b}
<1>3. FilesTyped' /\ overtaken' \in BOOLEAN /\ UNCHANGED <<overtaken, temp, final, stage, tries>>
  BY DEF JobInv, Close, FilesTyped
<1>4. \A i \in 1 .. (b.at - 1) : i \in 1 .. (a.at - 1) \/ (i = a.at /\ a.where = "final")
  BY <1>1, <1>2 DEF Close
<1>5. Handed(b)
  BY <1>1, <1>2, <1>4 DEF Handed, File
<1>6. \A c \in rest : c \in Runners /\ Handed(c)'
  BY <1>2, <1>3, <1>5, AttemptTyped, StillHanded
<1>7. ~overtaken => rest = {b} /\ b.stage = stage /\ b.n = tries /\ Own(b)'
  <2> SUFFICES ASSUME ~overtaken PROVE rest = {b} /\ b.stage = stage /\ b.n = tries /\ Own(b)'
    OBVIOUS
  <2>1. running = {a} /\ a.stage = stage /\ a.n = tries /\ Own(a)
    BY Alone
  <2>2. Own(b)
    BY <1>2, <1>4, <2>1 DEF Own, Id, File
  <2>3. Own(b)'
    BY <1>3, <2>2 DEF Own, File
  <2> QED
    BY <1>2, <2>1, <2>3
<1>8. running' = rest
  BY <1>2 DEF Close
<1> HIDE DEF rest
<1> QED
  BY <1>3, <1>6, <1>7, <1>8, Controlled

LEMMA RenameStep ==
  ASSUME JobInv, NEW a \in running, Rename(a)
  PROVE  JobInv'
<1>1. a \in Runners /\ Handed(a) /\ a.at <= Len(Plan[a.stage]) /\ a.at \in Nat /\ File(a) \in Files
  BY AttemptTyped, RunnerFacts DEF Rename, Staging, Runners
<1>2. PICK b \in Runners : /\ b = Advance(a) /\ b.stage = a.stage /\ b.n = a.n
                           /\ b.at = a.at + 1 /\ b.where = "closed"
  BY <1>1, Advanced
<1> DEFINE rest == ((running \ ({a} \union Rivals(a, "temp") \union Rivals(a, "final"))) \union {b})
                     \union Move(Rivals(a, "temp"), "final") \union Move(Rivals(a, "final"), "nowhere")
<1>3. /\ final' = [final EXCEPT ![File(a)] = temp[File(a)]] /\ temp' = [temp EXCEPT ![File(a)] = {}]
      /\ temp[File(a)] # {} /\ UNCHANGED <<stage, tries, overtaken>> /\ running' = rest
  BY <1>2 DEF Rename
<1>4. FilesTyped /\ FilesTyped' /\ overtaken' \in BOOLEAN
  BY <1>1, <1>3 DEF JobInv, FilesTyped
<1>5. /\ \A f \in Files : final[f] # {} => final'[f] # {}
      /\ \A f \in Files : f # File(a) => final'[f] = final[f]
      /\ final'[File(a)] = temp[File(a)] /\ final'[File(a)] # {}
  BY <1>1, <1>3, <1>4 DEF FilesTyped
<1>6. \A i \in 1 .. (b.at - 1) : i \in 1 .. (a.at - 1) \/ i = a.at
  BY <1>1, <1>2
<1>a. Handed(a)'
  BY <1>1, <1>5, StillHanded
<1>7. Handed(b)'
  BY <1>1, <1>2, <1>5, <1>6, <1>a DEF Handed, File
<1>8. \A c \in rest : c \in Runners /\ Handed(c)'
  <2> TAKE c \in rest
  <2>1. CASE c \in running
    BY <1>5, <2>1, AttemptTyped, StillHanded
  <2>2. CASE c \in Move(Rivals(a, "temp"), "final")
    BY <1>1, <1>5, <2>2, RivalMoved
  <2>3. CASE c \in Move(Rivals(a, "final"), "nowhere")
    BY <1>1, <1>5, <2>3, RivalMoved
  <2> QED
    BY <1>2, <1>7, <2>1, <2>2, <2>3
<1>9. ~overtaken => /\ rest = {b} /\ b.stage = stage /\ b.n = tries /\ Own(b)'
                    /\ \A f \in Files : f[1] # stage => final'[f] = final[f]
  <2> SUFFICES ASSUME ~overtaken
               PROVE  /\ rest = {b} /\ b.stage = stage /\ b.n = tries /\ Own(b)'
                      /\ \A f \in Files : f[1] # stage => final'[f] = final[f]
    OBVIOUS
  <2>1. running = {a} /\ a.stage = stage /\ a.n = tries /\ Own(a) /\ \A w : Rivals(a, w) = {}
    BY Alone
  <2>a. File(a)[1] = stage
    BY <2>1 DEF File
  <2>b. a.where \in {"temp", "final"} /\ stage # "persist"
    BY <1>1, <2>1, <2>a DEF Own, Rename, Staging, InPlace, Runners
  <2>2. temp[File(a)] = {Id(a)} /\ File(a)[1] = stage
    BY <2>1, <2>a, <2>b DEF Own
  <2>3. \A f \in Files : final[f] = {Id(a)} => final'[f] = {Id(a)}
    BY <1>5, <2>2
  <2>4. \A i \in 1 .. (a.at - 1) : <<a.stage, Plan[a.stage][i]>> \in Files
    BY <1>1, PassedFile
  <2>5. \A i \in 1 .. (b.at - 1) : final'[<<b.stage, Plan[b.stage][i]>>] = {Id(b)}
    BY <1>2, <1>5, <1>6, <2>1, <2>2, <2>3, <2>4 DEF Own, Id, File
  <2>6. Own(b)'
    BY <1>2, <2>5 DEF Own, Id
  <2>7. rest = {b}
    BY <2>1 DEF Move
  <2>8. \A f \in Files : f[1] # stage => final'[f] = final[f]
    BY <1>5, <2>2
  <2> QED
    BY <1>2, <2>1, <2>6, <2>7, <2>8
<1> HIDE DEF rest
<1> QED
  BY <1>3, <1>4, <1>5, <1>8, <1>9, Controlled

LEMMA OpenStep ==
  ASSUME JobInv, NEW a \in running, Open(a)
  PROVE  JobInv'
<1> DEFINE w == IF InPlace(File(a)) THEN "final" ELSE "temp"
           writers == {Id(a)} \union {Id(b) : b \in Rivals(a, w)}
<1>1. a \in Runners /\ Handed(a) /\ a.at <= Len(Plan[a.stage]) /\ a.at \in Nat /\ File(a) \in Files
  BY AttemptTyped, RunnerFacts DEF Open
<1>a. w \in Places
  BY DEF Places
<1> HIDE DEF w
<1>2. PICK b \in Runners : /\ b = [a EXCEPT !.where = w] /\ b.stage = a.stage /\ b.n = a.n
                           /\ b.at = a.at /\ b.where = w
  BY <1>1, <1>a, Moved
<1> DEFINE rest == (running \ {a}) \union {b}
<1>3. Move({a}, w) = {b}
  BY <1>2 DEF Move
<1>4. running' = rest /\ UNCHANGED <<stage, tries, overtaken>>
  BY <1>3 DEF Open, Opened, w
<1>5. IF InPlace(File(a))
      THEN final' = [final EXCEPT ![File(a)] = writers] /\ UNCHANGED temp
      ELSE temp' = [temp EXCEPT ![File(a)] = writers] /\ UNCHANGED final
  BY DEF Open, Opened, w
<1>6. writers # {} /\ writers \in SUBSET Attempts
  BY <1>1, AttemptTyped, RunnerFacts DEF Rivals
<1>7. ~overtaken => writers = {Id(a)}
  BY Alone
<1> HIDE DEF writers
<1>8. FilesTyped /\ FilesTyped' /\ overtaken' \in BOOLEAN
  BY <1>1, <1>4, <1>5, <1>6 DEF JobInv, FilesTyped
<1>9. /\ \A f \in Files : final[f] # {} => final'[f] # {}
      /\ \A f \in Files : f # File(a) => final'[f] = final[f]
      /\ w = "final" => InPlace(File(a)) /\ final'[File(a)] = writers
      /\ w # "final" => w = "temp" /\ ~InPlace(File(a)) /\ temp'[File(a)] = writers /\ UNCHANGED final
  BY <1>1, <1>5, <1>6, <1>8 DEF FilesTyped, w
<1>10. Handed(b)'
  <2>1. Handed(a)'
    BY <1>1, <1>9, StillHanded
  <2> QED
    BY <1>2, <1>6, <1>9, <2>1 DEF Handed, File
<1>11. \A c \in rest : c \in Runners /\ Handed(c)'
  BY <1>2, <1>9, <1>10, AttemptTyped, StillHanded
<1>12. ~overtaken => /\ rest = {b} /\ b.stage = stage /\ b.n = tries /\ Own(b)'
                     /\ \A f \in Files : f[1] # stage => final'[f] = final[f]
  <2> SUFFICES ASSUME ~overtaken
               PROVE  /\ rest = {b} /\ b.stage = stage /\ b.n = tries /\ Own(b)'
                      /\ \A f \in Files : f[1] # stage => final'[f] = final[f]
    OBVIOUS
  <2>1. running = {a} /\ a.stage = stage /\ a.n = tries /\ Own(a) /\ writers = {Id(a)}
    BY <1>7, Alone
  <2>2. File(a)[1] = stage /\ File(b) = File(a) /\ Id(b) = Id(a) /\ (InPlace(File(a)) <=> b.stage = "persist")
    BY <1>2, <2>1 DEF File, Id, InPlace
  <2>3. \A i \in 1 .. (a.at - 1) : <<a.stage, Plan[a.stage][i]>> \in Files
    BY <1>1, PassedFile
  <2>4. \A f \in Files : final[f] = {Id(a)} => final'[f] = {Id(a)}
    BY <1>9, <2>1
  <2>5. \A i \in 1 .. (b.at - 1) : final'[<<b.stage, Plan[b.stage][i]>>] = {Id(b)}
    BY <1>2, <2>1, <2>2, <2>3, <2>4 DEF Own
  <2>6. Own(b)'
    BY <1>2, <1>9, <2>1, <2>2, <2>5 DEF Own, File, Id
  <2> QED
    BY <1>2, <1>9, <2>1, <2>2, <2>6
<1> HIDE DEF rest
<1> QED
  BY <1>4, <1>8, <1>9, <1>11, <1>12, Controlled

LEMMA JobInitInv ==
  ASSUME JobInit
  PROVE  JobInv
<1>1. StageTyped /\ FilesTyped
  BY DEF JobInit, StageTyped, FilesTyped, Activities
<1>2. HandlesResolve /\ OneAttemptPerStage
  BY DEF JobInit, HandlesResolve, OneAttemptPerStage, Completed, Activities
<1> QED
  BY <1>1, <1>2 DEF JobInit, JobInv, Undisturbed

LEMMA JobNextKeeps ==
  ASSUME JobInv, [JobNext]_jobVars
  PROVE  JobInv'
<1>1. ASSUME NEW a \in running, Work(a) \/ Raise(a) \/ RaiseWriting(a) \/ Dies(a) PROVE JobInv'
  BY <1>1, OpenStep, RenameStep, RenameFailsStep, CloseStep, CompleteStep, RaiseStep,
     RaiseWritingStep, DiesStep DEF Work
<1>2. CASE UNCHANGED jobVars
  <2>1. UNCHANGED <<stage, tries, running, temp, final, overtaken>>
    BY <1>2 DEF jobVars
  <2> QED
    BY <2>1 DEF JobInv, StageTyped, FilesTyped, Handed, File, HandlesResolve, OneAttemptPerStage,
       Completed, Undisturbed, Awaited, Own
<1> QED
  BY <1>1, <1>2, ValidateStep, TimesOutStep DEF JobNext

\* What a completed activity hands over is there, and - unless an attempt was overtaken
\* while it ran - was written by one attempt, whatever the plan of files and the attempts
\* of each activity (StagedRecipeWorkflow.run, write_named_dataset_to_parquet, finalize).
THEOREM HandlesAreWhole == JobSpec => []JobSafety
<1>1. JobInit => JobInv
  BY JobInitInv
<1>2. JobInv /\ [JobNext]_jobVars => JobInv'
  BY JobNextKeeps
<1>3. JobInv => JobSafety
  BY DEF JobInv, JobSafety
<1> QED
  BY <1>1, <1>2, <1>3, PTL DEF JobSpec

-----------------------------------------------------------------------------
(***************************************************************************)
(* Proofs about the event collections, for any number of subjects, workers *)
(* and commits, whatever fails.                                            *)
(***************************************************************************)

EventSpec == EventInit /\ [][EventNext]_eventVars

SaidBy(s) == StatusesOf[TableOf[s]]

\* The date that an event built now would carry.
DateOf(s) == IF TableOf[s] = "causal" /\ row_of[s].decided # 0 THEN row_of[s].decided
             ELSE row_of[s].updated

\* A commit of s dated at left it with status v.
Left(s, at, v) == \E i \in DOMAIN said[s] : said[s][i] = [at |-> at, status |-> v]

\* A row and its dates: a commit left it as it is, and a decision is dated by itself.
RowInv(s) ==
  /\ row_of[s] \in [status : SaidBy(s) \union {"absent"}, updated : Nat, decided : Nat]
  /\ said[s] \in Seq([at : Nat, status : SaidBy(s)]) /\ owed[s] \in Nat
  /\ Status(s) # "absent" => Left(s, row_of[s].updated, Status(s))
  /\ Status(s) = "decided" => row_of[s].decided # 0
  /\ row_of[s].decided # 0 => /\ TableOf[s] = "causal" /\ Left(s, row_of[s].decided, "decided")
                              /\ Status(s) \notin {"absent", "proposed"}
  /\ owed[s] > 0 \/ s \in fresh => Status(s) # "absent"

\* An event of s, appended or in hand: true of the row at its date, and of another status
\* than the row has by now only if it is older than what would be built of the row.
EventInv(s, e) ==
  /\ Status(s) # "absent"
  /\ \E i \in DOMAIN said[s] : /\ said[s][i].at = e.at
                               /\ e.kind # "promoted" => said[s][i] = [at |-> e.at, status |-> e.kind]
  /\ ~Crossed(s) /\ e.kind # Status(s) /\ Status(s) # "promoted" => e.at < DateOf(s)

Current(s, e) == e.kind = Status(s) /\ e.at = DateOf(s)

\* The last write of s is still to be told, or an event tells it.
ToldOf(s) ==
  s \in fresh \ gone => \/ owed[s] > 0
                        \/ \E w \in Appenders : hold[w] # NoEvent /\ hold[w].row = s /\ Current(s, hold[w].event)
                        \/ \E e \in log[s] : Current(s, e)

\* A write in an open session; only an insert can meet a row that is absent.
WriteInv(x) ==
  /\ x.row \in Subjects /\ x.at \in Nat \ {0} /\ x.to \in {"insert", "update"} \union Flips(x.row)
  /\ x.to # "insert" => Status(x.row) # "absent"

EventLogInv ==
  /\ DOMAIN row_of = Subjects /\ DOMAIN said = Subjects /\ DOMAIN owed = Subjects
  /\ DOMAIN log = Subjects /\ DOMAIN hold = Appenders /\ clock \in Nat
  /\ \A s \in Subjects : RowInv(s) /\ ToldOf(s) /\ \A e \in log[s] : EventInv(s, e)
  /\ \A x \in open : WriteInv(x)
  /\ \A w \in Appenders : hold[w] # NoEvent => /\ hold[w].row \in Subjects
                                                /\ EventInv(hold[w].row, hold[w].event)

LEMMA Appended ==
  ASSUME NEW S, NEW q \in Seq(S), NEW x \in S
  PROVE  /\ Append(q, x) \in Seq(S) /\ Len(q) \in Nat /\ DOMAIN q = 1 .. Len(q)
         /\ DOMAIN Append(q, x) = 1 .. Len(q) + 1
         /\ \A i \in 1 .. Len(q) : Append(q, x)[i] = q[i]
         /\ Append(q, x)[Len(q) + 1] = x
  OBVIOUS

\* What each table says of its rows.
LEMMA SaidWhere ==
  ASSUME NEW s \in Subjects
  PROVE  /\ TableOf[s] \in Tables
         /\ TableOf[s] = "causal" => SaidBy(s) = {"proposed", "decided", "promoted"}
         /\ TableOf[s] = "relation" => SaidBy(s) = {"canonical"}
         /\ TableOf[s] = "protection" => SaidBy(s) = {"proposed", "applied"}
         /\ TableOf[s] = "card" => SaidBy(s) = {"revised", "deprecated"}
         /\ FirstStatus[TableOf[s]] \in SaidBy(s) \ {"decided", "promoted", "absent"}
         /\ Flips(s) \subseteq SaidBy(s) \ {"proposed", "absent"}
         /\ \A v \in Flips(s) : v \in {"decided", "promoted"} <=> TableOf[s] = "causal"
<1>1. TableOf[s] \in Tables
  BY EventAssumption
<1>2. CASE TableOf[s] = "causal"
  BY <1>2 DEF SaidBy, StatusesOf, Flips, FirstStatus, Tables
<1>3. CASE TableOf[s] = "relation"
  BY <1>3 DEF SaidBy, StatusesOf, Flips, FirstStatus, Tables
<1>4. CASE TableOf[s] = "protection"
  BY <1>4 DEF SaidBy, StatusesOf, Flips, FirstStatus, Tables
<1>5. CASE TableOf[s] = "card"
  BY <1>5 DEF SaidBy, StatusesOf, Flips, FirstStatus, Tables
<1> QED
  BY <1>1, <1>2, <1>3, <1>4, <1>5 DEF Tables

\* An event says what its row says, with the date of what it says.
LEMMA BuiltSays ==
  ASSUME NEW s \in Subjects, RowInv(s), Status(s) # "absent"
  PROVE  Built(s).kind = Status(s) /\ Built(s).at = DateOf(s)
<1>1. TableOf[s] \in Tables /\ Status(s) \in SaidBy(s)
  BY SaidWhere DEF RowInv, Status
<1>2. CASE TableOf[s] = "causal"
  BY <1>2 DEF Built, build_causal_candidate_event, Event, DateOf
<1>3. CASE TableOf[s] = "relation"
  BY <1>1, <1>3, SaidWhere DEF Built, build_relation_type_event, Event, DateOf
<1>4. CASE TableOf[s] = "protection"
  BY <1>1, <1>4, SaidWhere DEF Built, build_data_protection_event, Event, DateOf
<1>5. CASE TableOf[s] = "card"
  BY <1>1, <1>5, SaidWhere DEF Built, build_card_event, Event, DateOf
<1> QED
  BY <1>1, <1>2, <1>3, <1>4, <1>5 DEF Tables

LEMMA BuiltIsTrue ==
  ASSUME NEW s \in Subjects, RowInv(s), Status(s) # "absent"
  PROVE  EventInv(s, Built(s))
<1>1. Built(s).kind = Status(s) /\ Built(s).at = DateOf(s)
  BY BuiltSays
<1>2. \E i \in DOMAIN said[s] :
        /\ said[s][i].at = DateOf(s)
        /\ Status(s) # "promoted" => said[s][i] = [at |-> DateOf(s), status |-> Status(s)]
  <2>1. CASE TableOf[s] = "causal" /\ row_of[s].decided # 0
    <3>1. PICK i \in DOMAIN said[s] : said[s][i] = [at |-> row_of[s].decided, status |-> "decided"]
      BY <2>1 DEF RowInv, Left
    <3>2. Status(s) \in {"decided", "promoted"}
      BY <2>1, SaidWhere DEF RowInv, Status
    <3> QED
      BY <2>1, <3>1, <3>2 DEF DateOf
  <2>2. CASE ~(TableOf[s] = "causal" /\ row_of[s].decided # 0)
    BY <2>2 DEF DateOf, RowInv, Left
  <2> QED
    BY <2>1, <2>2
<1> QED
  BY <1>1, <1>2 DEF EventInv

\* A commit dates its row and says what it leaves it with; other rows are left alone.
LEMMA Committed ==
  ASSUME EventLogInv, NEW x \in open, Commits(x), row_of' = [row_of EXCEPT ![x.row] = Written(x)]
  PROVE  LET s == x.row IN
         /\ DOMAIN said' = Subjects /\ DOMAIN row_of' = Subjects
         /\ Status(s)' = Written(x).status /\ Status(s)' \in SaidBy(s) /\ Status(s)' # "absent"
         /\ row_of'[s] = Written(x) /\ said'[s] \in Seq([at : Nat, status : SaidBy(s)])
         /\ \A i \in DOMAIN said[s] : i \in DOMAIN said'[s] /\ said'[s][i] = said[s][i]
         /\ \E i \in DOMAIN said'[s] : said'[s][i] = [at |-> x.at, status |-> Status(s)']
         /\ ~Crossed(s)' => ~Crossed(s) /\ \A i \in DOMAIN said[s] : said[s][i].at < x.at
         /\ \A t \in Subjects \ {s} : said'[t] = said[t] /\ row_of'[t] = row_of[t]
<1> DEFINE s == x.row
           new == [at |-> x.at, status |-> Written(x).status]
           S == [at : Nat, status : SaidBy(s)]
<1>1. /\ s \in Subjects /\ x.at \in Nat \ {0} /\ x.to \in {"insert", "update"} \union Flips(s)
      /\ (x.to # "insert" => Status(s) # "absent") /\ RowInv(s)
      /\ DOMAIN said = Subjects /\ DOMAIN row_of = Subjects
  BY DEF EventLogInv, WriteInv
<1>2. Written(x).status \in SaidBy(s) /\ Written(x).status # "absent"
  <2>1. CASE x.to = "insert"
    BY <1>1, <2>1, SaidWhere DEF Written
  <2>2. CASE x.to = "update"
    BY <1>1, <2>2 DEF Written, RowInv, Status
  <2>3. CASE x.to \notin {"insert", "update"}
    BY <1>1, <2>3, SaidWhere DEF Written
  <2> QED
    BY <2>1, <2>2, <2>3
<1>3. new \in S /\ said[s] \in Seq(S) /\ said'[s] = Append(said[s], new)
  BY <1>1, <1>2 DEF Commits, RowInv
<1>4. row_of'[s] = Written(x) /\ Status(s)' = Written(x).status
  BY <1>1 DEF Status
<1>5. \A t \in Subjects \ {s} : said'[t] = said[t] /\ row_of'[t] = row_of[t]
  BY <1>1 DEF Commits
<1>6. DOMAIN said' = Subjects /\ DOMAIN row_of' = Subjects
  BY <1>1 DEF Commits
<1>7. new.at = x.at /\ new = [at |-> x.at, status |-> Status(s)']
  BY <1>4
<1> HIDE DEF s, new, S
<1>8. PICK n \in Nat : /\ n = Len(said[s]) /\ DOMAIN said[s] = 1 .. n /\ DOMAIN said'[s] = 1 .. n + 1 /\ said'[s] \in Seq(S)
                       /\ \A i \in 1 .. n : said'[s][i] = said[s][i]
                       /\ said'[s][n + 1] = new
  BY <1>3, Appended
<1>9. \A i \in 1 .. n : i \in 1 .. n + 1 /\ said[s][i].at \in Nat
  <2>1. \A i \in 1 .. n : said[s][i] \in S
    BY <1>3, <1>8
  <2> QED
    BY <2>1 DEF S
<1>10. ASSUME ~Crossed(s)' PROVE ~Crossed(s) /\ \A i \in 1 .. n : said[s][i].at < x.at
  <2>1. \A i, j \in 1 .. n + 1 : i < j => ~(said'[s][j].at <= said'[s][i].at)
    BY <1>8, <1>10 DEF Crossed
  <2>2. ~Crossed(s)
    BY <1>8, <1>9, <2>1 DEF Crossed
  <2>3. ASSUME NEW i \in 1 .. n PROVE said[s][i].at < x.at
    <3>1. i < n + 1 /\ n + 1 \in 1 .. n + 1 /\ i \in 1 .. n + 1
      BY <1>8
    <3>2. ~(x.at <= said[s][i].at)
      BY <1>7, <1>8, <2>1, <3>1
    <3> QED
      BY <1>1, <1>9, <3>2
  <2> QED
    BY <2>2, <2>3
<1>11. n + 1 \in DOMAIN said'[s] /\ said'[s][n + 1] = [at |-> x.at, status |-> Status(s)']
  BY <1>7, <1>8
<1>12. \A i \in DOMAIN said[s] : i \in DOMAIN said'[s] /\ said'[s][i] = said[s][i]
  BY <1>8, <1>9
<1> QED
  BY <1>2, <1>4, <1>5, <1>6, <1>8, <1>10, <1>11, <1>12 DEF s, S

\* A commit keeps what is said of rows and events; only the tasks of its row are open.
LEMMA CommitKeeps ==
  ASSUME EventLogInv, NEW x \in open, Commits(x), row_of' = [row_of EXCEPT ![x.row] = Written(x)],
         x.to = "insert" => Status(x.row) = "absent",
         DOMAIN owed' = Subjects, owed'[x.row] \in Nat, ToldOf(x.row)',
         \A t \in Subjects \ {x.row} : owed'[t] = owed[t] /\ (t \in fresh' <=> t \in fresh)
  PROVE  EventLogInv'
<1> DEFINE s == x.row
<1>a. /\ s \in Subjects /\ x.at \in Nat \ {0} /\ x.to \in {"insert", "update"} \union Flips(s)
      /\ (x.to # "insert" => Status(s) # "absent")
      /\ \A t \in Subjects : RowInv(t) /\ ToldOf(t) /\ \A e \in log[t] : EventInv(t, e)
      /\ DOMAIN log = Subjects /\ DOMAIN hold = Appenders /\ clock \in Nat
      /\ UNCHANGED <<clock, hold, log, gone>> /\ open' = open \ {x}
  BY DEF EventLogInv, WriteInv, Commits
<1>1. /\ DOMAIN said' = Subjects /\ DOMAIN row_of' = Subjects
      /\ Status(s)' = Written(x).status /\ Status(s)' \in SaidBy(s) /\ Status(s)' # "absent"
      /\ row_of'[s] = Written(x) /\ said'[s] \in Seq([at : Nat, status : SaidBy(s)])
      /\ \A i \in DOMAIN said[s] : i \in DOMAIN said'[s] /\ said'[s][i] = said[s][i]
      /\ \E i \in DOMAIN said'[s] : said'[s][i] = [at |-> x.at, status |-> Status(s)']
      /\ ~Crossed(s)' => ~Crossed(s) /\ \A i \in DOMAIN said[s] : said[s][i].at < x.at
      /\ \A t \in Subjects \ {s} : said'[t] = said[t] /\ row_of'[t] = row_of[t]
  BY Committed
<1>2. row_of[s] \in [status : SaidBy(s) \union {"absent"}, updated : Nat, decided : Nat]
  BY <1>a DEF RowInv
<1>3. /\ row_of'[s].updated = x.at
      /\ row_of'[s].decided = IF x.to = "decided" THEN x.at ELSE row_of[s].decided
      /\ row_of'[s] \in [status : SaidBy(s) \union {"absent"}, updated : Nat, decided : Nat]
  BY <1>1, <1>2, <1>a DEF Written
<1>4. /\ x.to = "insert" => Status(s) = "absent" /\ Status(s)' \notin {"decided", "promoted"}
      /\ x.to = "update" => Status(s)' = Status(s)
      /\ x.to \notin {"insert", "update"} => Status(s)' = x.to /\ x.to \notin {"proposed", "absent"}
                                              /\ (x.to \in {"decided", "promoted"} <=> TableOf[s] = "causal")
  <2>1. CASE x.to = "insert"
    BY <1>1, <1>a, <2>1, SaidWhere DEF Written
  <2>2. CASE x.to = "update"
    BY <1>1, <1>a, <2>2 DEF Written, Status
  <2>3. CASE x.to \notin {"insert", "update"}
    BY <1>1, <1>a, <2>3, SaidWhere DEF Written
  <2> QED
    BY <2>1, <2>2, <2>3
<1>5. Left(s, x.at, Status(s))'
  BY <1>1 DEF Left
<1>6. \A at, v : Left(s, at, v) => Left(s, at, v)'
  BY <1>1 DEF Left
<1>7. RowInv(s)'
  <2>1. row_of'[s].decided # 0 => /\ TableOf[s] = "causal" /\ Left(s, row_of[s].decided, "decided")'
                                  /\ Status(s)' \notin {"absent", "proposed"}
    <3>1. CASE x.to = "decided"
      BY <1>3, <1>4, <1>5, <3>1
    <3>2. CASE x.to # "decided" /\ row_of[s].decided # 0
      <4>1. row_of'[s].decided = row_of[s].decided /\ Status(s) \notin {"absent", "proposed"}
            /\ TableOf[s] = "causal" /\ Left(s, row_of[s].decided, "decided")
        BY <1>3, <1>a, <3>2 DEF RowInv
      <4>2. Left(s, row_of[s].decided, "decided")'
        <5>1. PICK d : d = row_of[s].decided
          OBVIOUS
        <5>2. Left(s, d, "decided")'
          BY <1>6, <4>1, <5>1
        <5> QED
          BY <4>1, <5>1, <5>2 DEF Left
      <4> QED
        BY <1>4, <1>1, <1>a, <4>1, <4>2
    <3> QED
      BY <1>3, <3>1, <3>2
  <2>2. Status(s)' = "decided" => row_of'[s].decided # 0
    <3>1. CASE x.to = "update"
      <4>1. Status(s) = "decided" => row_of[s].decided # 0
        BY <1>a DEF RowInv
      <4> QED
        BY <1>3, <1>4, <3>1, <4>1
    <3> QED
      BY <1>3, <1>4, <1>a, <3>1
  <2>3. Left(s, row_of[s].updated, Status(s))'
    BY <1>3, <1>5 DEF Left
  <2> QED
    BY <1>1, <1>3, <2>1, <2>2, <2>3 DEF RowInv
<1>8. ASSUME NEW t \in Subjects \ {s}
      PROVE  /\ RowInv(t)' /\ DateOf(t)' = DateOf(t) /\ Status(t)' = Status(t)
             /\ \A e : EventInv(t, e)' <=> EventInv(t, e)
             /\ ToldOf(t)'
  <2>1. said'[t] = said[t] /\ row_of'[t] = row_of[t] /\ owed'[t] = owed[t] /\ (t \in fresh' <=> t \in fresh)
    BY <1>1
  <2>2. DateOf(t)' = DateOf(t) /\ Status(t)' = Status(t) /\ (Crossed(t)' <=> Crossed(t))
    BY <2>1 DEF DateOf, Status, Crossed
  <2>3. RowInv(t)'
    <3>1. RowInv(t)
      BY <1>a
    <3> QED
      BY <2>1, <2>2, <3>1 DEF RowInv, Left
  <2>4. \A e : EventInv(t, e)' <=> EventInv(t, e)
    BY <2>1, <2>2 DEF EventInv
  <2>5. ToldOf(t)'
    BY <1>a, <2>1, <2>2 DEF ToldOf, Current
  <2> QED
    BY <2>2, <2>3, <2>4, <2>5
<1>9. DateOf(s) \in Nat /\ DateOf(s)' \in Nat
  BY <1>2, <1>3 DEF DateOf
<1>10. ASSUME ~Crossed(s)', Status(s)' # "promoted"
       PROVE  \/ DateOf(s)' = x.at
              \/ Status(s)' = Status(s) /\ DateOf(s)' = DateOf(s)
  <2>1. Status(s) = "decided" => row_of[s].decided # 0
    BY <1>a DEF RowInv
  <2>2. row_of[s].decided # 0 => TableOf[s] = "causal" /\ Status(s) \notin {"absent", "proposed"}
    BY <1>a DEF RowInv
  <2>3. CASE x.to = "insert"
    BY <1>3, <1>4, <2>2, <2>3 DEF DateOf
  <2>4. CASE x.to = "update"
    BY <1>3, <1>4, <2>4 DEF DateOf
  <2>5. CASE x.to \notin {"insert", "update"}
    BY <1>3, <1>4, <1>10, <1>a, <2>2, <2>5 DEF DateOf
  <2> QED
    BY <1>a, <2>3, <2>4, <2>5
<1>11. ASSUME NEW e, EventInv(s, e) PROVE EventInv(s, e)'
  <2>1. PICK i \in DOMAIN said[s] :
          /\ said[s][i].at = e.at
          /\ e.kind # "promoted" => said[s][i] = [at |-> e.at, status |-> e.kind]
    BY <1>11 DEF EventInv
  <2>2. i \in DOMAIN said'[s] /\ said'[s][i] = said[s][i]
    BY <1>1
  <2>3. ASSUME ~Crossed(s)', e.kind # Status(s)', Status(s)' # "promoted" PROVE e.at < DateOf(s)'
    <3>1. ~Crossed(s) /\ e.at < x.at
      BY <1>1, <2>1, <2>3
    <3>2. CASE DateOf(s)' = x.at
      BY <3>1, <3>2
    <3>3. CASE Status(s)' = Status(s) /\ DateOf(s)' = DateOf(s)
      BY <1>11, <2>3, <3>1, <3>3 DEF EventInv
    <3> QED
      BY <1>10, <2>3, <3>2, <3>3
  <2>4. \E j \in DOMAIN said'[s] : /\ said'[s][j].at = e.at
                                   /\ e.kind # "promoted" => said'[s][j] = [at |-> e.at, status |-> e.kind]
    BY <2>1, <2>2
  <2> QED
    BY <1>1, <2>3, <2>4 DEF EventInv
<1>12. \A t \in Subjects : RowInv(t)' /\ ToldOf(t)'
  BY <1>7, <1>8
<1>13. \A t \in Subjects : \A e : EventInv(t, e) => EventInv(t, e)'
  BY <1>8, <1>11
<1>14. \A t \in Subjects : \A e \in log'[t] : EventInv(t, e)'
  BY <1>13, <1>a
<1>15. \A w \in Appenders : hold'[w] # NoEvent => /\ hold'[w].row \in Subjects
                                                   /\ EventInv(hold[w].row, hold[w].event)'
  <2> SUFFICES ASSUME NEW w \in Appenders, hold'[w] # NoEvent
               PROVE  hold'[w].row \in Subjects /\ EventInv(hold[w].row, hold[w].event)'
    OBVIOUS
  <2>1. hold'[w] = hold[w] /\ hold[w].row \in Subjects /\ EventInv(hold[w].row, hold[w].event)
    BY <1>a DEF EventLogInv
  <2>2. PICK t \in Subjects : t = hold[w].row
    BY <2>1
  <2>3. PICK e : e = hold[w].event
    OBVIOUS
  <2>4. EventInv(t, e)'
    BY <1>13, <2>1, <2>2, <2>3
  <2>5. hold'[w].row = t /\ hold'[w].event = e
    BY <2>1, <2>2, <2>3
  <2> QED
    BY <2>1, <2>2, <2>4, <2>5 DEF EventInv, Status, DateOf, Crossed
<1>16. \A y \in open' : WriteInv(y)'
  <2> SUFFICES ASSUME NEW y \in open' PROVE WriteInv(y)'
    OBVIOUS
  <2>1. WriteInv(y)
    BY <1>a DEF EventLogInv
  <2>2. Status(y.row) # "absent" => Status(y.row)' # "absent"
    BY <1>1, <1>8, <2>1 DEF WriteInv
  <2> QED
    BY <2>1, <2>2 DEF WriteInv, Flips
<1> QED
  BY <1>1, <1>12, <1>14, <1>15, <1>16, <1>a DEF EventLogInv

LEMMA TellKeeps ==
  ASSUME EventLogInv, NEW x \in open, TellCommits(x)
  PROVE  EventLogInv'
<1> DEFINE s == x.row
           quiet == TableOf[s] = "card" /\ x.to = "insert"
<1>1. /\ s \in Subjects /\ DOMAIN owed = Subjects /\ RowInv(s) /\ ToldOf(s)
      /\ \A t \in Subjects : owed[t] \in Nat
  BY DEF EventLogInv, WriteInv, RowInv
<1>2. /\ Commits(x) /\ row_of' = [row_of EXCEPT ![s] = Written(x)]
      /\ (x.to = "insert" => Status(s) = "absent")
      /\ quiet => UNCHANGED <<owed, fresh>>
      /\ ~quiet => owed' = [owed EXCEPT ![s] = @ + 1] /\ fresh' = fresh \union {s}
  BY DEF TellCommits
<1>3. DOMAIN owed' = Subjects /\ owed'[s] \in Nat /\ (~quiet => owed'[s] > 0)
      /\ \A t \in Subjects \ {s} : owed'[t] = owed[t] /\ (t \in fresh' <=> t \in fresh)
  BY <1>1, <1>2
<1>4. ToldOf(s)'
  <2>1. CASE quiet
    BY <1>1, <1>2, <2>1 DEF ToldOf, RowInv
  <2>2. CASE ~quiet
    BY <1>3, <2>2 DEF ToldOf
  <2> QED
    BY <2>1, <2>2
<1> QED
  BY <1>2, <1>3, <1>4, CommitKeeps

LEMMA ChangeKeeps ==
  ASSUME EventLogInv, NEW x \in open, ChangeCommits(x)
  PROVE  EventLogInv'
<1>1. /\ x.row \in Subjects /\ DOMAIN owed = Subjects /\ \A t \in Subjects : owed[t] \in Nat
      /\ Commits(x) /\ row_of' = [row_of EXCEPT ![x.row] = Written(x)]
      /\ x.to # "insert" /\ fresh' = fresh \ {x.row} /\ owed' = owed
  BY DEF EventLogInv, WriteInv, RowInv, ChangeCommits
<1>2. ToldOf(x.row)'
  BY <1>1 DEF ToldOf
<1> QED
  BY <1>1, <1>2, CommitKeeps

\* A worker leaves the rows alone.
LEMMA RowsKept ==
  ASSUME EventLogInv, UNCHANGED <<row_of, clock, open, said, fresh>>, DOMAIN owed' = Subjects,
         \A t \in Subjects : owed'[t] \in Nat /\ (owed'[t] > 0 => Status(t) # "absent")
  PROVE  /\ \A t \in Subjects : RowInv(t)' /\ Status(t)' = Status(t) /\ DateOf(t)' = DateOf(t)
         /\ \A t \in Subjects : \A e : EventInv(t, e)' <=> EventInv(t, e)
         /\ \A x \in open' : WriteInv(x)'
<1>1. \A t \in Subjects : Status(t)' = Status(t) /\ DateOf(t)' = DateOf(t) /\ (Crossed(t)' <=> Crossed(t))
  BY DEF Status, DateOf, Crossed
<1>2. ASSUME NEW t \in Subjects PROVE RowInv(t)'
  <2>1. RowInv(t) /\ said' = said /\ row_of' = row_of /\ fresh' = fresh
    BY DEF EventLogInv
  <2> QED
    BY <1>1, <2>1 DEF RowInv, Left
<1>3. \A x \in open' : WriteInv(x)'
  BY <1>1 DEF EventLogInv, WriteInv, Flips
<1> QED
  BY <1>1, <1>2, <1>3 DEF EventInv

LEMMA LoadKeeps ==
  ASSUME EventLogInv, NEW w \in Appenders, NEW s \in Subjects, Load(w, s)
  PROVE  EventLogInv'
<1>a. /\ \A t \in Subjects : RowInv(t) /\ ToldOf(t) /\ \A e \in log[t] : EventInv(t, e)
      /\ DOMAIN owed = Subjects /\ DOMAIN hold = Appenders
  BY DEF EventLogInv
<1>1. /\ owed' = [owed EXCEPT ![s] = @ - 1]
      /\ hold' = [hold EXCEPT ![w] = [row |-> s, event |-> Built(s)]]
      /\ UNCHANGED <<row_of, clock, open, said, log, fresh, gone>> /\ owed[s] > 0 /\ hold[w] = NoEvent
  BY DEF Load
<1>2. Status(s) # "absent"
  BY <1>1, <1>a DEF RowInv
<1>3. DOMAIN owed' = Subjects /\ \A t \in Subjects : owed'[t] \in Nat /\ (owed'[t] > 0 => Status(t) # "absent")
  <2>1. \A t \in Subjects : owed[t] \in Nat /\ (owed[t] > 0 => Status(t) # "absent")
    BY <1>a DEF RowInv
  <2> QED
    BY <1>1, <1>a, <2>1
<1>4. EventInv(s, Built(s)) /\ Current(s, Built(s))
  BY <1>2, <1>a, BuiltIsTrue, BuiltSays DEF Current
<1>5. PICK e : e = Built(s)
  OBVIOUS
<1>6. /\ \A t \in Subjects : RowInv(t)' /\ Status(t)' = Status(t) /\ DateOf(t)' = DateOf(t)
      /\ \A t \in Subjects : \A d : EventInv(t, d)' <=> EventInv(t, d)
      /\ \A x \in open' : WriteInv(x)'
  BY <1>1, <1>3, RowsKept
<1>7. hold'[w] # NoEvent /\ hold'[w].row = s /\ hold'[w].event = e /\ \A x \in Appenders \ {w} : hold'[x] = hold[x]
  <2>1. hold'[w] = [row |-> s, event |-> e]
    BY <1>1, <1>5, <1>a
  <2>2. DOMAIN [row |-> s, event |-> e] # DOMAIN NoEvent
    BY DEF NoEvent
  <2> QED
    BY <1>1, <1>a, <2>1, <2>2
<1>8. ASSUME NEW t \in Subjects PROVE ToldOf(t)'
  <2>1. CASE t = s
    BY <1>4, <1>5, <1>6, <1>7, <2>1 DEF ToldOf, Current
  <2>2. CASE t # s
    <3>1. owed'[t] = owed[t]
      BY <1>1, <1>a, <2>2
    <3>2. ASSUME NEW x \in Appenders, hold[x] # NoEvent, hold[x].row = t, Current(t, hold[x].event)
          PROVE  hold'[x] # NoEvent /\ hold'[x].row = t /\ Current(t, hold[x].event)'
      BY <1>1, <1>6, <1>7, <3>2 DEF Current
    <3>3. ASSUME NEW d \in log[t], Current(t, d) PROVE d \in log'[t] /\ Current(t, d)'
      BY <1>1, <1>6, <3>3 DEF Current
    <3> QED
      BY <1>1, <1>a, <3>1, <3>2, <3>3 DEF ToldOf
  <2> QED
    BY <2>1, <2>2
<1>9. \A t \in Subjects : \A d \in log'[t] : EventInv(t, d)'
  BY <1>1, <1>6, <1>a
<1>10. \A x \in Appenders : hold'[x] # NoEvent => /\ hold'[x].row \in Subjects
                                                   /\ EventInv(hold[x].row, hold[x].event)'
  <2>1. EventInv(hold[w].row, hold[w].event)'
    BY <1>4, <1>5, <1>6, <1>7 DEF EventInv
  <2>2. ASSUME NEW x \in Appenders \ {w}, hold[x] # NoEvent PROVE EventInv(hold[x].row, hold[x].event)'
    <3>1. hold'[x] = hold[x] /\ hold[x].row \in Subjects /\ EventInv(hold[x].row, hold[x].event)
      BY <1>7, <2>2 DEF EventLogInv
    <3>2. EventInv(hold[x].row, hold[x].event)' <=> EventInv(hold[x].row, hold[x].event)
      BY <1>1, <3>1 DEF EventInv, Status, DateOf, Crossed
    <3> QED
      BY <3>1, <3>2
  <2> QED
    BY <1>7, <2>1, <2>2 DEF EventLogInv
<1>11. DOMAIN row_of' = Subjects /\ DOMAIN said' = Subjects /\ DOMAIN log' = Subjects
       /\ DOMAIN hold' = Appenders /\ clock' \in Nat
  BY <1>1 DEF EventLogInv
<1> QED
  BY <1>3, <1>6, <1>8, <1>9, <1>10, <1>11 DEF EventLogInv

\* A worker lets go of its event: it is appended, owed again, or known to be lost.
LEMMA ReleaseKeeps ==
  ASSUME EventLogInv, NEW w \in Appenders, Release(w), UNCHANGED <<row_of, clock, open, said, fresh>>,
         Logged(w) \/ UNCHANGED log, Again(w) \/ UNCHANGED owed,
         gone \subseteq gone', Logged(w) \/ Again(w) \/ hold[w].row \in gone'
  PROVE  EventLogInv'
<1>a. /\ \A t \in Subjects : RowInv(t) /\ ToldOf(t) /\ \A e \in log[t] : EventInv(t, e)
      /\ DOMAIN owed = Subjects /\ DOMAIN hold = Appenders /\ DOMAIN log = Subjects
      /\ DOMAIN row_of = Subjects /\ DOMAIN said = Subjects
      /\ \A x \in Appenders : hold[x] # NoEvent => /\ hold[x].row \in Subjects
                                                    /\ EventInv(hold[x].row, hold[x].event)
  BY DEF EventLogInv
<1>b. PICK s \in Subjects : s = hold[w].row
  BY <1>a DEF Release
<1>c. PICK e : e = hold[w].event
  OBVIOUS
<1>1. s = hold[w].row /\ e = hold[w].event /\ EventInv(s, e)
  BY <1>a, <1>b, <1>c DEF Release
<1>2. hold'[w] = NoEvent /\ DOMAIN hold' = Appenders /\ \A x \in Appenders \ {w} : hold'[x] = hold[x]
  BY <1>a DEF Release
<1>3. /\ DOMAIN log' = Subjects /\ \A t \in Subjects : log[t] \subseteq log'[t]
      /\ \A t \in Subjects : \A d \in log'[t] : d \in log[t] \/ (t = s /\ d = e)
      /\ Logged(w) => e \in log'[s]
  BY <1>1, <1>a DEF Logged
<1>4. \A t \in Subjects : owed[t] \in Nat /\ (owed[t] > 0 => Status(t) # "absent")
  BY <1>a DEF RowInv
<1>5. /\ DOMAIN owed' = Subjects
      /\ \A t \in Subjects : owed'[t] \in Nat /\ (owed'[t] > 0 => Status(t) # "absent") /\ owed[t] <= owed'[t]
      /\ Again(w) => owed'[s] > 0
  BY <1>1, <1>4, <1>a DEF Again, EventInv
<1>6. /\ \A t \in Subjects : RowInv(t)' /\ Status(t)' = Status(t) /\ DateOf(t)' = DateOf(t)
      /\ \A t \in Subjects : \A d : EventInv(t, d)' <=> EventInv(t, d)
      /\ \A x \in open' : WriteInv(x)'
  BY <1>5, RowsKept
<1>7. ASSUME NEW t \in Subjects PROVE ToldOf(t)'
  <2> SUFFICES ASSUME t \in fresh' \ gone'
               PROVE  \/ owed'[t] > 0
                      \/ \E x \in Appenders : hold'[x] # NoEvent /\ hold'[x].row = t /\ Current(t, hold[x].event)'
                      \/ \E d \in log'[t] : Current(t, d)'
    BY DEF ToldOf
  <2>1. \A d : Current(t, d)' <=> Current(t, d)
    BY <1>6 DEF Current
  <2>2. CASE owed[t] > 0
    BY <1>4, <1>5, <2>2
  <2>3. CASE \E d \in log[t] : Current(t, d)
    BY <1>3, <2>1, <2>3
  <2>4. ASSUME NEW x \in Appenders, hold[x] # NoEvent, hold[x].row = t, Current(t, hold[x].event), x # w
        PROVE  hold'[x] # NoEvent /\ hold'[x].row = t /\ Current(t, hold[x].event)'
    BY <1>2, <1>6, <2>4 DEF Current
  <2>5. CASE hold[w].row = t /\ Current(t, hold[w].event)
    BY <1>1, <1>3, <1>5, <2>1, <2>5
  <2> QED
    BY <1>a, <2>2, <2>3, <2>4, <2>5 DEF ToldOf
<1>8. \A t \in Subjects : \A d \in log'[t] : EventInv(t, d)'
  BY <1>1, <1>3, <1>6, <1>a
<1>9. \A x \in Appenders : hold'[x] # NoEvent => /\ hold'[x].row \in Subjects
                                                  /\ EventInv(hold[x].row, hold[x].event)'
  <2> SUFFICES ASSUME NEW x \in Appenders, hold'[x] # NoEvent
               PROVE  hold'[x].row \in Subjects /\ EventInv(hold[x].row, hold[x].event)'
    OBVIOUS
  <2>1. hold'[x] = hold[x]
    BY <1>2
  <2> QED
    BY <1>6, <1>a, <2>1 DEF EventInv
<1>10. DOMAIN row_of' = Subjects /\ DOMAIN said' = Subjects /\ clock' \in Nat
  BY <1>a DEF EventLogInv
<1> QED
  BY <1>2, <1>3, <1>5, <1>6, <1>7, <1>8, <1>9, <1>10 DEF EventLogInv

LEMMA EventInitInv ==
  ASSUME EventInit
  PROVE  EventLogInv
<1>1. ASSUME NEW s \in Subjects PROVE RowInv(s)
  <2>1. said[s] = <<>> /\ <<>> \in Seq([at : Nat, status : SaidBy(s)])
    BY DEF EventInit
  <2>2. row_of[s] = [status |-> "absent", updated |-> 0, decided |-> 0]
    BY DEF EventInit
  <2> QED
    BY <2>1, <2>2 DEF EventInit, RowInv, Status
<1>2. \A w \in Appenders : hold[w] = NoEvent
  BY DEF EventInit
<1> QED
  BY <1>1, <1>2 DEF EventInit, EventLogInv, ToldOf

\* A session writes a row.
LEMMA DatesKeeps ==
  ASSUME EventLogInv, NEW s \in Subjects, Tell(s) \/ Change(s)
  PROVE  EventLogInv'
<1>1. PICK to \in {"insert", "update"} \union Flips(s) : /\ Dates(s, to)
                                                         /\ to # "insert" => Status(s) # "absent"
  BY DEF Tell, Change
<1>2. /\ clock \in Nat /\ clock' = clock + 1
      /\ open' = open \union {[row |-> s, at |-> clock + 1, to |-> to]}
      /\ UNCHANGED <<row_of, said, owed, hold, log, fresh, gone>>
  BY <1>1 DEF Dates, EventLogInv
<1>3. /\ \A t \in Subjects : /\ Status(t)' = Status(t) /\ DateOf(t)' = DateOf(t)
                              /\ (Crossed(t)' <=> Crossed(t)) /\ Flips(t)' = Flips(t)
  BY <1>2 DEF Status, DateOf, Crossed, Flips
<1>4. ASSUME NEW t \in Subjects PROVE RowInv(t)' /\ ToldOf(t)'
  <2>1. RowInv(t) /\ ToldOf(t)
    BY DEF EventLogInv
  <2>2. RowInv(t)'
    BY <1>2, <1>3, <2>1 DEF RowInv, Left
  <2>3. ToldOf(t)'
    BY <1>2, <1>3, <2>1 DEF ToldOf, Current
  <2> QED
    BY <2>2, <2>3
<1>5. \A t \in Subjects : \A e : EventInv(t, e) => EventInv(t, e)'
  BY <1>2, <1>3 DEF EventInv
<1>6. \A y \in open' : WriteInv(y)'
  BY <1>1, <1>2, <1>3 DEF EventLogInv, WriteInv
<1>7. \A w \in Appenders : hold'[w] # NoEvent => /\ hold'[w].row \in Subjects
                                                  /\ EventInv(hold[w].row, hold[w].event)'
  BY <1>2, <1>5 DEF EventLogInv, EventInv
<1> QED
  BY <1>2, <1>4, <1>5, <1>6, <1>7 DEF EventLogInv

LEMMA EventNextKeeps ==
  ASSUME EventLogInv, [EventNext]_eventVars
  PROVE  EventLogInv'
<1>1. ASSUME NEW s \in Subjects, Tell(s) \/ Change(s) PROVE EventLogInv'
  BY <1>1, DatesKeeps
<1>2. ASSUME NEW x \in open, TellCommits(x) \/ ChangeCommits(x) PROVE EventLogInv'
  BY <1>2, TellKeeps, ChangeKeeps
<1>3. ASSUME NEW w \in Appenders, NEW s \in Subjects, Load(w, s) PROVE EventLogInv'
  BY <1>3, LoadKeeps
<1>4. ASSUME NEW w \in Appenders, AppendEvent(w) PROVE EventLogInv'
  BY <1>4, ReleaseKeeps DEF AppendEvent
<1>5. ASSUME NEW w \in Appenders, RetryEvent(w) PROVE EventLogInv'
  BY <1>5, ReleaseKeeps DEF RetryEvent
<1>6. ASSUME NEW w \in Appenders, LoseEvent(w) PROVE EventLogInv'
  <2>1. hold[w].row \in gone' /\ gone \subseteq gone'
    BY <1>6 DEF LoseEvent
  <2> QED
    BY <1>6, <2>1, ReleaseKeeps DEF LoseEvent
<1>7. CASE UNCHANGED eventVars
  <2>1. UNCHANGED <<row_of, clock, open, said, owed, hold, log, fresh, gone>>
    BY <1>7 DEF eventVars
  <2>2. /\ \A t \in Subjects : RowInv(t)' /\ Status(t)' = Status(t) /\ DateOf(t)' = DateOf(t)
        /\ \A t \in Subjects : \A d : EventInv(t, d)' <=> EventInv(t, d)
        /\ \A x \in open' : WriteInv(x)'
    BY <2>1, RowsKept DEF EventLogInv, RowInv
  <2>3. \A t \in Subjects : ToldOf(t)'
    BY <2>1, <2>2 DEF EventLogInv, ToldOf, Current
  <2>4. \A w \in Appenders : hold'[w] # NoEvent => EventInv(hold[w].row, hold[w].event)'
    BY <2>1, <2>2 DEF EventLogInv, EventInv
  <2> QED
    BY <2>1, <2>2, <2>3, <2>4 DEF EventLogInv
<1> QED
  BY <1>1, <1>3, <1>4, <1>5, <1>6, <1>7, <1>2 DEF EventNext

LEMMA EventsAreTrue ==
  ASSUME EventLogInv
  PROVE  EventsTellTheTruth
<1>1. EventsWereTrue
  BY DEF EventsWereTrue, EventLogInv, EventInv
<1>2. CurrentStateFromLog
  <2> SUFFICES ASSUME NEW s \in Subjects, LogSettled(s), ~Crossed(s), Status(s) # "promoted"
               PROVE  \E e \in log[s] : /\ e.kind = Status(s)
                                        /\ \A f \in log[s] : f.kind # e.kind => f.at < e.at
    BY DEF CurrentStateFromLog
  <2>1. RowInv(s) /\ ToldOf(s) /\ \A f \in log[s] : EventInv(s, f)
    BY DEF EventLogInv
  <2>2. PICK e \in log[s] : Current(s, e)
    BY <2>1 DEF ToldOf, LogSettled, RowInv
  <2> QED
    BY <2>1, <2>2 DEF Current, EventInv
<1> QED
  BY <1>1, <1>2 DEF EventsTellTheTruth

\* Every event of the collections tells what the write it is dated by left in its row, and the
\* newest event of a row whose tasks are done and whose commits did not cross tells what the
\* row says, in whatever order slow workers append them and sessions commit
\* (build_causal_candidate_event and its siblings date an event by its row).
THEOREM LogsTellTheTruth == EventSpec => []EventsTellTheTruth
<1>1. EventInit => EventLogInv
  BY EventInitInv
<1>2. EventLogInv /\ [EventNext]_eventVars => EventLogInv'
  BY EventNextKeeps
<1>3. EventLogInv => EventsTellTheTruth
  BY EventsAreTrue
<1> QED
  BY <1>1, <1>2, <1>3, PTL DEF EventSpec
=============================================================================
