-------------------------- MODULE MCReindexWorker --------------------------
EXTENDS ReindexWorker, TLC

CONSTANTS asset, field, causal, bundle, w1, w2

\* One row of each sort: two points, an event log, a kind nobody handles.
MCKindOf == asset :> "qdrant_asset" @@ field :> "qdrant_field"
            @@ causal :> "event_causal" @@ bundle :> "bundle_asset"

\* ReindexWorker.DEFAULT_TASK_KINDS
MCDefaultKinds == PointKinds \union EventKinds \union NoopKinds
MCAllKinds == MCDefaultKinds \union {"bundle_asset"}

\* What Next comes to when every kind has a handler and a write that fails raises.
LoudNext ==
    \/ \E r \in Rows, t \in TaskIds : ChangeRow(r, t)
    \/ \E w \in Workers :
         \/ Dequeue(w) \/ Hydrate(w) \/ EndBatch(w) \/ Write(w) \/ CommitDone(w) \/ CommitRetry(w)
         \/ HandlerRaises(w) \/ LoseRetry(w) \/ Crash(w) \/ Restart(w)
LoudSpec == Init /\ [][LoudNext]_vars /\ \A w \in Workers : WF_vars(Work(w))
=============================================================================
