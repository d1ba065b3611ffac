-------------------------- MODULE IngestionProofs --------------------------
(***************************************************************************)
(* Proofs about the pipeline as Temporal runs it: what the threads that    *)
(* share one run state file may leave in it, although they are given up,   *)
(* die and are tried again, and what the workflow may count as stored.     *)
(***************************************************************************)
EXTENDS IngestionWorkflow, TablePipelineProofs

-----------------------------------------------------------------------------
(* The inductive invariant. *)

\* The run states that claim no more than the store holds.  When attempts at a table
\* overlapped the store may have rows older than a run state claims.
HonestStates ==
  {m \in RunStates : \A t \in Tables : /\ m[t] # 0 => store.spine[t] # 0
                                       /\ t \notin overrun => m[t] <= store.spine[t]}

Files ==
  /\ disk \in HonestStates
  /\ tmp \in HonestStates \union {NoFile}
  /\ \A w \in Workers : job[w].memory \in HonestStates

\* A thread and its job.
Threads ==
  \A w \in Workers :
    /\ job[w] \in JobsOver(store)
    /\ Doing(w, "free") <=> job[w].pc = "idle"
    /\ ~Doing(w, "free") => job[w].table = act[w].table
    /\ act[w].pc \in {"write", "replace", "report"} => job[w].pc \in Outcomes

\* A table whose attempts never overlapped has one thread at most, which writes
\* rows no older than the ones stored.
Alone ==
  \A t \in Tables :
    /\ source[t] # 0
    /\ t \notin overrun =>
         /\ store.spine[t] <= source[t]
         /\ \A w \in Workers : ~Doing(w, "free") /\ act[w].table = t =>
              /\ store.spine[t] <= job[w].version /\ job[w].version <= source[t]
              /\ job[w].pc = "concept" => store.spine[t] = job[w].version
         /\ \A v, w \in Workers :
              ~Doing(v, "free") /\ ~Doing(w, "free") /\ act[v].table = t /\ act[w].table = t => v = w

\* The workflow counts the attempts that are left.
Counts ==
  /\ wf.phase \notin {"done", "failed"} => wf.tries < Attempts
  /\ wf.phase \in {"introspect", "tables"} => \A t \in Tables : wf.attempt[t] < Attempts
  /\ \A t \in Tables : wf.runner[t] # NoWorker => wf.phase = "tables" /\ t \in wf.left

IngestionInv ==
  /\ TypeOK /\ store \in SoundStores
  /\ Files /\ Threads /\ Alone /\ Counts /\ CountedMeansStored

\* The values of wf and act.
Workflows == [phase : {"introspect", "tables", "cross", "induce", "validate", "done", "failed"},
              tries : 0 .. Attempts, left : SUBSET Tables, attempt : [Tables -> 0 .. Attempts],
              runner : [Tables -> Workers \union {NoWorker}],
              outcome : [Tables -> Outcomes \union {"none"}],
              relationships : SUBSET Relationship, index : [Tables -> Concepts \union {NoConcept}]]
Activities == [pc : {"free", "process", "write", "replace", "report"}, table : Tables,
               file : {"none", "tmp", "disk", "gone"}]

LEMMA TypeOKIs ==
  TypeOK <=> /\ PipelineTypeOK /\ wf \in Workflows /\ act \in [Workers -> Activities]
             /\ tmp \in RunStates \union {NoFile} /\ overrun \subseteq Tables
BY DEF TypeOK, Workflows, Activities

LEMMA FreshTyped ==
  /\ Fresh \in Workflows /\ Free \in Activities /\ Free.pc = "free"
  /\ Unreadable \in [Tables -> Versions] /\ Unreadable \in RunStates
<1>1. (CHOOSE t \in Tables : TRUE) \in Tables
  BY PipelineAssumption
<1>2. Free \in Activities /\ Free.pc = "free"
  BY <1>1 DEF Free, Activities
<1>3. Unreadable \in [Tables -> Versions] /\ Unreadable \in RunStates
  BY PipelineAssumption DEF Unreadable, Versions, RunStates
<1>4. Fresh \in Workflows
  BY IngestionAssumption DEF Fresh, Workflows
<1> QED
  BY <1>2, <1>3, <1>4

LEMMA UnreadableIsHonest == ASSUME store \in Stores PROVE Unreadable \in HonestStates
<1>1. store.spine \in [Tables -> Nat] /\ \A t \in Tables : Unreadable[t] = 0
  BY DEF Stores, Unreadable
<1> QED
  BY <1>1, FreshTyped DEF HonestStates

\* What a run state claims truthfully stays true.
LEMMA HonestStays ==
  ASSUME store \in Stores, store' \in Stores, Grows(store, store'), overrun \subseteq overrun',
         \A t \in Tables \ overrun' : store.spine[t] <= store'.spine[t]
  PROVE  HonestStates \subseteq HonestStates'
<1> SUFFICES ASSUME NEW m \in HonestStates PROVE m \in HonestStates'
  OBVIOUS
<1>1. m \in [Tables -> Nat] /\ store.spine \in [Tables -> Nat] /\ store'.spine \in [Tables -> Nat]
  BY PipelineAssumption DEF HonestStates, RunStates, Versions, Stores
<1>2. ASSUME NEW t \in Tables, t \notin overrun' PROVE m[t] <= store'.spine[t]
  BY <1>1, <1>2 DEF HonestStates
<1>3. ASSUME NEW t \in Tables, m[t] # 0 PROVE store'.spine[t] # 0
  BY <1>3 DEF HonestStates, Grows
<1> QED
  BY <1>2, <1>3 DEF HonestStates

LEMMA Numbers ==
  ASSUME IngestionInv
  PROVE  /\ source \in [Tables -> Nat] /\ disk \in [Tables -> Nat]
         /\ store \in Stores /\ store.spine \in [Tables -> Nat] /\ job \in [Workers -> Jobs]
         /\ \A w \in Workers : /\ job[w] \in Jobs /\ job[w].table \in Tables
                               /\ job[w].memory \in [Tables -> Versions]
                               /\ job[w].version \in Nat
                               /\ act[w] \in Activities /\ act[w].table \in Tables
<1>1. Versions \subseteq Nat
  BY PipelineAssumption DEF Versions
<1>2. /\ source \in [Tables -> Versions] /\ disk \in [Tables -> Versions]
      /\ store \in Stores /\ job \in [Workers -> Jobs] /\ act \in [Workers -> Activities]
  BY TypeOKIs DEF IngestionInv, PipelineTypeOK
<1> QED
  BY <1>1, <1>2 DEF Stores, Jobs, Activities

LEMMA InitInv == Init => IngestionInv
<1> SUFFICES ASSUME Init PROVE IngestionInv
  OBVIOUS
<1>1. /\ disk = Unreadable /\ disk \in [Tables -> Versions] /\ store = EmptyStore
      /\ job = [w \in Workers |-> NoJob(disk)] /\ act = [w \in Workers |-> Free]
      /\ wf = Fresh /\ tmp = NoFile /\ overrun = {} /\ source = [t \in Tables |-> 1] /\ faults = 0
  BY FreshTyped DEF Init, PipelineInit, Unreadable
<1>2. store \in SoundStores /\ store \in Stores
  BY <1>1, EmptyIsSound DEF SoundStores
<1>3. TypeOK
  <2>1. job \in [Workers -> Jobs]
    BY <1>1, NoJobTyped
  <2>2. PipelineTypeOK
    BY <1>1, <1>2, <2>1, PipelineAssumption DEF PipelineTypeOK, Versions
  <2> QED
    BY <1>1, <2>2, FreshTyped, TypeOKIs
<1>4. Files
  BY <1>1, <1>2, NoJobTyped, UnreadableIsHonest DEF Files
<1>5. Threads
  BY <1>1, NoJobTyped, FreshTyped DEF Threads, Doing
<1>6. Alone
  BY <1>1, FreshTyped DEF Alone, EmptyStore, Doing
<1>7. Counts /\ CountedMeansStored
  BY <1>1, IngestionAssumption DEF Counts, CountedMeansStored, Fresh
<1> QED
  BY <1>2, <1>3, <1>4, <1>5, <1>6, <1>7 DEF IngestionInv

-----------------------------------------------------------------------------
(* The steps of the workflow. *)

\* A step that moves the workflow and perhaps writes the relation schema.
LEMMA Orchestrating ==
  ASSUME IngestionInv, UNCHANGED <<source, disk, job, act, tmp, overrun>>,
         Fault \/ UNCHANGED faults,
         store' \in SoundStores, store'.spine = store.spine, store'.profiled = store.profiled,
         wf' \in Workflows, Counts', wf'.outcome = wf.outcome \/ wf' = Fresh
  PROVE  IngestionInv'
<1>1. Grows(store, store') /\ store' \in Stores /\ store \in Stores
  BY DEF Grows, SoundStores, IngestionInv
<1>2. faults' \in 0 .. MaxFaults
  BY FaultCounted, TypeOKIs DEF IngestionInv
<1>3. TypeOK'
  <2>1. PipelineTypeOK'
    BY <1>1, <1>2, TypeOKIs DEF IngestionInv, PipelineTypeOK
  <2> QED
    BY <2>1, TypeOKIs DEF IngestionInv, TypeOK, Workflows
<1>4. Files'
  <2>1. HonestStates \subseteq HonestStates'
    BY <1>1, HonestStays, Numbers
  <2> QED
    BY <2>1 DEF IngestionInv, Files
<1>5. Threads'
  <2>1. ASSUME NEW w \in Workers PROVE job[w] \in JobsOver(store')
    BY <1>1, KnownStays DEF IngestionInv, Threads
  <2> QED
    BY <2>1 DEF IngestionInv, Threads, Doing
<1>6. Alone'
  BY DEF IngestionInv, Alone, Doing
<1>7. CountedMeansStored'
  BY DEF IngestionInv, CountedMeansStored, Fresh
<1> QED
  BY <1>3, <1>4, <1>5, <1>6, <1>7 DEF IngestionInv

LEMMA PhasesKeep ==
  IngestionInv /\ (Introspect \/ EndTables \/ CrossAsset \/ Validate \/ Restart) => IngestionInv'
<1> SUFFICES ASSUME IngestionInv, Introspect \/ EndTables \/ CrossAsset \/ Validate \/ Restart
             PROVE  IngestionInv'
  OBVIOUS
<1>1. UNCHANGED <<source, disk, store, job, faults, act, tmp, overrun>>
  BY DEF Introspect, EndTables, CrossAsset, Validate, Restart
<1>2. store' \in SoundStores
  BY <1>1 DEF IngestionInv
<1>3. wf \in Workflows /\ Counts
  BY TypeOKIs DEF IngestionInv
<1>4. wf' \in Workflows /\ (wf'.outcome = wf.outcome \/ wf' = Fresh)
  <2>1. 0 \in 0 .. Attempts
    BY IngestionAssumption
  <2>2. CASE Restart
    BY <2>2, FreshTyped DEF Restart
  <2>3. CASE Introspect
    BY <1>3, <2>1, <2>3 DEF Introspect, Workflows
  <2>4. CASE EndTables
    BY <1>3, <2>4 DEF EndTables, Workflows
  <2>5. CASE CrossAsset
    BY <1>3, <2>1, <2>5 DEF CrossAsset, Workflows
  <2>6. CASE Validate
    BY <1>3, <2>1, <2>6 DEF Validate, Workflows
  <2> QED
    BY <2>2, <2>3, <2>4, <2>5, <2>6
<1>5. Counts'
  <2>1. CASE Introspect
    BY <1>3, <2>1, IngestionAssumption DEF Introspect, Counts, Workflows
  <2>2. CASE EndTables
    BY <1>3, <2>2 DEF EndTables, Counts, Workflows
  <2>3. CASE CrossAsset
    BY <1>3, <2>3, IngestionAssumption DEF CrossAsset, Counts, Workflows
  <2>4. CASE Validate
    BY <1>3, <2>4, IngestionAssumption DEF Validate, Counts, Workflows
  <2>5. CASE Restart
    BY <2>5, IngestionAssumption DEF Restart, Counts, Fresh
  <2> QED
    BY <2>1, <2>2, <2>3, <2>4, <2>5
<1> QED
  BY <1>1, <1>2, <1>4, <1>5, Orchestrating

LEMMA PassFailsKeeps == IngestionInv /\ PassFails => IngestionInv'
<1> SUFFICES ASSUME IngestionInv, PassFails PROVE IngestionInv'
  OBVIOUS
<1>1. UNCHANGED <<source, disk, store, job, act, tmp, overrun>> /\ Fault
      /\ wf.phase \in {"introspect", "cross", "induce", "validate"}
      /\ wf' = [wf EXCEPT !.tries = wf.tries + 1, !.phase = AfterFailure(wf.tries + 1)]
  BY DEF PassFails
<1>2. store' \in SoundStores
  BY <1>1 DEF IngestionInv
<1>3. wf \in Workflows /\ Counts /\ wf.tries \in Nat /\ wf.tries < Attempts
  BY <1>1, TypeOKIs, IngestionAssumption DEF IngestionInv, Workflows, Counts
<1>4. AfterFailure(wf.tries + 1) \in {"failed", wf.phase}
      /\ (AfterFailure(wf.tries + 1) # "failed" => wf.tries + 1 < Attempts)
  BY <1>1, <1>3, IngestionAssumption DEF AfterFailure
<1>5. wf' \in Workflows /\ wf'.outcome = wf.outcome
  <2>1. wf.tries + 1 \in 0 .. Attempts
    BY <1>3, IngestionAssumption
  <2> QED
    BY <1>1, <1>3, <1>4, <2>1 DEF Workflows
<1>6. Counts'
  BY <1>1, <1>3, <1>4 DEF Counts, Workflows
<1> QED
  BY <1>1, <1>2, <1>5, <1>6, Orchestrating

LEMMA InduceKeeps ==
  ASSUME NEW p \in Predicates, IngestionInv, Induce(p)
  PROVE  IngestionInv'
<1>1. /\ UNCHANGED <<source, disk, job, faults, act, tmp, overrun>>
      /\ wf.phase = "induce" /\ wf' = [wf EXCEPT !.phase = "validate", !.tries = 0]
  BY DEF Induce
<1>2. wf \in Workflows /\ Counts /\ store \in SoundStores
  BY TypeOKIs DEF IngestionInv
<1>3. store' \in SoundStores /\ store'.spine = store.spine /\ store'.profiled = store.profiled
  <2>1. CASE UNCHANGED store
    BY <1>2, <2>1
  <2>2. CASE ~UNCHANGED store
    <3>1. PICK type \in InducedTypes(p) :
            store' = UpsertRelationSchema(store, {type},
                       {[from |-> r.from, to |-> r.to, predicate |-> p] : r \in
                         {x \in wf.relationships : Kind(x.from) = type.domain
                                                     /\ Kind(x.to) = type.range}})
      BY <2>2, Zenon DEF Induce
    <3> DEFINE es == {[from |-> r.from, to |-> r.to, predicate |-> p] : r \in
                       {x \in wf.relationships : Kind(x.from) = type.domain
                                                   /\ Kind(x.to) = type.range}}
    <3>2. wf.relationships \in SUBSET Relationship
          /\ \A t \in Tables : Kind(t) \in Kinds
      BY <1>2 DEF Workflows, Kind, Kinds
    <3>3. type \in RelationTypes /\ type.predicate = p
      BY <3>2 DEF InducedTypes, RelationTypes, Relationship
    <3>4. es \in SUBSET Attachment(type)
      BY <3>2, <3>3 DEF Attachment, Relationship
    <3> HIDE DEF es
    <3>5. store' = UpsertRelationSchema(store, {type}, es)
      BY <3>1 DEF es
    <3> QED
      BY <1>2, <3>3, <3>4, <3>5, SchemaStored
  <2> QED
    BY <2>1, <2>2
<1>4. wf' \in Workflows /\ wf'.outcome = wf.outcome
  <2>1. 0 \in 0 .. Attempts
    BY IngestionAssumption
  <2> QED
    BY <1>1, <1>2, <2>1 DEF Workflows
<1>5. Counts'
  BY <1>1, <1>2, IngestionAssumption DEF Counts, Workflows
<1> QED
  BY <1>1, <1>3, <1>4, <1>5, Orchestrating

\* The workflow hears of an attempt that failed.
LEMMA FailedCounted ==
  ASSUME IngestionInv, NEW w \in Workers, wf' = Failed(w) \/ UNCHANGED wf
  PROVE  wf' \in Workflows /\ wf'.outcome = wf.outcome /\ Counts'
<1> DEFINE t == act[w].table
           n == wf.attempt[t] + 1
<1>1. wf \in Workflows /\ Counts /\ t \in Tables /\ wf.attempt[t] \in Nat /\ Attempts \in Nat
  BY TypeOKIs, Numbers, IngestionAssumption DEF IngestionInv, Workflows
<1>2. CASE UNCHANGED wf \/ ~Awaited(w)
  BY <1>1, <1>2 DEF Failed, Counts
<1>3. CASE ~UNCHANGED wf /\ Awaited(w)
  <2>1. wf.runner[t] # NoWorker /\ wf.phase = "tables" /\ n <= Attempts
    BY <1>1, <1>3, IngestionAssumption DEF Awaited, Counts
  <2>a. [wf.attempt EXCEPT ![t] = n] \in [Tables -> 0 .. Attempts]
    <3>1. n \in 0 .. Attempts
      BY <1>1, <2>1
    <3> HIDE DEF n
    <3> QED
      BY <1>1, <3>1 DEF Workflows
  <2>2. CASE n = Attempts
    <3>1. wf' = [wf EXCEPT !.attempt[t] = n, !.runner = [x \in Tables |-> NoWorker],
                           !.phase = "failed"]
      BY <1>3, <2>2 DEF Failed
    <3>2. wf' \in Workflows /\ wf'.outcome = wf.outcome
      <4> HIDE DEF n
      <4> QED
        BY <1>1, <2>a, <3>1 DEF Workflows
    <3>3. Counts'
      BY <1>1, <3>1 DEF Counts, Workflows
    <3> QED
      BY <3>2, <3>3
  <2>3. CASE n # Attempts
    <3>1. wf' = [wf EXCEPT !.attempt[t] = n, !.runner[t] = NoWorker]
      BY <1>3, <2>3 DEF Failed
    <3>2. wf' \in Workflows /\ wf'.outcome = wf.outcome
      <4> HIDE DEF n
      <4> QED
        BY <1>1, <2>a, <3>1 DEF Workflows
    <3>3. Counts'
      BY <1>1, <2>1, <2>3, <3>1 DEF Counts, Workflows
    <3> QED
      BY <3>2, <3>3
  <2> QED
    BY <2>2, <2>3
<1> QED
  BY <1>2, <1>3

LEMMA TimesOutKeeps == ASSUME NEW w \in Workers PROVE IngestionInv /\ TimesOut(w) => IngestionInv'
<1> SUFFICES ASSUME IngestionInv, TimesOut(w) PROVE IngestionInv'
  OBVIOUS
<1>1. UNCHANGED <<source, disk, store, job, act, tmp, overrun>> /\ Fault /\ wf' = Failed(w)
  BY DEF TimesOut
<1>2. store' \in SoundStores
  BY <1>1 DEF IngestionInv
<1> QED
  BY <1>1, <1>2, FailedCounted, Orchestrating

LEMMA ScheduleKeeps ==
  ASSUME NEW w \in Workers, NEW t \in Tables, IngestionInv, Schedule(w, t)
  PROVE  IngestionInv'
<1> DEFINE a == [pc |-> "process", table |-> t, file |-> "none"]
<1>1. /\ wf.phase = "tables" /\ t \in wf.left /\ Doing(w, "free")
      /\ Begin(w, t, source[t], disk)
      /\ act' = [act EXCEPT ![w] = a] /\ wf' = [wf EXCEPT !.runner[t] = w]
      /\ overrun' = IF \E v \in Workers : ~Doing(v, "free") /\ act[v].table = t
                    THEN overrun \union {t} ELSE overrun
      /\ UNCHANGED tmp
  BY DEF Schedule
<1>2. UNCHANGED <<source, disk, store, faults>>
  BY <1>1 DEF Begin
<1>3. /\ PipelineTypeOK /\ wf \in Workflows /\ act \in [Workers -> Activities]
      /\ tmp \in RunStates \union {NoFile} /\ overrun \subseteq Tables
  BY TypeOKIs DEF IngestionInv
<1>4. source[t] \in Versions \ {0} /\ disk \in [Tables -> Versions] /\ job \in [Workers -> Jobs]
  BY <1>3 DEF IngestionInv, PipelineTypeOK, Alone
<1>5. PICK k \in JobsOver(store) :
        /\ job' = [job EXCEPT ![w] = k]
        /\ k.table = t /\ k.version = source[t] /\ k.memory = disk
        /\ k.pc \in {"unchanged", "profile", "protect", "relate"}
  BY <1>1, <1>4, Begun
<1>6. k \in Jobs /\ job'[w] = k /\ job' \in [Workers -> Jobs]
  BY <1>4, <1>5 DEF JobsOver
<1>7. a \in Activities /\ act'[w] = a /\ act' \in [Workers -> Activities]
  BY <1>1, <1>3 DEF Activities
<1>8. \A v \in Workers : v # w => job'[v] = job[v] /\ act'[v] = act[v]
  BY <1>1, <1>5
<1>9. overrun \subseteq overrun' /\ overrun' \subseteq Tables
  BY <1>1, <1>3
<1>10. TypeOK'
  <2>1. wf' \in Workflows
    BY <1>1, <1>3 DEF Workflows
  <2>2. PipelineTypeOK'
    BY <1>2, <1>3, <1>6 DEF PipelineTypeOK
  <2> QED
    BY <1>1, <1>3, <1>7, <1>9, <2>1, <2>2 DEF TypeOK, Workflows, Activities
<1>11. Files'
  <2>1. HonestStates \subseteq HonestStates'
    <3>1. store \in Stores /\ store' \in Stores /\ store.spine \in [Tables -> Nat]
      BY <1>2, Numbers
    <3> QED
      BY <1>2, <1>9, <3>1, HonestStays DEF Grows
  <2> QED
    BY <1>1, <1>2, <1>5, <1>6, <1>8, <2>1 DEF IngestionInv, Files
<1>12. Threads'
  <2>1. ASSUME NEW v \in Workers PROVE job'[v] \in JobsOver(store')
    BY <1>2, <1>5, <1>6, <1>8 DEF IngestionInv, Threads
  <2> QED
    BY <1>5, <1>6, <1>7, <1>8, <2>1 DEF IngestionInv, Threads, Doing
<1>13. Alone'
  <2> SUFFICES ASSUME NEW x \in Tables, x \notin overrun'
               PROVE  /\ store.spine[x] <= source[x]
                      /\ \A v \in Workers : act'[v].pc # "free" /\ act'[v].table = x =>
                           /\ store.spine[x] <= job'[v].version /\ job'[v].version <= source[x]
                           /\ job'[v].pc = "concept" => store.spine[x] = job'[v].version
                      /\ \A u, v \in Workers :
                           act'[u].pc # "free" /\ act'[v].pc # "free"
                             /\ act'[u].table = x /\ act'[v].table = x => u = v
    BY <1>2 DEF IngestionInv, Alone, Doing
  <2>1. /\ store.spine[x] <= source[x]
        /\ \A v \in Workers : act[v].pc # "free" /\ act[v].table = x =>
             /\ store.spine[x] <= job[v].version /\ job[v].version <= source[x]
             /\ job[v].pc = "concept" => store.spine[x] = job[v].version
        /\ \A u, v \in Workers :
             act[u].pc # "free" /\ act[v].pc # "free"
               /\ act[u].table = x /\ act[v].table = x => u = v
    BY <1>9 DEF IngestionInv, Alone, Doing
  <2>2. x = t => \A v \in Workers : act[v].pc = "free" \/ act[v].table # t
    BY <1>1 DEF Doing
  <2>3. source[x] \in Nat
    BY Numbers
  <2> QED
    BY <1>5, <1>6, <1>7, <1>8, <2>1, <2>2, <2>3
<1>14. Counts' /\ CountedMeansStored'
  BY <1>1, <1>2, <1>3 DEF IngestionInv, Counts, CountedMeansStored, Workflows
<1> QED
  BY <1>2, <1>10, <1>11, <1>12, <1>13, <1>14 DEF IngestionInv

-----------------------------------------------------------------------------
(* The steps of a thread. *)

LEMMA WorkKeeps == ASSUME NEW w \in Workers, IngestionInv, Work(w) PROVE IngestionInv'
<1> DEFINE j == job[w]
<1>1. act[w].pc = "process" /\ Process(w) /\ UNCHANGED <<wf, act, tmp, overrun>>
  BY DEF Work, Doing
<1>2. Advanced(w)
  BY <1>1, ProcessAdvances, TypeOKIs DEF IngestionInv, Threads
<1>3. PICK k \in JobsOver(store') :
        job' = [job EXCEPT ![w] = k] /\ Advances(j, store, k, store')
  BY <1>2 DEF Advanced
<1>4. /\ k \in Jobs /\ job'[w] = k /\ job' \in [Workers -> Jobs]
      /\ \A v \in Workers : v # w => job'[v] = job[v]
  BY <1>3, Numbers DEF JobsOver
<1>5. /\ UNCHANGED <<source, disk>> /\ faults' \in 0 .. MaxFaults
      /\ store' \in SoundStores /\ store' \in Stores /\ Grows(store, store')
  BY <1>2 DEF Advanced, SoundStores
<1>6. /\ store.spine \in [Tables -> Nat] /\ store'.spine \in [Tables -> Nat] /\ store \in Stores
      /\ source \in [Tables -> Nat]
      /\ j \in Jobs /\ j.table \in Tables /\ j.version \in Versions /\ j.version \in Nat
      /\ j.memory \in [Tables -> Versions] /\ k.memory \in [Tables -> Versions]
      /\ Versions \subseteq Nat
  BY <1>4, <1>5, Numbers, Bounds DEF Stores, Jobs, Versions
<1>7. act[w].table = j.table /\ j.pc # "idle" /\ j.version # 0
  BY <1>1 DEF IngestionInv, Threads, Doing, JobsOver
<1>8. k.table = j.table /\ k.version = j.version /\ k.pc \notin {"idle", "unchanged"}
  BY <1>3 DEF Advances
<1>9. ASSUME NEW t \in Tables, t \notin overrun
      PROVE  /\ store.spine[t] <= store'.spine[t] /\ store'.spine[t] <= source[t]
             /\ k.memory[t] <= store'.spine[t]
             /\ t # j.table => store'.spine[t] = store.spine[t]
             /\ t = j.table => store'.spine[t] <= j.version
  <2>1. store'.spine = store.spine \/ store'.spine = [store.spine EXCEPT ![j.table] = j.version]
    BY <1>3 DEF Advances
  <2>2. store.spine[t] <= source[t]
    BY <1>9 DEF IngestionInv, Alone
  <2>3. t = j.table => /\ store.spine[t] <= j.version /\ j.version <= source[t]
                       /\ j.pc = "concept" => store.spine[t] = j.version
    BY <1>1, <1>7, <1>9 DEF IngestionInv, Alone, Doing
  <2>4. j.memory[t] <= store.spine[t]
    BY <1>9 DEF IngestionInv, Files, HonestStates
  <2>5. \/ k.memory = j.memory
        \/ /\ k.memory = [j.memory EXCEPT ![j.table] = j.version]
           /\ store'.spine[j.table] = j.version \/ j.pc = "concept"
    BY <1>3 DEF Advances
  <2>6. /\ store.spine[t] <= store'.spine[t] /\ store'.spine[t] <= source[t]
        /\ t # j.table => store'.spine[t] = store.spine[t]
        /\ t = j.table => store'.spine[t] <= j.version
    BY <1>6, <2>1, <2>2, <2>3
  <2>7. j.memory[t] \in Nat /\ store.spine[t] \in Nat /\ store'.spine[t] \in Nat
    BY <1>6
  <2>8. CASE k.memory[t] = j.memory[t]
    BY <2>4, <2>6, <2>7, <2>8
  <2>9. CASE t = j.table /\ k.memory[t] = j.version
    BY <1>6, <2>1, <2>3, <2>4, <2>5, <2>6, <2>7, <2>9
  <2> QED
    BY <1>6, <2>5, <2>6, <2>8, <2>9
<1>10. HonestStates \subseteq HonestStates'
  BY <1>1, <1>5, <1>6, <1>9, HonestStays
<1>11. k.memory \in HonestStates'
  <2>1. ASSUME NEW t \in Tables, k.memory[t] # 0 PROVE store'.spine[t] # 0
    <3>1. CASE k.memory[t] = j.memory[t]
      BY <1>5, <2>1, <3>1 DEF IngestionInv, Files, HonestStates, Grows
    <3>2. CASE k.memory[t] # j.memory[t]
      <4>1. t = j.table /\ k.pc = "done"
        BY <1>3, <1>6, <3>2 DEF Advances
      <4> QED
        BY <1>8, <4>1 DEF JobsOver
    <3> QED
      BY <3>1, <3>2
  <2> QED
    BY <1>1, <1>6, <1>9, <2>1 DEF HonestStates, RunStates
<1>12. TypeOK'
  <2>1. PipelineTypeOK'
    BY <1>4, <1>5, TypeOKIs DEF IngestionInv, PipelineTypeOK
  <2> QED
    BY <1>1, <2>1 DEF IngestionInv, TypeOK
<1>13. Files'
  BY <1>1, <1>4, <1>5, <1>10, <1>11 DEF IngestionInv, Files
<1>14. Threads'
  <2>1. ASSUME NEW v \in Workers, v # w PROVE job[v] \in JobsOver(store')
    BY <1>5, <1>6, KnownStays DEF IngestionInv, Threads
  <2> QED
    BY <1>1, <1>4, <1>7, <1>8, <2>1 DEF IngestionInv, Threads, Doing
<1>15. Alone'
  <2> SUFFICES ASSUME NEW t \in Tables, t \notin overrun
               PROVE  /\ store'.spine[t] <= source[t]
                      /\ \A v \in Workers : act[v].pc # "free" /\ act[v].table = t =>
                           /\ store'.spine[t] <= job'[v].version /\ job'[v].version <= source[t]
                           /\ job'[v].pc = "concept" => store'.spine[t] = job'[v].version
    BY <1>1, <1>5 DEF IngestionInv, Alone, Doing
  <2>1. /\ \A v \in Workers : act[v].pc # "free" /\ act[v].table = t =>
             /\ store.spine[t] <= job[v].version /\ job[v].version <= source[t]
             /\ job[v].pc = "concept" => store.spine[t] = job[v].version
        /\ \A v \in Workers : act[v].pc # "free" /\ act[v].table = t /\ t = j.table => v = w
    BY <1>1, <1>7 DEF IngestionInv, Alone, Doing
  <2>2. k.pc = "concept" => store'.spine[j.table] = j.version
    BY <1>3 DEF Advances
  <2>3. ASSUME NEW v \in Workers, act[v].pc # "free", act[v].table = t
        PROVE  /\ store'.spine[t] <= job'[v].version /\ job'[v].version <= source[t]
               /\ job'[v].pc = "concept" => store'.spine[t] = job'[v].version
    <3>1. CASE v = w
      BY <1>1, <1>4, <1>7, <1>8, <1>9, <2>1, <2>2, <2>3, <3>1
    <3>2. CASE v # w
      BY <1>4, <1>9, <2>1, <2>3, <3>2
    <3> QED
      BY <3>1, <3>2
  <2> QED
    BY <1>9, <2>3
<1>16. Counts' /\ CountedMeansStored'
  BY <1>1, <1>5 DEF IngestionInv, Counts, CountedMeansStored, Grows
<1> QED
  BY <1>5, <1>12, <1>13, <1>14, <1>15, <1>16 DEF IngestionInv

\* A step of flush moves the files only.
LEMMA Flushing ==
  ASSUME NEW w \in Workers, IngestionInv, Keep,
         act' \in [Workers -> Activities], disk' \in HonestStates,
         tmp' \in HonestStates \union {NoFile},
         act[w].pc # "free", job[w].pc \in Outcomes,
         act'[w].pc \in {"write", "replace", "report"}, act'[w].table = act[w].table,
         \A v \in Workers : v # w => act'[v].pc = act[v].pc /\ act'[v].table = act[v].table
  PROVE  IngestionInv'
<1>1. UNCHANGED <<source, store, job, faults, wf, overrun>>
  BY DEF Keep
<1>2. HonestStates \subseteq HonestStates'
  <2>1. store \in Stores /\ store' \in Stores /\ store.spine \in [Tables -> Nat]
    BY <1>1, Numbers
  <2> QED
    BY <1>1, <2>1, HonestStays DEF Grows
<1>3. \A v \in Workers : /\ act'[v].table = act[v].table
                         /\ act'[v].pc = "free" <=> act[v].pc = "free"
  OBVIOUS
<1>4. TypeOK'
  <2>1. PipelineTypeOK'
    BY <1>1, TypeOKIs DEF IngestionInv, PipelineTypeOK, HonestStates, RunStates
  <2> QED
    BY <1>1, <2>1, TypeOKIs DEF IngestionInv, TypeOK, Activities, HonestStates
<1>5. Files'
  BY <1>1, <1>2 DEF IngestionInv, Files
<1>6. Threads'
  BY <1>1, <1>3 DEF IngestionInv, Threads, Doing
<1>7. Alone'
  BY <1>1, <1>3 DEF IngestionInv, Alone, Doing
<1>8. Counts' /\ CountedMeansStored'
  BY <1>1 DEF IngestionInv, Counts, CountedMeansStored
<1> QED
  BY <1>1, <1>4, <1>5, <1>6, <1>7, <1>8 DEF IngestionInv

LEMMA OpenKeeps == ASSUME NEW w \in Workers, IngestionInv, Open(w) PROVE IngestionInv'
<1>1. /\ act[w].pc = "process" /\ job[w].pc \in Outcomes /\ tmp' = Unreadable
      /\ act' = [act EXCEPT ![w].pc = "write", ![w].file = "tmp"] /\ Keep /\ UNCHANGED disk
  BY DEF Open, Doing
<1>2. act \in [Workers -> Activities] /\ act' \in [Workers -> Activities]
  BY <1>1, TypeOKIs, ZenonT(40) DEF IngestionInv, Activities
<1>3. /\ act'[w].pc = "write" /\ act'[w].table = act[w].table
      /\ \A v \in Workers : v # w => act'[v] = act[v]
  BY <1>1, <1>2 DEF Activities
<1>4. tmp' \in HonestStates /\ disk' \in HonestStates
  BY <1>1, UnreadableIsHonest, Numbers DEF IngestionInv, Files
<1> QED
  BY <1>1, <1>2, <1>3, <1>4, Flushing

LEMMA WriteKeeps == ASSUME NEW w \in Workers, IngestionInv, Write(w) PROVE IngestionInv'
<1>1. act[w].pc = "write" /\ act' = [act EXCEPT ![w].pc = "replace"] /\ Keep
  BY DEF Write, Doing, Goto
<1>2. act \in [Workers -> Activities] /\ act' \in [Workers -> Activities]
  BY <1>1, TypeOKIs DEF IngestionInv, Activities
<1>3. /\ act'[w].pc = "replace" /\ act'[w].table = act[w].table /\ job[w].pc \in Outcomes
      /\ \A v \in Workers : v # w => act'[v] = act[v]
  BY <1>1, <1>2 DEF Activities, IngestionInv, Threads
<1>4. job[w].memory \in HonestStates /\ Unreadable \in HonestStates
      /\ disk \in HonestStates /\ tmp \in HonestStates \union {NoFile}
  BY UnreadableIsHonest, Numbers DEF IngestionInv, Files
<1>5. disk' \in HonestStates /\ tmp' \in HonestStates \union {NoFile}
  BY <1>4 DEF Write
<1> QED
  BY <1>1, <1>2, <1>3, <1>5, Flushing

LEMMA ReplaceKeeps == ASSUME NEW w \in Workers, IngestionInv, Replace(w) PROVE IngestionInv'
<1>1. /\ act[w].pc = "replace" /\ tmp # NoFile /\ disk' = tmp /\ tmp' = NoFile /\ Keep
      /\ act' = [v \in Workers |->
                   IF v = w THEN [act[w] EXCEPT !.pc = "report", !.file = "none"]
                   ELSE [act[v] EXCEPT !.file = AfterRename(act[v].file)]]
  BY DEF Replace, Doing
<1>2. \A v \in Workers : act[v] \in Activities /\ AfterRename(act[v].file) \in {"none", "tmp", "disk", "gone"}
  BY Numbers DEF Activities, AfterRename
<1>3. act' \in [Workers -> Activities]
  BY <1>1, <1>2 DEF Activities
<1>4. /\ act'[w].pc = "report" /\ act'[w].table = act[w].table /\ job[w].pc \in Outcomes
      /\ \A v \in Workers : v # w => act'[v].pc = act[v].pc /\ act'[v].table = act[v].table
  BY <1>1, <1>2 DEF Activities, IngestionInv, Threads
<1>5. disk' \in HonestStates /\ tmp' \in HonestStates \union {NoFile}
  BY <1>1 DEF IngestionInv, Files
<1> QED
  BY <1>1, <1>3, <1>4, <1>5, Flushing

\* A thread is over: it has no job any more.
LEMMA Ending ==
  ASSUME NEW w \in Workers, IngestionInv, act[w].pc # "free",
         act' = [act EXCEPT ![w] = Free], job' = [job EXCEPT ![w] = NoJob(Unreadable)],
         UNCHANGED <<source, disk, store, tmp, overrun>>, Fault \/ UNCHANGED faults,
         wf' \in Workflows, Counts', CountedMeansStored'
  PROVE  IngestionInv'
<1>1. /\ act' \in [Workers -> Activities] /\ act'[w].pc = "free"
      /\ job' \in [Workers -> Jobs] /\ job'[w] = NoJob(Unreadable)
      /\ \A v \in Workers : v # w => act'[v] = act[v] /\ job'[v] = job[v]
  BY FreshTyped, NoJobTyped, TypeOKIs DEF IngestionInv, PipelineTypeOK
<1>2. /\ job'[w] \in JobsOver(store') /\ job'[w].pc = "idle"
      /\ job'[w].memory = Unreadable
  BY <1>1, FreshTyped, NoJobTyped
<1>3. HonestStates \subseteq HonestStates' /\ Unreadable \in HonestStates'
  <2>1. store \in Stores /\ store' \in Stores /\ store.spine \in [Tables -> Nat]
    BY Numbers
  <2> QED
    BY <2>1, HonestStays, UnreadableIsHonest DEF Grows
<1>4. TypeOK'
  <2>1. faults' \in 0 .. MaxFaults
    BY FaultCounted, TypeOKIs DEF IngestionInv
  <2>2. PipelineTypeOK'
    BY <1>1, <2>1, TypeOKIs DEF IngestionInv, PipelineTypeOK
  <2> QED
    BY <1>1, <2>2, TypeOKIs DEF IngestionInv, TypeOK, Workflows, Activities
<1>5. Files'
  BY <1>1, <1>2, <1>3 DEF IngestionInv, Files
<1>6. Threads'
  BY <1>1, <1>2 DEF IngestionInv, Threads, Doing
<1>7. Alone'
  BY <1>1 DEF IngestionInv, Alone, Doing
<1> QED
  BY <1>4, <1>5, <1>6, <1>7 DEF IngestionInv

LEMMA FailureKeeps ==
  ASSUME NEW w \in Workers, IngestionInv, ReplaceRaises(w) \/ Dies(w)
  PROVE  IngestionInv'
<1>1. /\ act[w].pc # "free" /\ wf' = Failed(w)
      /\ act' = [act EXCEPT ![w] = Free] /\ job' = [job EXCEPT ![w] = NoJob(Unreadable)]
      /\ UNCHANGED <<source, disk, store, tmp, overrun>> /\ (Fault \/ UNCHANGED faults)
  BY DEF ReplaceRaises, Dies, Doing
<1>2. wf' \in Workflows /\ wf'.outcome = wf.outcome /\ Counts'
  BY <1>1, FailedCounted
<1>3. CountedMeansStored'
  BY <1>1, <1>2 DEF IngestionInv, CountedMeansStored
<1> QED
  BY <1>1, <1>2, <1>3, Ending

LEMMA ReportKeeps == ASSUME NEW w \in Workers, IngestionInv, Report(w) PROVE IngestionInv'
<1> DEFINE j == job[w]
           t == act[w].table
           rs == {[from |-> t, column |-> i.column, to |-> i.to] : i \in j.captured}
<1>1. /\ act[w].pc = "report"
      /\ act' = [act EXCEPT ![w] = Free] /\ job' = [job EXCEPT ![w] = NoJob(Unreadable)]
      /\ UNCHANGED <<source, disk, store, faults, tmp, overrun>>
      /\ \/ UNCHANGED wf
         \/ wf' = [wf EXCEPT !.left = @ \ {t}, !.runner[t] = NoWorker, !.outcome[t] = j.pc,
                             !.index[t] = j.index, !.relationships = @ \union rs]
  BY DEF Report, Doing
<1>2. /\ j \in Jobs /\ t \in Tables /\ j.table = t /\ j.pc \in Outcomes
      /\ wf \in Workflows /\ Counts
  BY <1>1, Numbers, TypeOKIs DEF IngestionInv, Threads, Doing
<1>3. rs \in SUBSET Relationship /\ j.index \in Concepts \union {NoConcept}
  BY <1>2 DEF Jobs, Guess, Relationship
<1> HIDE DEF rs
<1> DEFINE heard == [wf EXCEPT !.left = @ \ {t}, !.runner[t] = NoWorker, !.outcome[t] = j.pc,
                               !.index[t] = j.index, !.relationships = @ \union rs]
<1>a. /\ heard \in Workflows /\ heard.left = wf.left \ {t} /\ heard.phase = wf.phase
      /\ heard.tries = wf.tries /\ heard.attempt = wf.attempt
      /\ heard.runner = [wf.runner EXCEPT ![t] = NoWorker]
      /\ heard.outcome = [wf.outcome EXCEPT ![t] = j.pc]
  BY <1>2, <1>3 DEF Workflows
<1>b. wf' = wf \/ wf' = heard
  BY <1>1
<1> HIDE DEF heard
<1>4. wf' \in Workflows
  BY <1>2, <1>a, <1>b
<1>5. Counts'
  <2>1. CASE wf' = wf
    BY <1>2, <2>1 DEF Counts
  <2>2. CASE wf' = heard
    BY <1>2, <1>a, <2>2 DEF Counts, Workflows
  <2> QED
    BY <1>b, <2>1, <2>2
<1>6. j.pc \in {"done", "unchanged"} => store.spine[t] # 0
  <2>1. j \in JobsOver(store) /\ j.memory \in HonestStates
    BY DEF IngestionInv, Threads, Files
  <2> QED
    BY <1>2, <2>1 DEF JobsOver, HonestStates
<1>7. CountedMeansStored'
  BY <1>1, <1>2, <1>6, <1>a, <1>b DEF IngestionInv, CountedMeansStored, Workflows
<1> QED
  BY <1>1, <1>4, <1>5, <1>7, Ending

LEMMA AlterKeeps == IngestionInv /\ Alter => IngestionInv'
<1> SUFFICES ASSUME IngestionInv, Alter PROVE IngestionInv'
  OBVIOUS
<1>1. PICK t \in Tables : Change(t) /\ UNCHANGED <<wf, act, tmp, overrun>>
  BY DEF Alter
<1>2. /\ source' = [source EXCEPT ![t] = source[t] + 1] /\ source[t] < MaxVersion
      /\ UNCHANGED <<disk, store, job, faults, wf, act, tmp, overrun>>
  BY <1>1 DEF Change
<1>3. source \in [Tables -> Versions]
  BY TypeOKIs DEF IngestionInv, PipelineTypeOK
<1>4. source' \in [Tables -> Versions]
      /\ \A x \in Tables : source[x] <= source'[x] /\ source'[x] \in Nat /\ source'[x] # 0
  BY <1>2, <1>3, Bounds DEF IngestionInv, Alone, Versions
<1>5. TypeOK'
  BY <1>2, <1>4 DEF IngestionInv, TypeOK, PipelineTypeOK
<1>6. Files'
  BY <1>2 DEF IngestionInv, Files, HonestStates
<1>7. Threads'
  BY <1>2 DEF IngestionInv, Threads, Doing, JobsOver
<1>8. Alone'
  <2> SUFFICES ASSUME NEW x \in Tables, x \notin overrun
               PROVE  /\ store.spine[x] <= source'[x]
                      /\ \A w \in Workers : act[w].pc # "free" /\ act[w].table = x =>
                                              job[w].version <= source'[x]
    BY <1>2, <1>4 DEF IngestionInv, Alone, Doing
  <2>1. store.spine[x] <= source[x] /\ source[x] <= source'[x]
        /\ \A w \in Workers : act[w].pc # "free" /\ act[w].table = x => job[w].version <= source[x]
    BY <1>4 DEF IngestionInv, Alone, Doing
  <2> QED
    BY <1>4, <2>1, Numbers
<1>9. Counts' /\ CountedMeansStored'
  BY <1>2 DEF IngestionInv, Counts, CountedMeansStored
<1> QED
  BY <1>2, <1>5, <1>6, <1>7, <1>8, <1>9 DEF IngestionInv

LEMMA StutterKeeps == IngestionInv /\ UNCHANGED vars => IngestionInv'
<1> SUFFICES ASSUME IngestionInv, UNCHANGED vars PROVE IngestionInv'
  OBVIOUS
<1>1. UNCHANGED <<source, disk, store, job, faults, act, tmp, overrun>> /\ wf' = wf
  BY DEF vars
<1>2. store' \in SoundStores /\ wf' \in Workflows /\ Counts'
  BY <1>1, TypeOKIs DEF IngestionInv, Counts
<1> QED
  BY <1>1, <1>2, Orchestrating

LEMMA NextKeeps == IngestionInv /\ [Next]_vars => IngestionInv'
<1> SUFFICES ASSUME IngestionInv, [Next]_vars PROVE IngestionInv'
  OBVIOUS
<1>1. CASE Orchestrate
  BY <1>1, PhasesKeep, InduceKeeps, ScheduleKeeps DEF Orchestrate
<1>2. CASE PassFails
  BY <1>2, PassFailsKeeps
<1>3. CASE Alter
  BY <1>3, AlterKeeps
<1>4. ASSUME NEW w \in Workers, Thread(w) PROVE IngestionInv'
  BY <1>4, WorkKeeps, OpenKeeps, WriteKeeps, ReplaceKeeps, ReportKeeps, FailureKeeps DEF Thread
<1>5. ASSUME NEW w \in Workers, Dies(w) \/ TimesOut(w) PROVE IngestionInv'
  BY <1>5, FailureKeeps, TimesOutKeeps
<1>6. CASE UNCHANGED vars
  BY <1>6, StutterKeeps
<1> QED
  BY <1>1, <1>2, <1>3, <1>4, <1>5, <1>6 DEF Next

-----------------------------------------------------------------------------
(* The theorems. *)

\* Whatever the threads of process_one_table do to the run state file they share - and
\* they may write it over each other, rename it under each other's hands, die in
\* between, or go on when they are given up - a version recorded in it is stored,
\* except at a table whose attempts overlapped; and two threads are never at work on
\* one table unless a timeout has cut one of them off.
THEOREM ThreadsAreHonest == Spec => []ThreadsInv
<1>1. IngestionInv => ThreadsInv
  <2> SUFFICES ASSUME IngestionInv PROVE ThreadsInv
    OBVIOUS
  <2>1. RecordedMeansStored
    BY DEF IngestionInv, Files, HonestStates, RecordedMeansStored
  <2>2. OneThreadPerTable
    <3> SUFFICES ASSUME NEW v \in Workers, NEW w \in Workers, v # w, ~Doing(v, "free"),
                        ~Doing(w, "free"), act[v].table = act[w].table
                 PROVE  act[v].table \in overrun /\ ~(Awaited(v) /\ Awaited(w))
      BY DEF OneThreadPerTable
    <3>1. act[v].table \in Tables
      BY Numbers
    <3>2. act[v].table \in overrun
      BY <3>1 DEF IngestionInv, Alone
    <3>3. ~(Awaited(v) /\ Awaited(w))
      BY DEF Awaited
    <3> QED
      BY <3>2, <3>3
  <2> QED
    BY <2>1, <2>2 DEF IngestionInv, ThreadsInv
<1> QED
  BY <1>1, InitInv, NextKeeps, PTL DEF Spec

\* A table that a workflow counts as built or unchanged has rows in the store, although
\* "unchanged" rests on a file that others overwrite.
THEOREM CountsAreHonest == Spec => []CountedMeansStored
<1>1. IngestionInv => CountedMeansStored
  BY DEF IngestionInv
<1> QED
  BY <1>1, InitInv, NextKeeps, PTL DEF Spec

\* The rows that the concurrent threads and the passes over all tables leave in the
\* store fit together as those of the command line do.
StoreIsSound == store \in SoundStores

THEOREM StoreFitsTogether == Spec => []StoreIsSound
<1>1. IngestionInv => StoreIsSound
  BY DEF IngestionInv, StoreIsSound
<1> QED
  BY <1>1, InitInv, NextKeeps, PTL DEF Spec
=============================================================================
