------------------------- MODULE PipelineRunProofs -------------------------
(***************************************************************************)
(* Proofs about the pipeline as the command line runs it: its run state    *)
(* never claims what the store does not hold, and the rows of the store    *)
(* fit together, whatever fails and wherever the process dies.             *)
(***************************************************************************)
EXTENDS PipelineRun, TablePipelineProofs

-----------------------------------------------------------------------------
(* The inductive invariant. *)

\* In every run: what is recorded, the rows, and the source are versions in that order.
VersionsInOrder ==
  \A t \in Tables : source[t] # 0 /\ disk[t] <= store.spine[t] /\ store.spine[t] <= source[t]

\* While a process runs: what it has recorded in memory, the rows, and the tables
\* as it introspected them; the job in hand is about a table as introspected.
RunInOrder ==
  run.phase # "idle" =>
    /\ \A t \in Tables : /\ run.snapshot[t] # 0 /\ run.snapshot[t] <= source[t]
                         /\ job[cli].memory[t] <= store.spine[t]
                         /\ store.spine[t] <= run.snapshot[t]
    /\ job[cli].pc # "idle" => job[cli].version = run.snapshot[job[cli].table]
    /\ job[cli].pc = "concept" => store.spine[job[cli].table] = job[cli].version
    /\ job[cli].pc = "unchanged" =>
         Alike(job[cli].table, job[cli].memory[job[cli].table], job[cli].version)

RunInv == TypeOK /\ store \in SoundStores /\ job[cli] \in JobsOver(store) /\ VersionsInOrder /\ RunInOrder

LEMMA InitInv == Init => RunInv
<1> SUFFICES ASSUME Init PROVE RunInv
  OBVIOUS
<1>1. disk \in [Tables -> Versions] /\ job = [w \in Workers |-> NoJob(disk)]
  BY PipelineAssumption DEF Init, PipelineInit, Versions
<1>2. job \in [Workers -> Jobs] /\ job[cli] \in JobsOver(store)
  BY <1>1, NoJobTyped, RunAssumption
<1>3. store \in SoundStores /\ store \in Stores
  BY EmptyIsSound DEF Init, PipelineInit, SoundStores
<1>4. TypeOK
  BY <1>1, <1>2, <1>3, Bounds
     DEF Init, PipelineInit, TypeOK, PipelineTypeOK, Idle, Phases, Versions
<1>5. VersionsInOrder /\ RunInOrder
  BY DEF Init, PipelineInit, EmptyStore, VersionsInOrder, RunInOrder, Idle
<1> QED
  BY <1>2, <1>3, <1>4, <1>5 DEF RunInv

LEMMA Numbers ==
  ASSUME RunInv
  PROVE  /\ source \in [Tables -> Nat] /\ disk \in [Tables -> Nat]
         /\ store.spine \in [Tables -> Nat] /\ run.snapshot \in [Tables -> Nat]
         /\ job[cli] \in Jobs /\ job[cli].memory \in [Tables -> Nat]
         /\ job[cli].table \in Tables /\ job[cli].version \in Nat
         /\ cli \in Workers
<1>1. Versions \subseteq Nat /\ cli \in Workers
  BY PipelineAssumption, RunAssumption DEF Versions
<1>2. /\ source \in [Tables -> Versions] /\ disk \in [Tables -> Versions]
      /\ store \in Stores /\ job[cli] \in Jobs /\ run.snapshot \in [Tables -> Versions]
  BY <1>1 DEF RunInv, TypeOK, PipelineTypeOK
<1> QED
  BY <1>1, <1>2 DEF Stores, Jobs

-----------------------------------------------------------------------------
(* The steps. *)

LEMMA StartKeeps == RunInv /\ Start => RunInv'
<1> SUFFICES ASSUME RunInv, Start PROVE RunInv'
  OBVIOUS
<1>1. disk \in [Tables -> Versions] /\ source \in [Tables -> Versions] /\ cli \in Workers
      /\ job \in [Workers -> Jobs]
  BY RunAssumption DEF RunInv, TypeOK, PipelineTypeOK
<1>2. /\ job'[cli] = NoJob(disk) /\ job' \in [Workers -> Jobs]
      /\ UNCHANGED <<source, disk, store, faults>>
  BY <1>1, NoJobTyped DEF Start
<1>3. /\ job'[cli] \in JobsOver(store') /\ job'[cli].memory = disk /\ job'[cli].pc = "idle"
  BY <1>1, <1>2, NoJobTyped
<1>4. run' = [Idle EXCEPT !.phase = "tables", !.snapshot = source, !.left = Tables]
  BY DEF Start
<1>5. TypeOK'
  BY <1>1, <1>2, <1>4 DEF RunInv, TypeOK, PipelineTypeOK, Idle, Phases
<1>6. VersionsInOrder' /\ RunInOrder'
  <2>1. run'.snapshot = source
    BY <1>4 DEF Idle
  <2> QED
    BY <1>2, <1>3, <2>1, Numbers DEF RunInv, VersionsInOrder, RunInOrder
<1> QED
  BY <1>2, <1>3, <1>5, <1>6 DEF RunInv

LEMMA TakeKeeps == ASSUME NEW t \in Tables PROVE RunInv /\ Take(t) => RunInv'
<1> SUFFICES ASSUME RunInv, Take(t) PROVE RunInv'
  OBVIOUS
<1>1. /\ run' = [run EXCEPT !.left = @ \ {t}] /\ run.phase = "tables"
      /\ Begin(cli, t, run.snapshot[t], job[cli].memory)
  BY DEF Take
<1>2. /\ job[cli].memory \in [Tables -> Versions] /\ run.snapshot[t] \in Versions \ {0}
      /\ job \in [Workers -> Jobs] /\ cli \in Workers
  BY <1>1, RunAssumption DEF RunInv, TypeOK, PipelineTypeOK, Jobs, RunInOrder
<1>3. UNCHANGED <<source, disk, store, faults>>
  BY <1>1 DEF Begin
<1>4. PICK k \in JobsOver(store) :
        /\ job' = [job EXCEPT ![cli] = k]
        /\ k.table = t /\ k.version = run.snapshot[t] /\ k.memory = job[cli].memory
        /\ k.pc \in {"unchanged", "profile", "protect", "relate"}
        /\ k.pc = "unchanged" => Alike(t, k.memory[t], k.version)
  BY <1>1, <1>2, Begun
<1>5. k \in Jobs /\ job'[cli] = k /\ k \in JobsOver(store')
  BY <1>2, <1>3, <1>4 DEF JobsOver
<1>8. TypeOK'
  BY <1>1, <1>2, <1>3, <1>4, <1>5 DEF RunInv, TypeOK, PipelineTypeOK
<1>9. VersionsInOrder' /\ RunInOrder'
  BY <1>1, <1>3, <1>4, <1>5 DEF RunInv, TypeOK, VersionsInOrder, RunInOrder
<1> QED
  BY <1>3, <1>5, <1>8, <1>9 DEF RunInv

LEMMA WorkKeeps == RunInv /\ Work => RunInv'
<1> SUFFICES ASSUME RunInv, Work PROVE RunInv'
  OBVIOUS
<1> DEFINE j == job[cli]
<1>1. run.phase = "tables" /\ UNCHANGED run /\ cli \in Workers
  BY RunAssumption DEF Work
<1>2. Advanced(cli)
  BY <1>1, ProcessAdvances DEF RunInv, TypeOK, Work
<1>3. PICK k \in JobsOver(store') :
        job' = [job EXCEPT ![cli] = k] /\ Advances(j, store, k, store')
  BY <1>2 DEF Advanced
<1>4. k \in Jobs /\ job'[cli] = k /\ job' \in [Workers -> Jobs]
  BY <1>1, <1>3 DEF RunInv, TypeOK, PipelineTypeOK, JobsOver
<1>5. TypeOK'
  BY <1>1, <1>2, <1>4 DEF RunInv, TypeOK, PipelineTypeOK, Advanced, SoundStores
<1>6. j.pc # "idle"
  BY DEF Work, Process, Profile, WriteSpine, WriteAggregates, Protect, Relate, Cause,
         WriteSamples, Annotate, WriteMdl, WriteConcept, At
<1>7. /\ j.version = run.snapshot[j.table]
      /\ \A t \in Tables : j.memory[t] <= store.spine[t] /\ store.spine[t] <= run.snapshot[t]
                           /\ run.snapshot[t] <= source[t] /\ run.snapshot[t] # 0
      /\ j.pc = "concept" => store.spine[j.table] = j.version
  BY <1>1, <1>6 DEF RunInv, RunInOrder
<1>8. /\ store.spine \in [Tables -> Nat] /\ store'.spine \in [Tables -> Nat]
      /\ run.snapshot \in [Tables -> Nat] /\ source \in [Tables -> Nat] /\ disk \in [Tables -> Nat]
      /\ j.memory \in [Tables -> Nat] /\ j.table \in Tables /\ j.version \in Nat
  BY <1>2, Numbers DEF Advanced, SoundStores, Stores
<1>9. \A t \in Tables : /\ store.spine[t] <= store'.spine[t]
                        /\ store'.spine[t] <= run.snapshot[t]
  BY <1>3, <1>7, <1>8 DEF Advances
<1>10. store'.spine[j.table] = j.version \/ store'.spine = store.spine
  BY <1>3, <1>8 DEF Advances
<1>11. \A t \in Tables : k.memory[t] <= store'.spine[t]
  BY <1>3, <1>7, <1>8, <1>9, <1>10 DEF Advances
<1>12. k.pc # "unchanged"
  BY <1>3 DEF Advances
<1>13. VersionsInOrder'
  BY <1>2, <1>7, <1>8, <1>9 DEF RunInv, VersionsInOrder, Advanced
<1>14. RunInOrder'
  BY <1>1, <1>2, <1>3, <1>4, <1>7, <1>9, <1>11, <1>12 DEF RunInOrder, Advanced, Advances
<1> QED
  BY <1>2, <1>3, <1>4, <1>5, <1>13, <1>14 DEF RunInv, Advanced

\* The values of run.
Runs == [phase : Phases, snapshot : [Tables -> Versions], left : SUBSET Tables,
         built : [Tables -> Concepts \union {NoConcept}],
         relationships : SUBSET Relationship,
         index : [Tables -> Concepts \union {NoConcept}], clusters : SUBSET Concepts]

LEMMA IdleTyped == Idle \in Runs
BY PipelineAssumption DEF Idle, Runs, Phases, Versions

LEMMA CollectKeeps == RunInv /\ Collect => RunInv'
<1> SUFFICES ASSUME RunInv, Collect PROVE RunInv'
  OBVIOUS
<1> DEFINE j == job[cli]
<1>1. /\ run.phase = "tables" /\ UNCHANGED <<source, disk, store, faults>>
      /\ job' = [job EXCEPT ![cli] = NoJob(j.memory)]
  BY DEF Collect
<1>2. /\ j \in Jobs /\ j.memory \in [Tables -> Versions] /\ job \in [Workers -> Jobs]
      /\ cli \in Workers /\ run \in Runs
  BY RunAssumption DEF RunInv, TypeOK, PipelineTypeOK, Jobs, Runs
<1>3. /\ job' \in [Workers -> Jobs] /\ job'[cli] \in JobsOver(store')
      /\ job'[cli].memory = j.memory /\ job'[cli].pc = "idle"
  BY <1>1, <1>2, NoJobTyped
<1> DEFINE b == IF j.pc = "done" THEN j.concept ELSE run.built[j.table]
           rs == {[from |-> j.table, column |-> i.column, to |-> i.to] : i \in j.captured}
<1>4. run' = [run EXCEPT !.built[j.table] = b, !.relationships = @ \union rs,
                         !.index[j.table] = j.index]
  BY <1>2 DEF Collect, Runs
<1>5. /\ b \in Concepts \union {NoConcept} /\ j.index \in Concepts \union {NoConcept}
      /\ j.table \in Tables
  BY <1>2 DEF Jobs, Runs
<1>6. rs \in SUBSET Relationship
  BY <1>2 DEF Jobs, Guess, Relationship
<1> HIDE DEF b, rs
<1>7. run' \in Runs /\ run'.phase = run.phase /\ run'.snapshot = run.snapshot
  BY <1>2, <1>4, <1>5, <1>6 DEF Runs
<1>8. TypeOK'
  BY <1>1, <1>3, <1>7 DEF RunInv, TypeOK, PipelineTypeOK, Runs
<1>9. VersionsInOrder' /\ RunInOrder'
  BY <1>1, <1>3, <1>7 DEF RunInv, VersionsInOrder, RunInOrder
<1> QED
  BY <1>1, <1>3, <1>8, <1>9 DEF RunInv

\* A step of the passes over all tables, or the end of a process.
LEMMA PassKeeps ==
  ASSUME RunInv, UNCHANGED <<source, disk, job>>, Fault \/ UNCHANGED faults,
         store' \in SoundStores, store'.spine = store.spine, store'.profiled = store.profiled,
         run' \in Runs,
         run' = Idle \/ (run.phase # "idle" /\ run'.snapshot = run.snapshot)
  PROVE  RunInv'
<1>1. faults' \in 0 .. MaxFaults
  BY FaultCounted DEF RunInv, TypeOK
<1>2. job'[cli] \in JobsOver(store')
  BY DEF RunInv, JobsOver
<1>3. TypeOK'
  BY <1>1 DEF RunInv, TypeOK, PipelineTypeOK, Runs, SoundStores
<1>4. VersionsInOrder' /\ RunInOrder'
  BY DEF RunInv, VersionsInOrder, RunInOrder, Idle
<1> QED
  BY <1>2, <1>3, <1>4 DEF RunInv

LEMMA CrossClusterKeeps ==
  ASSUME NEW c \in Concepts, RunInv, CrossCluster(c)
  PROVE  RunInv'
<1>1. PICK ms \in SUBSET Members(c) : \E found \in SUBSET [asset : ms, link : Links] :
        /\ store' = store \/ store' = UpsertCandidates(store, found)
        /\ Fault \/ UNCHANGED faults
  BY Zenon DEF CrossCluster
<1>2. PICK found \in SUBSET [asset : ms, link : Links] :
        /\ store' = store \/ store' = UpsertCandidates(store, found)
        /\ Fault \/ UNCHANGED faults
  BY <1>1
<1>3. found \in SUBSET Candidates
  BY DEF Members, Candidates
<1>4. store' \in SoundStores /\ store'.spine = store.spine /\ store'.profiled = store.profiled
  BY <1>2, <1>3, CandidatesStored DEF RunInv
<1>5. run' \in Runs /\ run.phase # "idle" /\ run'.snapshot = run.snapshot
  BY DEF CrossCluster, RunInv, TypeOK, Runs
<1>6. UNCHANGED <<source, disk, job>>
  BY DEF CrossCluster
<1> QED
  BY <1>2, <1>4, <1>5, <1>6, PassKeeps

\* The types that are induced are made of predicates and of concepts.
LEMMA InducedTyped ==
  ASSUME RunInv, NEW p \in Predicates
  PROVE  /\ InducedType(p) \in RelationTypes
         /\ Attachments(InducedType(p)) \in SUBSET Attachment(InducedType(p))
<1>1. ASSUME NEW kind PROVE Dominant(kind) \in Kinds
  BY DEF Dominant, Kinds
<1>2. InducedType(p) \in RelationTypes
  BY <1>1 DEF InducedType, RelationTypes
<1>3. run.relationships \in SUBSET Relationship
  BY DEF RunInv, TypeOK
<1>4. ASSUME NEW type PROVE Attachments(type) \in SUBSET Attachment(type)
  BY <1>3 DEF Attachments, Attachment, Relationship
<1> QED
  BY <1>2, <1>4

LEMMA InduceKeeps ==
  ASSUME NEW p \in Predicates, RunInv, Induce(p)
  PROVE  RunInv'
<1>1. store' \in SoundStores /\ store'.spine = store.spine /\ store'.profiled = store.profiled
  <2> DEFINE type == InducedType(p)
  <2>1. store' = UpsertRelationSchema(store, {type}, Attachments(type)) /\ store \in SoundStores
    BY DEF Induce, RunInv
  <2>2. type \in RelationTypes /\ Attachments(type) \in SUBSET Attachment(type)
    BY InducedTyped
  <2> HIDE DEF type
  <2> QED
    BY <2>1, <2>2, SchemaStored
<1>2. run' \in Runs /\ run.phase # "idle" /\ run'.snapshot = run.snapshot
  BY DEF Induce, RunInv, TypeOK, Runs, Phases
<1>3. UNCHANGED <<source, disk, job, faults>>
  BY DEF Induce
<1> QED
  BY <1>1, <1>2, <1>3, PassKeeps

LEMMA PhasesKeep == RunInv /\ (EndTables \/ EndCross \/ SkipInduction) => RunInv'
<1> SUFFICES ASSUME RunInv, EndTables \/ EndCross \/ SkipInduction PROVE RunInv'
  OBVIOUS
<1>1. run' \in Runs /\ run.phase # "idle" /\ run'.snapshot = run.snapshot
  <2>1. run \in Runs
    BY DEF RunInv, TypeOK, Runs
  <2>2. CASE EndTables
    <3> DEFINE clusters == {c \in Concepts : Cardinality(Members(c)) >= 2}
    <3>1. clusters \in SUBSET Concepts
      OBVIOUS
    <3>2. run' = [run EXCEPT !.phase = "cross", !.clusters = clusters] /\ run.phase = "tables"
      BY <2>2 DEF EndTables
    <3> HIDE DEF clusters
    <3> QED
      BY <2>1, <3>1, <3>2 DEF Runs, Phases
  <2>3. CASE EndCross
    BY <2>1, <2>3 DEF EndCross, Runs, Phases
  <2>4. CASE SkipInduction
    BY <2>1, <2>4 DEF SkipInduction, Runs, Phases
  <2> QED
    BY <2>2, <2>3, <2>4
<1>2. UNCHANGED <<source, disk, store, job, faults>>
  BY DEF EndTables, EndCross, SkipInduction
<1>3. store' \in SoundStores
  BY <1>2 DEF RunInv
<1> QED
  BY <1>1, <1>2, <1>3, PassKeeps

LEMMA DyingKeeps == RunInv /\ (InduceRaises \/ Crash) => RunInv'
<1> SUFFICES ASSUME RunInv, InduceRaises \/ Crash PROVE RunInv'
  OBVIOUS
<1>1. UNCHANGED <<source, disk, store, job>> /\ Fault /\ run' = Idle
  BY DEF InduceRaises, Crash
<1>2. store' \in SoundStores
  BY <1>1 DEF RunInv
<1> QED
  BY <1>1, <1>2, IdleTyped, PassKeeps

LEMMA FlushKeeps == RunInv /\ Flush => RunInv'
<1> SUFFICES ASSUME RunInv, Flush PROVE RunInv'
  OBVIOUS
<1>1. disk' = job[cli].memory /\ run' = Idle /\ UNCHANGED <<source, store, job, faults>>
      /\ run.phase # "idle"
  BY DEF Flush
<1>2. job[cli].memory \in [Tables -> Versions]
  BY RunAssumption DEF RunInv, TypeOK, PipelineTypeOK, Jobs
<1>3. TypeOK'
  BY <1>1, <1>2, IdleTyped DEF RunInv, TypeOK, PipelineTypeOK, Runs
<1>4. VersionsInOrder' /\ RunInOrder'
  BY <1>1 DEF RunInv, VersionsInOrder, RunInOrder, Idle
<1> QED
  BY <1>1, <1>3, <1>4 DEF RunInv

LEMMA AlterKeeps == RunInv /\ Alter => RunInv'
<1> SUFFICES ASSUME RunInv, Alter PROVE RunInv'
  OBVIOUS
<1>1. PICK t \in Tables : Change(t) /\ UNCHANGED run
  BY DEF Alter
<1>2. source' = [source EXCEPT ![t] = source[t] + 1] /\ source[t] < MaxVersion
      /\ UNCHANGED <<disk, store, job, faults, run>>
  BY <1>1 DEF Change
<1>3. source \in [Tables -> Versions]
  BY DEF RunInv, TypeOK, PipelineTypeOK
<1>4. source' \in [Tables -> Versions] /\ \A x \in Tables : source[x] <= source'[x] /\ source'[x] \in Nat
  BY <1>2, <1>3, Bounds DEF Versions
<1>5. TypeOK'
  BY <1>2, <1>4 DEF RunInv, TypeOK, PipelineTypeOK
<1>6. VersionsInOrder'
  BY <1>2, <1>4, Numbers DEF RunInv, VersionsInOrder
<1>7. RunInOrder'
  BY <1>2, <1>4, Numbers DEF RunInv, RunInOrder
<1> QED
  BY <1>2, <1>5, <1>6, <1>7 DEF RunInv

LEMMA StutterKeeps == RunInv /\ UNCHANGED vars => RunInv'
BY DEF RunInv, TypeOK, PipelineTypeOK, VersionsInOrder, RunInOrder, vars, JobsOver

LEMMA NextKeeps == RunInv /\ [Next]_vars => RunInv'
<1> SUFFICES ASSUME RunInv, [Next]_vars PROVE RunInv'
  OBVIOUS
<1>1. CASE Step
  BY <1>1, StartKeeps, TakeKeeps, WorkKeeps, CollectKeeps, PhasesKeep, CrossClusterKeeps,
     InduceKeeps, FlushKeeps DEF Step
<1>2. CASE InduceRaises \/ Crash
  BY <1>2, DyingKeeps
<1>3. CASE Alter
  BY <1>3, AlterKeeps
<1>4. CASE UNCHANGED vars
  BY <1>4, StutterKeeps
<1> QED
  BY <1>1, <1>2, <1>3, <1>4 DEF Next

-----------------------------------------------------------------------------
(* The theorems. *)

\* A version is recorded on disk only when the store has the rows of that version or
\* of a later one, wherever a run fails, is killed, or meets a changing source.
THEOREM RecordIsHonest == Spec => []RecordedMeansStored
<1>1. RunInv => RecordedMeansStored
  BY DEF RunInv, VersionsInOrder, RecordedMeansStored
<1> QED
  BY <1>1, InitInv, NextKeeps, PTL DEF Spec

\* The store is well typed, every row that has an event was committed with the task
\* of the event, predicates are those of stored types and statistics those of stored
\* tables, after any sequence of runs, faults and crashes.
THEOREM StoreFitsTogether == Spec => []StoreInv
<1>1. RunInv => StoreInv
  BY DEF RunInv, StoreInv, SoundStores, Announced, Typed, Rooted, EventPerRow,
         PredicatesAreTyped, StatsHaveSpine
<1> QED
  BY <1>1, InitInv, NextKeeps, PTL DEF Spec

\* A table that a run skips as unchanged has, at that moment, rows as the run has just
\* introspected it, unless an earlier run has stored rows in between and died before it
\* recorded them: the record, the rows and the table are then of three versions, the
\* first like the last.
UnchangedIsStored ==
  LET t == job[cli].table version == run.snapshot[t] recorded == job[cli].memory[t] IN
  run.phase # "idle" /\ job[cli].pc = "unchanged" =>
    \/ Alike(t, store.spine[t], version)
    \/ /\ recorded < store.spine[t] /\ store.spine[t] < version
       /\ Alike(t, recorded, version)

THEOREM SkippedIsStored == Spec => []UnchangedIsStored
<1>1. RunInv => UnchangedIsStored
  <2> DEFINE t == job[cli].table
             version == run.snapshot[t]
             recorded == job[cli].memory[t]
  <2> SUFFICES ASSUME RunInv, run.phase # "idle", job[cli].pc = "unchanged"
               PROVE  \/ Alike(t, store.spine[t], version)
                      \/ /\ recorded < store.spine[t] /\ store.spine[t] < version
                         /\ Alike(t, recorded, version)
    BY DEF UnchangedIsStored
  <2>1. /\ Alike(t, recorded, version) /\ t \in Tables
        /\ recorded <= store.spine[t] /\ store.spine[t] <= version
    BY Numbers DEF RunInv, RunInOrder
  <2>2. recorded \in Nat /\ store.spine[t] \in Nat /\ version \in Nat
    BY <2>1, Numbers
  <2>3. CASE store.spine[t] = recorded \/ store.spine[t] = version
    BY <2>1, <2>3 DEF Alike
  <2>4. CASE store.spine[t] # recorded /\ store.spine[t] # version
    <3>1. recorded < store.spine[t] /\ store.spine[t] < version
      BY <2>1, <2>2, <2>4
    <3> QED
      BY <2>1, <3>1
  <2> QED
    BY <2>3, <2>4
<1> QED
  BY <1>1, InitInv, NextKeeps, PTL DEF Spec
=============================================================================
