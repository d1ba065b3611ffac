------------------------ MODULE TablePipelineProofs ------------------------
(***************************************************************************)
(* What the steps of _process_table do, for any store and any job: the     *)
(* lemmas that the proofs about the two drivers, PipelineRunProofs and     *)
(* IngestionProofs, rest on.                                               *)
(***************************************************************************)
EXTENDS TablePipeline, TLAPS

-----------------------------------------------------------------------------
(* Rows that fit together: EventPerRow, PredicatesAreTyped and StatsHaveSpine *)
(* of PipelineRun, said of any store.                                         *)

Announced(st) ==
  /\ \A t \in Tables : /\ st.hints[t] # NoHint => <<"protection", t>> \in st.tasks
                       /\ st.spine[t] # 0 => {"reindex", "fields"} \X {t} \subseteq st.tasks
  /\ {"causal"} \X st.candidates \subseteq st.tasks
  /\ {"relation"} \X st.types \subseteq st.tasks
Typed(st) ==
  \A e \in st.edges :
    e.predicate # NoPredicate => \E type \in st.types : type.predicate = e.predicate
Rooted(st) ==
  \A t \in Tables :
    /\ t \in st.profiled => st.spine[t] # 0
    /\ st.rows[t] \union st.freqs[t] # {} => t \in st.profiled
SoundStores == {st \in Stores : Announced(st) /\ Typed(st) /\ Rooted(st)}

\* What a transaction may never take away.
Grows(st, new) ==
  /\ st.profiled \subseteq new.profiled
  /\ \A t \in Tables : st.spine[t] # 0 => new.spine[t] # 0

LEMMA Bounds == Tables # {} /\ MaxVersion \in Nat \ {0} /\ MaxFaults \in Nat
BY PipelineAssumption

LEMMA EmptyIsSound == EmptyStore \in SoundStores
BY DEF EmptyStore, SoundStores, Stores, Hints, NoHint, Announced, Typed, Rooted

-----------------------------------------------------------------------------
(* The transactions. *)

LEMMA TaskNames ==
  /\ \A t \in Tables : /\ <<"reindex", t>> \in Tasks /\ <<"fields", t>> \in Tasks
                       /\ <<"annotation", t>> \in Tasks /\ <<"protection", t>> \in Tasks
  /\ \A cs \in SUBSET Candidates : {"causal"} \X cs \subseteq Tasks
  /\ \A type \in RelationTypes : {"relation"} \X {type} \subseteq Tasks
BY DEF Tasks

\* The task of an event adds nothing but itself.
LEMMA EnqueueKeeps ==
  ASSUME NEW st \in Stores, NEW ts \in SUBSET Tasks
  PROVE  /\ Enqueue(st, ts) \in Stores
         /\ Enqueue(st, ts) = [st EXCEPT !.tasks = st.tasks \union ts]
BY DEF Enqueue, Stores

LEMMA WithEdgesKeeps ==
  ASSUME NEW st \in Stores, NEW f \in Tables, NEW targets \in SUBSET Tables,
         NEW evidence \in {"declared_fk", "inferred_relationship"}
  PROVE  \E new \in SUBSET Edges :
           /\ WithEdges(st, f, targets, evidence) = [st EXCEPT !.edges = st.edges \union new]
           /\ \A e \in new : e.predicate = NoPredicate
<1> DEFINE new == {[from |-> f, to |-> t, evidence |-> evidence, predicate |-> NoPredicate] :
                     t \in {x \in targets : ~HasEdge(st, f, x)}}
<1>1. new \in SUBSET Edges
  BY DEF Edges
<1>2. WithEdges(st, f, targets, evidence) = [st EXCEPT !.edges = st.edges \union new]
  BY DEF WithEdges, Stores
<1>3. \A e \in new : e.predicate = NoPredicate
  OBVIOUS
<1> HIDE DEF new
<1> QED
  BY <1>1, <1>2, <1>3

\* write_mdl: the rows of the table describe the version given, and their tasks exist.
LEMMA MdlStored ==
  ASSUME NEW st \in SoundStores, NEW t \in Tables, NEW version \in Nat \ {0},
         NEW references \in SUBSET Tables, NEW concept \in Concepts \union {NoConcept}
  PROVE  LET new == UpsertMdl(st, t, version, references, concept) IN
           /\ new \in SoundStores
           /\ new.spine = [st.spine EXCEPT ![t] = version]
           /\ new.profiled = st.profiled
<1> DEFINE c == IF st.spine[t] = 0 THEN concept ELSE st.concept[t]
           s1 == [st EXCEPT !.root = TRUE, !.tasks = @ \union {<<"reindex", t>>, <<"fields", t>>},
                            !.concept[t] = c, !.spine[t] = version]
<1>1. st \in Stores
  BY DEF SoundStores
<1>2. s1 \in Stores
  <2>1. st.tasks \union {<<"reindex", t>>, <<"fields", t>>} \in SUBSET Tasks
    <3>1. st.tasks \in SUBSET Tasks
      BY <1>1 DEF Stores
    <3>2. <<"reindex", t>> \in Tasks /\ <<"fields", t>> \in Tasks
      BY TaskNames
    <3> QED
      BY <3>1, <3>2, Zenon
  <2>2. c \in Concepts \union {NoConcept}
    BY <1>1 DEF Stores
  <2> HIDE DEF c
  <2> QED
    BY <1>1, <2>1, <2>2 DEF Stores
<1>3. _upsert_columns(_upsert_table_ext(Enqueue([st EXCEPT !.root = TRUE], {<<"reindex", t>>}),
                                        t, concept), t, version) = s1
  BY <1>1, ZenonT(40) DEF _upsert_columns, _upsert_table_ext, Enqueue, Stores
<1>4. UpsertMdl(st, t, version, references, concept) = WithEdges(s1, t, references, "declared_fk")
  BY <1>3 DEF UpsertMdl, _upsert_model
<1>5. PICK new \in SUBSET Edges :
        /\ WithEdges(s1, t, references, "declared_fk") = [s1 EXCEPT !.edges = s1.edges \union new]
        /\ \A e \in new : e.predicate = NoPredicate
  <2> HIDE DEF s1
  <2> QED
    BY <1>2, WithEdgesKeeps, ZenonT(40)
<1> DEFINE s2 == [s1 EXCEPT !.edges = s1.edges \union new]
<1>6. /\ s2 \in Stores
      /\ s2.spine = [st.spine EXCEPT ![t] = version]
      /\ s2.profiled = st.profiled /\ s2.rows = st.rows /\ s2.freqs = st.freqs
      /\ s2.types = st.types /\ s2.hints = st.hints /\ s2.candidates = st.candidates
      /\ s2.edges = st.edges \union new
      /\ s2.tasks = st.tasks \union {<<"reindex", t>>, <<"fields", t>>}
  BY <1>1, <1>2, ZenonT(40) DEF Stores
<1> HIDE DEF s1, s2
<1>7. Announced(s2)
  <2>1. Announced(st) /\ st.spine \in [Tables -> Nat]
    BY DEF SoundStores, Stores
  <2> QED
    BY <1>6, <2>1 DEF Announced
<1>8. Typed(s2)
  BY <1>5, <1>6 DEF Typed, SoundStores
<1>9. Rooted(s2)
  <2>1. Rooted(st) /\ st.spine \in [Tables -> Nat]
    BY DEF SoundStores, Stores
  <2> QED
    BY <1>6, <2>1 DEF Rooted
<1> QED
  BY <1>4, <1>5, <1>6, <1>7, <1>8, <1>9 DEF SoundStores, s2

LEMMA AnnotationsStored ==
  ASSUME NEW st \in SoundStores, NEW t \in Tables, NEW concept \in Concepts \union {NoConcept}
  PROVE  LET new == WriteAnnotations(st, t, concept) IN
           new \in SoundStores /\ new.spine = st.spine /\ new.profiled = st.profiled
<1> DEFINE new == [st EXCEPT !.concept[t] = concept, !.tasks = @ \union {<<"annotation", t>>}]
<1>1. WriteAnnotations(st, t, concept) = new
  BY DEF WriteAnnotations, Enqueue, SoundStores, Stores
<1>2. new \in Stores
  <2>1. st.tasks \union {<<"annotation", t>>} \in SUBSET Tasks
    <3>1. st.tasks \in SUBSET Tasks
      BY DEF SoundStores, Stores
    <3>2. <<"annotation", t>> \in Tasks
      BY TaskNames
    <3> QED
      BY <3>1, <3>2, Zenon
  <2> QED
    BY <2>1 DEF SoundStores, Stores
<1>3. Announced(new)
  BY DEF SoundStores, Stores, Announced
<1>4. Typed(new) /\ Rooted(new)
  BY DEF SoundStores, Stores, Typed, Rooted
<1> QED
  BY <1>1, <1>2, <1>3, <1>4 DEF SoundStores, Stores

LEMMA InferredStored ==
  ASSUME NEW st \in SoundStores, NEW t \in Tables, NEW items \in SUBSET Guess
  PROVE  LET new == UpsertInferred(st, t, items) IN
           new \in SoundStores /\ new.spine = st.spine /\ new.profiled = st.profiled
<1> DEFINE targets == {i.to : i \in items}
<1>1. targets \in SUBSET Tables
  BY DEF Guess
<1>2. st \in Stores
  BY DEF SoundStores
<1> HIDE DEF targets
<1>3. PICK es \in SUBSET Edges :
        /\ WithEdges(st, t, targets, "inferred_relationship") = [st EXCEPT !.edges = st.edges \union es]
        /\ \A e \in es : e.predicate = NoPredicate
  <2> DEFINE evidence == "inferred_relationship"
  <2>1. evidence \in {"declared_fk", "inferred_relationship"}
    OBVIOUS
  <2> HIDE DEF evidence
  <2>2. \E es \in SUBSET Edges :
          /\ WithEdges(st, t, targets, evidence) = [st EXCEPT !.edges = st.edges \union es]
          /\ \A e \in es : e.predicate = NoPredicate
    BY <1>1, <1>2, <2>1, WithEdgesKeeps, SMTT(30)
  <2> QED
    BY <2>2 DEF evidence
<1>4. UpsertInferred(st, t, items) = [st EXCEPT !.edges = st.edges \union es]
  BY <1>3 DEF UpsertInferred, targets
<1> DEFINE new == [st EXCEPT !.edges = st.edges \union es]
<1>5. new \in Stores /\ Announced(new) /\ Rooted(new)
  BY DEF SoundStores, Stores, Announced, Rooted
<1>6. Typed(new)
  BY <1>3 DEF SoundStores, Stores, Typed
<1> QED
  BY <1>4, <1>5, <1>6 DEF SoundStores, Stores

LEMMA HintStored ==
  ASSUME NEW st \in SoundStores, NEW t \in Tables, NEW hint \in Hints
  PROVE  LET new == UpsertHint(st, t, hint) IN
           new \in SoundStores /\ new.spine = st.spine /\ new.profiled = st.profiled
<1> DEFINE new == [st EXCEPT !.hints[t] = hint, !.tasks = @ \union {<<"protection", t>>}]
<1>1. UpsertHint(st, t, hint) = new
  BY DEF UpsertHint, Enqueue, SoundStores, Stores
<1>2. new \in Stores
  <2>1. st.tasks \union {<<"protection", t>>} \in SUBSET Tasks
    <3>1. st.tasks \in SUBSET Tasks
      BY DEF SoundStores, Stores
    <3>2. <<"protection", t>> \in Tasks
      BY TaskNames
    <3> QED
      BY <3>1, <3>2, Zenon
  <2> QED
    BY <2>1 DEF SoundStores, Stores
<1>3. Announced(new)
  BY DEF SoundStores, Stores, Announced
<1>4. Typed(new) /\ Rooted(new)
  BY DEF SoundStores, Stores, Typed, Rooted
<1> QED
  BY <1>1, <1>2, <1>3, <1>4 DEF SoundStores, Stores

LEMMA CandidatesStored ==
  ASSUME NEW st \in SoundStores, NEW cs \in SUBSET Candidates
  PROVE  LET new == UpsertCandidates(st, cs) IN
           new \in SoundStores /\ new.spine = st.spine /\ new.profiled = st.profiled
<1> DEFINE new == [st EXCEPT !.candidates = st.candidates \union cs,
                             !.tasks = st.tasks \union ({"causal"} \X cs)]
<1>1. UpsertCandidates(st, cs) = new
  BY DEF UpsertCandidates, Enqueue, SoundStores, Stores
<1>2. new \in Stores
  BY TaskNames DEF SoundStores, Stores
<1>3. Announced(new)
  BY DEF SoundStores, Stores, Announced
<1>4. Typed(new) /\ Rooted(new)
  BY DEF SoundStores, Stores, Typed, Rooted
<1> QED
  BY <1>1, <1>2, <1>3, <1>4 DEF SoundStores, Stores

LEMMA AggregatesStored ==
  ASSUME NEW st \in SoundStores, NEW t \in Tables, st.spine[t] # 0
  PROVE  LET new == UpsertAggregates(st, t) IN
           new \in SoundStores /\ new.spine = st.spine /\ new.profiled = st.profiled \union {t}
BY DEF UpsertAggregates, SoundStores, Stores, Announced, Typed, Rooted

LEMMA SamplesStored ==
  ASSUME NEW st \in SoundStores, NEW t \in st.profiled, NEW safe \in SUBSET Columns
  PROVE  LET new == AttachSamples(st, t, safe) IN
           new \in SoundStores /\ new.spine = st.spine /\ new.profiled = st.profiled
<1>1. t \in Tables
  BY DEF SoundStores, Stores
<1> QED
  BY <1>1 DEF AttachSamples, SoundStores, Stores, Announced, Typed, Rooted

\* write_relation_schema: an edge is given the predicate of a type that is stored with it.
Attachment(type) == [from : Tables, to : Tables, predicate : {type.predicate}]

LEMMA SchemaStored ==
  ASSUME NEW st \in SoundStores, NEW type \in RelationTypes,
         NEW attachments \in SUBSET Attachment(type)
  PROVE  LET new == UpsertRelationSchema(st, {type}, attachments) IN
           new \in SoundStores /\ new.spine = st.spine /\ new.profiled = st.profiled
<1> DEFINE s1 == [st EXCEPT !.types = st.types \union {type},
                            !.tasks = st.tasks \union ({"relation"} \X {type})]
           Attached(e) == {a \in attachments : <<a.from, a.to>> = Path(e)}
           With(e) == IF Attached(e) = {} THEN e
                      ELSE [e EXCEPT !.predicate = (CHOOSE a \in Attached(e) : TRUE).predicate]
           es == {With(e) : e \in st.edges}
           new == [s1 EXCEPT !.edges = es]
<1>1. UpsertRelationSchema(st, {type}, attachments) = new
  <2>1. Enqueue(upsert_relation_types(st, {type}), {"relation"} \X {type}) = s1
    BY DEF Enqueue, upsert_relation_types, SoundStores, Stores
  <2>2. attach_predicates(s1, attachments) = new
    BY DEF attach_predicates, SoundStores, Stores
  <2> QED
    BY <2>1, <2>2 DEF UpsertRelationSchema
<1>2. ASSUME NEW e \in st.edges
      PROVE  With(e) \in Edges /\ (With(e).predicate = e.predicate \/ With(e).predicate = type.predicate)
  <2>1. e \in Edges
    BY DEF SoundStores, Stores
  <2>2. CASE Attached(e) = {}
    BY <2>1, <2>2
  <2>3. CASE Attached(e) # {}
    <3>1. PICK a \in Attached(e) : a = CHOOSE x \in Attached(e) : TRUE
      BY <2>3
    <3>2. a.predicate = type.predicate /\ type.predicate \in Predicates
      BY <3>1 DEF Attachment, RelationTypes
    <3>3. With(e) = [e EXCEPT !.predicate = a.predicate]
      BY <2>3, <3>1
    <3> QED
      BY <2>1, <3>2, <3>3 DEF Edges
  <2> QED
    BY <2>2, <2>3
<1> HIDE DEF With
<1>3. es \in SUBSET Edges
  BY <1>2
<1>4. new \in Stores
  BY <1>3, TaskNames DEF SoundStores, Stores
<1>5. Announced(new) /\ Rooted(new)
  BY DEF SoundStores, Stores, Announced, Rooted
<1>6. Typed(new)
  <2> SUFFICES ASSUME NEW e \in st.edges, With(e).predicate # NoPredicate
               PROVE  \E x \in st.types \union {type} : x.predicate = With(e).predicate
    BY DEF Typed, SoundStores, Stores
  <2> QED
    BY <1>2 DEF Typed, SoundStores
<1> QED
  BY <1>1, <1>4, <1>5, <1>6 DEF SoundStores, Stores
-----------------------------------------------------------------------------
(* The steps of a worker. *)

\* What a worker that has come to j.pc knows of the store.
JobsOver(st) ==
  {j \in Jobs :
     /\ j.pc # "idle" => j.version # 0
     /\ j.pc = "profile" => ~j.bundle
     /\ j.pc \in {"aggregate", "concept", "done"} => st.spine[j.table] # 0
     /\ j.pc = "samples" => j.bundle
     /\ j.bundle /\ j.pc \in {"protect", "relate", "cause", "samples"} => j.table \in st.profiled
     /\ j.pc = "unchanged" => j.memory[j.table] # 0}

\* What a step may do to the version a row describes, and to the one recorded.
Advances(j, st, k, new) ==
  /\ k.table = j.table /\ k.version = j.version /\ k.pc \notin {"idle", "unchanged"}
  /\ new.spine = st.spine \/ new.spine = [st.spine EXCEPT ![j.table] = j.version]
  /\ k.pc = "concept" => new.spine[j.table] = j.version
  /\ \/ k.memory = j.memory
     \/ /\ k.memory = [j.memory EXCEPT ![j.table] = j.version] /\ k.pc = "done"
        /\ new.spine[j.table] = j.version \/ j.pc = "concept"

Advanced(w) ==
  /\ UNCHANGED <<source, disk>>
  /\ faults' \in 0 .. MaxFaults
  /\ store' \in SoundStores
  /\ Grows(store, store')
  /\ \E k \in JobsOver(store') :
       job' = [job EXCEPT ![w] = k] /\ Advances(job[w], store, k, store')

\* What others know of the store stays true.
LEMMA KnownStays ==
  ASSUME NEW st \in Stores, NEW new \in Stores, Grows(st, new), NEW j \in JobsOver(st)
  PROVE  j \in JobsOver(new)
BY DEF Grows, JobsOver, Jobs, Stores

LEMMA NoJobTyped ==
  ASSUME NEW memory \in [Tables -> Versions]
  PROVE  /\ NoJob(memory) \in Jobs /\ \A st : NoJob(memory) \in JobsOver(st)
         /\ NoJob(memory).memory = memory /\ NoJob(memory).pc = "idle"
<1>1. (CHOOSE t \in Tables : TRUE) \in Tables
  BY PipelineAssumption
<1>2. NoJob(memory) \in Jobs
  BY <1>1, PipelineAssumption DEF NoJob, Jobs, Versions
<1> QED
  BY <1>2 DEF NoJob, JobsOver

\* A table is taken up: it is unchanged, or goes to the first stage.
LEMMA Begun ==
  ASSUME NEW w \in Workers, NEW t \in Tables, NEW version \in Versions \ {0},
         NEW memory \in [Tables -> Versions], Begin(w, t, version, memory)
  PROVE  \E k \in JobsOver(store) :
           /\ job' = [job EXCEPT ![w] = k]
           /\ k.table = t /\ k.version = version /\ k.memory = memory
           /\ k.pc \in {"unchanged", "profile", "protect", "relate"}
           /\ k.pc = "unchanged" => Alike(t, k.memory[t], k.version)
<1> DEFINE begun == [NoJob(memory) EXCEPT !.table = t, !.version = version,
                                          !.references = Declared[t]]
           k == [begun EXCEPT !.pc = IF Alike(t, begun.memory[t], version) /\ ~ReEnrich
                                     THEN "unchanged" ELSE FirstStage]
<1>1. job' = [job EXCEPT ![w] = k]
  BY DEF Begin, Become
<1>2. FirstStage \in {"profile", "protect", "relate"} /\ FirstStage \in Steps
  BY DEF FirstStage, EnrichFrom, Steps
<1>3. Declared[t] \in SUBSET Reference
  BY PipelineAssumption
<1>4. NoJob(memory) \in Jobs /\ NoJob(memory).memory = memory /\ NoJob(memory).bundle = FALSE
  BY NoJobTyped DEF NoJob
<1>5. /\ begun \in Jobs /\ begun.table = t /\ begun.version = version /\ begun.memory = memory
      /\ begun.bundle = FALSE
  BY <1>3, <1>4 DEF Jobs
<1> HIDE DEF begun
<1>6. /\ k \in Jobs /\ k.table = t /\ k.version = version /\ k.memory = memory /\ k.bundle = FALSE
      /\ \/ k.pc = "unchanged" /\ Alike(t, memory[t], version)
         \/ k.pc \in {"profile", "protect", "relate"}
  BY <1>2, <1>5 DEF Jobs, Outcomes
<1> HIDE DEF k
<1>7. k.pc = "unchanged" => memory[t] # 0
  BY <1>6, PipelineAssumption DEF Alike, Versions
<1>8. k \in JobsOver(store)
  BY <1>6, <1>7 DEF JobsOver
<1> QED
  BY <1>1, <1>6, <1>8

LEMMA FaultCounted ==
  ASSUME PipelineTypeOK, Fault \/ UNCHANGED faults
  PROVE  faults' \in 0 .. MaxFaults
BY PipelineAssumption DEF PipelineTypeOK, Fault

\* A step that leaves the versions alone.
LEMMA Beside ==
  ASSUME PipelineTypeOK, NEW w \in Workers, NEW k \in JobsOver(store'), Become(w, k),
         store \in SoundStores, store' \in SoundStores,
         store'.spine = store.spine, store.profiled \subseteq store'.profiled,
         UNCHANGED <<source, disk>>, Fault \/ UNCHANGED faults,
         k.table = job[w].table, k.version = job[w].version, k.memory = job[w].memory,
         k.pc \notin {"idle", "unchanged", "concept"}
  PROVE  Advanced(w)
<1>1. Grows(store, store')
  BY DEF Grows
<1>2. faults' \in 0 .. MaxFaults
  BY FaultCounted
<1>3. Advances(job[w], store, k, store')
  BY DEF Advances
<1> QED
  BY <1>1, <1>2, <1>3 DEF Advanced, Become

LEMMA Raising ==
  ASSUME PipelineTypeOK, store \in SoundStores, NEW w \in Workers, job[w] \in JobsOver(store),
         job[w].pc # "idle", Raises(w), Fault \/ UNCHANGED faults
  PROVE  Advanced(w)
<1> DEFINE k == [job[w] EXCEPT !.pc = "error"]
<1>1. k \in JobsOver(store)
  BY DEF JobsOver, Jobs, Outcomes
<1>2. k.table = job[w].table /\ k.version = job[w].version /\ k.memory = job[w].memory
      /\ k.pc = "error"
  BY DEF JobsOver, Jobs
<1>3. Become(w, k) /\ UNCHANGED <<source, disk, store>>
  BY DEF Raises
<1> HIDE DEF k
<1> QED
  BY <1>1, <1>2, <1>3, Beside

\* _upsert_model in a session that finds the rows above the table as it expects them.
LEMMA Spined ==
  ASSUME PipelineTypeOK, store \in SoundStores, NEW w \in Workers, job[w] \in JobsOver(store),
         job[w].pc # "idle",
         store' = UpsertMdl(store, job[w].table, job[w].version, Targets(job[w]), job[w].concept)
  PROVE  /\ store' \in SoundStores
         /\ store'.spine = [store.spine EXCEPT ![job[w].table] = job[w].version]
         /\ store'.profiled = store.profiled
         /\ Grows(store, store')
         /\ job[w].version \in Nat \ {0} /\ store'.spine[job[w].table] = job[w].version
<1> DEFINE j == job[w]
<1>1. /\ j \in Jobs /\ j.table \in Tables /\ j.version \in Nat \ {0}
      /\ j.concept \in Concepts \union {NoConcept}
  BY Bounds DEF JobsOver, Jobs, Versions
<1>2. Targets(j) \in SUBSET Tables
  BY <1>1 DEF Targets, Jobs, Reference
<1>3. /\ store' \in SoundStores
      /\ store'.spine = [store.spine EXCEPT ![j.table] = j.version]
      /\ store'.profiled = store.profiled
  BY <1>1, <1>2, MdlStored
<1>4. store.spine \in [Tables -> Nat]
  BY DEF SoundStores, Stores
<1>5. Grows(store, store')
  BY <1>1, <1>3, <1>4 DEF Grows
<1> QED
  BY <1>1, <1>3, <1>4, <1>5

LEMMA ProcessAdvances ==
  ASSUME PipelineTypeOK, store \in SoundStores, NEW w \in Workers, job[w] \in JobsOver(store),
         Process(w)
  PROVE  Advanced(w)
<1> DEFINE j == job[w]
<1>a. j \in Jobs
  BY DEF JobsOver
<1>b. EnrichFrom \in {"protect", "relate"} /\ EnrichFrom \in Steps
  BY DEF EnrichFrom, Steps
<1>c. UNCHANGED store => store' \in SoundStores /\ store'.spine = store.spine
                         /\ store'.profiled = store.profiled
  OBVIOUS
<1>1. CASE Profile(w)
  <2>1. PICK k \in {[j EXCEPT !.pc = "spine", !.bundle = TRUE, !.root = store.root],
                    [j EXCEPT !.pc = EnrichFrom]} : Become(w, k)
    BY <1>1 DEF Profile
  <2>2. j.pc = "profile" /\ ~j.bundle /\ store.root \in BOOLEAN
    BY <1>1 DEF Profile, At, JobsOver, SoundStores, Stores
  <2>3. k \in JobsOver(store)
    <3>1. k \in Jobs
      <4>1. [j EXCEPT !.pc = "spine", !.bundle = TRUE, !.root = store.root] \in Jobs
        BY <1>a, <2>2 DEF Jobs, Steps
      <4>2. [j EXCEPT !.pc = EnrichFrom] \in Jobs
        BY <1>a, <1>b DEF Jobs
      <4> QED
        BY <2>1, <4>1, <4>2
    <3>2. k.version = j.version /\ j.version # 0 /\ k.pc \in {"spine", "protect", "relate"}
          /\ (k.pc # "spine" => ~k.bundle)
      BY <1>a, <1>b, <2>1, <2>2 DEF JobsOver, Jobs
    <3> QED
      BY <3>1, <3>2 DEF JobsOver
  <2>4. k.table = j.table /\ k.version = j.version /\ k.memory = j.memory /\ k.pc \notin {"idle", "unchanged", "concept"}
    BY <1>a, <1>b, <2>1 DEF Jobs
  <2>5. UNCHANGED <<source, disk, store, faults>>
    BY <1>1 DEF Profile
  <2> QED
    BY <2>1, <2>3, <2>4, <2>5, Beside
<1>2. CASE WriteSpine(w)
  <2>1. j.pc = "spine"
    BY <1>2 DEF WriteSpine, At
  <2>2. CASE Raises(w) /\ (Fault \/ UNCHANGED faults)
    BY <2>1, <2>2, Raising
  <2>3. CASE Commits(w, UpsertMdl(store, j.table, j.version, Targets(j), j.concept),
                     [j EXCEPT !.pc = "aggregate"])
    <3> DEFINE k == [j EXCEPT !.pc = "aggregate"]
    <3>1. /\ store' \in SoundStores
          /\ store'.spine = [store.spine EXCEPT ![j.table] = j.version]
          /\ Grows(store, store')
          /\ j.version \in Nat \ {0} /\ store'.spine[j.table] = j.version
      BY <2>1, <2>3, Spined DEF Commits
    <3>2. k \in JobsOver(store')
      BY <1>a, <3>1 DEF JobsOver, Jobs, Steps
    <3>3. Advances(j, store, k, store')
      BY <1>a, <3>1 DEF Advances, Jobs
    <3>4. faults' \in 0 .. MaxFaults /\ UNCHANGED <<source, disk>> /\ Become(w, k)
      BY <2>3, FaultCounted DEF Commits
    <3> QED
      BY <3>1, <3>2, <3>3, <3>4 DEF Advanced, Become
  <2> QED
    BY <1>2, <2>2, <2>3 DEF WriteSpine, Fails
<1>3. CASE WriteAggregates(w)
  <2>1. j.pc = "aggregate"
    BY <1>3 DEF WriteAggregates, At
  <2>2. CASE Fails(w)
    BY <2>1, <2>2, Raising DEF Fails
  <2>3. CASE Commits(w, UpsertAggregates(store, j.table), [j EXCEPT !.pc = EnrichFrom])
    <3> DEFINE k == [j EXCEPT !.pc = EnrichFrom]
    <3>1. /\ store' \in SoundStores /\ store'.spine = store.spine
          /\ store'.profiled = store.profiled \union {j.table}
      <4>1. store.spine[j.table] # 0 /\ j.table \in Tables
        BY <1>a, <2>1 DEF JobsOver, Jobs
      <4> QED
        BY <2>3, <4>1, AggregatesStored DEF Commits
    <3>2. k \in JobsOver(store')
      BY <1>a, <1>b, <2>1, <3>1 DEF JobsOver, Jobs, Steps
    <3>3. k.table = j.table /\ k.version = j.version /\ k.memory = j.memory /\ k.pc \notin {"idle", "unchanged", "concept"}
      BY <1>a, <1>b DEF Jobs
    <3> HIDE DEF k
    <3> QED
      BY <2>3, <3>1, <3>2, <3>3, Beside DEF Commits, k
  <2> QED
    BY <1>3, <2>2, <2>3 DEF WriteAggregates
<1>4. CASE Protect(w)
  <2>1. PICK c \in Classifications :
          LET k == [j EXCEPT !.pc = "relate", !.flagged = c.pii \union c.hint.cls] IN
          \/ Commits(w, IF c.hint = NoHint THEN store ELSE UpsertHint(store, k.table, c.hint), k)
          \/ c.hint # NoHint /\ Fault /\ Swallows(w, k)
    BY <1>4, Zenon DEF Protect
  <2> DEFINE k == [j EXCEPT !.pc = "relate", !.flagged = c.pii \union c.hint.cls]
  <2>k. k.table = j.table
    BY <1>a DEF Jobs
  <2>2. j.pc = "protect" /\ c.pii \in SUBSET Columns /\ c.hint \in Hints
          /\ c.hint.cls \in SUBSET Columns
    BY <1>4, PipelineAssumption DEF Protect, At, Hints
  <2>3. store' \in SoundStores /\ store'.spine = store.spine /\ store'.profiled = store.profiled
    <3>1. UpsertHint(store, j.table, c.hint) \in SoundStores
          /\ UpsertHint(store, j.table, c.hint).spine = store.spine
          /\ UpsertHint(store, j.table, c.hint).profiled = store.profiled
      BY <1>a, <2>2, HintStored DEF Jobs
    <3> QED
      BY <2>1, <2>k, <3>1 DEF Commits, Swallows
  <2>4. /\ Become(w, k) /\ UNCHANGED <<source, disk>> /\ (Fault \/ UNCHANGED faults)
    BY <2>1 DEF Commits, Swallows
  <2>5. k \in JobsOver(store')
    BY <1>a, <2>2, <2>3 DEF JobsOver, Jobs, Steps
  <2>6. k.table = j.table /\ k.version = j.version /\ k.memory = j.memory /\ k.pc \notin {"idle", "unchanged", "concept"}
    BY <1>a DEF Jobs
  <2> HIDE DEF k
  <2> QED
    BY <2>3, <2>4, <2>5, <2>6, Beside
<1>5. CASE Relate(w)
  <2>1. PICK g \in IF Declared[j.table] = {} THEN Guesses ELSE {{}} :
          LET k == [j EXCEPT !.pc = "cause", !.guessed = g,
                             !.references = @ \union {[column |-> i.column, to |-> i.to] :
                                                        i \in {x \in g : x.strong}}] IN
          \/ /\ ~InferredClash(store, k.table, g)
             /\ Commits(w, UpsertInferred(store, k.table, g), k)
          \/ InferredClash(store, k.table, g) /\ Swallows(w, k) /\ UNCHANGED faults
          \/ g # {} /\ Fault /\ Swallows(w, k)
    BY <1>5, Zenon DEF Relate
  <2> DEFINE new == {[column |-> i.column, to |-> i.to] : i \in {x \in g : x.strong}}
             k == [j EXCEPT !.pc = "cause", !.guessed = g, !.references = @ \union new]
  <2>k. k.table = j.table
    BY <1>a DEF Jobs
  <2>2. j.pc = "relate" /\ g \in SUBSET Guess /\ j.table \in Tables
    BY <1>5, <1>a, PipelineAssumption DEF Relate, At, Jobs
  <2>3. new \in SUBSET Reference
    BY <2>2 DEF Guess, Reference
  <2>4. store' \in SoundStores /\ store'.spine = store.spine /\ store'.profiled = store.profiled
    <3>1. UpsertInferred(store, j.table, g) \in SoundStores
          /\ UpsertInferred(store, j.table, g).spine = store.spine
          /\ UpsertInferred(store, j.table, g).profiled = store.profiled
      BY <2>2, InferredStored
    <3> QED
      BY <2>1, <2>k, <3>1 DEF Commits, Swallows
  <2>5. /\ Become(w, k) /\ UNCHANGED <<source, disk>> /\ (Fault \/ UNCHANGED faults)
    BY <2>1 DEF Commits, Swallows
  <2> HIDE DEF new
  <2>6. k \in JobsOver(store')
    <3>1. k \in Jobs
      BY <1>a, <2>2, <2>3 DEF Jobs, Steps
    <3> QED
      BY <1>a, <2>2, <2>4, <3>1 DEF JobsOver, Jobs
  <2>7. k.table = j.table /\ k.version = j.version /\ k.memory = j.memory /\ k.pc \notin {"idle", "unchanged", "concept"}
    BY <1>a DEF Jobs
  <2> HIDE DEF k
  <2> QED
    BY <2>4, <2>5, <2>6, <2>7, Beside
<1>6. CASE Cause(w)
  <2> DEFINE kept == [j EXCEPT !.captured = j.guessed, !.index = j.concept]
             k == IF kept.bundle THEN [kept EXCEPT !.pc = "samples"] ELSE Finish(kept)
  <2>1. PICK found \in SUBSET [asset : {j.table}, link : Links] : \E twice \in SUBSET found :
          \/ ~CandidateClash(store, twice) /\ Commits(w, UpsertCandidates(store, found), k)
          \/ CandidateClash(store, twice) /\ Swallows(w, k) /\ UNCHANGED faults
          \/ found # {} /\ Fault /\ Swallows(w, k)
    BY <1>6, Zenon DEF Cause
  <2>2. j.pc = "cause" /\ j.table \in Tables
    BY <1>6, <1>a DEF Cause, At, Jobs
  <2>3. found \in SUBSET Candidates
    BY <2>2 DEF Candidates
  <2>4. store' \in SoundStores /\ store'.spine = store.spine /\ store'.profiled = store.profiled
    <3>1. UpsertCandidates(store, found) \in SoundStores
          /\ UpsertCandidates(store, found).spine = store.spine
          /\ UpsertCandidates(store, found).profiled = store.profiled
      BY <2>3, CandidatesStored
    <3> HIDE DEF k
    <3> QED
      BY <2>1, <3>1 DEF Commits, Swallows
  <2>5. /\ Become(w, k) /\ UNCHANGED <<source, disk>> /\ (Fault \/ UNCHANGED faults)
    <3> HIDE DEF k
    <3> QED
      BY <2>1 DEF Commits, Swallows
  <2>6. /\ k \in Jobs /\ k.table = j.table /\ k.version = j.version /\ k.memory = j.memory
        /\ k.bundle = j.bundle
        /\ k.pc \in {"samples", "annotate", "write"} /\ (k.pc = "samples" => j.bundle)
    <3>1. store.root \in BOOLEAN
      BY DEF SoundStores, Stores
    <3>2. /\ kept \in Jobs /\ kept.table = j.table /\ kept.version = j.version
          /\ kept.memory = j.memory /\ kept.bundle = j.bundle
      BY <1>a DEF Jobs
    <3> HIDE DEF kept
    <3> QED
      BY <3>1, <3>2 DEF Jobs, Finish, Steps
  <2>7. k \in JobsOver(store')
    <3> HIDE DEF k
    <3> QED
      BY <1>a, <2>2, <2>4, <2>6 DEF JobsOver
  <2> HIDE DEF k
  <2> QED
    BY <2>4, <2>5, <2>6, <2>7, Beside
<1>7. CASE WriteSamples(w)
  <2> DEFINE k == Finish(j)
  <2>1. j.pc = "samples" /\ j.table \in store.profiled
    BY <1>7 DEF WriteSamples, At, JobsOver
  <2>2. CASE Fails(w)
    BY <2>1, <2>2, Raising DEF Fails
  <2>3. CASE Commits(w, AttachSamples(store, j.table, Columns \ j.flagged), k)
    <3>1. store' \in SoundStores /\ store'.spine = store.spine /\ store'.profiled = store.profiled
      BY <2>1, <2>3, SamplesStored DEF Commits
    <3>2. k \in JobsOver(store') /\ k.table = j.table /\ k.version = j.version
          /\ k.memory = j.memory /\ k.pc \notin {"idle", "unchanged", "concept"}
      <4>1. store.root \in BOOLEAN
        BY DEF SoundStores, Stores
      <4> QED
        BY <1>a, <2>1, <4>1 DEF JobsOver, Jobs, Finish, Steps
    <3> HIDE DEF k
    <3> QED
      BY <2>3, <3>1, <3>2, Beside DEF Commits
  <2> QED
    BY <1>7, <2>2, <2>3 DEF WriteSamples
<1>8. CASE Annotate(w)
  <2>1. PICK c \in Vocabulary[j.table] :
          Become(w, [j EXCEPT !.pc = "write", !.concept = c, !.root = store.root])
    BY <1>8 DEF Annotate
  <2> DEFINE k == [j EXCEPT !.pc = "write", !.concept = c, !.root = store.root]
  <2>2. j.pc = "annotate" /\ c \in Concepts \union {NoConcept} /\ store.root \in BOOLEAN
    <3>1. Vocabulary[j.table] \in SUBSET (Concepts \union {NoConcept})
      BY <1>a, PipelineAssumption DEF Jobs
    <3> QED
      BY <1>8, <3>1 DEF Annotate, At, SoundStores, Stores
  <2>3. k \in JobsOver(store) /\ k.table = j.table /\ k.version = j.version
        /\ k.memory = j.memory /\ k.pc \notin {"idle", "unchanged", "concept"}
    BY <1>a, <2>2 DEF JobsOver, Jobs, Steps
  <2>4. UNCHANGED <<source, disk, store, faults>>
    BY <1>8 DEF Annotate
  <2> HIDE DEF k
  <2> QED
    BY <2>1, <2>3, <2>4, Beside DEF k
<1>9. CASE WriteMdl(w)
  <2> DEFINE k == IF j.concept = NoConcept THEN Recorded(j) ELSE [j EXCEPT !.pc = "concept"]
  <2>1. j.pc = "write"
    BY <1>9 DEF WriteMdl, At
  <2>2. CASE Raises(w) /\ (Fault \/ UNCHANGED faults)
    BY <2>1, <2>2, Raising
  <2>3. CASE Commits(w, UpsertMdl(store, j.table, j.version, Targets(j), j.concept), k)
    <3>1. /\ store' \in SoundStores
          /\ store'.spine = [store.spine EXCEPT ![j.table] = j.version]
          /\ Grows(store, store')
          /\ j.version \in Nat \ {0} /\ store'.spine[j.table] = j.version
      BY <2>1, <2>3, Spined DEF Commits
    <3>2. k \in Jobs /\ k.table = j.table /\ k.version = j.version
      BY <1>a DEF Jobs, Recorded, Steps, Outcomes
    <3>3. \/ k.pc = "concept" /\ k.memory = j.memory
          \/ k.pc = "done" /\ k.memory = [j.memory EXCEPT ![j.table] = j.version]
      BY <1>a DEF Jobs, Recorded
    <3>4. faults' \in 0 .. MaxFaults /\ UNCHANGED <<source, disk>> /\ Become(w, k)
      BY <2>3, FaultCounted DEF Commits
    <3> HIDE DEF k
    <3>5. k \in JobsOver(store')
      BY <3>1, <3>2, <3>3 DEF JobsOver
    <3>6. Advances(j, store, k, store')
      BY <3>1, <3>2, <3>3 DEF Advances
    <3> QED
      BY <3>1, <3>4, <3>5, <3>6 DEF Advanced, Become
  <2> QED
    BY <1>9, <2>2, <2>3 DEF WriteMdl, Fails
<1>10. CASE WriteConcept(w)
  <2> DEFINE k == Recorded(j)
  <2>1. j.pc = "concept" /\ store.spine[j.table] # 0
    BY <1>10 DEF WriteConcept, At, JobsOver
  <2>2. CASE Fails(w)
    BY <2>1, <2>2, Raising DEF Fails
  <2>3. CASE Commits(w, WriteAnnotations(store, j.table, j.concept), k)
    <3>1. store' \in SoundStores /\ store'.spine = store.spine /\ store'.profiled = store.profiled
      BY <1>a, <2>3, AnnotationsStored DEF Commits, Jobs
    <3>2. k \in Jobs /\ k.table = j.table /\ k.version = j.version
          /\ k.pc = "done" /\ k.memory = [j.memory EXCEPT ![j.table] = j.version]
      BY <1>a DEF Jobs, Recorded, Outcomes
    <3>3. faults' \in 0 .. MaxFaults /\ UNCHANGED <<source, disk>> /\ Become(w, k)
      BY <2>3, FaultCounted DEF Commits
    <3> HIDE DEF k
    <3>4. k \in JobsOver(store')
      BY <1>a, <2>1, <3>1, <3>2 DEF JobsOver
    <3>5. Advances(j, store, k, store')
      BY <2>1, <3>1, <3>2 DEF Advances
    <3>6. Grows(store, store')
      BY <3>1 DEF Grows
    <3> QED
      BY <3>1, <3>3, <3>4, <3>5, <3>6 DEF Advanced, Become
  <2> QED
    BY <1>10, <2>2, <2>3 DEF WriteConcept
<1> QED
  BY <1>1, <1>2, <1>3, <1>4, <1>5, <1>6, <1>7, <1>8, <1>9, <1>10 DEF Process
=============================================================================
