----------------------------- MODULE MCServices -----------------------------
(* Eight parts that share no state, explored one at a time: only the part that   *)
(* focus names takes steps, the others stay in their initial states.           *)
EXTENDS CancellableStream, CardStore, CausalValidation, RetrievalService, StagedJob,
        EventLog, JobWorkflows, WorkerRuntime, TLC

CONSTANTS Parts, \* the parts explored
          p1, p2, k1, a1, q1, twoColumns, twoNodes, s1, s2
VARIABLE focus

MCStep(id, kind, consumes) == [id |-> id, kind |-> kind, consumes |-> consumes, bound |-> TRUE]
MCQuery == [type |-> "nexcraft_fedsql_query", steps |-> <<MCStep("s1", "fedsql", {})>>, final |-> "",
            post |-> {"summary", "chart"}, wait |-> TRUE, fixed |-> FALSE, readable |-> TRUE]
\* The model takes the rows of the step before it, the statistics those of a later one.
MCPipeline == [MCQuery EXCEPT !.type = "nexcraft_dstools_pipeline", !.fixed = TRUE, !.post = {"chart"}, !.final = "s2",
                 !.steps = <<MCStep("s1", "dstools_sql", {}), MCStep("s2", "dstools_python", {"s1"}),
                             MCStep("s3", "dstools_python", {"s3"})>>]
MCHops == [MCQuery EXCEPT !.type = "nexcraft_cornerstone_multihop", !.fixed = TRUE, !.post = {},
             !.steps = <<MCStep("s1", "fetch", {}), MCStep("s2", "fetch", {}),
                         MCStep("s3", "combine", {"s1", "s2"})>>]
MCUnbound == [MCQuery EXCEPT !.steps = <<[MCStep("s1", "fedsql", {}) EXCEPT !.bound = FALSE]>>,
                             !.post = {}]
MCBackground == [MCQuery EXCEPT !.wait = FALSE, !.fixed = TRUE, !.post = {"summary"}]
MCUnreadable == [MCQuery EXCEPT !.readable = FALSE]
MCLegacy == [MCQuery EXCEPT !.type = "nexcraft_recipe_inline"]
Parked == <<MCQuery, MCUnbound>>
MCDirectories == {Parked, <<MCQuery>>, <<MCPipeline>>, <<MCHops>>, <<MCUnbound, MCBackground>>,
                  <<MCBackground, MCUnreadable, MCQuery>>, <<MCBackground, MCLegacy>>}

MCMishaps == [d \in MCDirectories |-> IF Len(d) = 1 THEN 2 ELSE 1]

Init ==
  /\ focus \in Parts
  /\ StreamInit /\ CardInit /\ ValidationInit /\ ServiceInit /\ JobInit
  /\ EventInit /\ FlowInit /\ RuntimeInit
  /\ focus # "flows" => directory = Parked
  /\ private \in IF focus = "runtime" THEN {{}, {CHOOSE r \in Runtimes : TRUE}} ELSE {{}}
  \* The second command matters where runs stay open or a file does not load.
  /\ \A c \in Commands : command[c].pc = "idle" <=> c \in FailFast /\ Len(directory) = 1
  /\ focus # "stream" => maxRows = 4

Next ==
  \/ /\ focus = "stream" /\ StreamNext
     /\ UNCHANGED <<focus, cardVars, validationVars, serviceVars, jobVars, eventVars, flowVars, runtimeVars>>
  \/ /\ focus = "cards" /\ CardNext
     /\ UNCHANGED <<focus, streamVars, validationVars, serviceVars, jobVars, eventVars, flowVars, runtimeVars>>
  \/ /\ focus = "validation" /\ ValidationNext
     /\ UNCHANGED <<focus, streamVars, cardVars, serviceVars, jobVars, eventVars, flowVars, runtimeVars>>
  \/ /\ focus = "retrieval" /\ ServiceNext
     /\ UNCHANGED <<focus, streamVars, cardVars, validationVars, jobVars, eventVars, flowVars, runtimeVars>>
  \/ /\ focus = "job" /\ JobNext
     /\ UNCHANGED <<focus, streamVars, cardVars, validationVars, serviceVars, eventVars, flowVars, runtimeVars>>
  \/ /\ focus = "events" /\ EventNext
     /\ UNCHANGED <<focus, streamVars, cardVars, validationVars, serviceVars, jobVars,
                    flowVars, runtimeVars>>
  \/ /\ focus = "flows" /\ FlowNext
     /\ UNCHANGED <<focus, streamVars, cardVars, validationVars, serviceVars, jobVars,
                    eventVars, runtimeVars>>
  \/ /\ focus = "runtime" /\ RuntimeNext
     /\ UNCHANGED <<focus, streamVars, cardVars, validationVars, serviceVars, jobVars,
                    eventVars, flowVars>>

\* The fairness of each part (StreamFairness, CardFairness, ...) while it runs.
Fairness ==
  /\ WF_streamVars(focus = "stream" /\ Pump) /\ WF_streamVars(focus = "stream" /\ Generator)
  /\ WF_streamVars(focus = "stream" /\ Resume) /\ WF_streamVars(focus = "stream" /\ Finalize)
  /\ \A l \in Loaders : WF_cardVars(focus = "cards" /\ SyncStep(l))
  /\ \A v \in Validators : /\ WF_validationVars(focus = "validation" /\ ListPending(v))
                           /\ SF_validationVars(focus = "validation" /\ Decide(v))
  /\ WF_jobVars(focus = "job" /\ Validate)
  /\ WF_jobVars(focus = "job" /\ TimesOut /\ ~\E j \in running : Awaited(j))
  /\ WF_jobVars(focus = "job" /\ \E j \in running : Work(j))
  /\ WF_flowVars(focus = "flows" /\ WorkerStep)
  /\ \A c \in Commands : WF_flowVars(focus = "flows" /\ CommandStep(c))
  /\ WF_flowVars(focus = "flows" /\ \E r \in Runs : NobodyWorks(r[1], r[2]) /\ GiveUp(r[1], r[2]))
  /\ \A j \in Jobs : WF_runtimeVars(focus = "runtime" /\ JobStep(j))
  /\ \A w \in Appenders : /\ WF_eventVars(focus = "events" /\ \E s \in Subjects : Load(w, s))
                          /\ WF_eventVars(focus = "events" /\ AppendEvent(w))

servicesVars ==
  <<focus, streamVars, cardVars, validationVars, serviceVars, jobVars, eventVars, flowVars, runtimeVars>>
Spec == Init /\ [][Next]_servicesVars /\ Fairness

\* An empty batch among others.
MCMixed == <<2, 2, 3, 5>>
\* Two files are about one card, but need not both be there.
MCNames == (p1 :> k1) @@ (p2 :> k1)
MCShapes == (twoColumns :> "columns") @@ (twoNodes :> "node")
MCPoints == (a1 :> q1)
MCTTL == [k \in Kinds |-> IF k = "asset_search" THEN 2 ELSE 1]
MCPlan == [extract |-> <<"d1", "d2">>, compute |-> <<"primary">>, persist |-> <<"primary", "metadata">>]
MCAttempts == [extract |-> 3, compute |-> 2, persist |-> 5]

\* What the type invariants of the parts say of their state and constants.
ServicesTypeOK ==
  /\ StreamTypeOK /\ CardTypeOK /\ ValidationTypeOK /\ OnlyTestedAreDecided
  /\ ServiceTypeOK /\ JobTypeOK /\ EventTypeOK
  /\ FlowTypeOK /\ RuntimeTypeOK

\* What was given to the server is brought to an end: a staged job (JobEnds), the runs of
\* job files and the command that waits for them (CommandsEnd), an inline recipe
\* (SubmissionsEnd) and a narrative task (TasksAreAnswered).
WorkIsFinished == JobEnds /\ CommandsEnd /\ SubmissionsEnd /\ TasksAreAnswered

\* The cards come to say what their files say, and every candidate that can be tested is
\* decided (CardsFollowFiles, EveryCandidateDecided).
StoreCatchesUp == CardsFollowFiles /\ EveryCandidateDecided

MCTableOf == (s1 :> "causal") @@ (s2 :> "card")
=============================================================================
