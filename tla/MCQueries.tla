----------------------------- MODULE MCQueries -----------------------------
(* The parts that carry queries, explored one at a time: only the part that    *)
(* question names takes steps.                                                 *)
EXTENDS PooledProvider, FederatedQueries, EvalRuns

CONSTANTS pg, sf, c1, c2, c3, o1, o2, default, p1, p2
VARIABLE question

Init ==
  /\ question \in {"one source", "two sources", "routes", "evaluation", "one evaluator"}
  /\ PoolInit /\ FederationInit /\ EvalInit
  /\ question # "routes" => deployment = "env" /\ DOMAIN rows = {"postgres"}

\* Three queries of one source, or two of any.
QueriersNext ==
  /\ question \in {"one source", "two sources"} /\ PoolNext
  /\ question = "one source" => \A c \in Clients : source'[c] \in {pg, None}
  /\ question = "two sources" => at'[c3] = "idle"
Querying == question \in {"one source", "two sources"}

\* Two processes in which nothing fails, or one in which anything may.
EvaluatorsNext ==
  /\ question \in {"evaluation", "one evaluator"} /\ EvalNext
  /\ question = "evaluation" => failures' = failures
  /\ question = "one evaluator" => \A p \in Processes \ {p1} : process'[p] = Idle

Next ==
  \/ QueriersNext /\ UNCHANGED <<question, queryVars, evalVars>>
  \/ question = "routes" /\ FederationNext /\ UNCHANGED <<question, poolVars, evalVars>>
  \/ EvaluatorsNext /\ UNCHANGED <<question, poolVars, queryVars>>

Evaluator(p) == question = "evaluation" \/ (question = "one evaluator" /\ p = p1)

\* PoolFairness and EvalFairness, each while its part runs.
Fairness ==
  /\ \A c \in Clients : /\ WF_poolVars(Querying /\ Query(c))
                        /\ SF_poolVars(Querying /\ Lock(c))
  /\ WF_poolVars(Querying /\ CloseStep)
  /\ \A p \in Processes : /\ WF_evalVars(Evaluator(p) /\ Execute(p))
                          /\ WF_evalVars(Evaluator(p) /\ Claim(p))

Spec == Init /\ [][Next]_<<question, poolVars, queryVars, evalVars>> /\ Fairness

\* Every acquire and every evaluation ends.
QueriesEnd == AcquireEnds /\ EveryRunEnds

MCScorers == <<"first", "second">>
=============================================================================
