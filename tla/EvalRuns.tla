------------------------------- MODULE EvalRuns -------------------------------
(***************************************************************************)
(* Evaluation runs: rows that the command line creates and that processes  *)
(* execute case by case, each result and the aggregates in transactions of *)
(* their own.  run_pending claims rows with FOR UPDATE SKIP LOCKED;        *)
(* run-once executes the row it has just created without claiming it.      *)
(***************************************************************************)
EXTENDS Naturals, FiniteSets, Sequences

CONSTANTS Runs,       \* rows eval_run may have
          Cases,      \* eval_case rows the filter of a run selects
          Scorers,    \* the scorers of a worker, in their order
          Processes,  \* processes of the command line
          ClaimLimit, \* --limit
          MaxFailures \* bound on runs that raise and processes that die

VARIABLES runStatus,   \* [Runs -> status of the row]
          passed,   \* [Runs -> passed_count]
          results,  \* [Runs -> [Cases -> eval_result rows]]
          bad,      \* [Runs -> cases that have a result that does not pass]
          metrics,  \* [Runs -> how often its aggregates were written]
          process,  \* [Processes -> what it is doing]
          failures,
          shared    \* history: runs that more than one process has executed

evalVars == <<runStatus, passed, results, bad, metrics, process, failures, shared>>

ASSUME EvalAssumption ==
  /\ Runs # {} /\ IsFiniteSet(Cases) /\ Cases # {} /\ Len(Scorers) \in Nat \ {0}
  /\ ClaimLimit \in Nat \ {0} /\ MaxFailures \in Nat

Statuses == {"unused", "pending", "running", "done", "failed"}

\* claimed: runs of the batch still to execute; open: cases of the current run
\* still to do; scored: results the current case has; good: all of them pass.
Idle == [pc |-> "idle", claimed |-> {}, run |-> CHOOSE r \in Runs : TRUE, once |-> FALSE,
         open |-> {}, scored |-> 0, good |-> TRUE, passed |-> 0]

Activities ==
  [pc : {"idle", "next", "cases", "roll up", "finish"}, claimed : SUBSET Runs, run : Runs,
   once : BOOLEAN, open : SUBSET Cases, scored : 0 .. Len(Scorers), good : BOOLEAN,
   passed : 0 .. Cardinality(Cases)]

EvalTypeOK ==
  /\ runStatus \in [Runs -> Statuses]
  /\ passed \in [Runs -> 0 .. Cardinality(Cases)]
  /\ results \in [Runs -> [Cases -> Nat]]
  /\ bad \in [Runs -> SUBSET Cases]
  /\ metrics \in [Runs -> Nat]
  /\ process \in [Processes -> Activities]
  /\ failures \in 0 .. MaxFailures /\ shared \subseteq Runs

EvalInit ==
  /\ runStatus = [r \in Runs |-> "unused"]
  /\ passed = [r \in Runs |-> 0]
  /\ results = [r \in Runs |-> [c \in Cases |-> 0]]
  /\ bad = [r \in Runs |-> {}]
  /\ metrics = [r \in Runs |-> 0]
  /\ process = [p \in Processes |-> Idle]
  /\ failures = 0 /\ shared = {}

Doing(p, pc) == process[p].pc = pc
Executing(p) == process[p].pc \in {"cases", "roll up", "finish"}
Set(p, j) == process' = [process EXCEPT ![p] = j]
KeepRows == UNCHANGED <<passed, results, bad, metrics>>

-----------------------------------------------------------------------------
\* eval enqueue.
Enqueue(r) ==
  /\ runStatus[r] = "unused"
  /\ runStatus' = [runStatus EXCEPT ![r] = "pending"]
  /\ KeepRows /\ UNCHANGED <<process, failures, shared>>

\* eval run-once: the row is pending, and stays so while it is executed.
RunOnce(p, r) ==
  /\ Doing(p, "idle") /\ runStatus[r] = "unused"
  /\ runStatus' = [runStatus EXCEPT ![r] = "pending"]
  /\ Set(p, [Idle EXCEPT !.pc = "cases", !.run = r, !.once = TRUE, !.open = Cases])
  /\ KeepRows /\ UNCHANGED <<failures, shared>>

Pending == {r \in Runs : runStatus[r] = "pending"}
Batches == {b \in SUBSET Pending : b # {} /\ Cardinality(b) <= ClaimLimit
                                     /\ (b = Pending \/ Cardinality(b) = ClaimLimit)}

\* _claim_runs: some of the pending rows (the oldest), marked in the statement that
\* selects them.
Claim(p) ==
  /\ Doing(p, "idle")
  /\ \E batch \in Batches :
       /\ runStatus' = [r \in Runs |-> IF r \in batch THEN "running" ELSE runStatus[r]]
       /\ Set(p, [Idle EXCEPT !.pc = "next", !.claimed = batch])
  /\ KeepRows /\ UNCHANGED <<failures, shared>>

\* The next run of the batch, whose cases are loaded, or the end of the batch.
\* Only run-once leaves a run that others may claim.
NextRun(p) ==
  /\ Doing(p, "next")
  /\ \/ /\ process[p].claimed = {} /\ Set(p, Idle) /\ UNCHANGED shared
     \/ \E r \in process[p].claimed :
          /\ Set(p, [process[p] EXCEPT !.pc = "cases", !.claimed = @ \ {r}, !.run = r,
                       !.open = Cases, !.scored = 0, !.good = TRUE, !.passed = 0])
          /\ shared' = IF \/ \E c \in Cases : results[r][c] # 0
                          \/ \E q \in Processes : process[q].once /\ process[q].run = r
                          \/ runStatus[r] = "done"
                       THEN shared \union {r} ELSE shared
  /\ KeepRows /\ UNCHANGED <<runStatus, failures>>

-----------------------------------------------------------------------------
(* The cases of a run, in some order. *)

CurrentCase(p) == CHOOSE c \in process[p].open : TRUE
Persist(r, c, good) ==
  /\ results' = [results EXCEPT ![r][c] = @ + 1]
  /\ bad' = IF good THEN bad ELSE [bad EXCEPT ![r] = @ \union {c}]

\* Mutant of CaseDone: a case passes when its last scorer lets it pass.
CaseDoneLast(j, c, good) ==
  [j EXCEPT !.open = @ \ {c}, !.scored = 0, !.good = TRUE,
            !.passed = IF good THEN @ + 1 ELSE @]

\* The case is over; it passed when all its scorers let it pass.
CaseDone(j, c, good) ==
  [j EXCEPT !.open = @ \ {c}, !.scored = 0, !.good = TRUE,
            !.passed = IF j.good /\ good THEN @ + 1 ELSE @]

\* The next scorer has scored the case and its result is committed.
Score(p) ==
  LET j == process[p] c == CurrentCase(p) IN
  /\ Doing(p, "cases") /\ j.open # {}
  /\ \E good \in BOOLEAN :
       /\ Persist(j.run, c, good)
       /\ Set(p, IF j.scored + 1 = Len(Scorers) THEN CaseDone(j, c, good)
                 ELSE [j EXCEPT !.scored = @ + 1, !.good = @ /\ good])
  /\ UNCHANGED <<runStatus, passed, metrics, failures, shared>>

\* Retrieval, a scorer or the commit of a result raises: the case gets an error
\* row beside the results it has, and does not pass.
CaseRaises(p) ==
  LET j == process[p] c == CurrentCase(p) IN
  /\ Doing(p, "cases") /\ j.open # {}
  /\ Persist(j.run, c, FALSE)
  /\ Set(p, CaseDone(j, c, FALSE))
  /\ UNCHANGED <<runStatus, passed, metrics, failures, shared>>

CasesDone(p) ==
  /\ Doing(p, "cases") /\ process[p].open = {}
  /\ Set(p, [process[p] EXCEPT !.pc = "roll up"])
  /\ KeepRows /\ UNCHANGED <<runStatus, failures, shared>>

\* _aggregate_metrics inserts a row per scorer and name.
RollUp(p) ==
  /\ Doing(p, "roll up")
  /\ metrics' = [metrics EXCEPT ![process[p].run] = @ + 1]
  /\ Set(p, [process[p] EXCEPT !.pc = "finish"])
  /\ UNCHANGED <<runStatus, passed, results, bad, failures, shared>>

\* run_pending goes on with its batch, run-once is over.
Onward(p) == Set(p, IF process[p].once THEN Idle ELSE [Idle EXCEPT !.pc = "next", !.claimed = process[p].claimed])

\* Mutant of Finish: the loop over the batch ends with its first run.
FinishFirst(p) ==
  LET j == process[p] IN
  /\ Doing(p, "finish")
  /\ runStatus' = [runStatus EXCEPT ![j.run] = "done"]
  /\ passed' = [passed EXCEPT ![j.run] = j.passed]
  /\ Set(p, Idle)
  /\ UNCHANGED <<results, bad, metrics, failures, shared>>

\* The run is done, with the number of its cases that passed.
Finish(p) ==
  LET j == process[p] IN
  /\ Doing(p, "finish")
  /\ runStatus' = [runStatus EXCEPT ![j.run] = "done"]
  /\ passed' = [passed EXCEPT ![j.run] = j.passed]
  /\ Onward(p)
  /\ UNCHANGED <<results, bad, metrics, failures, shared>>

Failure == failures < MaxFailures /\ failures' = failures + 1

\* A transaction of the run itself fails: run_pending marks it failed and goes on,
\* run-once ends with the exception and leaves the row as it is.
RunRaises(p) ==
  /\ Executing(p) /\ Failure
  /\ runStatus' = IF process[p].once THEN runStatus ELSE [runStatus EXCEPT ![process[p].run] = "failed"]
  /\ Onward(p)
  /\ KeepRows /\ UNCHANGED shared

Crash(p) ==
  /\ ~Doing(p, "idle") /\ Failure
  /\ Set(p, Idle)
  /\ KeepRows /\ UNCHANGED <<runStatus, shared>>

Execute(p) == NextRun(p) \/ Score(p) \/ CaseRaises(p) \/ CasesDone(p) \/ RollUp(p) \/ Finish(p)
EvalNext ==
  \/ \E r \in Runs : Enqueue(r)
  \/ \E p \in Processes :
       \/ Execute(p) \/ Claim(p) \/ RunRaises(p) \/ Crash(p)
       \/ \E r \in Runs : RunOnce(p, r)

\* run-pending is called again and again.
EvalFairness == \A p \in Processes : WF_evalVars(Execute(p)) /\ WF_evalVars(Claim(p))

-----------------------------------------------------------------------------
(* Properties. *)

\* No two processes execute the rows of one claim (SKIP LOCKED), so the results of
\* a case are those of one execution - unless run-once had the run as well.
OneExecution ==
  \A r \in Runs \ shared :
    /\ metrics[r] <= 1
    /\ \A c \in Cases : results[r][c] <= Len(Scorers)
    /\ Cardinality({p \in Processes : Executing(p) /\ process[p].run = r}) <= 1

\* passed_count of a finished run counts the cases all of whose results pass,
\* although results and counter are written in different transactions.
PassedCountsGood ==
  \A r \in Runs \ shared :
    runStatus[r] = "done" => passed[r] = Cardinality(Cases \ bad[r])

\* A run is executed twice at most: by run-once, and by the claim of the row that
\* run-once leaves pending; what crashed under a claim is not tried again.
TwiceAtMost ==
  \A r \in Runs : /\ metrics[r] <= 2
                 /\ \A c \in Cases : results[r][c] <= 2 * Len(Scorers)

\* A run that is enqueued ends, whatever its cases do - unless something fails
\* outside them.
EveryRunEnds ==
  \A r \in Runs : runStatus[r] = "pending" ~> runStatus[r] \in {"done", "failed"} \/ failures # 0

\* A claim is executed by one process, and what it counts is what the results say
\* (EvalWorker.run_pending, execute_run, _evaluate_case).
EvalInv == EvalTypeOK /\ OneExecution /\ PassedCountsGood /\ TwiceAtMost
=============================================================================
