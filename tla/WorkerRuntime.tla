---------------------------- MODULE WorkerRuntime ----------------------------
(***************************************************************************)
(* One process that holds several recipe runtimes: each has a registry of  *)
(* its own or the global one, registers its recipes when it is built and   *)
(* sets the client and the store of the whole process when it starts.      *)
(* Recipes then run inline: an activity that validates and one that runs   *)
(* extract, compute and persist, both with what the process holds globally. *)
(***************************************************************************)
EXTENDS Naturals, FiniteSets

CONSTANTS Runtimes,
          Recipes,     \* names with their version
          MaxBreakdowns,  \* bound on failures of the server, the source and the workers
          NoOne

VARIABLES private,    \* the runtimes given a registry of their own
          built,      \* the runtimes constructed
          begun,      \* history: the runtimes whose start() was called
          registry,   \* GLOBAL_REGISTRY: [Recipes -> the runtime whose object it holds]
          own,        \* the private registries
          configured, \* the runtime whose client and store the process uses
          worker,     \* [Runtimes -> "no", "connecting", "polling", "down"]
          job,        \* [Runtimes \X Recipes -> the run submitted]
          breakdowns

runtimeVars == <<private, built, begun, registry, own, configured, worker, job, breakdowns>>

ASSUME RuntimeAssumption == NoOne \notin Runtimes /\ MaxBreakdowns \in Nat

Jobs == Runtimes \X Recipes
NoJob == [phase |-> "none", tries |-> 0, validated |-> NoOne, ran |-> NoOne, stored |-> {},
          error |-> "none"]

RuntimeTypeOK ==
  /\ private \subseteq Runtimes /\ begun \subseteq built /\ built \subseteq Runtimes /\ configured \in Runtimes \union {NoOne}
  /\ registry \in [Recipes -> Runtimes \union {NoOne}]
  /\ own \in [Runtimes -> SUBSET Recipes] /\ \A r \in Runtimes \ private : own[r] = {}
  /\ worker \in [Runtimes -> {"no", "connecting", "polling", "down"}]
  /\ \A j \in Jobs : /\ job[j].phase \in {"none", "validate", "run", "done", "failed"}
                     /\ job[j].tries \in 0 .. 3 /\ job[j].stored \subseteq Runtimes
  /\ breakdowns \in 0 .. MaxBreakdowns

RuntimeInit ==
  /\ private \in SUBSET Runtimes
  /\ built = {} /\ begun = {} /\ configured = NoOne
  /\ registry = [k \in Recipes |-> NoOne] /\ own = [r \in Runtimes |-> {}]
  /\ worker = [r \in Runtimes |-> "no"] /\ job = [j \in Jobs |-> NoJob]
  /\ breakdowns = 0

Breakdown == breakdowns < MaxBreakdowns /\ breakdowns' = breakdowns + 1

\* Mutant of Registration: the recipe registered last is kept.
RegistrationLast(r) == [k \in Recipes |-> r]

\* A recipe that is there stays: the ValueError is dropped, and so is the new object.
Registration(r) == [k \in Recipes |-> IF registry[k] = NoOne THEN r ELSE registry[k]]

\* TemporalRuntime(...): every runtime comes with all the recipes.
Build(r) ==
  /\ r \notin built /\ built' = built \union {r}
  /\ IF r \in private THEN own' = [own EXCEPT ![r] = Recipes] /\ UNCHANGED registry
     ELSE registry' = Registration(r) /\ UNCHANGED own
  /\ UNCHANGED <<private, begun, configured, worker, job, breakdowns>>

\* start(): the process is configured before the server is asked. A runtime that was shut
\* down is not started again.
BeginStart(r) ==
  /\ r \in built /\ worker[r] = "no"
  /\ configured' = r /\ worker' = [worker EXCEPT ![r] = "connecting"]
  /\ begun' = begun \union {r}
  /\ UNCHANGED <<private, built, registry, own, job, breakdowns>>

\* The server cannot be reached: start() raises, the process stays configured.
ConnectFails(r) ==
  /\ Breakdown /\ worker[r] = "connecting"
  /\ worker' = [worker EXCEPT ![r] = "no"]
  /\ UNCHANGED <<private, built, begun, registry, own, configured, job>>

Connected(r) ==
  /\ worker[r] = "connecting" /\ worker' = [worker EXCEPT ![r] = "polling"]
  /\ UNCHANGED <<private, built, begun, registry, own, configured, job, breakdowns>>

Shutdown(r) ==
  /\ worker[r] = "polling" /\ worker' = [worker EXCEPT ![r] = "down"]
  /\ UNCHANGED <<private, built, begun, registry, own, configured, job, breakdowns>>

\* The registry submit() looks the recipe up in.
Known(r, k) == IF r \in private THEN k \in own[r] ELSE registry[k] # NoOne

\* submit(): the client is there as soon as the worker is, and stays after a shutdown.
Submit(r, k) ==
  /\ worker[r] \in {"polling", "down"} /\ Known(r, k) /\ job[<<r, k>>].phase = "none"
  /\ job' = [job EXCEPT ![<<r, k>>] = [NoJob EXCEPT !.phase = "validate", !.tries = 1]]
  /\ UNCHANGED <<private, built, begun, registry, own, configured, worker, breakdowns>>

\* The workers poll one queue: any of them takes any job.
Polled == \E r \in Runtimes : worker[r] = "polling"

\* validate_recipe_activity: the recipe of the global registry, one attempt.
ValidateRecipe(j) ==
  /\ Polled /\ job[j].phase = "validate"
  /\ \/ /\ registry[j[2]] # NoOne
        /\ job' = [job EXCEPT ![j] = [@ EXCEPT !.phase = "run", !.validated = registry[j[2]]]]
        /\ UNCHANGED breakdowns
     \/ /\ registry[j[2]] = NoOne
        /\ job' = [job EXCEPT ![j] = [@ EXCEPT !.phase = "failed", !.error = "unknown"]]
        /\ UNCHANGED breakdowns
     \/ /\ Breakdown
        /\ job' = [job EXCEPT ![j] = [@ EXCEPT !.phase = "failed", !.error = "invalid"]]
  /\ UNCHANGED <<private, built, begun, registry, own, configured, worker>>

\* LocalRuntime.submit with the client and the store the process is configured with.
RunInline(j) ==
  /\ Polled /\ job[j].phase = "run" /\ configured # NoOne
  /\ job' = [job EXCEPT ![j] = [job[j] EXCEPT !.phase = "done", !.ran = registry[j[2]],
                                              !.stored = @ \union {configured}]]
  /\ UNCHANGED <<private, built, begun, registry, own, configured, worker, breakdowns>>

\* The attempt raises, or its worker dies, before or after it has stored the result; an
\* unconfigured process raises at once.
AttemptFails(j) ==
  /\ Polled /\ job[j].phase = "run"
  /\ IF configured = NoOne THEN UNCHANGED breakdowns ELSE Breakdown
  /\ \E written \in {{}, {configured} \ {NoOne}} :
       LET after == [job[j] EXCEPT !.stored = @ \union written] IN
       job' = [job EXCEPT ![j] = IF after.tries < 3 THEN [after EXCEPT !.tries = @ + 1]
               ELSE [after EXCEPT !.phase = "failed",
                                  !.error = IF configured = NoOne THEN "unconfigured" ELSE "ran"]]
  /\ UNCHANGED <<private, built, begun, registry, own, configured, worker>>

JobStep(j) == ValidateRecipe(j) \/ RunInline(j) \/ AttemptFails(j)
RuntimeNext ==
  \/ \E r \in Runtimes : Build(r) \/ BeginStart(r) \/ ConnectFails(r) \/ Connected(r) \/ Shutdown(r)
  \/ \E r \in Runtimes, k \in Recipes : Submit(r, k)
  \/ \E j \in Jobs : JobStep(j)

\* A worker that polls takes what is there.
RuntimeFairness == \A j \in Jobs : WF_runtimeVars(JobStep(j))

-----------------------------------------------------------------------------
(* Properties. *)

\* The recipe object that validated the parameters is the one that runs, across attempts
\* and although another runtime registers its own in between (RecipeRegistry.register).
OneRecipePerJob ==
  \A j \in Jobs : job[j].phase = "done" => job[j].ran = job[j].validated

\* No activity meets an unconfigured process: a job is there only once a start() has
\* configured it (TemporalRuntime.start, get_worker_fedsql).
NeverUnconfigured == \A j \in Jobs : job[j].error # "unconfigured"

\* A job submitted to a runtime with the global registry finds its recipe.
AcceptedIsKnown ==
  \A j \in Jobs : j[1] \notin private => job[j].error # "unknown"

\* A result that is reported is stored, and only where start() was called in this
\* process: one runtime alone keeps its results in its own store, and a second one
\* takes over the store of both as soon as it tries to start.
StoredWhereBegun ==
  \A j \in Jobs : job[j].stored \subseteq begun /\ (job[j].phase = "done" => job[j].stored # {})

RuntimeSafety == OneRecipePerJob /\ NeverUnconfigured /\ AcceptedIsKnown /\ StoredWhereBegun

\* What was submitted ends unless every worker of the process stops polling.
SubmissionsEnd ==
  \A j \in Jobs : job[j].phase # "none" ~> (job[j].phase \in {"done", "failed"} \/ ~Polled)
=============================================================================
