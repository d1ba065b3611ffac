---------------------------- MODULE JobWorkflows ----------------------------
(***************************************************************************)
(* Jobs described in YAML files: the run-dir command that starts a workflow *)
(* for each file and may wait for it, and the three workflows without       *)
(* staging - one query, a pipeline of steps, two hops and a join - as what  *)
(* they are to the server: a list of activities, each with its attempts.    *)
(***************************************************************************)
EXTENDS Naturals, SequencesExt

CONSTANTS Directories, \* the lists of job files a command may be given
          Commands,    \* invocations of run-dir on the same directory
          FailFast,    \* the commands that were given --fail-fast
          MaxMishaps   \* bounds on errors, deaths, lost calls and attempts overtaken

VARIABLES directory, \* the job files, in the order the command takes them
          command,   \* [Commands -> [pc, at, oks, exit]]
          flow,      \* [Commands -> [file -> what the server knows of the run]]
          attempts,  \* attempts that run on some worker: [c, i, at, n]
          mishaps

flowVars == <<directory, command, flow, attempts, mishaps>>

\* A job file: its workflow type, the steps of its input, the step that is the answer ("" for
\* the last), the artifacts wanted after it, whether the command waits, whether the
\* workflow id is fixed, and whether it can be read at all - its variables are set, the
\* steps have the fields of their kind.
\* A step: its id, its kind, the steps whose rows it is fed, and whether a source is named.
StepIds == UNION {UNION {{d[i].steps[k].id : k \in DOMAIN d[i].steps} : i \in DOMAIN d}
                   : d \in Directories}
JobFiles == UNION {ToSet(d) : d \in Directories}
Step(f, id) == CHOOSE s \in ToSet(f.steps) : s.id = id

StepKinds == {"fedsql", "dstools_sql", "dstools_python", "fetch", "combine"}

FlowAssumption ==
  /\ \A d \in Directories : d \in Seq(ToSet(d)) \ {<<>>} /\ \A f \in ToSet(d) :
       /\ f.steps \in Seq(ToSet(f.steps)) \ {<<>>} /\ f.post \subseteq {"summary", "chart"}
       /\ f.readable => \A s \in ToSet(f.steps) : s.kind \in StepKinds
  /\ MaxMishaps \in [Directories -> Nat]
ASSUME FlowAssumption

-----------------------------------------------------------------------------
(* What a file asks for. *)

Registered == {"nexcraft_fedsql_query", "nexcraft_dstools_pipeline",
               "nexcraft_cornerstone_multihop"}
\* Workers know these two as well; WorkerRuntime and StagedJob say what they do.
RecipeTypes == {"nexcraft_recipe_inline", "nexcraft_recipe_staged"}

\* Any step may be consumed, a later one and the step itself too.
InputIsValid(f) ==
  LET ids == [k \in DOMAIN f.steps |-> f.steps[k].id] IN
  /\ IsInjective(ids)
  /\ \A s \in ToSet(f.steps) : s.consumes \subseteq ToSet(ids)
  /\ f.final # "" => f.final \in ToSet(ids)

\* The input of a type that is not registered is not looked at.
Loads(f) == f.readable /\ (f.type \in Registered => InputIsValid(f))

FinalOf(f) == IF f.final = "" THEN Last(f.steps).id ELSE f.final

\* A template is rendered, then its text is executed.
OfStep(s) ==
  LET act(run) == [run |-> run, step |-> s.id] IN
  CASE s.kind = "fedsql"         -> <<act("execute")>>
    [] s.kind = "dstools_sql"    -> <<act("render"), act("execute")>>
    [] s.kind = "dstools_python" -> <<act("tool")>>
    [] OTHER                     -> <<act(s.kind)>>

StepActs(f) == FlattenSeq([k \in DOMAIN f.steps |-> OfStep(f.steps[k])])
PostActs(f) == [k \in 1 .. Cardinality(f.post) |->
                  [run |-> IF k = 1 /\ "summary" \in f.post THEN "summary" ELSE "chart", step |-> ""]]
\* The final step is one of the steps, so there is an answer to make the artifacts of.
Acts == [f \in JobFiles |-> StepActs(f) \o PostActs(f)]

\* The attempts of an activity; the hops have the server's default policy, no bound.
MayTryAgain(f, act, n) ==
  \/ f.type = "nexcraft_cornerstone_multihop"
  \/ n < IF f.type = "nexcraft_fedsql_query" /\ act.run \in {"summary", "chart"} THEN 2 ELSE 3

-----------------------------------------------------------------------------
(* The runs on the server. *)

NotStarted == [phase |-> "none", at |-> 0, tries |-> 0, rows |-> [s \in StepIds |-> {}],
               meta |-> {}, rejected |-> FALSE]
Runs == {<<c, i>> : c \in Commands, i \in DOMAIN directory}
IsOpen(c, i) == flow[c][i].phase = "open"
ActOf(c, i) == Acts[directory[i]][flow[c][i].at]
AwaitedBy(a) == IsOpen(a.c, a.i) /\ flow[a.c][a.i].at = a.at /\ flow[a.c][a.i].tries = a.n
Mishap == mishaps < MaxMishaps[directory] /\ mishaps' = mishaps + 1
Set(c, i, r) == flow' = [flow EXCEPT ![c] = [@ EXCEPT ![i] = r]]

FlowInit ==
  /\ directory \in Directories
  /\ \E invoked \in SUBSET Commands :
       command = [c \in Commands |-> [pc |-> IF c \in invoked THEN "load" ELSE "idle", at |-> 1, oks |-> <<>>, exit |-> "none"]]
  /\ flow = [c \in Commands |-> [i \in DOMAIN directory |-> NotStarted]]
  /\ attempts = {} /\ mishaps = 0

FlowTypeOK ==
  /\ directory \in Directories
  /\ \A c \in Commands :
       /\ command[c].pc \in {"idle", "load", "start", "await", "exited"}
       /\ command[c].at \in DOMAIN directory
       /\ command[c].exit \in {"none", "zero", "one", "raised"}
       /\ \A i \in DOMAIN directory :
            /\ flow[c][i].phase \in {"none", "open", "done", "failed"}
            /\ IsOpen(c, i) /\ directory[i].type \in Registered
                 => flow[c][i].at \in DOMAIN Acts[directory[i]]
  /\ \A a \in attempts : <<a.c, a.i>> \in Runs
  /\ mishaps \in 0 .. MaxMishaps[directory]

\* What the activities return, as the set of the steps whose rows went into it.
Executed(act) == {act.step}
Fetched(act) == {act.step}
Combined(f, act, rows) == {act.step} \union UNION {rows[s] : s \in Step(f, act.step).consumes}
\* A step that has not run yet feeds nothing, and nobody complains.
FromTool(f, act, rows) ==
  {act.step} \union UNION {rows[s] : s \in {s \in Step(f, act.step).consumes : rows[s] # {}}}
\* With the language model or without it, there is always an artifact.
Artifact(act) == {act.run}

Answered(f, act, r) ==
  CASE act.run = "render"  -> r
    [] act.run = "execute" -> [r EXCEPT !.rows[act.step] = Executed(act)]
    [] act.run = "fetch"   -> [r EXCEPT !.rows[act.step] = Fetched(act)]
    [] act.run = "combine" -> [r EXCEPT !.rows[act.step] = Combined(f, act, r.rows)]
    [] act.run = "tool"    -> [r EXCEPT !.rows[act.step] = FromTool(f, act, r.rows)]
    [] act.run \in {"summary", "chart"} -> [r EXCEPT !.meta = @ \union Artifact(act)]

\* The attempt the server waits for has answered.
Completes(a) ==
  LET f == directory[a.i]
      r == flow[a.c][a.i]
      answered == Answered(f, ActOf(a.c, a.i), r) IN
  IF r.at < Len(Acts[f])
  THEN /\ Set(a.c, a.i, [answered EXCEPT !.at = @ + 1, !.tries = 1])
       /\ attempts' = (attempts \ {a}) \union {[a EXCEPT !.at = @ + 1, !.n = 1]}
  ELSE /\ Set(a.c, a.i, [answered EXCEPT !.phase = "done"])
       /\ attempts' = attempts \ {a}

\* The attempt the server waits for is over without an answer; rest still runs.
TryAgain(c, i, rest, retryable) ==
  LET r == flow[c][i] IN
  IF retryable /\ MayTryAgain(directory[i], ActOf(c, i), r.tries)
  THEN /\ Set(c, i, [r EXCEPT !.tries = @ + 1])
       /\ attempts' = rest \union {[c |-> c, i |-> i, at |-> r.at, n |-> r.tries + 1]}
  ELSE /\ Set(c, i, [r EXCEPT !.phase = "failed", !.rejected = ~retryable])
       /\ attempts' = rest

\* A statement without a source never reaches one.
Unbound(a) == /\ ActOf(a.c, a.i).run = "execute"
              /\ ~Step(directory[a.i], ActOf(a.c, a.i).step).bound

Replies(a) ==
  /\ AwaitedBy(a) /\ ~Unbound(a)
  /\ Completes(a)
  /\ UNCHANGED <<directory, command, mishaps>>

\* resolved_source_id raises a ValueError, which the server takes for any other failure.
RaiseUnbound(a) ==
  /\ AwaitedBy(a) /\ Unbound(a)
  /\ TryAgain(a.c, a.i, attempts \ {a}, TRUE)
  /\ UNCHANGED <<directory, command, mishaps>>

\* The answer of an attempt the server has given up on.
AnswerLate(a) ==
  /\ ~AwaitedBy(a) /\ attempts' = attempts \ {a}
  /\ UNCHANGED <<directory, command, flow, mishaps>>

\* The database rejects the statement, as it would every time.
Reject(a) ==
  /\ Mishap /\ AwaitedBy(a) /\ ActOf(a.c, a.i).run = "execute" /\ ~Unbound(a)
  /\ TryAgain(a.c, a.i, attempts \ {a}, FALSE)
  /\ UNCHANGED <<directory, command>>

\* A connection, a tool or the join raises, the row budget is exceeded; the artifacts
\* fall back to plain ones and never raise.
Fail(a) ==
  /\ Mishap /\ AwaitedBy(a) /\ ActOf(a.c, a.i).run \notin {"summary", "chart"} /\ ~Unbound(a)
  /\ TryAgain(a.c, a.i, attempts \ {a}, TRUE)
  /\ UNCHANGED <<directory, command>>

WorkerDies(a) ==
  /\ Mishap /\ attempts' = attempts \ {a}
  /\ UNCHANGED <<directory, command, flow>>

\* start_to_close_timeout: the worker is gone, or only slow.
GiveUp(c, i) ==
  /\ IsOpen(c, i) /\ directory[i].type \in Registered
  /\ IF \E a \in attempts : a.c = c /\ a.i = i /\ AwaitedBy(a) THEN Mishap ELSE UNCHANGED mishaps
  /\ TryAgain(c, i, attempts, TRUE)
  /\ UNCHANGED <<directory, command>>

\* A recipe comes to its end - or not: nobody has looked at its input, and a worker that
\* cannot decode it leaves the run open.
RecipeEnds(c, i) ==
  /\ IsOpen(c, i) /\ directory[i].type \in RecipeTypes
  /\ \E phase \in {"done", "failed"} : Set(c, i, [flow[c][i] EXCEPT !.phase = phase])
  /\ UNCHANGED <<directory, command, attempts, mishaps>>

-----------------------------------------------------------------------------
(* The command. *)

Exit(c, code) == command' = [command EXCEPT ![c].pc = "exited", ![c].exit = code]

\* Mutant of Record: the last outcome decides.
RecordLast(c, ok) ==
  LET cmd == command[c] oks == Append(cmd.oks, ok) IN
  command' = [command EXCEPT ![c] =
    IF c \in FailFast /\ ~ok THEN [cmd EXCEPT !.oks = oks, !.pc = "exited", !.exit = "one"]
    ELSE IF cmd.at < Len(directory) THEN [cmd EXCEPT !.oks = oks, !.pc = "load", !.at = @ + 1]
    ELSE [cmd EXCEPT !.oks = oks, !.pc = "exited", !.exit = IF ok THEN "zero" ELSE "one"]]

\* The outcome of a file is recorded; the exit code is that of all files.
Record(c, ok) ==
  LET cmd == command[c] oks == Append(cmd.oks, ok) IN
  command' = [command EXCEPT ![c] =
    IF c \in FailFast /\ ~ok THEN [cmd EXCEPT !.oks = oks, !.pc = "exited", !.exit = "one"]
    ELSE IF cmd.at < Len(directory) THEN [cmd EXCEPT !.oks = oks, !.pc = "load", !.at = @ + 1]
    ELSE [cmd EXCEPT !.oks = oks, !.pc = "exited",
                     !.exit = IF FALSE \in ToSet(oks) THEN "one" ELSE "zero"]]

\* A file that does not load ends the command, --fail-fast or not: what the files before
\* it did is never printed and those after it are not started.
LoadFile(c) ==
  /\ command[c].pc = "load"
  /\ IF Loads(directory[command[c].at])
     THEN command' = [command EXCEPT ![c].pc = "start"]
     ELSE Exit(c, "raised")
  /\ UNCHANGED <<directory, flow, attempts, mishaps>>

\* The server refuses a second open run of a fixed workflow id.
Refused(i) == directory[i].fixed /\ \E other \in Commands : IsOpen(other, i)

StartWorkflow(c) ==
  LET i == command[c].at f == directory[i] IN
  /\ command[c].pc = "start" /\ ~Refused(i)
  /\ Set(c, i, [NotStarted EXCEPT !.phase = "open", !.at = 1, !.tries = 1])
  \* The activities of the three types are attempted; no worker takes up a run of a type
  \* that is neither registered nor a recipe.
  /\ attempts' = IF f.type \in Registered
                 THEN attempts \union {[c |-> c, i |-> i, at |-> 1, n |-> 1]} ELSE attempts
  /\ IF f.wait THEN command' = [command EXCEPT ![c].pc = "await"] ELSE Record(c, TRUE)
  /\ UNCHANGED <<directory, mishaps>>

RefusedStart(c) ==
  /\ command[c].pc = "start" /\ Refused(command[c].at)
  /\ Record(c, FALSE)
  /\ UNCHANGED <<directory, flow, attempts, mishaps>>

Returns(c) ==
  LET r == flow[c][command[c].at] IN
  /\ command[c].pc = "await" /\ r.phase \in {"done", "failed"}
  /\ Record(c, r.phase = "done")
  /\ UNCHANGED <<directory, flow, attempts, mishaps>>

\* The server cannot be reached, or no more: what was started goes on.
LosesServer(c) ==
  /\ Mishap /\ command[c].pc \in {"start", "await"}
  /\ Record(c, FALSE)
  /\ UNCHANGED <<directory, flow, attempts>>

CommandStep(c) == LoadFile(c) \/ StartWorkflow(c) \/ RefusedStart(c) \/ Returns(c)
WorkerStep == \E a \in attempts : Replies(a) \/ RaiseUnbound(a) \/ AnswerLate(a)
NobodyWorks(c, i) == ~\E a \in attempts : a.c = c /\ a.i = i /\ AwaitedBy(a)

FlowNext ==
  \/ WorkerStep
  \/ \E a \in attempts : Reject(a) \/ Fail(a) \/ WorkerDies(a)
  \/ \E r \in Runs : GiveUp(r[1], r[2]) \/ RecipeEnds(r[1], r[2])
  \/ \E c \in Commands : CommandStep(c) \/ LosesServer(c)

\* Workers that live work, the server's timers fire, the command is a running process.
FlowFairness ==
  /\ WF_flowVars(WorkerStep)
  /\ \A c \in Commands : WF_flowVars(CommandStep(c))
  /\ WF_flowVars(\E r \in Runs : NobodyWorks(r[1], r[2]) /\ GiveUp(r[1], r[2]))

-----------------------------------------------------------------------------
(* Properties. *)

\* The steps a step is fed, as far as they come before it; SQL is fed nothing.
Position(f, id) == CHOOSE k \in DOMAIN f.steps : f.steps[k].id = id
Fed(f, id) == IF Step(f, id).kind \notin {"dstools_python", "combine"} THEN {}
              ELSE {s \in Step(f, id).consumes : Position(f, s) < Position(f, id)}
\* Everything a complete run makes the rows of a step of: the step, the steps it is fed,
\* those they are fed, and no others.
IdsOf(f) == {s.id : s \in ToSet(f.steps)}
Upstream(f, id) ==
  {s \in IdsOf(f) : \A ids \in SUBSET IdsOf(f) :
     id \in ids /\ (\A t \in ids : Fed(f, t) \subseteq ids) => s \in ids}

\* A run that is done has the rows of its final step, which were made of all the rows that
\* step was to be fed, and the artifacts that were asked for - however many attempts at
\* its activities died, were retried or answered late (DstoolsPipelineWorkflow.run).
AnswersAreWhole ==
  \A r \in Runs :
    LET f == directory[r[2]] run == flow[r[1]][r[2]] IN
    f.type \in Registered /\ run.phase = "done" =>
                          /\ run.rows[FinalOf(f)] = Upstream(f, FinalOf(f))
                          /\ run.meta = f.post

\* An exit code of 0 says that every file was started and that every run the command
\* waited for is done; a file that could not be started or a run that failed is never
\* forgotten because a later one succeeded (_cmd_run_dir).
ZeroMeansDone ==
  \A c \in Commands : command[c].exit = "zero" =>
    \A i \in DOMAIN directory :
      flow[c][i].phase = "done" \/ (~directory[i].wait /\ flow[c][i].phase # "none")

\* A rejected statement is not sent again: the run fails at once, and what the caller is
\* told is the error of the database (fedsql_activities).
RejectionEndsTheRun ==
  \A r \in Runs : LET run == flow[r[1]][r[2]] IN
    run.rejected => run.phase = "failed" /\ ~\E a \in attempts : AwaitedBy(a) /\ <<a.c, a.i>> = r

FlowSafety == AnswersAreWhole /\ ZeroMeansDone /\ RejectionEndsTheRun

\* A command that has loaded a file ends, unless it waits for a workflow whose input nobody
\* has checked - of a type no worker knows, or a recipe: attempts are bounded and every
\* attempt has a timeout.
Stuck(c) == /\ command[c].pc = "await"
            /\ directory[command[c].at].type \notin Registered
CommandsEnd == \A c \in Commands : command[c].pc \in {"start", "await"} ~> command[c].pc = "exited" \/ Stuck(c)
=============================================================================
