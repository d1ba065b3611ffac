------------------------------ MODULE StagedJob ------------------------------
(***************************************************************************)
(* The staged recipe workflow: activities whose attempts write files named *)
(* after the job, so that an attempt the server has given up on and its    *)
(* retry (on another worker) write the same ones.  A staged file is        *)
(* written beside its place and renamed; the result store writes in place. *)
(***************************************************************************)
EXTENDS Naturals, FiniteSets, Sequences

CONSTANTS Plan,        \* the files each activity writes, in their order
          MaxAttempts, \* retry_policy.maximum_attempts of each activity
          MaxFaults    \* bound on errors, deaths of workers and attempts overtaken

VARIABLES stage,   \* what the workflow awaits
          tries,   \* the attempt of it that counts
          running, \* attempts that run: [stage, n, at, where]
          temp,    \* [Files -> writers of the file beside it]
          final,   \* [Files -> writers of the file in its place], {} if there is none
          faults,
          overtaken \* history: a retry has started beside a running attempt

jobVars == <<stage, tries, running, temp, final, faults, overtaken>>

Activities == {"extract", "compute", "persist"}
After == [validate |-> "extract", extract |-> "compute", compute |-> "persist", persist |-> "done"]

ASSUME JobAssumption ==
  /\ \A s \in Activities : Plan[s] \in Seq(STRING) /\ Len(Plan[s]) # 0
                             /\ MaxAttempts[s] \in Nat \ {0}
  /\ MaxFaults \in Nat

Files == UNION {{<<s, Plan[s][i]>> : i \in DOMAIN Plan[s]} : s \in Activities}
Attempts == UNION {{<<s, n>> : n \in 1 .. MaxAttempts[s]} : s \in Activities}
FilesOf(s) == {f \in Files : f[1] = s}
InPlace(f) == f[1] = "persist"

\* where: the file an open writer reaches - the temporary one, the one in place once
\* somebody has renamed it, or none any more.
JobTypeOK ==
  /\ stage \in Activities \union {"validate", "done", "failed"}
  /\ stage \in Activities => tries \in 1 .. MaxAttempts[stage]
  /\ \A a \in running : /\ <<a.stage, a.n>> \in Attempts /\ a.at \in 1 .. Len(Plan[a.stage]) + 1
                        /\ a.where \in {"closed", "temp", "final", "nowhere"}
  /\ temp \in [Files -> SUBSET Attempts] /\ final \in [Files -> SUBSET Attempts]
  /\ faults \in 0 .. MaxFaults /\ overtaken \in BOOLEAN

JobInit ==
  /\ stage = "validate" /\ tries = 1 /\ running = {}
  /\ temp = [f \in Files |-> {}] /\ final = [f \in Files |-> {}]
  /\ faults = 0 /\ overtaken = FALSE

Fault == faults < MaxFaults /\ faults' = faults + 1
Attempt(s, n) == [stage |-> s, n |-> n, at |-> 1, where |-> "closed"]
Id(a) == <<a.stage, a.n>>
Ended == stage \in {"done", "failed"}
Awaited(a) == a.stage = stage /\ a.n = tries
File(a) == <<a.stage, Plan[a.stage][a.at]>>
Staging(a) == a.where # "closed" /\ ~InPlace(File(a))
\* The other attempts that have a writer on a's file, reaching w.
Rivals(a, w) == {b \in running \ {a} : b.where = w /\ File(b) = File(a)}
Move(as, w) == {[b EXCEPT !.where = w] : b \in as}
Advance(a) == [a EXCEPT !.at = @ + 1, !.where = "closed"]

-----------------------------------------------------------------------------
(* The workflow. *)

\* The activity is over; the next one starts with its first attempt.
Proceed(rest) ==
  /\ stage' = After[stage] /\ tries' = 1
  /\ running' = IF stage' = "done" THEN rest ELSE rest \union {Attempt(stage', 1)}

\* validate_recipe_activity has one attempt.
Validate ==
  /\ stage = "validate"
  /\ \/ Proceed(running) /\ UNCHANGED faults
     \/ Fault /\ stage' = "failed" /\ UNCHANGED <<tries, running>>
  /\ UNCHANGED <<temp, final, overtaken>>

\* The attempt that counts has failed; rest still runs.
Retry(rest, retryable) ==
  IF retryable /\ tries < MaxAttempts[stage]
  THEN /\ tries' = tries + 1 /\ running' = rest \union {Attempt(stage, tries + 1)}
       /\ UNCHANGED stage
  ELSE stage' = "failed" /\ running' = rest /\ UNCHANGED tries

\* Mutant of TimesOut: no timeout, the worker has to report.
TimesOutNever == FALSE /\ UNCHANGED jobVars

\* heartbeat_timeout or start_to_close_timeout: the worker of the attempt is gone, or
\* it is only slow - its writes do not await, so nothing stops them.
TimesOut ==
  /\ stage \in Activities
  /\ IF \E a \in running : Awaited(a)
     THEN Fault /\ overtaken' = TRUE
     ELSE UNCHANGED <<faults, overtaken>>
  /\ Retry(running, TRUE)
  /\ UNCHANGED <<temp, final>>

-----------------------------------------------------------------------------
(* An attempt. *)

\* The file a writes, truncated: a rival that has it open writes on.
Opened(a) ==
  LET w == IF InPlace(File(a)) THEN "final" ELSE "temp"
      writers == {Id(a)} \union {Id(b) : b \in Rivals(a, w)} IN
  /\ running' = (running \ {a}) \union Move({a}, w)
  /\ IF InPlace(File(a))
     THEN final' = [final EXCEPT ![File(a)] = writers] /\ UNCHANGED temp
     ELSE temp' = [temp EXCEPT ![File(a)] = writers] /\ UNCHANGED final

Open(a) ==
  /\ a.where = "closed" /\ a.at <= Len(Plan[a.stage])
  /\ Opened(a)
  /\ UNCHANGED <<stage, tries, faults, overtaken>>

\* The error reaches the server only from the attempt it waits for.
Report(a, retryable) ==
  IF Awaited(a) THEN Retry(running \ {a}, retryable)
  ELSE running' = running \ {a} /\ UNCHANGED <<stage, tries>>

\* The writer is closed and renamed: rivals now write the file in place, and those
\* that wrote the one that was there write to nothing.
Rename(a) ==
  LET f == File(a) rivals == Rivals(a, "temp") stale == Rivals(a, "final") IN
  /\ Staging(a) /\ temp[f] # {}
  /\ final' = [final EXCEPT ![f] = temp[f]] /\ temp' = [temp EXCEPT ![f] = {}]
  /\ running' = ((running \ ({a} \union rivals \union stale)) \union {Advance(a)})
                  \union Move(rivals, "final") \union Move(stale, "nowhere")
  /\ UNCHANGED <<stage, tries, faults, overtaken>>

\* Mutant of RenameFails: a missing temporary file counts as done.
RenameSkipped(a) ==
  /\ Staging(a) /\ temp[File(a)] = {}
  /\ running' = (running \ {a}) \union {Advance(a)}
  /\ UNCHANGED <<stage, tries, temp, final, faults, overtaken>>

\* A rival has renamed or removed the temporary file: FileNotFoundError.
RenameFails(a) ==
  /\ Staging(a) /\ temp[File(a)] = {}
  /\ Report(a, TRUE)
  /\ UNCHANGED <<temp, final, faults, overtaken>>

\* A file of the result store is written.
Close(a) ==
  /\ a.where = "final" /\ InPlace(File(a))
  /\ running' = (running \ {a}) \union {Advance(a)}
  /\ UNCHANGED <<stage, tries, temp, final, faults, overtaken>>

Complete(a) ==
  /\ a.at > Len(Plan[a.stage])
  /\ IF Awaited(a) THEN Proceed(running \ {a})
     ELSE running' = running \ {a} /\ UNCHANGED <<stage, tries>>
  /\ UNCHANGED <<temp, final, faults, overtaken>>

\* The source, the recipe or the disk raises.
Raise(a) ==
  /\ Fault /\ ~Staging(a)
  /\ \E retryable \in BOOLEAN : Report(a, retryable)
  /\ UNCHANGED <<temp, final, overtaken>>

\* A batch cannot be read or written: the temporary file, whoever writes it, is removed
\* unless an earlier one is in place.
RaiseWriting(a) ==
  LET rivals == Rivals(a, "temp") removed == final[File(a)] = {} IN
  /\ Fault /\ Staging(a)
  /\ temp' = IF removed THEN [temp EXCEPT ![File(a)] = {}] ELSE temp
  /\ LET rest == IF removed THEN (running \ rivals) \union Move(rivals, "nowhere") ELSE running IN
     \E retryable \in BOOLEAN :
       IF Awaited(a) THEN Retry(rest \ {a}, retryable)
       ELSE running' = rest \ {a} /\ UNCHANGED <<stage, tries>>
  /\ UNCHANGED <<final, overtaken>>

\* The process of the attempt dies; its temporary file stays.
Dies(a) ==
  /\ Fault /\ running' = running \ {a}
  /\ UNCHANGED <<stage, tries, temp, final, overtaken>>

Work(a) == Open(a) \/ Rename(a) \/ RenameFails(a) \/ Close(a) \/ Complete(a)
JobNext == \/ Validate \/ TimesOut
           \/ \E a \in running : Work(a) \/ Raise(a) \/ RaiseWriting(a) \/ Dies(a)

\* The server acts on its own timers; a worker that lives works on.
JobFairness ==
  /\ WF_jobVars(Validate)
  /\ WF_jobVars(TimesOut /\ ~\E a \in running : Awaited(a))
  /\ WF_jobVars(\E a \in running : Work(a))

-----------------------------------------------------------------------------
(* Properties. *)

Completed(s) == \/ s = "extract" /\ stage \in {"compute", "persist", "done"}
                \/ s = "compute" /\ stage \in {"persist", "done"}
                \/ s = "persist" /\ stage = "done"

\* Every file a completed activity hands over exists, although attempts rename and
\* remove one another's temporary file.
HandlesResolve == \A s \in Activities : Completed(s) => \A f \in FilesOf(s) : final[f] # {}

\* What a completed activity leaves was all written by one of its attempts: datasets
\* of two extractions are never mixed, nor the files of two results, unless an
\* attempt was overtaken while it was still writing.
OneAttemptPerStage ==
  \A s \in Activities :
    Completed(s) /\ ~overtaken => \E n \in 1 .. MaxAttempts[s] :
                                    \A f \in FilesOf(s) : final[f] = {<<s, n>>}

\* A job that has started ends, whatever its attempts do.
JobEnds == stage # "validate" ~> Ended

\* A later activity finds the files of the one before, and of one attempt at it
\* (write_named_dataset_to_parquet, finalize).
JobSafety == HandlesResolve /\ OneAttemptPerStage
=============================================================================
