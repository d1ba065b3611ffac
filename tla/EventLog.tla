------------------------------ MODULE EventLog ------------------------------
(***************************************************************************)
(* The event-sourced collections.  A pipeline run or the card loader       *)
(* commits a row together with an event task; later a reindex worker loads *)
(* the row, builds an event from what the row says by then, and appends it *)
(* after it has embedded the narrative.  Validators, operators and         *)
(* mark_deprecated change rows as well, but queue no task.  A session      *)
(* dates a row when it writes it and commits when it is through with       *)
(* others, too: a validator tests the rest of its list between the two.    *)
(* How tasks are claimed and retried is ReindexWorker's business.          *)
(***************************************************************************)
EXTENDS Naturals, Sequences

CONSTANTS Subjects,  \* rows that events are about
          TableOf,   \* [Subjects -> Tables]
          Appenders, \* reindex workers
          MaxClock,  \* bound: writes of rows
          MaxLost    \* bound: failures of a worker or of Qdrant

VARIABLES row_of, \* [Subjects -> status, updated_at and validated_at (0: null)]
          clock, \* the date of the last write
          open,  \* writes that are dated and not committed
          said,  \* history: [Subjects -> what the row said after each of its commits]
          owed,  \* [Subjects -> event tasks pending]
          hold,  \* [Appenders -> the event built for the task in hand]
          log,   \* [Subjects -> the events of its collection]
          fresh, \* history: rows whose last commit queued a task
          lost,  \* failures so far
          gone   \* history: rows a failure cost an event

eventVars == <<row_of, clock, open, said, owed, hold, log, fresh, lost, gone>>

Tables == {"causal", "relation", "protection", "card"}
\* "decided" stands for validated, rejected and inconclusive.
StatusesOf == [causal |-> {"proposed", "decided", "promoted"}, relation |-> {"canonical"},
               protection |-> {"proposed", "applied"}, card |-> {"revised", "deprecated"}]
FirstStatus == [causal |-> "proposed", relation |-> "canonical",
                protection |-> "proposed", card |-> "revised"]

ASSUME EventAssumption ==
  /\ TableOf \in [Subjects -> Tables]
  /\ MaxClock \in Nat /\ MaxLost \in Nat

Clock == 1 .. MaxClock
Status(s) == row_of[s].status
Flips(s) == StatusesOf[TableOf[s]] \ {FirstStatus[TableOf[s]]}
\* A write in a session: it inserts the row, updates it, or flips its status.
Writes == UNION {[row : {s}, at : Clock, to : {"insert", "update"} \union Flips(s)] : s \in Subjects}
\* An event: its kind, produced_at, and (history) the commits its row had when loaded.
Events(s) == [kind : StatusesOf[TableOf[s]], at : Clock, seen : Clock]
NoEvent == [row |-> "none"]

EventTypeOK ==
  /\ \A s \in Subjects :
       /\ row_of[s] \in [status : StatusesOf[TableOf[s]] \union {"absent"},
                        updated : 0 .. MaxClock, decided : 0 .. MaxClock]
       /\ said[s] \in Seq([at : Clock, status : StatusesOf[TableOf[s]]])
       /\ owed[s] \in 0 .. MaxClock
       /\ log[s] \subseteq Events(s)
  /\ \A w \in Appenders : hold[w] = NoEvent \/ hold[w].event \in Events(hold[w].row)
  /\ clock \in 0 .. MaxClock /\ open \subseteq Writes /\ lost \in 0 .. MaxLost
  /\ fresh \subseteq Subjects /\ gone \subseteq Subjects

EventInit ==
  /\ row_of = [s \in Subjects |-> [status |-> "absent", updated |-> 0, decided |-> 0]]
  /\ said = [s \in Subjects |-> <<>>]
  /\ clock = 0 /\ open = {}
  /\ owed = [s \in Subjects |-> 0]
  /\ hold = [w \in Appenders |-> NoEvent]
  /\ log = [s \in Subjects |-> {}]
  /\ fresh = {} /\ lost = 0 /\ gone = {}

LogFault == lost < MaxLost /\ lost' = lost + 1

-----------------------------------------------------------------------------
(* The rows. *)

\* A session writes s and dates it.
Dates(s, to) ==
  /\ clock < MaxClock /\ clock' = clock + 1
  /\ open' = open \union {[row |-> s, at |-> clock + 1, to |-> to]}
  /\ UNCHANGED <<row_of, said, owed, hold, log, fresh, lost, gone>>

\* The sink or the card loader: a row that exists keeps its status.
Tell(s) == Dates(s, IF Status(s) = "absent" THEN "insert" ELSE "update")

\* apply_validation_result, mark_deprecated, or an operator's flip.
Change(s) == Status(s) # "absent" /\ \E v \in Flips(s) \ {Status(s)} : Dates(s, v)

\* The row of x after its commit: a flip takes effect whatever the row says by then.
Written(x) ==
  LET r == row_of[x.row]
      v == CASE x.to = "insert" -> FirstStatus[TableOf[x.row]]
             [] x.to = "update" -> r.status
             [] OTHER -> x.to
  IN [status |-> v, updated |-> x.at, decided |-> IF x.to = "decided" THEN x.at ELSE r.decided]

Commits(x) ==
  /\ open' = open \ {x}
  /\ said' = [said EXCEPT ![x.row] = Append(@, [at |-> x.at, status |-> Written(x).status])]
  /\ UNCHANGED <<clock, hold, log, lost, gone>>

\* The task is in the same commit; a card that is inserted gets none.  The insert of a
\* row that exists by then fails.
TellCommits(x) ==
  LET quiet == TableOf[x.row] = "card" /\ x.to = "insert" IN
  /\ x \in open /\ x.to \in {"insert", "update"}
  /\ x.to = "insert" => Status(x.row) = "absent"
  /\ Commits(x)
  /\ row_of' = [row_of EXCEPT ![x.row] = Written(x)]
  /\ owed' = IF quiet THEN owed ELSE [owed EXCEPT ![x.row] = @ + 1]
  /\ fresh' = IF quiet THEN fresh ELSE fresh \union {x.row}

\* Mutant of ChangeCommits: the flip leaves the dates alone.
ChangeUndated(x) ==
  /\ x \in open /\ x.to \notin {"insert", "update"}
  /\ Commits(x)
  /\ row_of' = [row_of EXCEPT ![x.row].status = x.to]
  /\ fresh' = fresh \ {x.row} /\ UNCHANGED owed

ChangeCommits(x) ==
  /\ x \in open /\ x.to \notin {"insert", "update"}
  /\ Commits(x)
  /\ row_of' = [row_of EXCEPT ![x.row] = Written(x)]
  /\ fresh' = fresh \ {x.row} /\ UNCHANGED owed

-----------------------------------------------------------------------------
(* The workers. *)

(* Each builder takes the kind of the event and its produced_at from the row. *)
Event(s, kind, at) == [kind |-> kind, at |-> at, seen |-> Len(said[s])]

build_causal_candidate_event(s) ==
  Event(s, Status(s), IF row_of[s].decided # 0 THEN row_of[s].decided ELSE row_of[s].updated)
build_relation_type_event(s) == Event(s, "canonical", row_of[s].updated)
build_data_protection_event(s) ==
  Event(s, IF Status(s) = "applied" THEN "applied" ELSE "proposed", row_of[s].updated)
\* A card that is authored has no task (TellCommits).
build_card_event(s) ==
  Event(s, IF Status(s) = "deprecated" THEN "deprecated" ELSE "revised", row_of[s].updated)

Built(s) ==
  [causal |-> build_causal_candidate_event(s), relation |-> build_relation_type_event(s),
   protection |-> build_data_protection_event(s), card |-> build_card_event(s)][TableOf[s]]

\* A handler loads the row of its task and builds the event.
Load(w, s) ==
  /\ hold[w] = NoEvent /\ owed[s] > 0
  /\ owed' = [owed EXCEPT ![s] = @ - 1]
  /\ hold' = [hold EXCEPT ![w] = [row |-> s, event |-> Built(s)]]
  /\ UNCHANGED <<row_of, clock, open, said, log, fresh, lost, gone>>

Release(w) == hold[w] # NoEvent /\ hold' = [hold EXCEPT ![w] = NoEvent]
Logged(w) == log' = [log EXCEPT ![hold[w].row] = @ \union {hold[w].event}]
Again(w) == owed' = [owed EXCEPT ![hold[w].row] = @ + 1]

\* The event is appended and the task marked done.
AppendEvent(w) ==
  /\ Release(w) /\ Logged(w)
  /\ UNCHANGED <<row_of, clock, open, said, owed, fresh, lost, gone>>

\* Embedding or the commit of mark_done fails: the task is pending again, and
\* after the commit failed its event is there already.
RetryEvent(w) ==
  /\ Release(w) /\ LogFault /\ Again(w)
  /\ Logged(w) \/ UNCHANGED log
  /\ UNCHANGED <<row_of, clock, open, said, fresh, gone>>

\* Qdrant refuses the point, which upsert_points only counts; or the worker dies.
LoseEvent(w) ==
  /\ Release(w) /\ LogFault
  /\ gone' = gone \union {hold[w].row}
  /\ UNCHANGED <<row_of, clock, open, said, owed, log, fresh>>

EventNext ==
  \/ \E s \in Subjects : Tell(s) \/ Change(s)
  \/ \E x \in open : TellCommits(x) \/ ChangeCommits(x)
  \/ \E w \in Appenders : \/ \E s \in Subjects : Load(w, s)
                          \/ AppendEvent(w) \/ RetryEvent(w) \/ LoseEvent(w)

EventFairness ==
  \A w \in Appenders : /\ WF_eventVars(\E s \in Subjects : Load(w, s))
                       /\ WF_eventVars(AppendEvent(w))

-----------------------------------------------------------------------------
(* Properties. *)

\* An event tells what the write it is dated by left in its row, however late a slow worker
\* appends it and however long that write was in an open session (build_*_event date events
\* by the row).  Only a promotion may carry the date of the decision before it.
EventsWereTrue ==
  \A s \in Subjects : \A e \in log[s] : e.kind # "promoted" =>
    \E i \in DOMAIN said[s] : said[s][i] = [at |-> e.at, status |-> e.kind]

LogSettled(s) ==
  /\ s \in fresh \ gone /\ owed[s] = 0
  /\ \A w \in Appenders : hold[w].row # s

\* Some commit of s is not dated after a commit of s that it followed.
Crossed(s) == \E i, j \in DOMAIN said[s] : i < j /\ said[s][j].at <= said[s][i].at

\* Retrieval can take the newest event of a subject for its current state, once
\* the tasks of the row's last write are done and none was lost ("Retrieval
\* aggregates events into current state at query time ... ranking by produced_at").
\* A row whose commits crossed is excepted: a decision dated before the proposal that
\* was told again meanwhile never becomes the newest event.
CurrentStateFromLog ==
  \A s \in Subjects : LogSettled(s) /\ ~Crossed(s) /\ Status(s) # "promoted" =>
    \E e \in log[s] : e.kind = Status(s) /\ \A f \in log[s] : f.kind # e.kind => f.at < e.at

\* A task is answered by an event that saw the row as it was when the task was
\* pending, or later: tasks of one row do not stand in for each other.
TasksAreAnswered ==
  \A s \in Subjects, n \in Clock :
    (owed[s] > 0 /\ Len(said[s]) = n) ~> (s \in gone \/ \E e \in log[s] : e.seen >= n)

\* The collection of events can stand for the history of its rows.
EventsTellTheTruth == EventsWereTrue /\ CurrentStateFromLog
=============================================================================
