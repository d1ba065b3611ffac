--------------------------- MODULE AnnotationDAO ---------------------------
(***************************************************************************)
(* AnnotationDAO.write (ontology-store dao/annotations.py): writers of     *)
(* different trust propose values for the annotation fields of one asset;  *)
(* per field a proposal is applied unless the latest provenance row has a  *)
(* higher trust.                                                           *)
(*                                                                         *)
(* A write is one database session at READ COMMITTED with autoflush off:   *)
(* the provenance is read field by field, everything is written by the     *)
(* flush at the end and seen by others at commit.  Sessions that changed   *)
(* the row flush one at a time (its row lock) without reading it again, so *)
(* flush and commit are one step.                                          *)
(***************************************************************************)
EXTENDS Naturals, FiniteSets

CONSTANTS
    Writers,      \* calls of write
    Fields,       \* concepts, key_areas, causal_relations
    Values,       \* what a field may hold
    Empty         \* nothing proposed, nothing stored

ASSUME AnnotationAssumption == IsFiniteSet(Writers) /\ Empty \notin Values

VARIABLES
    value,       \* table_ext: Fields -> the value stored
    provenance,  \* Fields -> the writers with a provenance row
    refreshes,   \* writers whose session enqueued a reindex of the asset
    at,          \* Writers -> where the write is
    anno,        \* Writers -> the annotation: source, proposed, written_at
    loaded,      \* Writers -> the row of table_ext as its session loaded it
    outcomes,    \* Writers -> what write decided for each field
    clock,       \* the time; written_at is made of it
    beside       \* history: Writers -> those under way at the same time as it

annotated == <<value, provenance, refreshes>>
annotationVars == <<annotated, at, anno, loaded, outcomes, clock, beside>>

Sources == {"human", "rule", "llm_enrichment", "other"}
Outcomes == {"undecided", "applied", "skipped_clobber", "noop_empty"}
FieldValues == [Fields -> Values \union {Empty}]
Annotations == [source : Sources, proposed : FieldValues, written_at : 0..Cardinality(Writers)]

Trust(source) ==
    CASE source = "human" -> 3
      [] source = "rule" -> 2
      [] source = "llm_enrichment" -> 1
      [] source = "other" -> 0

NoValues == [f \in Fields |-> Empty]
Undecided == [f \in Fields |-> "undecided"]

\* A table registered with the values of its document has no provenance.
AnnotationInit ==
    /\ value \in FieldValues
    /\ provenance = [f \in Fields |-> {}]
    /\ refreshes = {}
    /\ at = [w \in Writers |-> "idle"]
    /\ anno = [w \in Writers |-> [source |-> "other", proposed |-> NoValues, written_at |-> 0]]
    /\ loaded = [w \in Writers |-> NoValues]
    /\ outcomes = [w \in Writers |-> Undecided]
    /\ clock = 0
    /\ beside = [w \in Writers |-> {}]

Underway == {w \in Writers : at[w] \in {"proposed", "open"}}
\* No two annotations were ever under way at once.
alone == \A w \in Writers : beside[w] = {}

\* An annotation is stamped when it is made, not when it is written.
Propose(w, source, proposed) ==
    /\ at[w] = "idle"
    /\ anno' = [anno EXCEPT ![w] =
          [source |-> source, proposed |-> proposed, written_at |-> clock + 1]]
    /\ clock' = clock + 1
    /\ beside' = [v \in Writers |->
          beside[v] \union (IF v = w THEN Underway ELSE IF v \in Underway THEN {w} ELSE {})]
    /\ at' = [at EXCEPT ![w] = "proposed"]
    /\ UNCHANGED <<annotated, loaded, outcomes>>

Open(w) ==
    /\ at[w] = "proposed"
    /\ loaded' = [loaded EXCEPT ![w] = value]
    /\ at' = [at EXCEPT ![w] = "open"]
    /\ UNCHANGED <<annotated, anno, outcomes, clock, beside>>

\* Mutant of IsLatest: the order of the query is not descending.
IsOldest(p, f) ==
    /\ p \in provenance[f]
    /\ \A q \in provenance[f] : anno[q].written_at >= anno[p].written_at

\* _latest_provenance: by written_at, which the writers supply.
IsLatest(p, f) ==
    /\ p \in provenance[f]
    /\ \A q \in provenance[f] : anno[q].written_at <= anno[p].written_at

Outranked(w, f) ==
    \E p \in provenance[f] : IsLatest(p, f) /\ Trust(anno[p].source) > Trust(anno[w].source)

\* Mutant of Outcome: the prior provenance is not asked.
OutcomeClobbers(w, f) == IF anno[w].proposed[f] = Empty THEN "noop_empty" ELSE "applied"

Outcome(w, f) ==
    CASE anno[w].proposed[f] = Empty -> "noop_empty"
      [] anno[w].proposed[f] # Empty /\ Outranked(w, f) -> "skipped_clobber"
      [] OTHER -> "applied"

\* write looks at one field; fields do not interact, so any order will do.
Decide(w, f) ==
    /\ at[w] = "open"
    /\ outcomes[w][f] = "undecided"
    /\ outcomes' = [outcomes EXCEPT ![w][f] = Outcome(w, f)]
    /\ UNCHANGED <<annotated, at, anno, loaded, clock, beside>>

Applied(w) == {f \in Fields : outcomes[w][f] = "applied"}

\* Mutant of Recorded: a field that was held back gets its row, too.
RecordedSkips(w, f) == outcomes[w][f] # "noop_empty"
Recorded(w, f) == f \in Applied(w)

Refreshes(w) == Applied(w) # {}

(***************************************************************************)
(* The flush updates the columns whose value is not the one the session    *)
(* loaded; the provenance rows and the reindex task are committed with it. *)
(***************************************************************************)
Commit(w) ==
    /\ at[w] = "open"
    /\ \A f \in Fields : outcomes[w][f] # "undecided"
    /\ value' = [f \in Fields |->
          IF f \in Applied(w) /\ anno[w].proposed[f] # loaded[w][f]
          THEN anno[w].proposed[f] ELSE value[f]]
    /\ provenance' = [f \in Fields |->
          IF Recorded(w, f) THEN provenance[f] \union {w} ELSE provenance[f]]
    /\ refreshes' = IF Refreshes(w) THEN refreshes \union {w} ELSE refreshes
    /\ at' = [at EXCEPT ![w] = "done"]
    /\ loaded' = [loaded EXCEPT ![w] = NoValues]
    /\ UNCHANGED <<anno, outcomes, clock, beside>>

\* An error in the session, or the process ends: nothing was written, write returns nothing.
Rollback(w) ==
    /\ at[w] = "open"
    /\ at' = [at EXCEPT ![w] = "failed"]
    /\ loaded' = [loaded EXCEPT ![w] = NoValues]
    /\ outcomes' = [outcomes EXCEPT ![w] = Undecided]
    /\ UNCHANGED <<annotated, anno, clock, beside>>

AnnotationNext ==
    \E w \in Writers :
        \/ \E source \in Sources, proposed \in FieldValues : Propose(w, source, proposed)
        \/ Open(w) \/ (\E f \in Fields : Decide(w, f)) \/ Commit(w) \/ Rollback(w)

-----------------------------------------------------------------------------
AnnotationTypeOK ==
    /\ value \in FieldValues
    /\ provenance \in [Fields -> SUBSET Writers]
    /\ refreshes \subseteq Writers
    /\ at \in [Writers -> {"idle", "proposed", "open", "done", "failed"}]
    /\ anno \in [Writers -> Annotations]
    /\ loaded \in [Writers -> FieldValues]
    /\ outcomes \in [Writers -> [Fields -> Outcomes]]
    /\ clock \in 0..Cardinality(Writers)
    /\ beside \in [Writers -> SUBSET Writers]

(***************************************************************************)
(* A field changes only when a writer adds its row whose trust no earlier  *)
(* row of the field exceeds.                                               *)
(***************************************************************************)
ChangesByTrust ==
    \A f \in Fields : value'[f] # value[f] =>
        \E w \in provenance'[f] \ provenance[f] :
            \A p \in provenance[f] : Trust(anno[p].source) <= Trust(anno[w].source)

\* "Human annotations always win and disable subsequent LLM overwrites" and rules win
\* over LLMs, as long as each annotation is written before the next is made.
TrustWinsAlone == [][alone' => ChangesByTrust]_annotationVars

(***************************************************************************)
(* As long as each annotation is written before the next is made, the      *)
(* provenance row a reader is shown for a field, the latest, is the one of *)
(* the value the field holds.                                              *)
(***************************************************************************)
LatestDescribesValue ==
    alone => \A f \in Fields, p \in Writers : IsLatest(p, f) => value[f] = anno[p].proposed[f]

(***************************************************************************)
(* A later annotation of lower trust is recorded over one of higher trust  *)
(* only if some annotation of lower trust was under way beside that one    *)
(* and recorded, too: it read the provenance before the human's row was    *)
(* there, or its later stamp hides that row.  Without one, a human's value *)
(* is safe from every annotation made after it, whatever else overlaps.    *)
(***************************************************************************)
OverruledOnlyBeside ==
    \A f \in Fields : \A p, w \in provenance[f] :
        /\ anno[p].written_at < anno[w].written_at
        /\ Trust(anno[w].source) < Trust(anno[p].source)
        => \E q \in provenance[f] \cap beside[p] : Trust(anno[q].source) < Trust(anno[p].source)

(***************************************************************************)
(* A proposal without a value for a field leaves the field alone, in every *)
(* interleaving: no field that held a value is emptied.                    *)
(***************************************************************************)
NeverEmptied == [][\A f \in Fields : value[f] # Empty => value'[f] # Empty]_value

\* Each change reaches the search index: it commits together with a reindex
\* task, which the worker takes after the change is visible.
ChangesAreIndexed == [][refreshes' # refreshes]_value

\* The row and its provenance agree (AnnotationDAO.write, latest_for).
AnnotationInv == AnnotationTypeOK /\ LatestDescribesValue

\* What a write may do to a field: follow trust, never empty it, and never change
\* it without a reindex task (AnnotationDAO.write, decide).
FieldSteps == TrustWinsAlone /\ NeverEmptied /\ ChangesAreIndexed
=============================================================================
