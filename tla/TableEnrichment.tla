-------------------------- MODULE TableEnrichment --------------------------
(***************************************************************************)
(* The enrichment of one table in memory: build_mdl, the configured stages *)
(* in their order, each of which asks an LLM that may fail, and the        *)
(* annotation.  What is written of it, and when, is TablePipeline.         *)
(***************************************************************************)
EXTENDS Naturals, FiniteSets, Sequences

CONSTANTS Whole,       \* the table itself, beside its columns
          Fields,      \* columns
          PrimaryKeys, \* columns of the primary key
          FkShaped,    \* columns whose name looks like a foreign key
          Cards,       \* ids of object types, key areas and causal nodes
          CausalNodes, \* those of causal nodes
          Unknown      \* an id that an LLM makes up

VARIABLES given, \* what the table and the configuration are
          stage, \* the stage that is next
          mdl,   \* the model of the table
          out    \* what the stages hand on, and their calls

enrichVars == <<given, stage, mdl, out>>

ASSUME EnrichAssumption ==
  /\ IsFiniteSet(Fields) /\ PrimaryKeys \union FkShaped \subseteq Fields
  /\ Whole \notin Fields /\ CausalNodes \subseteq Cards /\ Unknown \notin Cards

Describable == Fields \union {Whole}
StageOrder == <<"describe", "semantics", "protection", "relationships", "causal", "annotate", "done">>
NoRecord == [written |-> FALSE, tags |-> {}]

\* native: what has a COMMENT; found: the cards that the lexicon finds; rich: the
\* rich description replaces the basic one; drafts: propose_new_causal_nodes.
Givens ==
  [native : SUBSET Describable, declared : SUBSET FkShaped, wanted : SUBSET {StageOrder[i] : i \in 1 .. 6},
   rich : BOOLEAN, drafts : BOOLEAN, provider : BOOLEAN, mode : {"ner_then_llm", "ner_only", "llm_only"},
   vocabulary : SUBSET Cards, found : SUBSET Cards]

EnrichTypeOK ==
  /\ given \in Givens /\ given.found \subseteq given.vocabulary
  /\ stage \in {StageOrder[i] : i \in 1 .. 7}
  /\ mdl \in [text : [Describable -> {"none", "native", "llm"}], unit : SUBSET Fields,
              flag : [Fields -> {"unset", "plain", "pii"}],
              references : [Fields -> {"none", "declared", "inferred"}], tags : SUBSET Cards]
  /\ out \in [inferred : BOOLEAN, shown : SUBSET SUBSET Fields, took : SUBSET CausalNodes,
              heard : BOOLEAN, record : [written : BOOLEAN, tags : SUBSET Cards],
              asked : 0 .. 6, counted : 0 .. 6]

\* The first stage from the i-th on that is wanted.
FirstFrom(i) == CHOOSE s \in {StageOrder[j] : j \in i .. 7} :
  LET place(x) == CHOOSE j \in 1 .. 7 : StageOrder[j] = x
      open(x) == x \in given.wanted \union {"done"} IN
  open(s) /\ \A j \in i .. place(s) - 1 : ~open(StageOrder[j])

\* build_mdl: what the source says, and nothing else.
EnrichInit ==
  /\ given \in {g \in Givens : g.found \subseteq g.vocabulary}
  /\ stage = FirstFrom(1)
  /\ mdl = [text |-> [d \in Describable |-> IF d \in given.native THEN "native" ELSE "none"],
            unit |-> {}, flag |-> [c \in Fields |-> "unset"],
            references |-> [c \in Fields |-> IF c \in given.declared THEN "declared" ELSE "none"],
            tags |-> {}]
  /\ out = [inferred |-> FALSE, shown |-> {}, took |-> {}, heard |-> FALSE,
            record |-> NoRecord, asked |-> 0, counted |-> 0]

-----------------------------------------------------------------------------
(* How a stage ends. *)

Onto(s) == /\ stage = s
           /\ stage' = FirstFrom(1 + CHOOSE i \in 1 .. 6 : StageOrder[i] = s)
           /\ UNCHANGED given

\* The stage has nothing to ask, or nobody: its warning is all it leaves.
Skips(s, nothingToAsk) ==
  /\ Onto(s) /\ (nothingToAsk \/ ~given.provider)
  /\ UNCHANGED <<mdl, out>>
\* The call of the LLM fails.
CallFails(s, nothingToAsk) ==
  /\ Onto(s) /\ ~nothingToAsk /\ given.provider
  /\ out' = [out EXCEPT !.asked = @ + 1] /\ UNCHANGED mdl
Answers(s, nothingToAsk) == Onto(s) /\ ~nothingToAsk /\ given.provider
Heard(o) == [o EXCEPT !.asked = @ + 1, !.counted = @ + 1]

-----------------------------------------------------------------------------
(* The stages. *)

Gaps == {c \in Fields : mdl.text[c] = "none"}

\* Mutant of Fill: an LLM that repeats a description replaces it.
FillAll(texts) == [d \in Describable |-> IF d \in texts THEN "llm" ELSE mdl.text[d]]

\* Only what has no description gets one.
Fill(texts) == [d \in Describable |-> IF d \in texts /\ mdl.text[d] = "none" THEN "llm" ELSE mdl.text[d]]

\* fill_descriptions counts a call that filled something, the rich stage any answer.
NothingToDescribe == Gaps = {} /\ mdl.text[Whole] # "none"
DescribeTable(texts) ==
  /\ Answers("describe", NothingToDescribe)
  /\ mdl' = [mdl EXCEPT !.text = Fill(texts)]
  /\ out' = IF given.rich \/ Fill(texts) # mdl.text THEN Heard(out) ELSE [out EXCEPT !.asked = @ + 1]

NothingToMeasure == mdl.unit = Fields
Semantics(columns) ==
  /\ Answers("semantics", NothingToMeasure)
  /\ mdl' = [mdl EXCEPT !.unit = @ \union columns]
  /\ out' = Heard(out)

\* A column that the answer leaves out stays unclassified.
NothingToClassify == \A c \in Fields : mdl.flag[c] # "unset"
Protect(flags) ==
  /\ Answers("protection", NothingToClassify)
  /\ mdl' = [mdl EXCEPT !.flag = [c \in Fields |-> IF @[c] = "unset" THEN flags[c] ELSE @[c]]]
  /\ out' = Heard(out)

\* Keys are inferred for tables that declare none and have columns that look like
\* keys; an answer may name any column, and the first sure entry for it is applied.
NothingToRelate == (\E c \in Fields : mdl.references[c] # "none") \/ FkShaped \ PrimaryKeys = {}
Relate(entries) ==
  /\ Answers("relationships", NothingToRelate)
  /\ mdl' = [mdl EXCEPT !.references =
               [c \in Fields |-> IF [column |-> c, sure |-> TRUE] \in entries /\ @[c] = "none"
                                 THEN "inferred" ELSE @[c]]]
  /\ out' = [Heard(out) EXCEPT !.inferred = entries # {},
                !.shown = IF entries = {} THEN @ ELSE @ \union {{c \in Fields : mdl.flag[c] = "pii"}}]

\* Participations in known nodes are added to the causal relations of the model;
\* candidates take its columns along as they are described now.  Without known nodes
\* the stage asks only where it may draft new ones, which nothing here reads.
NothingToCause == given.vocabulary \intersect CausalNodes = {} /\ ~given.drafts
Cause(nodes, proposes) ==
  /\ Answers("causal", NothingToCause)
  /\ LET known == nodes \intersect given.vocabulary \intersect CausalNodes IN
     /\ mdl' = [mdl EXCEPT !.tags = @ \union known]
     /\ out' = [Heard(out) EXCEPT !.took = known,
                  !.shown = IF proposes THEN @ \union {{c \in Fields : mdl.flag[c] = "pii"}} ELSE @]

-----------------------------------------------------------------------------
(* enrich_annotations; tags are the concepts, key areas and causal relations *)
(* of the model, all three of which an annotation replaces.                *)

NoVocabulary == given.vocabulary = {}
Annotated(o, tags) == [o EXCEPT !.record = [written |-> TRUE, tags |-> tags]]

\* What the lexicon finds is the annotation, if it finds anything.
FromLexicon(o) ==
  IF given.found = {} THEN out' = o /\ UNCHANGED mdl
  ELSE out' = Annotated(o, given.found) /\ mdl' = [mdl EXCEPT !.tags = given.found]

\* Without an LLM, and when it fails, the lexicon stands in where it is used.
Lexical(o) == IF given.mode = "llm_only" THEN out' = o /\ UNCHANGED mdl ELSE FromLexicon(o)
AnnotateWithout ==
  /\ Onto("annotate") /\ ~NoVocabulary /\ (given.mode = "ner_only" \/ ~given.provider)
  /\ Lexical(out)
Asks == ~NoVocabulary /\ given.mode # "ner_only" /\ given.provider
AnnotateFails == Onto("annotate") /\ Asks /\ Lexical([out EXCEPT !.asked = @ + 1])
NoAnnotation == Onto("annotate") /\ NoVocabulary /\ UNCHANGED <<mdl, out>>

\* Names that are not in the vocabulary are dropped; an answer with neither names nor
\* a reason is none.
AnnotateAnswered(names, reasoned) ==
  /\ Onto("annotate") /\ Asks
  /\ LET kept == names \intersect given.vocabulary IN
     IF kept = {} /\ ~reasoned
     THEN out' = [out EXCEPT !.asked = @ + 1, !.heard = TRUE] /\ UNCHANGED mdl
     ELSE /\ out' = [Annotated(Heard(out), kept) EXCEPT !.heard = TRUE]
          /\ mdl' = [mdl EXCEPT !.tags = kept]

EnrichNext ==
  \/ \E quiet \in {[s |-> "describe", none |-> NothingToDescribe], [s |-> "semantics", none |-> NothingToMeasure],
                   [s |-> "protection", none |-> NothingToClassify], [s |-> "relationships", none |-> NothingToRelate],
                   [s |-> "causal", none |-> NothingToCause]} :
       Skips(quiet.s, quiet.none) \/ CallFails(quiet.s, quiet.none)
  \/ \E texts \in SUBSET Describable : DescribeTable(texts)
  \/ \E columns \in SUBSET Fields : Semantics(columns)
  \/ \E flags \in [Fields -> {"unset", "plain", "pii"}] : Protect(flags)
  \/ \E entries \in SUBSET [column : Fields, sure : BOOLEAN] : Relate(entries)
  \/ \E nodes \in SUBSET (CausalNodes \union {Unknown}), proposes \in BOOLEAN : Cause(nodes, proposes)
  \/ AnnotateWithout \/ AnnotateFails \/ NoAnnotation
  \/ \E names \in SUBSET (Cards \union {Unknown}), reasoned \in BOOLEAN : AnnotateAnswered(names, reasoned)

-----------------------------------------------------------------------------
(* Properties. *)

\* A COMMENT and a declared key survive every stage, and no others look like them.
SourceWins ==
  /\ \A d \in Describable : mdl.text[d] = "native" <=> d \in given.native
  /\ \A c \in Fields : mdl.references[c] = "declared" <=> c \in given.declared
  /\ given.declared # {} => ~out.inferred

\* The record that goes to the annotation table says what the model says; without one
\* the model keeps what the causal stage found.
RecordIsTheModel ==
  stage = "done" => mdl.tags = IF out.record.written THEN out.record.tags ELSE out.took

\* A table in which the lexicon finds cards is annotated whatever becomes of the LLM,
\* unless it answers or the lexicon is not used.
LexiconStandsIn ==
  stage = "done" /\ "annotate" \in given.wanted /\ given.found # {} /\ given.mode # "llm_only" =>
    out.record.written \/ out.heard

\* Surfaces that go out with candidates mark every column that is found to be personal,
\* and no call is counted that was not made.
StagesInOrder ==
  /\ \A marked \in out.shown : marked = {c \in Fields : mdl.flag[c] = "pii"}
  /\ out.counted <= out.asked /\ (~given.provider => out.asked = 0)

\* What the stages leave of a table agrees with its source, with the vocabulary and with
\* what they hand on (_process_table and the stages it applies).
TableEnriched ==
  /\ EnrichTypeOK /\ SourceWins /\ RecordIsTheModel /\ LexiconStandsIn /\ StagesInOrder
  /\ mdl.tags \subseteq given.vocabulary
=============================================================================
