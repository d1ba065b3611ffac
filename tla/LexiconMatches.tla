--------------------------- MODULE LexiconMatches ---------------------------
(***************************************************************************)
(* The first pass of the annotation stage: which cards of a vocabulary the *)
(* names and descriptions of a table point to.  A name is a sequence of    *)
(* words; upper case and the separators, which a surface is tried with and *)
(* without, are left out.  A card is known by the words of its id and by   *)
(* those of its title.                                                     *)
(***************************************************************************)
EXTENDS Naturals, FiniteSets, Sequences
LOCAL INSTANCE SequencesExt
LOCAL INSTANCE TLC

CONSTANTS StopWords, \* words that point to nothing ("id", "status", ...)
          ShortWords \* words of one or two letters, which a description does not count

-----------------------------------------------------------------------------
(* build_lexicon: [words of a surface -> card].  A card is [id, title], its  *)
(* title empty if it has none.                                             *)

SurfacesFor(card) == IF card.title = <<>> THEN <<card.id>> ELSE <<card.id, card.title>>

\* The first card that claims a surface has it.
Register(lexicon, surface, card) == lexicon @@ (surface :> card.id)

build_lexicon(cards) ==
  FoldLeft(LAMBDA lexicon, card :
             FoldLeft(LAMBDA l, s : Register(l, s, card), lexicon, SurfacesFor(card)),
           <<>>, cards)

-----------------------------------------------------------------------------
(* The surfaces of a table [name, columns], each with the confidence (in     *)
(* hundredths) of a match and the column, if any, that is its evidence.    *)

Surface(words, confidence, column) == [words |-> words, confidence |-> confidence, column |-> column]
OfTable == <<>>

Tokens(words) == SelectSeq([i \in DOMAIN words |-> <<words[i]>>], LAMBDA t : t[1] \notin StopWords)
Bigrams(words) ==
  SelectSeq([i \in 1 .. Len(words) - 1 |-> <<words[i], words[i + 1]>>],
            LAMBDA b : b[1] \notin StopWords /\ b[2] \notin StopWords)
All(texts, confidence, column) == [i \in DOMAIN texts |-> Surface(texts[i], confidence, column)]

\* A column whose whole name is a stop word gives no surface but its description's.
BareStop(words) == Len(words) = 1 /\ words[1] \in StopWords
ColumnSurfaces(column) ==
  (IF BareStop(column.name) THEN <<>>
   ELSE <<Surface(column.name, 85, column.name)>> \o All(Bigrams(column.name), 75, column.name))
    \o All(Tokens(column.name), 70, column.name)
    \o All(SelectSeq(Tokens(column.description), LAMBDA t : t[1] \notin ShortWords), 50, column.name)

SurfacesForAsset(table) ==
  <<Surface(table.name, 100, OfTable)>> \o All(Tokens(table.name), 70, OfTable)
    \o All(Bigrams(table.name), 75, OfTable)
    \o FlattenSeq([i \in DOMAIN table.columns |-> ColumnSurfaces(table.columns[i])])

-----------------------------------------------------------------------------
(* _run_linker: one candidate per card that a surface points to.           *)

NoEvidence == [confidence |-> 0, text |-> <<>>, columns |-> {}]

\* A better match replaces confidence and text, any match adds its column.
Fold(candidate, s) ==
  [confidence |-> IF s.confidence > candidate.confidence THEN s.confidence ELSE candidate.confidence,
   text |-> IF s.confidence > candidate.confidence THEN s.words ELSE candidate.text,
   columns |-> IF s.column = OfTable THEN candidate.columns ELSE candidate.columns \union {s.column}]

Aggregate(lexicon, surfaces) ==
  FoldLeft(LAMBDA found, s :
             IF s.words \notin DOMAIN lexicon THEN found
             ELSE LET id == lexicon[s.words]
                      before == IF id \in DOMAIN found THEN found[id] ELSE NoEvidence
                  IN (id :> Fold(before, s)) @@ found,
           <<>>, surfaces)

\* The candidates, best first; equal ones by their card, whose ids are sorted.
propose_candidates(table, cards) ==
  LET found == Aggregate(build_lexicon(cards), SurfacesForAsset(table))
      place(id) == CHOOSE i \in DOMAIN cards : cards[i].id = id
      before(a, b) == \/ found[a].confidence > found[b].confidence
                      \/ found[a].confidence = found[b].confidence /\ place(a) < place(b)
      ids == SetToSortSeq(DOMAIN found, before)
  IN [i \in DOMAIN ids |-> [card |-> ids[i], evidence |-> found[ids[i]]]]

-----------------------------------------------------------------------------
(* What the pass promises. *)

\* The surfaces of a table that point to card i: it has their words, and no earlier
\* card does.
Pointing(table, cards, i) ==
  {s \in ToSet(SurfacesForAsset(table)) :
     /\ s.words \in ToSet(SurfacesFor(cards[i]))
     /\ \A j \in 1 .. i - 1 : s.words \notin ToSet(SurfacesFor(cards[j]))}

\* The candidates are the cards that something of the table points to, each once, with
\* the confidence of its best surface and every column that bears it out; they come best
\* first (propose_concept_candidates and its likes).
MatchesAreExact(table, cards) ==
  LET result == propose_candidates(table, cards)
      matched == {i \in DOMAIN cards : Pointing(table, cards, i) # {}} IN
  /\ Len(result) = Cardinality(matched)
  /\ \A i \in matched : \E n \in DOMAIN result :
       LET match == Pointing(table, cards, i) IN
       /\ result[n].card = cards[i].id
       /\ result[n].evidence.columns = {s.column : s \in match} \ {OfTable}
       /\ \A s \in match : s.confidence <= result[n].evidence.confidence
       /\ \E s \in match : /\ s.confidence = result[n].evidence.confidence
                           /\ s.words = result[n].evidence.text
  /\ \A m, n \in DOMAIN result :
       m < n => result[m].evidence.confidence >= result[n].evidence.confidence
=============================================================================
