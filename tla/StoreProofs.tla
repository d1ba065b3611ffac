----------------------------- MODULE StoreProofs -----------------------------
(***************************************************************************)
(* Proofs about what is kept of an asset and read back: its annotations    *)
(* (AnnotationDAO), its points in Qdrant (VectorCollections), the answers  *)
(* about it that RetrievalPipeline caches (RetrievalService) and what the  *)
(* service reads out of the hierarchy (CatalogReads).  The four share no   *)
(* state.                                                                  *)
(*                                                                         *)
(* Annotations: what is promised as long as each annotation is written     *)
(* before the next is made rests on the order of the stamps: whoever is    *)
(* under way has the greatest, so the latest row also has the most trust;  *)
(* of overlaps it is kept who was under way beside whom.                   *)
(* Points: a delete under way keeps every id it is still meant for before  *)
(* its cursor or in its page.  Answers: the cache holds the inputs asked   *)
(* for last, in the order of their last use.  Reads: a walk after n hops   *)
(* has listed the edges of what it had after n - 1; what a caller has seen *)
(* of a list is the beginning of its one order.                            *)
(***************************************************************************)
EXTENDS AnnotationDAO, VectorCollections, RetrievalService, CatalogReads,
        FiniteSetTheorems, SequenceTheorems, WellFoundedInduction, TLAPS

AnnotationSpec == AnnotationInit /\ [][AnnotationNext]_annotationVars

Begun == {w \in Writers : at[w] # "idle"}

\* The clock counts the annotations that were made.
ClockCounts == clock = Cardinality(Begun)

\* What a write has decided, it had reasons for; what is committed is over.
Reasoned ==
    /\ \A w \in Writers \ Begun : outcomes[w] = Undecided
    /\ \A w \in Writers, f \in Fields : outcomes[w][f] = "applied" => anno[w].proposed[f] # Empty
    /\ \A w \in Writers, f \in Fields :
         w \in provenance[f] => at[w] = "done" /\ outcomes[w][f] = "applied"
    /\ \A w \in refreshes : at[w] = "done"

\* One at a time, the stamps of the annotations are in the order of their writes.
InOrder ==
    /\ \A w \in Begun : anno[w].written_at <= clock
    /\ \A w \in Underway, v \in Begun : v # w => anno[v].written_at < anno[w].written_at
    /\ \A w \in Writers : at[w] = "open" => loaded[w] = value

\* Then the latest row of a field has the most trust, and a write under way applies
\* only what has no less.
LatestRules(f) ==
    /\ \A p \in Writers, q \in provenance[f] :
         IsLatest(p, f) => Trust(anno[q].source) <= Trust(anno[p].source)
    /\ \A w \in Underway, q \in provenance[f] :
         outcomes[w][f] = "applied" => Trust(anno[q].source) <= Trust(anno[w].source)

OrderInv ==
    /\ AnnotationTypeOK
    /\ ClockCounts
    /\ Reasoned
    /\ alone => InOrder /\ \A f \in Fields : LatestRules(f)
    /\ LatestDescribesValue

\* Stamps differ, and whoever is stamped while another is under way is beside it.
Sided ==
    /\ \A w \in Begun : anno[w].written_at <= clock
    /\ \A v, w \in Begun : v # w => anno[v].written_at # anno[w].written_at
    /\ \A v \in Underway, w \in Begun :
         anno[v].written_at < anno[w].written_at => w \in beside[v]

HasLatest(f) == provenance[f] # {} => \E p \in Writers : IsLatest(p, f)

\* An annotation of f that was beside p had less trust than p.
Undercut(p, f) ==
    \E q \in provenance[f] \cap beside[p] : Trust(anno[q].source) < Trust(anno[p].source)

\* What a write with less trust applies over p, it was beside p or another was.
Overruled(f) ==
    \A w \in Writers : \A p \in provenance[f] :
        /\ outcomes[w][f] = "applied" /\ anno[p].written_at < anno[w].written_at
        /\ Trust(anno[w].source) < Trust(anno[p].source)
        => w \in beside[p] \/ Undercut(p, f)

BesideInv == Sided /\ \A f \in Fields : HasLatest(f) /\ Overruled(f)

AnnoInv == OrderInv /\ BesideInv

USE AnnotationAssumption DEF AnnotationAssumption

LEMMA TrustIsNatural == ASSUME NEW s \in Sources PROVE Trust(s) \in Nat
<1>1. CASE s = "human"
  BY <1>1 DEF Trust
<1>2. CASE s = "rule"
  BY <1>2 DEF Trust
<1>3. CASE s = "llm_enrichment"
  BY <1>3 DEF Trust
<1>4. CASE s = "other"
  BY <1>4 DEF Trust
<1> QED BY <1>1, <1>2, <1>3, <1>4 DEF Sources

LEMMA OutcomeReasons ==
  ASSUME NEW w, NEW f
  PROVE  /\ Outcome(w, f) \in Outcomes
         /\ Outcome(w, f) = "skipped_clobber" => Outranked(w, f)
         /\ Outcome(w, f) = "applied" => anno[w].proposed[f] # Empty /\ ~Outranked(w, f)
         /\ Outcome(w, f) # "undecided"
<1>1. CASE anno[w].proposed[f] = Empty
  BY <1>1 DEF Outcome, Outcomes
<1>2. CASE anno[w].proposed[f] # Empty /\ Outranked(w, f)
  BY <1>2 DEF Outcome, Outcomes
<1>3. CASE anno[w].proposed[f] # Empty /\ ~Outranked(w, f)
  BY <1>3 DEF Outcome, Outcomes
<1> QED BY <1>1, <1>2, <1>3

LEMMA NoValuesTyped == NoValues \in FieldValues /\ Undecided \in [Fields -> Outcomes]
  BY DEF NoValues, FieldValues, Undecided, Outcomes

\* A write that begins is counted.
LEMMA OneMoreBegun ==
  ASSUME NEW w \in Writers \ Begun, AnnotationTypeOK, ClockCounts, NEW place,
         place # "idle", at' = [at EXCEPT ![w] = place]
  PROVE  /\ Begun' = Begun \union {w}
         /\ Cardinality(Begun') = clock + 1
         /\ clock + 1 <= Cardinality(Writers)
<1>1. Begun' = Begun \union {w} /\ Begun' \subseteq Writers
  BY DEF Begun, AnnotationTypeOK
<1>2. IsFiniteSet(Begun)
  BY FS_Subset DEF Begun
<1>3. Cardinality(Begun \union {w}) = Cardinality(Begun) + 1
  BY <1>2, FS_AddElement
<1>4. Cardinality(Begun') <= Cardinality(Writers)
  BY <1>1, FS_Subset
<1> QED BY <1>1, <1>3, <1>4 DEF ClockCounts

LEMMA InitAnno == AnnotationInit => AnnoInv
<1> SUFFICES ASSUME AnnotationInit PROVE AnnoInv
  OBVIOUS
<1> USE DEF AnnotationInit, NoValues, Undecided
<1>1. AnnotationTypeOK
  <2>1. Cardinality(Writers) \in Nat
    BY FS_CardinalityType
  <2>2. NoValues \in FieldValues
    BY DEF FieldValues
  <2> QED BY <2>1, <2>2 DEF AnnotationTypeOK, Annotations, FieldValues, Outcomes, Sources
<1>2. ClockCounts
  <2>1. Begun = {}
    BY DEF Begun
  <2> QED BY <2>1, FS_EmptySet DEF ClockCounts
<1>3. Reasoned
  BY DEF Reasoned
<1>5. BesideInv
  BY DEF BesideInv, Sided, HasLatest, Overruled, Begun, Underway
<1>4. InOrder /\ (\A f \in Fields : LatestRules(f)) /\ LatestDescribesValue
  BY DEF InOrder, LatestRules, LatestDescribesValue, IsLatest, Begun, Underway
<1> QED BY <1>1, <1>2, <1>3, <1>4, <1>5 DEF AnnoInv, OrderInv

LEMMA ProposeAnno ==
  ASSUME AnnoInv, NEW w \in Writers, NEW source \in Sources, NEW proposed \in FieldValues,
         Propose(w, source, proposed)
  PROVE  OrderInv'
<1> USE DEF AnnoInv, OrderInv, Propose, annotated
<1>1. w \notin Begun /\ outcomes[w] = Undecided
  BY DEF Reasoned, Begun
<1>2. /\ Begun' = Begun \union {w}
      /\ Cardinality(Begun') = clock + 1
      /\ clock + 1 <= Cardinality(Writers)
  BY <1>1, OneMoreBegun
<1>3. \A f \in Fields : w \notin provenance[f]
  BY DEF Reasoned
<1>4. \A q \in Writers \ {w} : anno'[q] = anno[q] /\ at'[q] = at[q]
  BY DEF AnnotationTypeOK
<1>5. /\ at'[w] = "proposed"
      /\ anno'[w] = [source |-> source, proposed |-> proposed, written_at |-> clock + 1]
  BY DEF AnnotationTypeOK
<1>6. \A p \in Writers, f \in Fields : IsLatest(p, f)' <=> IsLatest(p, f)
  <2>1. provenance' = provenance /\ \A f \in Fields : provenance[f] \subseteq Writers \ {w}
    BY <1>3 DEF AnnotationTypeOK
  <2> HIDE DEF AnnoInv, OrderInv, Propose
  <2>2. \A f \in Fields : \A q \in provenance[f] : anno'[q] = anno[q]
    BY <1>4, <2>1
  <2> QED BY <2>1, <2>2 DEF IsLatest
<1>7. AnnotationTypeOK'
  <2>1. Cardinality(Writers) \in Nat
    BY FS_CardinalityType
  <2>2. anno' \in [Writers -> Annotations]
    BY <1>2, <2>1 DEF AnnotationTypeOK, Annotations
  <2>3. beside' \in [Writers -> SUBSET Writers]
    <3>1. beside \in [Writers -> SUBSET Writers] /\ Underway \subseteq Writers
      BY DEF AnnotationTypeOK, Underway
    <3>2. beside' = [v \in Writers |->
             beside[v] \union (IF v = w THEN Underway ELSE IF v \in Underway THEN {w} ELSE {})]
      OBVIOUS
    <3> HIDE DEF AnnoInv, OrderInv, Propose
    <3> QED BY <3>1, <3>2
  <2> QED BY <1>2, <2>1, <2>2, <2>3 DEF AnnotationTypeOK
<1>8. ClockCounts'
  BY <1>2 DEF ClockCounts
<1>9. Reasoned'
  BY <1>1, <1>2, <1>3, <1>4 DEF Reasoned, Begun, Undecided, AnnotationTypeOK
<1>10. alone' => alone /\ Underway = {}
  BY <1>1 DEF alone, Underway, Begun, AnnotationTypeOK
<1>11. ASSUME alone' PROVE InOrder' /\ \A f \in Fields : LatestRules(f)'
  <2>1. alone /\ Underway = {} /\ Underway' = {w}
    BY <1>10, <1>11, <1>4, <1>5 DEF Underway
  <2>2. InOrder'
    BY <2>1, <1>1, <1>2, <1>4, <1>5 DEF InOrder, Underway, AnnotationTypeOK, Annotations, Begun
  <2>3. ASSUME NEW f \in Fields PROVE LatestRules(f)'
    <3>1. LatestRules(f)
      BY <2>1
    <3>2. \A q \in provenance[f] : q \in Writers /\ anno'[q] = anno[q]
      BY <1>3, <1>4 DEF AnnotationTypeOK
    <3>4. ASSUME NEW p \in Writers, NEW q \in provenance[f], IsLatest(p, f)'
          PROVE  Trust(anno'[q].source) <= Trust(anno'[p].source)
      <4>1. IsLatest(p, f) /\ p \in provenance[f]
        BY <3>4, <1>6 DEF IsLatest
      <4> QED BY <4>1, <3>1, <3>2 DEF LatestRules
    <3>5. outcomes[w][f] # "applied"
      BY <1>1 DEF Undecided
    <3> QED BY <3>4, <3>5, <2>1 DEF LatestRules
  <2> QED BY <2>2, <2>3
<1>12. LatestDescribesValue'
  <2> SUFFICES ASSUME alone', NEW f \in Fields, NEW p \in Writers, IsLatest(p, f)'
               PROVE  value[f] = anno'[p].proposed[f]
    BY DEF LatestDescribesValue
  <2>1. alone
    BY <1>10
  <2>2. IsLatest(p, f)
    BY <1>6
  <2>3. anno'[p] = anno[p]
    BY <2>2, <1>3, <1>4 DEF IsLatest
  <2> QED BY <2>1, <2>2, <2>3 DEF LatestDescribesValue
<1> QED BY <1>7, <1>8, <1>9, <1>11, <1>12

LEMMA OpenAnno ==
  ASSUME AnnoInv, NEW w \in Writers, Open(w)
  PROVE  OrderInv'
<1> USE DEF AnnoInv, OrderInv, Open, annotated
<1>1. Begun' = Begun /\ Underway' = Underway
  BY DEF Begun, Underway, AnnotationTypeOK
<1>2. \A p \in Writers, f \in Fields : IsLatest(p, f)' <=> IsLatest(p, f)
  BY DEF IsLatest
<1>3. AnnotationTypeOK' /\ ClockCounts'
  BY <1>1 DEF AnnotationTypeOK, ClockCounts
<1>4. Reasoned' /\ alone' = alone
  BY <1>1 DEF Reasoned, AnnotationTypeOK, Begun, alone
<1>5. alone => InOrder' /\ \A f \in Fields : LatestRules(f)'
  BY <1>1, <1>2 DEF InOrder, LatestRules, AnnotationTypeOK
<1>6. LatestDescribesValue'
  BY <1>2, <1>4 DEF LatestDescribesValue
<1> QED BY <1>3, <1>4, <1>5, <1>6

LEMMA DecideAnno ==
  ASSUME AnnoInv, NEW w \in Writers, NEW f \in Fields, Decide(w, f)
  PROVE  OrderInv'
<1> USE DEF AnnoInv, OrderInv, Decide, annotated
<1>1. /\ outcomes'[w][f] = Outcome(w, f)
      /\ \A v \in Writers, g \in Fields : v # w \/ g # f => outcomes'[v][g] = outcomes[v][g]
      /\ \A v \in Writers : v # w => outcomes'[v] = outcomes[v]
  BY DEF AnnotationTypeOK
<1>2. Begun' = Begun /\ Underway' = Underway /\ w \in Underway /\ w \in Begun
  BY DEF Begun, Underway
<1>3. \A p \in Writers, g \in Fields : IsLatest(p, g)' <=> IsLatest(p, g)
  BY DEF IsLatest
<1>4. AnnotationTypeOK'
  BY OutcomeReasons DEF AnnotationTypeOK
<1>5. ClockCounts'
  BY <1>2 DEF ClockCounts
<1>6. Reasoned'
  BY <1>1, <1>2, OutcomeReasons DEF Reasoned
<1>7. alone' = alone
  BY DEF alone
<1>8. ASSUME alone PROVE InOrder' /\ \A g \in Fields : LatestRules(g)'
  <2>1. InOrder'
    BY <1>2, <1>8 DEF InOrder
  <2>2. ASSUME Outcome(w, f) = "applied", NEW q \in provenance[f]
        PROVE  Trust(anno[q].source) <= Trust(anno[w].source)
    <3>1. PICK p \in Writers : IsLatest(p, f)
      BY <2>2 DEF BesideInv, HasLatest
    <3>2. p \in provenance[f] /\ ~(Trust(anno[p].source) > Trust(anno[w].source))
      BY <2>2, <3>1, OutcomeReasons DEF Outranked, IsLatest
    <3>3. Trust(anno[q].source) <= Trust(anno[p].source)
      BY <1>8, <2>2, <3>1 DEF LatestRules
    <3>4. \A v \in {p, q, w} : Trust(anno[v].source) \in Nat
      BY TrustIsNatural DEF AnnotationTypeOK, Annotations
    <3> QED BY <3>2, <3>3, <3>4
  <2>3. ASSUME NEW g \in Fields PROVE LatestRules(g)'
    <3> USE <1>8
    <3>1. \A p \in Writers, q \in provenance[g] :
            IsLatest(p, g)' => Trust(anno[q].source) <= Trust(anno[p].source)
      BY <1>3 DEF LatestRules
    <3>2. ASSUME NEW v \in Underway, NEW q \in provenance[g], outcomes'[v][g] = "applied"
          PROVE  Trust(anno[q].source) <= Trust(anno[v].source)
      BY <3>2, <1>1, <2>2 DEF LatestRules, Underway
    <3> QED BY <3>1, <3>2, <1>2 DEF LatestRules
  <2> QED BY <2>1, <2>3
<1>9. LatestDescribesValue'
  BY <1>3, <1>7 DEF LatestDescribesValue
<1> QED BY <1>4, <1>5, <1>6, <1>7, <1>8, <1>9

LEMMA RollbackAnno ==
  ASSUME AnnoInv, NEW w \in Writers, Rollback(w)
  PROVE  OrderInv'
<1> USE DEF AnnoInv, OrderInv, Rollback, annotated
<1>1. Begun' = Begun /\ Underway' \subseteq Underway
  BY DEF Begun, Underway, AnnotationTypeOK
<1>2. \A p \in Writers, f \in Fields : IsLatest(p, f)' <=> IsLatest(p, f)
  BY DEF IsLatest
<1>3. AnnotationTypeOK' /\ ClockCounts'
  <2>1. loaded' \in [Writers -> FieldValues] /\ outcomes' \in [Writers -> [Fields -> Outcomes]]
    BY NoValuesTyped DEF AnnotationTypeOK
  <2> QED BY <1>1, <2>1 DEF AnnotationTypeOK, ClockCounts
<1>4. \A v \in Writers, f \in Fields :
        outcomes'[v][f] = "applied" => outcomes[v][f] = "applied"
  BY DEF AnnotationTypeOK, Undecided
<1>5. \A v \in Writers : v # w => outcomes'[v] = outcomes[v] /\ at'[v] = at[v] /\ loaded'[v] = loaded[v]
  BY DEF AnnotationTypeOK
<1>6. w \in Begun /\ at'[w] = "failed" /\ \A f \in Fields : w \notin provenance[f]
  BY DEF Begun, AnnotationTypeOK, Reasoned
<1>7. w \notin refreshes /\ refreshes \subseteq Writers /\ \A f \in Fields : provenance[f] \subseteq Writers
  BY DEF AnnotationTypeOK, Reasoned
<1>8. Reasoned' /\ (alone' <=> alone)
  BY <1>1, <1>4, <1>5, <1>6, <1>7 DEF Reasoned, alone
<1>9. alone => InOrder' /\ \A f \in Fields : LatestRules(f)'
  <2>1. \A v \in Underway' : v \in Writers /\ v # w
    BY <1>6 DEF Underway
  <2> QED BY <1>1, <1>2, <1>8, <1>4, <1>5, <1>6, <2>1 DEF InOrder, LatestRules
<1>10. LatestDescribesValue'
  BY <1>2, <1>8 DEF LatestDescribesValue
<1> QED BY <1>3, <1>8, <1>9, <1>10

LEMMA CommitAnno ==
  ASSUME AnnoInv, NEW w \in Writers, Commit(w)
  PROVE  OrderInv'
<1> USE DEF AnnoInv, OrderInv, Commit, Recorded, Applied, Refreshes
<1>1. w \in Begun /\ w \in Underway /\ Begun' = Begun /\ Underway' = Underway \ {w}
  BY DEF Begun, Underway, AnnotationTypeOK
<1>2. \A f \in Fields : provenance'[f] =
         IF outcomes[w][f] = "applied" THEN provenance[f] \union {w} ELSE provenance[f]
  OBVIOUS
<1>3. \A f \in Fields : w \notin provenance[f] /\ provenance[f] \subseteq Begun
  BY DEF Reasoned, Begun, AnnotationTypeOK
<1>4. AnnotationTypeOK'
  <2>1. value' \in FieldValues
    BY DEF AnnotationTypeOK, Annotations, FieldValues
  <2>2. provenance' \in [Fields -> SUBSET Writers]
    BY DEF AnnotationTypeOK
  <2>3. refreshes' \subseteq Writers
    BY DEF AnnotationTypeOK
  <2>4. loaded' \in [Writers -> FieldValues]
    BY NoValuesTyped DEF AnnotationTypeOK
  <2> QED BY <2>1, <2>2, <2>3, <2>4 DEF AnnotationTypeOK
<1>5. ClockCounts'
  BY <1>1 DEF ClockCounts
<1>6. Reasoned'
  <2>1. \A v \in Writers, f \in Fields :
          v \in provenance'[f] => at'[v] = "done" /\ outcomes[v][f] = "applied"
    BY <1>2 DEF Reasoned, AnnotationTypeOK
  <2>2. \A v \in refreshes' : at'[v] = "done"
    BY DEF Reasoned, AnnotationTypeOK
  <2> QED BY <1>1, <2>1, <2>2 DEF Reasoned
<1>7. alone' = alone
  BY DEF alone
<1>8. ASSUME alone, NEW f \in Fields, outcomes[w][f] = "applied", NEW p \in Writers
      PROVE  IsLatest(p, f)' <=> p = w
  <2>1. \A q \in provenance[f] : anno[q].written_at < anno[w].written_at
    BY <1>1, <1>3, <1>8 DEF InOrder
  <2>2. \A q \in Writers : anno[q].written_at \in Nat
    BY DEF AnnotationTypeOK, Annotations
  <2>3. provenance'[f] = provenance[f] \union {w} /\ provenance[f] \subseteq Writers
    BY <1>2, <1>8 DEF AnnotationTypeOK
  <2> QED BY <2>1, <2>2, <2>3 DEF IsLatest
<1>9. ASSUME NEW f \in Fields, outcomes[w][f] # "applied", NEW p \in Writers
      PROVE  IsLatest(p, f)' <=> IsLatest(p, f)
  BY <1>2, <1>9 DEF IsLatest
<1>10. ASSUME alone PROVE InOrder' /\ \A f \in Fields : LatestRules(f)'
  <2>1. InOrder'
    <3>1. \A v \in Writers : at'[v] = "open" => v \in Underway /\ v # w
      BY DEF Underway, AnnotationTypeOK
    <3>2. \A v \in Underway : v = w
      BY <1>1, <1>10 DEF InOrder, Underway, Begun, AnnotationTypeOK, Annotations
    <3> QED BY <3>1, <3>2, <1>1, <1>10 DEF InOrder
  <2>2. ASSUME NEW f \in Fields PROVE LatestRules(f)'
    <3>0. LatestRules(f)
      BY <1>10
    <3>1. CASE outcomes[w][f] = "applied"
      <4>2. \A q \in provenance'[f] : Trust(anno[q].source) <= Trust(anno[w].source)
        <5>1. Trust(anno[w].source) \in Nat
          BY TrustIsNatural DEF AnnotationTypeOK, Annotations
        <5> QED BY <5>1, <3>0, <3>1, <1>1, <1>2 DEF LatestRules
      <4>3. Underway' = {}
        BY <1>1, <1>10 DEF InOrder, Underway, Begun, AnnotationTypeOK, Annotations
      <4> QED BY <4>2, <4>3, <1>8, <1>10, <3>1 DEF LatestRules
    <3>2. CASE outcomes[w][f] # "applied"
      <4>1. provenance'[f] = provenance[f]
        BY <3>2, <1>2
      <4> QED BY <4>1, <1>1, <1>9, <3>0, <3>2 DEF LatestRules
    <3> QED BY <3>1, <3>2
  <2> QED BY <2>1, <2>2
<1>11. LatestDescribesValue'
  <2> SUFFICES ASSUME alone, NEW f \in Fields, NEW p \in Writers, IsLatest(p, f)'
               PROVE  value'[f] = anno[p].proposed[f]
    BY <1>7 DEF LatestDescribesValue
  <2>1. CASE outcomes[w][f] = "applied"
    <3>1. p = w /\ loaded[w] = value
      BY <1>8, <2>1 DEF InOrder
    <3> QED BY <3>1, <2>1
  <2>2. CASE outcomes[w][f] # "applied"
    <3>1. IsLatest(p, f) /\ value'[f] = value[f]
      BY <1>9, <2>2
    <3> QED BY <3>1 DEF LatestDescribesValue
  <2> QED BY <2>1, <2>2
<1> QED BY <1>4, <1>5, <1>6, <1>7, <1>10, <1>11

\* A row of less trust that is stamped later: if it was not beside p, then p is not the
\* latest, and the latest was beside p or followed one that was.
LEMMA ProposeBeside ==
  ASSUME AnnoInv, NEW w \in Writers, NEW source \in Sources, NEW proposed \in FieldValues,
         Propose(w, source, proposed)
  PROVE  BesideInv'
<1> USE DEF AnnoInv, OrderInv, Propose, annotated
<1>1. w \notin Begun /\ outcomes[w] = Undecided /\ \A f \in Fields : w \notin provenance[f]
  BY DEF Reasoned, Begun
<1>2. \A q \in Writers \ {w} : anno'[q] = anno[q] /\ at'[q] = at[q]
  BY DEF AnnotationTypeOK
<1>3. /\ at'[w] = "proposed" /\ anno'[w].written_at = clock + 1
      /\ Begun' = Begun \union {w} /\ Underway' = Underway \union {w} /\ Underway \subseteq Begun
  BY DEF AnnotationTypeOK, Begun, Underway
<1>4. /\ \A v \in Writers : beside[v] \subseteq beside'[v]
      /\ \A v \in Underway : w \in beside'[v]
  <2>1. \A v \in Writers : beside'[v] =
           beside[v] \union (IF v = w THEN Underway ELSE IF v \in Underway THEN {w} ELSE {})
    OBVIOUS
  <2>2. w \notin Underway /\ \A v \in Underway : v \in Writers
    BY <1>1, <1>3 DEF Underway
  <2> HIDE DEF AnnoInv, OrderInv, Propose
  <2> QED BY <2>1, <2>2
<1>5. /\ clock \in Nat /\ clock' = clock + 1
      /\ \A v \in Begun : v \in Writers \ {w} /\ anno[v].written_at \in Nat /\ anno[v].written_at <= clock
  <2>1. Cardinality(Writers) \in Nat
    BY FS_CardinalityType
  <2> QED BY <1>1, <2>1 DEF BesideInv, Sided, AnnotationTypeOK, Annotations, Begun
<1>6. Sided'
  <2>1. \A v \in Begun' : anno'[v].written_at <= clock'
    BY <1>2, <1>3, <1>5
  <2>2. \A u, v \in Begun' : u # v => anno'[u].written_at # anno'[v].written_at
    BY <1>2, <1>3, <1>5 DEF BesideInv, Sided
  <2>3. ASSUME NEW v \in Underway', NEW u \in Begun', anno'[v].written_at < anno'[u].written_at
        PROVE  u \in beside'[v]
    <3>1. CASE v = w
      BY <1>2, <1>3, <1>5, <2>3, <3>1
    <3>2. CASE v # w /\ u = w
      BY <1>3, <1>4, <3>2
    <3>3. CASE v # w /\ u # w
      BY <1>2, <1>3, <1>4, <1>5, <2>3, <3>3 DEF BesideInv, Sided
    <3> QED BY <3>1, <3>2, <3>3
  <2> QED BY <2>1, <2>2, <2>3 DEF Sided
<1>7. ASSUME NEW f \in Fields PROVE HasLatest(f)' /\ Overruled(f)'
  <2>1. \A q \in provenance[f] : q \in Writers \ {w} /\ anno'[q] = anno[q]
    BY <1>1, <1>2 DEF AnnotationTypeOK
  <2>2. HasLatest(f)'
    BY <2>1 DEF BesideInv, HasLatest, IsLatest
  <2>3. \A p \in provenance[f] : Undercut(p, f) => Undercut(p, f)'
    BY <1>4, <2>1 DEF Undercut
  <2>4. outcomes[w][f] # "applied"
    BY <1>1 DEF Undecided
  <2>5. ASSUME NEW v \in Writers, NEW p \in provenance[f], outcomes[v][f] = "applied",
               anno'[p].written_at < anno'[v].written_at,
               Trust(anno'[v].source) < Trust(anno'[p].source)
        PROVE  v \in beside'[p] \/ Undercut(p, f)'
    <3>1. v # w /\ anno'[v] = anno[v] /\ anno'[p] = anno[p]
      BY <1>2, <2>1, <2>4, <2>5
    <3>2. v \in beside[p] \/ Undercut(p, f)
      BY <2>5, <3>1 DEF BesideInv, Overruled
    <3> QED BY <1>4, <2>1, <2>3, <3>2
  <2> QED BY <2>2, <2>5 DEF Overruled
<1> QED BY <1>6, <1>7 DEF BesideInv

\* A session that opens or is rolled back adds nothing.
LEMMA SessionBeside ==
  ASSUME AnnoInv, NEW w \in Writers, Open(w) \/ Rollback(w)
  PROVE  BesideInv'
<1> USE DEF AnnoInv, OrderInv, annotated
<1>1. /\ Begun' = Begun /\ Underway' \subseteq Underway /\ UNCHANGED <<provenance, anno, clock, beside>>
  BY DEF Open, Rollback, Begun, Underway, AnnotationTypeOK
<1>2. \A v \in Writers, f \in Fields : outcomes'[v][f] = "applied" => outcomes[v][f] = "applied"
  BY DEF Open, Rollback, AnnotationTypeOK, Undecided
<1>3. Sided'
  BY <1>1 DEF BesideInv, Sided
<1>4. ASSUME NEW f \in Fields PROVE HasLatest(f)' /\ Overruled(f)'
  BY <1>1, <1>2 DEF BesideInv, HasLatest, IsLatest, Overruled, Undercut
<1> QED BY <1>3, <1>4 DEF BesideInv

LEMMA DecideBeside ==
  ASSUME AnnoInv, NEW w \in Writers, NEW f \in Fields, Decide(w, f)
  PROVE  BesideInv'
<1> USE DEF AnnoInv, OrderInv, Decide, annotated
<1>1. /\ outcomes'[w][f] = Outcome(w, f)
      /\ \A v \in Writers, g \in Fields : v # w \/ g # f => outcomes'[v][g] = outcomes[v][g]
  BY DEF AnnotationTypeOK
<1>2. /\ Begun' = Begun /\ Underway' = Underway
      /\ \A p, g : IsLatest(p, g)' <=> IsLatest(p, g)
      /\ \A p, g : Undercut(p, g)' <=> Undercut(p, g)
  BY DEF Begun, Underway, IsLatest, Undercut
<1>3. Sided'
  BY <1>2 DEF BesideInv, Sided
<1>4. \A g \in Fields : HasLatest(g)'
  BY <1>2 DEF BesideInv, HasLatest
<1>5. ASSUME NEW p \in provenance[f], Outcome(w, f) = "applied",
             anno[p].written_at < anno[w].written_at,
             Trust(anno[w].source) < Trust(anno[p].source)
      PROVE  Undercut(p, f)
  <2>1. PICK l \in Writers : IsLatest(l, f)
    BY <1>5 DEF BesideInv, HasLatest
  <2>2. l \in provenance[f] /\ anno[p].written_at <= anno[l].written_at /\ p \in Writers
    BY <1>5, <2>1 DEF IsLatest, AnnotationTypeOK
  <2>3. /\ Trust(anno[l].source) \in Nat /\ Trust(anno[p].source) \in Nat /\ Trust(anno[w].source) \in Nat
        /\ anno[l].written_at \in Nat /\ anno[p].written_at \in Nat
    BY <2>2, TrustIsNatural DEF AnnotationTypeOK, Annotations
  <2>4. Trust(anno[l].source) < Trust(anno[p].source)
    <3>1. ~(Trust(anno[l].source) > Trust(anno[w].source))
      BY <1>5, <2>1, <2>2, OutcomeReasons DEF Outranked
    <3> QED BY <1>5, <2>3, <3>1
  <2>5. l # p /\ l \in Begun /\ p \in Begun /\ outcomes[l][f] = "applied"
    BY <2>2, <2>3, <2>4 DEF Reasoned, Begun
  <2>6. anno[p].written_at < anno[l].written_at
    BY <2>2, <2>3, <2>5 DEF BesideInv, Sided
  <2>7. l \in beside[p] \/ Undercut(p, f)
    BY <2>4, <2>5, <2>6 DEF BesideInv, Overruled
  <2> QED BY <2>2, <2>4, <2>7 DEF Undercut
<1>6. ASSUME NEW g \in Fields PROVE Overruled(g)'
  <2>1. ASSUME NEW v \in Writers, NEW p \in provenance[g], outcomes'[v][g] = "applied",
               anno[p].written_at < anno[v].written_at,
               Trust(anno[v].source) < Trust(anno[p].source)
        PROVE  v \in beside[p] \/ Undercut(p, g)
    <3>1. CASE v = w /\ g = f
      BY <1>1, <1>5, <2>1, <3>1
    <3>2. CASE v # w \/ g # f
      BY <1>1, <2>1, <3>2 DEF BesideInv, Overruled
    <3> QED BY <3>1, <3>2
  <2> QED BY <1>2, <2>1 DEF Overruled
<1> QED BY <1>3, <1>4, <1>6 DEF BesideInv

LEMMA CommitBeside ==
  ASSUME AnnoInv, NEW w \in Writers, Commit(w)
  PROVE  BesideInv'
<1> USE DEF AnnoInv, OrderInv, Commit, Recorded, Applied
<1>1. /\ w \in Begun /\ w \in Underway /\ Begun' = Begun /\ Underway' = Underway \ {w}
      /\ UNCHANGED <<anno, outcomes, clock, beside>>
  BY DEF Begun, Underway, AnnotationTypeOK
<1>2. \A f \in Fields : provenance'[f] =
         IF outcomes[w][f] = "applied" THEN provenance[f] \union {w} ELSE provenance[f]
  OBVIOUS
<1>3. \A v \in Writers : anno[v].written_at \in Nat
  BY DEF AnnotationTypeOK, Annotations
<1>4. \A v \in Writers \ Begun : outcomes[v] = Undecided
  BY DEF Reasoned
<1>5. Sided'
  BY <1>1 DEF BesideInv, Sided
<1>6. ASSUME NEW f \in Fields, outcomes[w][f] = "applied" PROVE HasLatest(f)'
  <2>1. provenance'[f] = provenance[f] \union {w} /\ provenance[f] \subseteq Writers
    BY <1>2, <1>6 DEF AnnotationTypeOK
  <2>2. CASE provenance[f] = {}
    BY <1>1, <1>3, <2>1, <2>2 DEF HasLatest, IsLatest
  <2>3. CASE provenance[f] # {}
    <3>1. PICK l \in Writers : IsLatest(l, f)
      BY <2>3 DEF BesideInv, HasLatest
    <3>2. l \in provenance[f] /\ \A q \in provenance[f] : anno[q].written_at <= anno[l].written_at
      BY <3>1 DEF IsLatest
    <3>3. CASE anno[w].written_at <= anno[l].written_at
      <4>1. IsLatest(l, f)'
        BY <1>1, <2>1, <3>2, <3>3 DEF IsLatest
      <4> QED BY <4>1 DEF HasLatest
    <3>4. CASE anno[l].written_at < anno[w].written_at
      <4>1. \A q \in provenance[f] : anno[q].written_at <= anno[w].written_at
        BY <1>3, <2>1, <3>2, <3>4
      <4>2. IsLatest(w, f)'
        BY <1>1, <1>3, <2>1, <4>1 DEF IsLatest
      <4> QED BY <4>2 DEF HasLatest
    <3> QED BY <1>3, <3>3, <3>4
  <2> QED BY <2>2, <2>3
<1>7. ASSUME NEW f \in Fields, outcomes[w][f] # "applied" PROVE HasLatest(f)'
  BY <1>1, <1>2, <1>7 DEF BesideInv, HasLatest, IsLatest
<1>8. ASSUME NEW f \in Fields PROVE Overruled(f)'
  <2>1. provenance[f] \subseteq provenance'[f] /\ \A p \in provenance'[f] : p \in provenance[f] \/ p = w
    BY <1>2
  <2>2. \A p : Undercut(p, f) => Undercut(p, f)'
    BY <1>1, <2>1 DEF Undercut
  <2>3. ASSUME NEW v \in Writers, NEW p \in provenance'[f], outcomes[v][f] = "applied",
               anno[p].written_at < anno[v].written_at,
               Trust(anno[v].source) < Trust(anno[p].source)
        PROVE  v \in beside[p] \/ Undercut(p, f)'
    <3>1. CASE p \in provenance[f]
      BY <2>2, <2>3, <3>1 DEF BesideInv, Overruled
    <3>2. CASE p = w
      <4>1. v \in Begun
        BY <1>4, <2>3 DEF Undecided
      <4> QED BY <1>1, <2>3, <3>2, <4>1 DEF BesideInv, Sided
    <3> QED BY <2>1, <3>1, <3>2
  <2> QED BY <1>1, <2>3 DEF Overruled
<1> QED BY <1>5, <1>6, <1>7, <1>8 DEF BesideInv

LEMMA NextAnno == AnnoInv /\ [AnnotationNext]_annotationVars => AnnoInv'
<1> SUFFICES ASSUME AnnoInv, [AnnotationNext]_annotationVars PROVE AnnoInv'
  OBVIOUS
<1>1. ASSUME NEW w \in Writers, NEW source \in Sources, NEW proposed \in FieldValues,
             Propose(w, source, proposed)
      PROVE  AnnoInv'
  BY <1>1, ProposeAnno, ProposeBeside DEF AnnoInv
<1>2. ASSUME NEW w \in Writers, Open(w) PROVE AnnoInv'
  BY <1>2, OpenAnno, SessionBeside DEF AnnoInv
<1>3. ASSUME NEW w \in Writers, NEW f \in Fields, Decide(w, f) PROVE AnnoInv'
  BY <1>3, DecideAnno, DecideBeside DEF AnnoInv
<1>4. ASSUME NEW w \in Writers, Commit(w) PROVE AnnoInv'
  BY <1>4, CommitAnno, CommitBeside DEF AnnoInv
<1>5. ASSUME NEW w \in Writers, Rollback(w) PROVE AnnoInv'
  BY <1>5, RollbackAnno, SessionBeside DEF AnnoInv
<1>6. CASE UNCHANGED annotationVars
  <2>1. OrderInv'
    BY <1>6 DEF annotationVars, annotated, AnnoInv, OrderInv, AnnotationTypeOK, ClockCounts, Reasoned,
                InOrder, LatestRules, LatestDescribesValue, IsLatest, Begun, Underway, alone
  <2>2. BesideInv'
    BY <1>6 DEF annotationVars, annotated, AnnoInv, BesideInv, Sided, HasLatest, Overruled, Undercut,
                IsLatest, Begun, Underway
  <2> QED BY <2>1, <2>2 DEF AnnoInv
<1> QED BY <1>1, <1>2, <1>3, <1>4, <1>5, <1>6 DEF AnnotationNext

LEMMA AnnoAlways == AnnotationSpec => []AnnoInv
  BY InitAnno, NextAnno, PTL DEF AnnotationSpec

-----------------------------------------------------------------------------
(***************************************************************************)
(* Every variable keeps its type, and as long as each annotation is        *)
(* written before the next is made, the latest provenance row of a field   *)
(* describes the value the field holds (AnnotationDAO.write, latest_for).  *)
(***************************************************************************)
THEOREM LatestIsTrue == AnnotationSpec => []AnnotationInv
<1>1. AnnoInv => AnnotationInv
  BY DEF AnnoInv, OrderInv, AnnotationInv
<1> QED BY <1>1, AnnoAlways, PTL

(***************************************************************************)
(* In every interleaving of any number of writers, a later annotation of   *)
(* less trust is recorded over one of more trust only if an annotation of  *)
(* less trust was under way beside that one (AnnotationDAO.write reads the *)
(* provenance without a lock, latest_provenance orders it by stamps).      *)
(***************************************************************************)
THEOREM TrustIsUndercutBeside == AnnotationSpec => []OverruledOnlyBeside
<1>1. AnnoInv => OverruledOnlyBeside
  <2> SUFFICES ASSUME AnnoInv, NEW f \in Fields, NEW p \in provenance[f], NEW w \in provenance[f],
                      anno[p].written_at < anno[w].written_at,
                      Trust(anno[w].source) < Trust(anno[p].source)
               PROVE  Undercut(p, f)
    BY DEF OverruledOnlyBeside, Undercut
  <2>1. w \in Writers /\ outcomes[w][f] = "applied"
    BY DEF AnnoInv, OrderInv, Reasoned, AnnotationTypeOK
  <2>2. w \in beside[p] \/ Undercut(p, f)
    BY <2>1 DEF AnnoInv, BesideInv, Overruled
  <2> QED BY <2>2 DEF Undercut
<1> QED BY <1>1, AnnoAlways, PTL

\* Only a commit changes a field, and only one it applies.
LEMMA ChangesAreCommits ==
  ASSUME AnnoInv, [AnnotationNext]_annotationVars, NEW f \in Fields, value'[f] # value[f]
  PROVE  \E w \in Writers :
           /\ Commit(w) /\ outcomes[w][f] = "applied" /\ w \in Underway
           /\ value'[f] = anno[w].proposed[f] /\ value'[f] # Empty
<1>1. PICK w \in Writers : Commit(w)
  BY DEF AnnotationNext, annotationVars, annotated, Propose, Open, Decide, Rollback
<1>2. outcomes[w][f] = "applied" /\ value'[f] = anno[w].proposed[f]
  BY <1>1 DEF Commit, Applied, AnnoInv, OrderInv, AnnotationTypeOK, FieldValues
<1>3. w \in Underway /\ anno[w].proposed[f] # Empty
  BY <1>1, <1>2 DEF Commit, Underway, AnnoInv, OrderInv, Reasoned
<1> QED BY <1>1, <1>2, <1>3

(***************************************************************************)
(* A write changes a field only by trust while annotations come one at a   *)
(* time, and whatever the interleaving never empties a field and never     *)
(* changes one without a reindex task (AnnotationDAO.write, decide).       *)
(***************************************************************************)
THEOREM FieldsChangeForCause == AnnotationSpec => FieldSteps
<1> DEFINE ByTrust == alone' => ChangesByTrust
           Filled == \A f \in Fields : value[f] # Empty => value'[f] # Empty
           Told == refreshes' # refreshes
<1>1. AnnoInv /\ [AnnotationNext]_annotationVars => [ByTrust]_annotationVars
  <2> SUFFICES ASSUME AnnoInv, [AnnotationNext]_annotationVars, alone',
                      NEW f \in Fields, value'[f] # value[f]
               PROVE  \E w \in provenance'[f] \ provenance[f] :
                        \A p \in provenance[f] : Trust(anno[p].source) <= Trust(anno[w].source)
    BY DEF ChangesByTrust
  <2>1. PICK w \in Writers : Commit(w) /\ outcomes[w][f] = "applied" /\ w \in Underway
    BY ChangesAreCommits
  <2>2. alone
    BY <2>1 DEF Commit, alone
  <2>3. w \in provenance'[f] \ provenance[f]
    BY <2>1 DEF Commit, Recorded, Applied, AnnoInv, OrderInv, Reasoned, Underway
  <2>4. LatestRules(f)
    BY <2>2 DEF AnnoInv, OrderInv
  <2> QED BY <2>1, <2>3, <2>4 DEF LatestRules
<1>2. AnnoInv /\ [AnnotationNext]_annotationVars => [Filled]_value
  BY ChangesAreCommits
<1>3. AnnoInv /\ [AnnotationNext]_annotationVars => [Told]_value
  <2> SUFFICES ASSUME AnnoInv, [AnnotationNext]_annotationVars, value' # value PROVE Told
    OBVIOUS
  <2>1. PICK w \in Writers : Commit(w)
    BY DEF AnnotationNext, annotationVars, annotated, Propose, Open, Decide, Rollback
  <2>2. PICK f \in Fields : value'[f] # value[f]
    BY <2>1 DEF Commit, AnnoInv, OrderInv, AnnotationTypeOK, FieldValues
  <2>3. f \in Applied(w)
    BY <2>1, <2>2 DEF Commit
  <2>4. w \notin refreshes
    BY <2>1 DEF Commit, AnnoInv, OrderInv, Reasoned
  <2> QED BY <2>1, <2>3, <2>4 DEF Commit, Refreshes
<1>4. AnnotationSpec => TrustWinsAlone
  BY <1>1, AnnoAlways, PTL DEF AnnotationSpec, TrustWinsAlone
<1>5. AnnotationSpec => NeverEmptied
  BY <1>2, AnnoAlways, PTL DEF AnnotationSpec, NeverEmptied
<1>6. AnnotationSpec => ChangesAreIndexed
  BY <1>3, AnnoAlways, PTL DEF AnnotationSpec, ChangesAreIndexed
<1> QED BY <1>4, <1>5, <1>6 DEF FieldSteps

HIDE AnnotationAssumption DEF AnnotationAssumption

-----------------------------------------------------------------------------
(* Collections of points: how a process deletes while others write. *)

VectorSpec == VectorInit /\ [][VectorNext]_vectorVars

-----------------------------------------------------------------------------
(* Filters and scrolls. *)

\* What is sent to Qdrant never misses what is meant, and is exactly that when
\* every clause has a translation.
LEMMA FiltersWiden ==
  ASSUME NEW where, NEW values
  PROVE  LET passes == Passes(values, build_qdrant_filter(where)) IN
         /\ Meant(values, where) => passes
         /\ Expressible(where) => (passes <=> Meant(values, where))
<1>1. \A c : Translated(c) => (Satisfies(values, c) <=> values \intersect c.any # {})
  BY DEF Translated, Satisfies
<1>2. ASSUME Meant(values, where) PROVE Passes(values, build_qdrant_filter(where))
  BY <1>1, <1>2 DEF Meant, Passes, build_qdrant_filter
<1>3. ASSUME Expressible(where), Passes(values, build_qdrant_filter(where))
      PROVE  Meant(values, where)
  BY <1>1, <1>3 DEF Expressible, Meant, Passes, build_qdrant_filter
<1> QED
  BY <1>2, <1>3

LEMMA FiltersAlwaysWiden == FiltersOnlyWiden
<1> SUFFICES ASSUME NEW where \in Wheres, NEW values \in SUBSET KeyValues
             PROVE  LET passes == Passes(values, build_qdrant_filter(where)) IN
                    /\ Meant(values, where) => passes
                    /\ Expressible(where) => (passes = Meant(values, where))
  BY DEF FiltersOnlyWiden
<1>1. Passes(values, build_qdrant_filter(where)) \in BOOLEAN /\ Meant(values, where) \in BOOLEAN
  BY DEF Passes, Meant
<1> QED
  BY <1>1, FiltersWiden

LEMMA LeastId ==
  ASSUME NEW ids \in SUBSET Nat, ids # {}
  PROVE  \E i \in ids : \A j \in ids : i <= j
<1>1. PICK i \in ids : \A j \in ids : ~ (<<j, i>> \in OpToRel(<, Nat))
  BY NatLessThanWellFounded, WFMin
<1>2. \A j \in ids : ~ (j < i)
  BY <1>1 DEF OpToRel
<1> QED
  BY <1>2

LEMMA GreatestId ==
  ASSUME NEW ids \in SUBSET PointIds, ids # {}
  PROVE  \E i \in ids : \A j \in ids : j <= i
<1> DEFINE below == {MaxId - i : i \in ids}
<1>0. MaxId \in Nat /\ \A i \in ids : i \in Nat /\ i <= MaxId
  BY VectorAssumption DEF PointIds
<1>1. below \in SUBSET Nat /\ below # {}
  <2>1. \A i \in ids : MaxId - i \in Nat
    BY <1>0
  <2> QED
    BY <2>1
<1>2. PICK x \in below : \A y \in below : x <= y
  <2> HIDE DEF below
  <2> QED
    BY <1>1, LeastId
<1>3. PICK i \in ids : x = MaxId - i
  BY <1>2
<1>4. \A j \in ids : MaxId - i <= MaxId - j
  BY <1>2, <1>3
<1> QED
  BY <1>4, VectorAssumption DEF PointIds

LEMMA IdsFinite ==
  ASSUME NEW ids \in SUBSET PointIds
  PROVE  IsFiniteSet(ids) /\ Cardinality(ids) \in Nat
<1>1. IsFiniteSet(PointIds)
  BY VectorAssumption, FS_Interval DEF PointIds
<1> QED
  BY <1>1, FS_Subset, FS_CardinalityType

\* A page that is not full has all the ids there are, and one that is empty none.
LEMMA Pages ==
  ASSUME NEW n \in Nat \ {0}, NEW ids \in SUBSET PointIds
  PROVE  /\ First(n, ids) \in SUBSET ids
         /\ First(n, ids) = {} => ids = {}
         /\ Cardinality(First(n, ids)) # n => First(n, ids) = ids
<1> DEFINE before(i) == {j \in ids : j < i}
           page == First(n, ids)
<1>1. page = {i \in ids : Cardinality(before(i)) < n}
  BY DEF First
<1>2. PointIds \in SUBSET Nat
  BY VectorAssumption DEF PointIds
<1>3. \A i \in ids : before(i) \in SUBSET PointIds
  OBVIOUS
<1> HIDE DEF page
<1>4. page \in SUBSET ids
  BY <1>1
<1>5. ASSUME page = {}, ids # {} PROVE FALSE
  <2>1. PICK i \in ids : \A j \in ids : i <= j
    BY <1>2, <1>5, LeastId
  <2>2. before(i) = {}
    <3>1. \A j \in ids : ~ (j < i)
      BY <1>2, <2>1
    <3> QED
      BY <3>1
  <2>3. Cardinality(before(i)) = 0
    BY <2>2, FS_EmptySet
  <2> QED
    BY <1>1, <1>5, <2>1, <2>3
<1>6. ASSUME page # ids PROVE Cardinality(page) = n
  <2>1. PICK i \in ids \ page : \A j \in ids \ page : i <= j
    BY <1>2, <1>4, <1>6, LeastId
  <2>2. before(i) \in SUBSET page
    <3>1. \A j \in ids \ page : ~ (j < i)
      BY <1>2, <2>1
    <3> QED
      BY <3>1
  <2>3. ~ (Cardinality(before(i)) < n)
    BY <1>1, <2>1
  <2>4. IsFiniteSet(page) /\ Cardinality(page) \in Nat
    BY <1>4, IdsFinite
  <2>5. Cardinality(before(i)) \in Nat /\ Cardinality(before(i)) <= Cardinality(page)
    BY <1>3, <2>1, <2>2, <2>4, IdsFinite, FS_Subset
  <2>6. page # {}
    BY <2>3, <2>4, <2>5, FS_EmptySet
  <2>7. PICK k \in page : \A j \in page : j <= k
    BY <1>4, <2>6, GreatestId
  <2>8. page \in SUBSET (before(k) \union {k})
    BY <1>2, <1>4, <2>7
  <2>9. IsFiniteSet(before(k)) /\ Cardinality(before(k)) \in Nat /\ Cardinality(before(k)) < n
    BY <1>1, <1>3, <1>4, <2>7, IdsFinite
  <2>10. /\ IsFiniteSet(before(k) \union {k})
         /\ Cardinality(before(k) \union {k}) = Cardinality(before(k)) + 1
    <3>1. k \notin before(k)
      BY <1>2, <1>4, <2>7
    <3> HIDE DEF before
    <3> QED
      BY <2>9, <3>1, FS_AddElement
  <2>11. Cardinality(page) <= Cardinality(before(k)) + 1
    <3> HIDE DEF before
    <3> QED
      BY <2>8, <2>10, FS_Subset
  <2> QED
    BY <2>3, <2>4, <2>5, <2>9, <2>11
<1> QED
  BY <1>4, <1>5, <1>6 DEF page

-----------------------------------------------------------------------------
(* The inductive invariant. *)

Deletes == [op : {"scroll", "delete"}, page : SUBSET PointIds, offset : 0 .. MaxId,
            where : DeleteBy \union {Sweep}, targets : SUBSET PointIds, rewritten : SUBSET PointIds]

\* A sweep has the ids it is still meant for before it or in its page; a filtered delete
\* has them in its page, if it is not full, and in its page no others but those that
\* were written after the scroll.
OnCourse(d, stored) ==
  LET left == d.targets \intersect DOMAIN stored IN
  /\ d.op = "scroll" =>
       d.where = Sweep /\ d.offset # 0 /\ \A i \in left : i >= d.offset
  /\ d.op = "delete" /\ d.where = Sweep =>
       \A i \in left : i \in d.page \/ (d.offset # 0 /\ i >= d.offset)
  /\ d.op = "delete" /\ d.where # Sweep =>
       /\ d.offset = 0
       /\ \A i \in d.page \intersect DOMAIN stored :
            i \in d.rewritten \/ Passes(stored[i], build_qdrant_filter(d.where))
       /\ left \subseteq d.page \/ Cardinality(d.page) = PageLimit

VectorHistory ==
  /\ exists \in BOOLEAN /\ writes \in 0 .. MaxWrites
  /\ DOMAIN points \subseteq PointIds /\ \A i \in DOMAIN points : points[i] \subseteq KeyValues
  /\ ~exists => DOMAIN points = {} /\ opened \subseteq orphans
  /\ opened \subseteq StoreUsers /\ orphans \subseteq opened
  /\ delete \in [StoreUsers -> {NoDelete} \union Deletes]
  /\ \A c \in StoreUsers : delete[c] # NoDelete => OnCourse(delete[c], points)

LEMMA HistoryTypes == VectorHistory => VectorTypeOK
BY DEF VectorHistory, VectorTypeOK, Deletes

LEMMA NotNoDelete == \A d \in Deletes : d # NoDelete
BY DEF Deletes, NoDelete

LEMMA VectorInitHistory == VectorInit => VectorHistory
<1> SUFFICES ASSUME VectorInit PROVE VectorHistory
  OBVIOUS
<1>1. DOMAIN points = {}
  BY DEF VectorInit
<1>2. delete \in [StoreUsers -> {NoDelete} \union Deletes]
  BY DEF VectorInit
<1>3. writes \in 0 .. MaxWrites
  BY VectorAssumption DEF VectorInit
<1>4. \A c \in StoreUsers : delete[c] = NoDelete
  BY DEF VectorInit
<1>5. exists = FALSE /\ opened = {} /\ orphans = {}
  BY DEF VectorInit
<1> QED
  BY <1>1, <1>2, <1>3, <1>4, <1>5 DEF VectorHistory

\* A delete under way stays as it is while points only go.
LEMMA PointsGo ==
  ASSUME NEW d, OnCourse(d, points), DOMAIN points' \subseteq DOMAIN points,
         \A i \in DOMAIN points' : points'[i] = points[i]
  PROVE  OnCourse(d, points')
BY DEF OnCourse

\* A step that writes no point.
LEMMA PointsGoHistory ==
  ASSUME VectorHistory, exists' \in BOOLEAN, writes' \in 0 .. MaxWrites,
         DOMAIN points' \subseteq DOMAIN points, \A i \in DOMAIN points' : points'[i] = points[i],
         ~exists' => DOMAIN points' = {} /\ opened' \subseteq orphans',
         opened' \subseteq StoreUsers, orphans' \subseteq opened',
         delete' \in [StoreUsers -> {NoDelete} \union Deletes],
         \A c \in StoreUsers : delete'[c] \in {NoDelete, delete[c]} \/ OnCourse(delete'[c], points')
  PROVE  VectorHistory'
<1>1. ASSUME NEW c \in StoreUsers, delete'[c] # NoDelete PROVE OnCourse(delete'[c], points')
  <2>1. CASE delete'[c] = delete[c]
    BY <1>1, <2>1, PointsGo DEF VectorHistory
  <2> QED
    BY <1>1, <2>1
<1> QED
  BY <1>1 DEF VectorHistory

\* One process begins, goes on with or ends its delete.
LEMMA SetDelete ==
  ASSUME VectorHistory, NEW c \in StoreUsers, NEW d \in {NoDelete} \union Deletes,
         delete' = [delete EXCEPT ![c] = d]
  PROVE  /\ delete' \in [StoreUsers -> {NoDelete} \union Deletes] /\ delete'[c] = d
         /\ \A b \in StoreUsers \ {c} : delete'[b] = delete[b]
BY DEF VectorHistory

LEMMA StoresKeep ==
  ASSUME VectorHistory,
         DropCollection \/ \E c \in StoreUsers : GetStore(c) \/ RestartClient(c) \/ DeleteRaises(c)
  PROVE  VectorHistory'
<1>1. CASE DropCollection
  <2>1. DOMAIN points' = {} /\ exists' = FALSE /\ orphans' = opened /\ UNCHANGED <<opened, delete>>
        /\ writes' \in 0 .. MaxWrites
    BY <1>1, VectorAssumption DEF DropCollection, Count, VectorHistory
  <2> QED
    BY <2>1, PointsGoHistory DEF VectorHistory
<1>2. CASE \E c \in StoreUsers : GetStore(c)
  <2>1. /\ exists' = TRUE /\ UNCHANGED <<points, delete, writes, orphans>>
        /\ opened \subseteq opened' /\ opened' \subseteq StoreUsers
    BY <1>2 DEF GetStore, VectorHistory
  <2> QED
    BY <2>1, PointsGoHistory DEF VectorHistory
<1>3. CASE \E c \in StoreUsers : RestartClient(c) \/ DeleteRaises(c)
  <2>1. PICK c \in StoreUsers : RestartClient(c) \/ DeleteRaises(c)
    BY <1>3
  <2>2. /\ delete' = [delete EXCEPT ![c] = NoDelete] /\ UNCHANGED <<exists, points, writes>>
        /\ \/ opened' = opened \ {c} /\ orphans' = orphans \ {c}
           \/ UNCHANGED <<opened, orphans>>
    BY <2>1 DEF RestartClient, DeleteRaises
  <2>3. /\ delete' \in [StoreUsers -> {NoDelete} \union Deletes]
        /\ \A b \in StoreUsers : delete'[b] \in {NoDelete, delete[b]}
    BY <2>2, SetDelete
  <2> QED
    BY <2>2, <2>3, PointsGoHistory DEF VectorHistory
<1> QED
  BY <1>1, <1>2, <1>3

\* A point that is written is none that a delete was meant for any more.
LEMMA UpsertKeeps ==
  ASSUME VectorHistory, NEW c \in StoreUsers, NEW i \in PointIds, NEW values \in Payloads,
         Upsert(c, i, values)
  PROVE  VectorHistory'
<1>1. /\ UNCHANGED <<exists, opened, orphans>> /\ writes' \in 0 .. MaxWrites
      /\ exists => /\ DOMAIN points' = DOMAIN points \union {i}
                   /\ \A x \in DOMAIN points' : points'[x] = IF x = i THEN values ELSE points[x]
      /\ ~exists => points' = points
  BY VectorAssumption DEF Upsert, Count, VectorHistory
<1>2. ASSUME NEW b \in StoreUsers
      PROVE  /\ delete'[b] \in {NoDelete} \union Deletes
             /\ delete'[b] # NoDelete => OnCourse(delete'[b], points')
  <2>1. CASE delete[b] = NoDelete
    BY <2>1 DEF Upsert, Written
  <2>2. CASE delete[b] # NoDelete
    <3>1. PICK d \in Deletes : d = delete[b]
      BY <2>2 DEF VectorHistory
    <3>2. PICK e : e = [d EXCEPT !.targets = @ \ {i}, !.rewritten = @ \union {i}]
      OBVIOUS
    <3>3. delete'[b] = e
      BY <2>2, <3>1, <3>2 DEF Upsert, Written
    <3>4. e \in Deletes
      BY <3>2 DEF Deletes
    <3>5. /\ e.op = d.op /\ e.where = d.where /\ e.offset = d.offset /\ e.page = d.page
          /\ e.targets = d.targets \ {i} /\ e.rewritten = d.rewritten \union {i}
      BY <3>2 DEF Deletes
    <3>6. e.targets \intersect DOMAIN points' \subseteq d.targets \intersect DOMAIN points
      BY <1>1, <3>5
    <3>7. \A x \in DOMAIN points' : x \in e.rewritten \/ (x \in DOMAIN points /\ points'[x] = points[x])
      BY <1>1, <3>5
    <3>8. OnCourse(d, points)
      BY <2>2, <3>1 DEF VectorHistory
    <3>9. OnCourse(e, points')
      BY <3>5, <3>6, <3>7, <3>8 DEF OnCourse
    <3> QED
      BY <3>3, <3>4, <3>9
  <2> QED
    BY <2>1, <2>2
<1>3. delete' \in [StoreUsers -> {NoDelete} \union Deletes]
  BY <1>2 DEF Upsert, Written
<1>4. DOMAIN points' \subseteq PointIds /\ \A x \in DOMAIN points' : points'[x] \subseteq KeyValues
  <2>1. values \subseteq KeyValues
    BY VectorAssumption
  <2> QED
    BY <1>1, <2>1 DEF VectorHistory
<1>5. ~exists' => DOMAIN points' = {} /\ opened' \subseteq orphans'
  BY <1>1 DEF VectorHistory
<1> QED
  BY <1>1, <1>2, <1>3, <1>4, <1>5 DEF VectorHistory

LEMMA ScrollKeeps ==
  ASSUME VectorHistory, NEW c \in StoreUsers, NEW where \in DeleteBy, ScrollMatches(c, where)
  PROVE  VectorHistory'
<1> DEFINE filter == build_qdrant_filter(where)
           found == Matching(filter)
           page == First(PageLimit, found)
           targets == {i \in DOMAIN points : Meant(points[i], where)}
           d == [op |-> "delete", page |-> page, offset |-> 0, where |-> where,
                 targets |-> targets, rewritten |-> {}]
<1>1. /\ delete' = [delete EXCEPT ![c] = d] /\ filter # {}
      /\ UNCHANGED <<exists, points, opened, writes, orphans>>
  BY DEF ScrollMatches
<1>2. found \in SUBSET PointIds /\ targets \in SUBSET found
  BY FiltersWiden DEF Matching, VectorHistory
<1>3. /\ page \in SUBSET found /\ (Cardinality(page) # PageLimit => page = found)
  <2> HIDE DEF found
  <2> QED
    BY <1>2, Pages, VectorAssumption
<1>4. where # Sweep
  BY <1>1 DEF build_qdrant_filter, Sweep
<1>5. \A i \in found : i \in DOMAIN points /\ Passes(points[i], filter)
  BY DEF Matching
<1> HIDE DEF page, targets, found
<1>6. d \in Deletes
  BY <1>2, <1>3, VectorAssumption DEF Deletes
<1>7. OnCourse(d, points')
  BY <1>1, <1>2, <1>3, <1>4, <1>5 DEF OnCourse
<1> HIDE DEF d
<1>8. /\ delete' \in [StoreUsers -> {NoDelete} \union Deletes] /\ delete'[c] = d
      /\ \A b \in StoreUsers \ {c} : delete'[b] = delete[b]
  BY <1>1, <1>6, SetDelete
<1> QED
  BY <1>1, <1>7, <1>8, PointsGoHistory DEF VectorHistory

LEMMA BeginSweepKeeps ==
  ASSUME VectorHistory, NEW c \in StoreUsers, BeginSweep(c)
  PROVE  VectorHistory'
<1> DEFINE d == [op |-> "scroll", page |-> {}, offset |-> 1, where |-> Sweep,
                 targets |-> DOMAIN points, rewritten |-> {}]
<1>1. delete' = [delete EXCEPT ![c] = d] /\ UNCHANGED <<exists, points, opened, writes, orphans>>
  BY DEF BeginSweep
<1>2. d \in Deletes
  BY VectorAssumption DEF Deletes, VectorHistory
<1>3. OnCourse(d, points')
  BY <1>1 DEF OnCourse, VectorHistory, PointIds
<1> HIDE DEF d
<1>4. /\ delete' \in [StoreUsers -> {NoDelete} \union Deletes] /\ delete'[c] = d
      /\ \A b \in StoreUsers \ {c} : delete'[b] = delete[b]
  BY <1>1, <1>2, SetDelete
<1> QED
  BY <1>1, <1>3, <1>4, PointsGoHistory DEF VectorHistory

\* The page of a sweep, and what it leaves.
LEMMA SweepScrollKeeps ==
  ASSUME VectorHistory, NEW c \in StoreUsers, SweepScroll(c)
  PROVE  VectorHistory'
<1> DEFINE d == delete[c]
           rest == {i \in DOMAIN points : i >= d.offset}
           page == First(SweepPage, rest)
           more == rest \ page
           next == IF more = {} THEN 0 ELSE CHOOSE i \in more : \A j \in more : i <= j
           e == [d EXCEPT !.op = "delete", !.page = page, !.rewritten = {}, !.offset = next]
<1>1. /\ delete' = [delete EXCEPT ![c] = IF page = {} THEN NoDelete ELSE e]
      /\ d # NoDelete /\ d.op = "scroll"
      /\ UNCHANGED <<exists, points, opened, writes, orphans>>
  BY DEF SweepScroll
<1>2. d \in Deletes /\ OnCourse(d, points)
  BY <1>1 DEF VectorHistory
<1>3. rest \in SUBSET PointIds /\ PointIds \in SUBSET (1 .. MaxId)
  BY DEF VectorHistory, PointIds
<1>4. page \in SUBSET rest
  <2> HIDE DEF rest
  <2> QED
    BY <1>3, Pages, VectorAssumption
<1>5. /\ next \in 0 .. MaxId
      /\ \A i \in more : next # 0 /\ i >= next
  <2>1. CASE more = {}
    BY <2>1, VectorAssumption
  <2>2. CASE more # {}
    <3>0. \A i \in rest : i \in 1 .. MaxId
      <4> HIDE DEF rest
      <4> QED
        BY <1>3
    <3>1. \A i \in more : i \in Nat /\ i \in 1 .. MaxId
      <4> HIDE DEF rest, page
      <4> QED
        BY <3>0, VectorAssumption
    <3> HIDE DEF more
    <3>2. \E i \in more : \A j \in more : i <= j
      <4>1. more \in SUBSET Nat
        BY <3>1
      <4> QED
        BY <2>2, <4>1, LeastId
    <3>3. next \in more /\ \A j \in more : next <= j
      BY <2>2, <3>2
    <3> HIDE DEF next
    <3> QED
      BY <3>1, <3>3, VectorAssumption
  <2> QED
    BY <2>1, <2>2
<1>6. d.where = Sweep /\ \A i \in d.targets \intersect DOMAIN points : i \in page \/ i \in more
  BY <1>1, <1>2 DEF OnCourse
<1> HIDE DEF page, more, next
<1>7. e \in Deletes
  BY <1>2, <1>3, <1>4, <1>5 DEF Deletes
<1>8. /\ e.op = "delete" /\ e.page = page /\ e.offset = next /\ e.where = d.where
      /\ e.targets = d.targets
  BY <1>2 DEF Deletes
<1> HIDE DEF e, d
<1>9. OnCourse(e, points')
  BY <1>1, <1>5, <1>6, <1>8 DEF OnCourse
<1> DEFINE f == IF page = {} THEN NoDelete ELSE e
<1>10. f \in {NoDelete} \union Deletes /\ delete' = [delete EXCEPT ![c] = f] /\ f \in {NoDelete, e}
  BY <1>1, <1>7
<1> HIDE DEF f
<1>11. /\ delete' \in [StoreUsers -> {NoDelete} \union Deletes] /\ delete'[c] = f
       /\ \A b \in StoreUsers \ {c} : delete'[b] = delete[b]
  BY <1>10, SetDelete
<1> QED
  BY <1>1, <1>9, <1>10, <1>11, PointsGoHistory DEF VectorHistory

LEMMA DeletePageKeeps ==
  ASSUME VectorHistory, NEW c \in StoreUsers, DeletePage(c)
  PROVE  VectorHistory'
<1> DEFINE d == delete[c]
           e == [d EXCEPT !.op = "scroll", !.page = {}]
           f == IF d.offset = 0 THEN NoDelete ELSE e
<1>1. /\ delete' = [delete EXCEPT ![c] = f] /\ d # NoDelete /\ d.op = "delete"
      /\ DOMAIN points' = DOMAIN points \ d.page
      /\ \A i \in DOMAIN points' : points'[i] = points[i]
      /\ exists /\ UNCHANGED <<exists, opened, writes, orphans>>
  BY DEF DeletePage, Erase
<1>2. d \in Deletes /\ OnCourse(d, points)
  BY <1>1 DEF VectorHistory
<1>3. /\ e \in Deletes /\ e.op = "scroll" /\ e.offset = d.offset /\ e.where = d.where
      /\ e.targets = d.targets
  BY <1>2 DEF Deletes
<1>4. f \in {NoDelete} \union Deletes
  BY <1>3
<1> HIDE DEF d, e
<1>5. ASSUME d.offset # 0 PROVE OnCourse(e, points')
  <2>1. d.where = Sweep
    BY <1>1, <1>2, <1>5 DEF OnCourse
  <2>2. \A i \in d.targets \intersect DOMAIN points' : i >= d.offset
    BY <1>1, <1>2, <2>1 DEF OnCourse
  <2> QED
    BY <1>3, <1>5, <2>1, <2>2 DEF OnCourse
<1>6. f = NoDelete \/ OnCourse(f, points')
  BY <1>5
<1> HIDE DEF f
<1>7. /\ delete' \in [StoreUsers -> {NoDelete} \union Deletes] /\ delete'[c] = f
      /\ \A b \in StoreUsers \ {c} : delete'[b] = delete[b]
  BY <1>1, <1>4, SetDelete
<1> QED
  BY <1>1, <1>6, <1>7, PointsGoHistory DEF VectorHistory

LEMMA VectorNextKeeps == VectorHistory /\ [VectorNext]_vectorVars => VectorHistory'
<1>1. ASSUME VectorHistory, VectorNext PROVE VectorHistory'
  BY <1>1, StoresKeep, UpsertKeeps, ScrollKeeps, BeginSweepKeeps, SweepScrollKeeps, DeletePageKeeps
     DEF VectorNext
<1>2. ASSUME VectorHistory, UNCHANGED vectorVars PROVE VectorHistory'
  BY <1>2 DEF VectorHistory, vectorVars
<1> QED
  BY <1>1, <1>2

-----------------------------------------------------------------------------
(* The theorems. *)

LEMMA VectorHistoryAlways == VectorSpec => []VectorHistory
<1> QED
  BY VectorInitHistory, VectorNextKeeps, PTL DEF VectorSpec

\* A filter sent to Qdrant loses nothing that the caller asked for, and is exact where
\* every clause can be expressed, for every collection, page limit and number of
\* processes (build_qdrant_filter, QdrantDocumentStore).
THEOREM FiltersAreSafe == VectorSpec => []VectorInv
<1>1. VectorHistory => VectorInv
  BY HistoryTypes, FiltersAlwaysWiden DEF VectorInv
<1> QED
  BY <1>1, VectorHistoryAlways, PTL
\* How a delete ends while the collection is there and its process lives.
LEMMA DeletesEnd ==
  ASSUME VectorHistory, VectorNext, NEW c \in StoreUsers,
         delete[c] # NoDelete, delete'[c] = NoDelete, exists, c \in opened'
  PROVE  \/ DeletePage(c) /\ delete[c].offset = 0
         \/ SweepScroll(c) /\ First(SweepPage, {i \in DOMAIN points : i >= delete[c].offset}) = {}
<1>1. ASSUME NEW b \in StoreUsers, b # c,
             \/ \E d : delete' = [delete EXCEPT ![b] = d]
             \/ UNCHANGED delete
      PROVE  FALSE
  BY <1>1 DEF VectorHistory
<1>2. CASE \E b \in StoreUsers : GetStore(b) \/ DeleteRaises(b) \/ RestartClient(b)
  BY <1>1, <1>2 DEF GetStore, DeleteRaises, RestartClient, VectorHistory
<1>3. CASE DropCollection
  BY <1>3 DEF DropCollection
<1>4. CASE \E b \in StoreUsers, i \in PointIds, values \in Payloads : Upsert(b, i, values)
  <2>1. PICK i \in PointIds : Written(i)
    BY <1>4 DEF Upsert
  <2>2. PICK d \in Deletes : d = delete[c]
    BY DEF VectorHistory
  <2>3. delete'[c] = [d EXCEPT !.targets = @ \ {i}, !.rewritten = @ \union {i}]
    BY <2>1, <2>2 DEF Written
  <2>4. delete'[c].op = d.op
    BY <2>2, <2>3 DEF Deletes
  <2> QED
    BY <2>2, <2>4 DEF Deletes, NoDelete
<1>5. CASE \E b \in StoreUsers, where \in DeleteBy : ScrollMatches(b, where)
  <2>1. PICK b \in StoreUsers : \E where \in DeleteBy : ScrollMatches(b, where)
    BY <1>5
  <2>2. b # c
    BY <2>1 DEF ScrollMatches
  <2>3. \E d : delete' = [delete EXCEPT ![b] = d]
    BY <2>1 DEF ScrollMatches
  <2> QED
    BY <1>1, <2>2, <2>3
<1>6. CASE \E b \in StoreUsers : BeginSweep(b)
  BY <1>1, <1>6 DEF BeginSweep
<1>7. CASE \E b \in StoreUsers : SweepScroll(b)
  <2>1. PICK b \in StoreUsers : SweepScroll(b)
    BY <1>7
  <2>2. \E d : delete' = [delete EXCEPT ![b] = d]
    BY <2>1 DEF SweepScroll
  <2>3. b = c
    BY <1>1, <2>2
  <2> DEFINE d == delete[c]
             rest == {i \in DOMAIN points : i >= d.offset}
             page == First(SweepPage, rest)
             more == rest \ page
             next == IF more = {} THEN 0 ELSE CHOOSE i \in more : \A j \in more : i <= j
             e == [d EXCEPT !.op = "delete", !.page = page, !.rewritten = {}, !.offset = next]
  <2>4. delete' = [delete EXCEPT ![c] = IF page = {} THEN NoDelete ELSE e]
    BY <2>1, <2>3 DEF SweepScroll
  <2>5. d \in Deletes
    BY DEF VectorHistory
  <2> HIDE DEF page, next
  <2>6. e.op = "delete"
    BY <2>5 DEF Deletes
  <2> HIDE DEF e, d
  <2>7. e # NoDelete
    BY <2>6 DEF NoDelete
  <2>8. page = {}
    BY <2>4, <2>7 DEF VectorHistory
  <2> QED
    BY <2>1, <2>3, <2>8 DEF page, d
<1>8. CASE \E b \in StoreUsers : DeletePage(b)
  <2>1. PICK b \in StoreUsers : DeletePage(b)
    BY <1>8
  <2>2. \E d : delete' = [delete EXCEPT ![b] = d]
    BY <2>1 DEF DeletePage
  <2>3. b = c
    BY <1>1, <2>2
  <2> DEFINE d == delete[c]
             e == [d EXCEPT !.op = "scroll", !.page = {}]
  <2>4. delete' = [delete EXCEPT ![c] = IF d.offset = 0 THEN NoDelete ELSE e]
    BY <2>1, <2>3 DEF DeletePage
  <2>5. d \in Deletes
    BY DEF VectorHistory
  <2>6. e.op = "scroll"
    BY <2>5 DEF Deletes
  <2> HIDE DEF e, d
  <2>7. e # NoDelete
    BY <2>6 DEF NoDelete
  <2>8. d.offset = 0
    BY <2>4, <2>7 DEF VectorHistory
  <2> QED
    BY <2>1, <2>3, <2>8 DEF d
<1> QED
  BY <1>2, <1>3, <1>4, <1>5, <1>6, <1>7, <1>8 DEF VectorNext

\* What one step may do in the collection.
LEMMA StepsKeepFaith ==
  ASSUME VectorHistory, VectorNext
  PROVE  /\ \A c \in StoreUsers :
              delete[c] # NoDelete /\ delete[c].op = "delete" /\ delete[c].where # Sweep
                /\ points' # points /\ delete'[c] = NoDelete /\ c \in opened' /\ exists' =>
              \A i \in DOMAIN points \ DOMAIN points' :
                \/ i \in delete[c].rewritten \/ ~Expressible(delete[c].where)
                \/ Meant(points[i], delete[c].where)
         /\ \A c \in StoreUsers : delete[c] # NoDelete /\ delete'[c] = NoDelete /\ exists /\ c \in opened' =>
              \/ delete[c].targets \intersect DOMAIN points' = {}
              \/ delete[c].where # Sweep /\ Cardinality(delete[c].page) = PageLimit
         /\ \A c \in opened, i \in PointIds, values \in Payloads :
              Upsert(c, i, values) => exists \/ c \in orphans
<1>1. ASSUME NEW c \in StoreUsers, delete[c] # NoDelete
      PROVE  delete[c] \in Deletes /\ OnCourse(delete[c], points)
  BY <1>1 DEF VectorHistory
<1>2. ASSUME NEW c \in StoreUsers, delete[c] # NoDelete, delete[c].op = "delete", delete[c].where # Sweep,
             points' # points, delete'[c] = NoDelete, c \in opened', exists',
             NEW i \in DOMAIN points \ DOMAIN points'
      PROVE  \/ i \in delete[c].rewritten \/ ~Expressible(delete[c].where)
             \/ Meant(points[i], delete[c].where)
  <2>1. exists
    <3>1. ASSUME ~exists PROVE FALSE
      BY <1>2, <3>1 DEF VectorHistory
    <3> QED
      BY <3>1
  <2>2. DeletePage(c)
    BY <1>2, <2>1, DeletesEnd DEF SweepScroll
  <2>3. i \in delete[c].page
    BY <1>2, <2>2 DEF DeletePage, Erase
  <2>4. i \in delete[c].rewritten \/ Passes(points[i], build_qdrant_filter(delete[c].where))
    BY <1>1, <1>2, <2>3 DEF OnCourse
  <2> QED
    BY <2>4, FiltersWiden
<1>3. ASSUME NEW c \in StoreUsers, delete[c] # NoDelete, delete'[c] = NoDelete, exists, c \in opened'
      PROVE  \/ delete[c].targets \intersect DOMAIN points' = {}
             \/ delete[c].where # Sweep /\ Cardinality(delete[c].page) = PageLimit
  <2>1. CASE DeletePage(c) /\ delete[c].offset = 0
    <3>1. delete[c].op = "delete" /\ DOMAIN points' = DOMAIN points \ delete[c].page
      BY <2>1 DEF DeletePage, Erase
    <3>2. CASE delete[c].where = Sweep
      <4>1. \A i \in delete[c].targets \intersect DOMAIN points : i \in delete[c].page
        BY <1>1, <1>3, <2>1, <3>1, <3>2 DEF OnCourse
      <4> QED
        BY <3>1, <4>1
    <3>3. CASE delete[c].where # Sweep
      BY <1>1, <1>3, <3>1, <3>3 DEF OnCourse
    <3> QED
      BY <3>2, <3>3
  <2>2. CASE SweepScroll(c) /\ First(SweepPage, {i \in DOMAIN points : i >= delete[c].offset}) = {}
    <3> DEFINE rest == {i \in DOMAIN points : i >= delete[c].offset}
    <3>1. rest \in SUBSET PointIds
      BY DEF VectorHistory
    <3>2. rest = {}
      <4> HIDE DEF rest
      <4>1. First(SweepPage, rest) = {}
        BY <2>2 DEF rest
      <4> QED
        BY <3>1, <4>1, Pages, VectorAssumption
    <3>3. delete[c].op = "scroll" /\ points' = points
      BY <2>2 DEF SweepScroll
    <3>4. \A i \in delete[c].targets \intersect DOMAIN points : i >= delete[c].offset
      BY <1>1, <1>3, <3>3 DEF OnCourse
    <3> QED
      BY <3>2, <3>3, <3>4
  <2> QED
    BY <1>3, <2>1, <2>2, DeletesEnd
<1>4. \A c \in opened : exists \/ c \in orphans
  BY DEF VectorHistory
<1> QED
  BY <1>2, <1>3, <1>4

\* A filtered delete removes what the caller meant and no more where the filter can be
\* expressed, a delete leaves none of the points it was meant for but past its page limit,
\* and a write lands unless the collection was dropped behind the store object, whoever
\* writes between scroll and delete (delete_by_filter, delete, upsert_points).
THEOREM DeletesKeepFaith == VectorSpec => VectorSteps
<1>1. ASSUME VectorHistory, [VectorNext]_vectorVars
      PROVE  /\ [\A c \in StoreUsers :
                   delete[c] # NoDelete /\ delete[c].op = "delete" /\ delete[c].where # Sweep
                     /\ points' # points /\ delete'[c] = NoDelete /\ c \in opened' /\ exists' =>
                   \A i \in DOMAIN points \ DOMAIN points' :
                     \/ i \in delete[c].rewritten \/ ~Expressible(delete[c].where)
                     \/ Meant(points[i], delete[c].where)]_vectorVars
             /\ [\A c \in StoreUsers :
                   delete[c] # NoDelete /\ delete'[c] = NoDelete /\ exists /\ c \in opened' =>
                   \/ delete[c].targets \intersect DOMAIN points' = {}
                   \/ delete[c].where # Sweep /\ Cardinality(delete[c].page) = PageLimit]_vectorVars
             /\ [\A c \in opened, i \in PointIds, values \in Payloads :
                   Upsert(c, i, values) => exists \/ c \in orphans]_vectorVars
  BY <1>1, StepsKeepFaith
<1> QED
  BY <1>1, VectorHistoryAlways, PTL
     DEF VectorSpec, VectorSteps, DeletesAreMeant, DeletesAreComplete, WritesLand

-----------------------------------------------------------------------------
(* Answers: the cache and the order in which its inputs were answered. *)

ServiceSpec == ServiceInit /\ [][ServiceNext]_serviceVars

\* A sequence that has lost the element at one place.
LEMMA Shortened ==
  ASSUME NEW S, NEW s \in Seq(S), NEW p \in 1 .. Len(s)
  PROVE  /\ RemoveAt(s, p) \in Seq(S) /\ Len(RemoveAt(s, p)) = Len(s) - 1
         /\ \A i \in 1 .. Len(s) - 1 : RemoveAt(s, p)[i] = IF i < p THEN s[i] ELSE s[i + 1]
<1> DEFINE before == SubSeq(s, 1, p - 1)
           after == SubSeq(s, p + 1, Len(s))
<1>1. /\ before \in Seq(S) /\ Len(before) = p - 1 /\ \A i \in 1 .. p - 1 : before[i] = s[i]
  OBVIOUS
<1>2. /\ after \in Seq(S) /\ Len(after) = Len(s) - p
      /\ \A i \in 1 .. Len(s) - p : after[i] = s[p + i]
  OBVIOUS
<1>3. RemoveAt(s, p) = before \o after
  BY DEF RemoveAt
<1> HIDE DEF before, after
<1>4. /\ before \o after \in Seq(S) /\ Len(before \o after) = Len(s) - 1
      /\ \A i \in 1 .. Len(s) - 1 :
           (before \o after)[i] = IF i <= Len(before) THEN before[i] ELSE after[i - Len(before)]
  <2>1. Len(before) + Len(after) = Len(s) - 1 /\ Len(s) \in Nat
    BY <1>1, <1>2
  <2>2. /\ before \o after \in Seq(S) /\ Len(before \o after) = Len(before) + Len(after)
        /\ \A i \in 1 .. Len(before) + Len(after) :
             (before \o after)[i] = IF i <= Len(before) THEN before[i] ELSE after[i - Len(before)]
    BY <1>1, <1>2, ConcatProperties
  <2> QED
    BY <2>1, <2>2
<1>5. ASSUME NEW i \in 1 .. Len(s) - 1
      PROVE  (before \o after)[i] = IF i < p THEN s[i] ELSE s[i + 1]
  <2>1. CASE i < p
    BY <1>1, <1>4, <2>1
  <2>2. CASE ~(i < p)
    <3>1. i - (p - 1) \in 1 .. Len(s) - p /\ p + (i - (p - 1)) = i + 1
      BY <2>2
    <3> QED
      BY <1>2, <1>4, <2>2, <3>1
  <2> QED
    BY <2>1, <2>2
<1> QED
  BY <1>3, <1>4, <1>5

\* What is left of a sequence when its first d members are dropped.
LEMMA LastOnes ==
  ASSUME NEW S, NEW s \in Seq(S), NEW d \in Nat, d <= Len(s)
  PROVE  /\ SubSeq(s, 1 + d, Len(s)) \in Seq(S)
         /\ Len(SubSeq(s, 1 + d, Len(s))) = Len(s) - d
         /\ \A i \in 1 .. Len(SubSeq(s, 1 + d, Len(s))) : SubSeq(s, 1 + d, Len(s))[i] = s[d + i]
<1> DEFINE m == 1 + d
           n == Len(s)
<1>1. m \in Int /\ n \in Int /\ n \in Nat
  OBVIOUS
<1>2. \A i \in m .. n : s[i] \in S
  OBVIOUS
<1>3. n - m + 1 = n - d
  OBVIOUS
<1>4. (IF m <= n THEN n - m + 1 ELSE 0) = n - d
  OBVIOUS
<1>5. \A i \in 1 .. n - d : m + i - 1 = d + i
  OBVIOUS
<1> HIDE DEF m, n
<1>6. /\ SubSeq(s, m, n) \in Seq(S)
      /\ Len(SubSeq(s, m, n)) = IF m <= n THEN n - m + 1 ELSE 0
      /\ \A i \in 1 .. n - m + 1 : SubSeq(s, m, n)[i] = s[m + i - 1]
  BY <1>1, <1>2, SubSeqProperties
<1>7. /\ SubSeq(s, m, n) \in Seq(S) /\ Len(SubSeq(s, m, n)) = n - d
      /\ \A i \in 1 .. n - d : SubSeq(s, m, n)[i] = s[d + i]
  BY <1>3, <1>4, <1>5, <1>6
<1> QED
  BY <1>7 DEF m, n

\* A sequence with an element moved to its end, or put there.
Renewed(s, places, x) == Append(Erased(s, places), x)

LEMMA RenewedOld ==
  ASSUME NEW S, NEW s \in Seq(S), NEW x \in S, NEW p \in 1 .. Len(s), NEW places, places = {p}
  PROVE  LET t == Renewed(s, places, x) IN
         /\ t \in Seq(S) /\ Len(t) = Len(s) /\ t[Len(s)] = x
         /\ \A i \in 1 .. Len(s) - 1 : t[i] = IF i < p THEN s[i] ELSE s[i + 1]
<1>1. Erased(s, places) = RemoveAt(s, p)
  BY DEF Erased
<1>2. PICK r : r = RemoveAt(s, p)
  OBVIOUS
<1>3. /\ r \in Seq(S) /\ Len(r) = Len(s) - 1
      /\ \A i \in 1 .. Len(s) - 1 : r[i] = IF i < p THEN s[i] ELSE s[i + 1]
  BY <1>2, Shortened
<1>4. Renewed(s, places, x) = Append(r, x)
  BY <1>1, <1>2 DEF Renewed
<1>5. /\ Append(r, x) \in Seq(S) /\ Len(Append(r, x)) = Len(s) /\ Append(r, x)[Len(s)] = x
      /\ \A i \in 1 .. Len(s) - 1 : Append(r, x)[i] = r[i]
  BY <1>3, AppendProperties
<1> QED
  BY <1>3, <1>4, <1>5

LEMMA RenewedNew ==
  ASSUME NEW S, NEW s \in Seq(S), NEW x \in S, NEW places, places = {}
  PROVE  LET t == Renewed(s, places, x) IN
         /\ t \in Seq(S) /\ Len(t) = Len(s) + 1 /\ t[Len(s) + 1] = x
         /\ \A i \in 1 .. Len(s) : t[i] = s[i]
BY DEF Renewed, Erased

-----------------------------------------------------------------------------
(* The inductive invariant. *)

\* The cache holds the entries of the inputs asked for last, each typed, none from the
\* future, and each with the time to live of its kind.
CacheHistory ==
  /\ asked \in Seq(Inputs) /\ cache \in Seq(Entries)
  /\ \A i, j \in 1 .. Len(asked) : asked[i] = asked[j] => i = j
  /\ Len(cache) = IF Len(asked) < MaxEntries THEN Len(asked) ELSE MaxEntries
  /\ \A i \in 1 .. Len(cache) : cache[i].input = asked[Len(asked) - Len(cache) + i]

Fresh(e) == e.answer.at <= now /\ e.expires = e.answer.at + TTL[e.input.kind]

ServiceHistory ==
  /\ CacheHistory
  /\ catalog \subseteq Assets /\ index \subseteq Assets /\ now \in Times
  /\ \A i \in 1 .. Len(cache) : Fresh(cache[i])

LEMMA RenewedAsked ==
  ASSUME CacheHistory, NEW input \in Inputs,
         asked' = Append(Erased(asked, {i \in DOMAIN asked : asked[i] = input}), input)
  PROVE  /\ asked' \in Seq(Inputs)
         /\ \A i, j \in 1 .. Len(asked') : asked'[i] = asked'[j] => i = j
         /\ \A p \in 1 .. Len(asked) : asked[p] = input =>
              /\ Len(asked') = Len(asked) /\ asked'[Len(asked)] = input
              /\ \A i \in 1 .. Len(asked) - 1 : asked'[i] = IF i < p THEN asked[i] ELSE asked[i + 1]
         /\ (\A p \in 1 .. Len(asked) : asked[p] # input) =>
              /\ Len(asked') = Len(asked) + 1 /\ asked'[Len(asked) + 1] = input
              /\ \A i \in 1 .. Len(asked) : asked'[i] = asked[i]
<1> DEFINE places == {i \in DOMAIN asked : asked[i] = input}
<1>0. /\ asked \in Seq(Inputs) /\ Len(asked) \in Nat /\ DOMAIN asked = 1 .. Len(asked)
      /\ \A i, j \in 1 .. Len(asked) : asked[i] = asked[j] => i = j
  BY DEF CacheHistory
<1>1. asked' = Renewed(asked, places, input)
  BY DEF Renewed
<1>n. Len(asked) \in Nat
  BY <1>0
<1>2. CASE \E p \in 1 .. Len(asked) : asked[p] = input
  <2>1. PICK p \in 1 .. Len(asked) : asked[p] = input
    BY <1>2
  <2>2. places = {p}
    BY <1>0, <2>1
  <2> HIDE DEF places
  <2> DEFINE t == Renewed(asked, places, input)
  <2>a. /\ t \in Seq(Inputs) /\ Len(t) = Len(asked) /\ t[Len(asked)] = input
        /\ \A i \in 1 .. Len(asked) - 1 : t[i] = IF i < p THEN asked[i] ELSE asked[i + 1]
    BY <1>0, <2>2, RenewedOld
  <2>b. asked' = t
    BY <1>1
  <2> HIDE DEF t
  <2>3. /\ asked' \in Seq(Inputs) /\ Len(asked') = Len(asked) /\ asked'[Len(asked)] = input
        /\ \A i \in 1 .. Len(asked) - 1 : asked'[i] = IF i < p THEN asked[i] ELSE asked[i + 1]
    BY <2>a, <2>b
  <2>4. \A q \in 1 .. Len(asked) : asked[q] = input => q = p
    BY <1>0, <2>1
  <2>5. ASSUME NEW i \in 1 .. Len(asked), NEW j \in 1 .. Len(asked), asked'[i] = asked'[j]
        PROVE  i = j
    <3> DEFINE old(k) == IF k = Len(asked) THEN p ELSE IF k < p THEN k ELSE k + 1
    <3>2. ASSUME NEW k \in 1 .. Len(asked)
          PROVE  old(k) \in 1 .. Len(asked) /\ asked'[k] = asked[old(k)]
      <4>1. CASE k = Len(asked)
        BY <2>1, <2>3, <4>1
      <4>2. CASE k # Len(asked) /\ k < p
        BY <1>n, <2>3, <4>2
      <4>3. CASE k # Len(asked) /\ ~(k < p)
        <5>1. k \in 1 .. Len(asked) - 1 /\ k + 1 \in 1 .. Len(asked)
          BY <1>n, <4>3
        <5> QED
          BY <2>3, <4>3, <5>1
      <4> QED
        BY <4>1, <4>2, <4>3
    <3>3. old(i) \in 1 .. Len(asked) /\ old(j) \in 1 .. Len(asked) /\ asked[old(i)] = asked[old(j)]
      BY <2>5, <3>2
    <3>4. old(i) = old(j)
      <4> HIDE DEF old
      <4> QED
        BY <1>0, <3>3
    <3> QED
      BY <1>n, <3>4
  <2>6. \A i, j \in 1 .. Len(asked') : asked'[i] = asked'[j] => i = j
    BY <2>3, <2>5
  <2>7. \A q \in 1 .. Len(asked) : asked[q] = input =>
          /\ Len(asked') = Len(asked) /\ asked'[Len(asked)] = input
          /\ \A i \in 1 .. Len(asked) - 1 : asked'[i] = IF i < q THEN asked[i] ELSE asked[i + 1]
    BY <2>3, <2>4
  <2>8. ~ \A q \in 1 .. Len(asked) : asked[q] # input
    BY <2>1
  <2> QED
    BY <2>3, <2>6, <2>7, <2>8
<1>3. CASE \A p \in 1 .. Len(asked) : asked[p] # input
  <2>1. places = {}
    BY <1>0, <1>3
  <2> HIDE DEF places
  <2> DEFINE t == Renewed(asked, places, input)
  <2>a. /\ t \in Seq(Inputs) /\ Len(t) = Len(asked) + 1 /\ t[Len(asked) + 1] = input
        /\ \A i \in 1 .. Len(asked) : t[i] = asked[i]
    BY <1>0, <2>1, RenewedNew
  <2>b. asked' = t
    BY <1>1
  <2> HIDE DEF t
  <2>2. /\ asked' \in Seq(Inputs) /\ Len(asked') = Len(asked) + 1 /\ asked'[Len(asked) + 1] = input
        /\ \A i \in 1 .. Len(asked) : asked'[i] = asked[i]
    BY <2>a, <2>b
  <2>3. ASSUME NEW i \in 1 .. Len(asked) + 1, NEW j \in 1 .. Len(asked) + 1, asked'[i] = asked'[j]
        PROVE  i = j
    <3>1. \A k \in 1 .. Len(asked) + 1 :
            \/ k = Len(asked) + 1 /\ asked'[k] = input
            \/ k \in 1 .. Len(asked) /\ asked'[k] = asked[k] /\ asked[k] # input
      BY <1>0, <1>3, <2>2
    <3> QED
      BY <1>0, <2>3, <3>1
  <2> QED
    BY <1>3, <2>2, <2>3
<1> QED
  BY <1>2, <1>3

Pushed(e) == Append(Without(e.input), e)
Surplus(s) == IF Len(s) > MaxEntries THEN Len(s) - MaxEntries ELSE 0

\* Its entry in the cache, without what is too much at the front.
Stores(e) ==
  /\ cache' \in Seq(Entries) /\ Len(cache') = Len(Pushed(e)) - Surplus(Pushed(e))
  /\ \A i \in 1 .. Len(cache') : cache'[i] = Pushed(e)[Surplus(Pushed(e)) + i]
Renews(input) == asked' = Append(Erased(asked, {i \in DOMAIN asked : asked[i] = input}), input)

\* The entry goes to the end of the cache as its input goes to the end of those asked for;
\* what is too much at the front, if anything, was asked for longest ago.
LEMMA RenewedCache ==
  ASSUME CacheHistory, NEW input \in Inputs, NEW e \in Entries, e.input = input,
         Renews(input), Stores(e)
  PROVE  /\ CacheHistory'
         /\ \A i \in 1 .. Len(cache') : cache'[i] = e \/ \E j \in 1 .. Len(cache) : cache'[i] = cache[j]
<1> DEFINE places == {i \in DOMAIN cache : cache[i].input = input}
           n == Len(cache)
           L == Len(asked)
<1>p. PICK all : all = Pushed(e)
  OBVIOUS
<1>d. PICK d : d = Surplus(all)
  OBVIOUS
<1>s. /\ cache' \in Seq(Entries) /\ Len(cache') = Len(all) - d
      /\ \A i \in 1 .. Len(cache') : cache'[i] = all[d + i]
      /\ d = (IF Len(all) > MaxEntries THEN Len(all) - MaxEntries ELSE 0)
      /\ all = Append(Without(input), e)
  BY <1>p, <1>d DEF Stores, Surplus, Pushed
<1>0. /\ cache \in Seq(Entries) /\ n \in Nat /\ L \in Nat /\ DOMAIN cache = 1 .. n
      /\ n = (IF L < MaxEntries THEN L ELSE MaxEntries) /\ MaxEntries \in Nat \ {0}
  BY ServiceAssumption DEF CacheHistory
<1>n. /\ n \in Nat /\ L \in Nat /\ n <= L /\ n <= MaxEntries /\ MaxEntries \in Nat \ {0}
      /\ (n = MaxEntries \/ (n = L /\ n < MaxEntries))
  BY <1>0
<1>a. /\ \A i, j \in 1 .. L : asked[i] = asked[j] => i = j
      /\ \A i \in 1 .. n : cache[i].input = asked[L - n + i]
  BY DEF CacheHistory
<1>1. all = Renewed(cache, places, e)
  BY <1>s DEF Renewed, Without
<1>2. /\ asked' \in Seq(Inputs)
      /\ \A i, j \in 1 .. Len(asked') : asked'[i] = asked'[j] => i = j
      /\ \A p \in 1 .. L : asked[p] = input =>
           /\ Len(asked') = L /\ asked'[L] = input
           /\ \A i \in 1 .. L - 1 : asked'[i] = IF i < p THEN asked[i] ELSE asked[i + 1]
      /\ (\A p \in 1 .. L : asked[p] # input) =>
           /\ Len(asked') = L + 1 /\ asked'[L + 1] = input
           /\ \A i \in 1 .. L : asked'[i] = asked[i]
  BY RenewedAsked DEF Renews
<1> DEFINE Goal ==
      /\ Len(cache') = IF Len(asked') < MaxEntries THEN Len(asked') ELSE MaxEntries
      /\ \A i \in 1 .. Len(cache') :
           /\ cache'[i].input = asked'[Len(asked') - Len(cache') + i]
           /\ cache'[i] = e \/ \E j \in 1 .. Len(cache) : cache'[i] = cache[j]
<1> SUFFICES Goal
  BY <1>2, <1>s DEF CacheHistory
<1>c. cache \in Seq(Entries) /\ DOMAIN cache = 1 .. n
  BY <1>0
<1>3. CASE \E k \in 1 .. n : cache[k].input = input
  <2>1. PICK k \in 1 .. n : cache[k].input = input
    BY <1>3
  <2>2. L - n + k \in 1 .. L /\ asked[L - n + k] = input
    BY <1>n, <1>a, <2>1
  <2>3. places = {k}
    <3>1. ASSUME NEW i \in 1 .. n, cache[i].input = input PROVE i = k
      <4>0. L - n + i \in 1 .. L
        BY <1>n
      <4>1. L - n + i \in 1 .. L /\ asked[L - n + i] = asked[L - n + k]
        BY <1>a, <2>2, <3>1, <4>0
      <4>2. L - n + i = L - n + k
        BY <1>a, <2>2, <4>1
      <4> QED
        BY <1>n, <4>2
    <3> QED
      BY <1>0, <2>1, <3>1
  <2> HIDE DEF places
  <2>4. /\ Len(all) = n /\ all[n] = e
        /\ \A i \in 1 .. n - 1 : all[i] = IF i < k THEN cache[i] ELSE cache[i + 1]
    <3> DEFINE t == Renewed(cache, places, e)
    <3>1. /\ t \in Seq(Entries) /\ Len(t) = n /\ t[n] = e
          /\ \A i \in 1 .. n - 1 : t[i] = IF i < k THEN cache[i] ELSE cache[i + 1]
      BY <1>c, <2>3, RenewedOld
    <3> QED
      BY <1>1, <3>1
  <2>5. d = 0 /\ Len(cache') = n /\ \A i \in 1 .. n : cache'[i] = all[i]
    BY <1>s, <1>n, <2>4
  <2>6. /\ Len(asked') = L /\ asked'[L] = input
        /\ \A i \in 1 .. L - 1 : asked'[i] = IF i < L - n + k THEN asked[i] ELSE asked[i + 1]
    BY <1>2, <2>2
  <2>7. ASSUME NEW i \in 1 .. n
        PROVE  /\ cache'[i].input = asked'[L - n + i]
               /\ cache'[i] = e \/ \E j \in 1 .. n : cache'[i] = cache[j]
    <3>1. CASE i = n
      BY <1>n, <2>4, <2>5, <2>6, <3>1
    <3>2. CASE i # n /\ i < k
      <4>1. i \in 1 .. n - 1 /\ L - n + i \in 1 .. L - 1 /\ L - n + i < L - n + k
        BY <1>n, <3>2
      <4>2. cache'[i] = cache[i]
        BY <2>4, <2>5, <3>2, <4>1
      <4>3. asked'[L - n + i] = asked[L - n + i]
        BY <2>6, <4>1
      <4> QED
        BY <1>a, <4>2, <4>3
    <3>3. CASE i # n /\ ~(i < k)
      <4>1. /\ i \in 1 .. n - 1 /\ i + 1 \in 1 .. n /\ L - n + i \in 1 .. L - 1
            /\ ~(L - n + i < L - n + k) /\ (L - n + i) + 1 = L - n + (i + 1)
        BY <1>n, <3>3
      <4>2. cache'[i] = cache[i + 1]
        BY <2>4, <2>5, <3>3, <4>1
      <4>3. asked'[L - n + i] = asked[L - n + (i + 1)]
        BY <2>6, <4>1
      <4> QED
        BY <1>a, <4>1, <4>2, <4>3
    <3> QED
      BY <3>1, <3>2, <3>3
  <2> QED
    <3>1. n = IF L < MaxEntries THEN L ELSE MaxEntries
      BY <1>0
    <3>2. Len(cache') = IF Len(asked') < MaxEntries THEN Len(asked') ELSE MaxEntries
      BY <2>5, <2>6, <3>1, Zenon
    <3>3. ASSUME NEW i \in 1 .. Len(cache')
          PROVE  /\ cache'[i].input = asked'[Len(asked') - Len(cache') + i]
                 /\ cache'[i] = e \/ \E j \in 1 .. n : cache'[i] = cache[j]
      BY <2>5, <2>6, <2>7
    <3> QED
      BY <3>2, <3>3
<1>4. CASE \A k \in 1 .. n : cache[k].input # input
  <2>1. places = {}
    BY <1>0, <1>4
  <2> HIDE DEF places
  <2>2. /\ Len(all) = n + 1 /\ all[n + 1] = e
        /\ \A i \in 1 .. n : all[i] = cache[i]
    <3> DEFINE t == Renewed(cache, places, e)
    <3>1. Len(t) = n + 1 /\ t[n + 1] = e /\ \A i \in 1 .. n : t[i] = cache[i]
      BY <1>c, <2>1, RenewedNew
    <3> QED
      BY <1>1, <3>1
  <2>3. CASE n = MaxEntries
    <3>1. d = 1 /\ Len(cache') = n /\ \A i \in 1 .. n : cache'[i] = all[1 + i]
      BY <1>s, <1>n, <2>2, <2>3
    <3>2. cache'[n] = e /\ \A i \in 1 .. n - 1 : cache'[i] = cache[i + 1]
      <4>1. 1 + n = n + 1 /\ \A i \in 1 .. n - 1 : i \in 1 .. n /\ 1 + i \in 1 .. n /\ 1 + i = i + 1
        BY <1>n
      <4>2. n \in 1 .. n
        BY <1>n, <2>3
      <4> QED
        BY <2>2, <3>1, <4>1, <4>2
    <3>3. /\ Len(asked') >= MaxEntries /\ Len(asked') \in Nat /\ asked'[Len(asked')] = input
          /\ \A i \in 1 .. n - 1 : asked'[Len(asked') - n + i] = asked[L - n + (i + 1)]
      <4>1. CASE \E p \in 1 .. L : asked[p] = input
        <5>1. PICK p \in 1 .. L : asked[p] = input
          BY <4>1
        <5>2. p <= L - n
          <6>1. ASSUME ~(p <= L - n) PROVE FALSE
            <7>1. \E q \in 1 .. n : L - n + q = p
              <8>1. p - (L - n) \in 1 .. n /\ L - n + (p - (L - n)) = p
                BY <1>n, <6>1
              <8> QED
                BY <8>1
            <7>2. PICK q \in 1 .. n : L - n + q = p
              BY <7>1
            <7>3. cache[q].input = asked[L - n + q]
              BY <1>a
            <7> QED
              BY <1>4, <5>1, <7>2, <7>3
          <6> QED
            BY <6>1
        <5>3. /\ Len(asked') = L /\ asked'[L] = input
              /\ \A i \in 1 .. L - 1 : asked'[i] = IF i < p THEN asked[i] ELSE asked[i + 1]
          BY <1>2, <5>1
        <5>4. ASSUME NEW i \in 1 .. n - 1 PROVE asked'[L - n + i] = asked[L - n + (i + 1)]
          <6>1. L - n + i \in 1 .. L - 1 /\ ~(L - n + i < p) /\ (L - n + i) + 1 = L - n + (i + 1)
            BY <1>n, <5>2
          <6> QED
            BY <5>3, <6>1
        <5> QED
          BY <1>n, <2>3, <5>3, <5>4
      <4>2. CASE \A p \in 1 .. L : asked[p] # input
        <5>1. /\ Len(asked') = L + 1 /\ asked'[L + 1] = input
              /\ \A i \in 1 .. L : asked'[i] = asked[i]
          BY <1>2, <4>2
        <5>2. ASSUME NEW i \in 1 .. n - 1 PROVE asked'[(L + 1) - n + i] = asked[L - n + (i + 1)]
          <6>1. (L + 1) - n + i = L - n + (i + 1) /\ L - n + (i + 1) \in 1 .. L
            BY <1>n
          <6> QED
            BY <5>1, <6>1
        <5>3. L + 1 >= MaxEntries /\ L + 1 \in Nat
          BY <1>n, <2>3
        <5> QED
          BY <5>1, <5>2, <5>3
      <4> QED
        BY <4>1, <4>2
    <3>4. ASSUME NEW i \in 1 .. n
          PROVE  /\ cache'[i].input = asked'[Len(asked') - n + i]
                 /\ cache'[i] = e \/ \E j \in 1 .. n : cache'[i] = cache[j]
      <4>1. CASE i = n
        <5>1. Len(asked') - n + i = Len(asked')
          BY <1>n, <3>3, <4>1
        <5> QED
          BY <3>2, <3>3, <4>1, <5>1
      <4>2. CASE i # n
        <5>1. i \in 1 .. n - 1 /\ i + 1 \in 1 .. n
          BY <1>n, <4>2
        <5> QED
          BY <1>a, <3>2, <3>3, <5>1
      <4> QED
        BY <4>1, <4>2
    <3>5. n = IF Len(asked') < MaxEntries THEN Len(asked') ELSE MaxEntries
      BY <1>n, <2>3, <3>3
    <3>6. Len(cache') = IF Len(asked') < MaxEntries THEN Len(asked') ELSE MaxEntries
      BY <3>1, <3>5, Zenon
    <3>7. ASSUME NEW i \in 1 .. Len(cache')
          PROVE  /\ cache'[i].input = asked'[Len(asked') - Len(cache') + i]
                 /\ cache'[i] = e \/ \E j \in 1 .. n : cache'[i] = cache[j]
      <4>1. i \in 1 .. n
        BY <3>1, <3>7, Zenon
      <4>2. /\ cache'[i].input = asked'[Len(asked') - n + i]
            /\ cache'[i] = e \/ \E j \in 1 .. n : cache'[i] = cache[j]
        BY <3>4, <4>1
      <4> QED
        BY <3>1, <4>2, Zenon
    <3> QED
      BY <3>6, <3>7
  <2>4. CASE n = L /\ n < MaxEntries
    <3>1. d = 0 /\ Len(cache') = n + 1 /\ \A i \in 1 .. n + 1 : cache'[i] = all[i]
      <4>1. ~ (n + 1 > MaxEntries) /\ n + 1 \in Nat
        BY <1>n, <2>4
      <4>2. d = 0
        BY <1>s, <2>2, <4>1
      <4>3. Len(cache') = n + 1
        BY <1>s, <2>2, <4>1, <4>2
      <4>4. \A i \in 1 .. n + 1 : 0 + i = i
        OBVIOUS
      <4> QED
        BY <1>s, <4>2, <4>3, <4>4
    <3>2. \A p \in 1 .. L : asked[p] # input
      <4>1. ASSUME NEW p \in 1 .. L PROVE p \in 1 .. n /\ L - n + p = p
        BY <1>n, <2>4
      <4> QED
        BY <1>a, <1>4, <4>1
    <3>3. /\ Len(asked') = L + 1 /\ asked'[L + 1] = input
          /\ \A i \in 1 .. L : asked'[i] = asked[i]
      BY <1>2, <3>2
    <3>4. ASSUME NEW i \in 1 .. n + 1
          PROVE  /\ cache'[i].input = asked'[(L + 1) - (n + 1) + i]
                 /\ cache'[i] = e \/ \E j \in 1 .. n : cache'[i] = cache[j]
      <4>1. (L + 1) - (n + 1) + i = i /\ (i = n + 1 \/ (i \in 1 .. n /\ i \in 1 .. L /\ L - n + i = i))
        BY <1>n, <2>4
      <4>2. CASE i = n + 1
        BY <2>2, <2>4, <3>1, <3>3, <4>1, <4>2
      <4>3. CASE i \in 1 .. n /\ i \in 1 .. L /\ L - n + i = i
        <5>1. i \in 1 .. n + 1 /\ cache'[i] = cache[i]
          BY <2>2, <3>1, <4>3
        <5>2. cache[i].input = asked[i] /\ asked'[i] = asked[i]
          BY <1>a, <3>3, <4>3
        <5> QED
          BY <4>1, <4>3, <5>1, <5>2
      <4> QED
        BY <4>1, <4>2, <4>3
    <3>5. n + 1 = IF L + 1 < MaxEntries THEN L + 1 ELSE MaxEntries
      BY <1>n, <2>4
    <3>6. Len(cache') = IF Len(asked') < MaxEntries THEN Len(asked') ELSE MaxEntries
      BY <3>1, <3>3, <3>5, Zenon
    <3>7. ASSUME NEW i \in 1 .. Len(cache')
          PROVE  /\ cache'[i].input = asked'[Len(asked') - Len(cache') + i]
                 /\ cache'[i] = e \/ \E j \in 1 .. n : cache'[i] = cache[j]
      BY <3>1, <3>3, <3>4
    <3> QED
      BY <3>6, <3>7
  <2> QED
    BY <1>n, <2>3, <2>4
<1> QED
  BY <1>3, <1>4

\* The inputs the cache has room for, place by place those of its entries.
LEMMA WindowOfAsked ==
  ASSUME CacheHistory
  PROVE  /\ Window(asked) \in Seq(Inputs) /\ Len(Window(asked)) = Len(cache)
         /\ \A i \in 1 .. Len(cache) : Window(asked)[i] = cache[i].input
         /\ \A i, j \in 1 .. Len(cache) : Window(asked)[i] = Window(asked)[j] => i = j
<1> DEFINE d == IF Len(asked) > MaxEntries THEN Len(asked) - MaxEntries ELSE 0
           w == SubSeq(asked, 1 + d, Len(asked))
<1>1. /\ asked \in Seq(Inputs) /\ Len(asked) \in Nat /\ Len(cache) \in Nat
      /\ Len(cache) = IF Len(asked) < MaxEntries THEN Len(asked) ELSE MaxEntries
      /\ MaxEntries \in Nat
  BY ServiceAssumption DEF CacheHistory
<1>2. d \in Nat /\ d <= Len(asked) /\ Len(asked) - d = Len(cache) /\ d = Len(asked) - Len(cache)
  <2>1. PICK L \in Nat, n \in Nat, m \in Nat : L = Len(asked) /\ n = Len(cache) /\ m = MaxEntries
    BY <1>1
  <2>2. n = (IF L < m THEN L ELSE m) /\ d = (IF L > m THEN L - m ELSE 0)
    BY <1>1, <2>1
  <2> HIDE DEF d
  <2>3. d \in Nat /\ d <= L /\ L - d = n /\ d = L - n
    BY <2>2
  <2> QED
    BY <2>1, <2>3
<1> HIDE DEF d
<1>3. /\ w \in Seq(Inputs) /\ Len(w) = Len(asked) - d
      /\ \A i \in 1 .. Len(w) : w[i] = asked[d + i]
  BY <1>1, <1>2, LastOnes
<1>4. Window(asked) = w
  BY DEF Window, d
<1> HIDE DEF w
<1>5. \A i \in 1 .. Len(cache) : w[i] = asked[d + i] /\ cache[i].input = asked[d + i]
  BY <1>2, <1>3 DEF CacheHistory
<1>6. ASSUME NEW i \in 1 .. Len(cache), NEW j \in 1 .. Len(cache), w[i] = w[j]
      PROVE  i = j
  <2>1. d + i \in 1 .. Len(asked) /\ d + j \in 1 .. Len(asked)
    BY <1>1, <1>2
  <2>2. d + i = d + j
    BY <1>5, <1>6, <2>1 DEF CacheHistory
  <2> QED
    BY <1>2, <2>2
<1> QED
  BY <1>2, <1>3, <1>4, <1>5, <1>6

\* A fetch that raises: the entry that had expired is gone, with the input it was for.
LEMMA RaiseKeeps ==
  ASSUME ServiceHistory, NEW input \in Inputs, FetchRaises(input)
  PROVE  ServiceHistory' /\ UNCHANGED reply
<1> DEFINE w == Window(asked)
           n == Len(cache)
           places == {i \in DOMAIN cache : cache[i].input = input}
<1>0. CacheHistory /\ cache \in Seq(Entries) /\ n \in Nat /\ DOMAIN cache = 1 .. n
  BY DEF ServiceHistory, CacheHistory
<1>1. /\ w \in Seq(Inputs) /\ Len(w) = n /\ DOMAIN w = 1 .. n
      /\ \A i \in 1 .. n : w[i] = cache[i].input
      /\ \A i, j \in 1 .. n : w[i] = w[j] => i = j
  BY <1>0, WindowOfAsked
<1>2. places = {i \in DOMAIN w : w[i] = input} /\ places \subseteq 1 .. n
  BY <1>0, <1>1
<1>3. /\ cache' = Erased(cache, places) /\ UNCHANGED <<catalog, index, now, reply>>
      /\ asked' = Erased(w, {i \in DOMAIN w : w[i] = input})
  BY DEF FetchRaises, Unanswered, Without
<1>m. MaxEntries \in Nat /\ n <= MaxEntries /\ \A i \in 1 .. n : Fresh(cache[i])
  BY <1>0, ServiceAssumption DEF ServiceHistory, CacheHistory
<1>4. asked' = Erased(w, places)
  BY <1>2, <1>3
<1> HIDE DEF w, places
<1> DEFINE m == Len(cache')
           old(i, p) == IF i < p THEN i ELSE i + 1
<1>5. /\ cache' \in Seq(Entries) /\ asked' \in Seq(Inputs) /\ Len(asked') = m /\ m <= n /\ m \in Nat
      /\ \E p \in 0 .. n + 1 : \A i \in 1 .. m :
           /\ old(i, p) \in 1 .. n /\ cache'[i] = cache[old(i, p)] /\ asked'[i] = w[old(i, p)]
  <2>1. CASE places = {}
    <3>1. cache' = cache /\ asked' = w
      BY <1>3, <1>4, <2>1 DEF Erased
    <3>2. n + 1 \in 0 .. n + 1 /\ \A i \in 1 .. n : old(i, n + 1) = i
      BY <1>0
    <3> QED
      BY <1>0, <1>1, <3>1, <3>2
  <2>2. CASE places # {}
    <3>0. PICK p : p = CHOOSE i \in places : TRUE
      OBVIOUS
    <3>3. p \in 1 .. n
      BY <1>2, <2>2, <3>0
    <3>a. PICK kept, left : kept = RemoveAt(cache, p) /\ left = RemoveAt(w, p)
      OBVIOUS
    <3>b. /\ kept \in Seq(Entries) /\ Len(kept) = n - 1
          /\ \A i \in 1 .. n - 1 : kept[i] = IF i < p THEN cache[i] ELSE cache[i + 1]
      BY <1>0, <3>3, <3>a, Shortened
    <3>c. /\ left \in Seq(Inputs) /\ Len(left) = n - 1
          /\ \A i \in 1 .. n - 1 : left[i] = IF i < p THEN w[i] ELSE w[i + 1]
      <4>1. w \in Seq(Inputs) /\ p \in 1 .. Len(w) /\ Len(w) = n
        BY <1>1, <3>3
      <4>2. /\ RemoveAt(w, p) \in Seq(Inputs) /\ Len(RemoveAt(w, p)) = Len(w) - 1
            /\ \A i \in 1 .. Len(w) - 1 : RemoveAt(w, p)[i] = IF i < p THEN w[i] ELSE w[i + 1]
        BY <4>1, Shortened
      <4> QED
        BY <3>a, <4>1, <4>2
    <3>1. /\ cache' \in Seq(Entries) /\ m = n - 1
          /\ \A i \in 1 .. n - 1 : cache'[i] = IF i < p THEN cache[i] ELSE cache[i + 1]
      BY <1>3, <2>2, <3>0, <3>a, <3>b DEF Erased
    <3>2. /\ asked' \in Seq(Inputs) /\ Len(asked') = n - 1
          /\ \A i \in 1 .. n - 1 : asked'[i] = IF i < p THEN w[i] ELSE w[i + 1]
      BY <1>4, <2>2, <3>0, <3>a, <3>c DEF Erased
    <3>4. \A i \in 1 .. n - 1 : old(i, p) \in 1 .. n
      BY <1>0, <3>3
    <3>5. n >= 1 /\ m \in Nat /\ m <= n /\ p \in 0 .. n + 1
      BY <1>0, <3>1, <3>3
    <3> QED
      BY <3>1, <3>2, <3>3, <3>4, <3>5
  <2> QED
    BY <2>1, <2>2
<1>6. PICK p \in 0 .. n + 1 : \A i \in 1 .. m :
        /\ old(i, p) \in 1 .. n /\ cache'[i] = cache[old(i, p)] /\ asked'[i] = w[old(i, p)]
  BY <1>5
<1> HIDE DEF m
<1>7. CacheHistory'
  <2>1. ASSUME NEW i \in 1 .. m, NEW j \in 1 .. m, asked'[i] = asked'[j] PROVE i = j
    <3>1. old(i, p) = old(j, p)
      BY <1>1, <1>6, <2>1
    <3> QED
      BY <1>0, <1>5, <3>1
  <2>2. \A i \in 1 .. m : cache'[i].input = asked'[i] /\ Len(asked') - m + i = i
    <3>1. \A i \in 1 .. m : cache'[i].input = asked'[i]
      BY <1>1, <1>6
    <3> QED
      BY <1>5, <3>1
  <2>3. m = IF Len(asked') < MaxEntries THEN Len(asked') ELSE MaxEntries
    BY <1>0, <1>5, <1>m
  <2>4. Len(cache') = m
    BY DEF m
  <2>5. \A i, j \in 1 .. Len(asked') : asked'[i] = asked'[j] => i = j
    BY <1>5, <2>1
  <2>6. \A i \in 1 .. Len(cache') : cache'[i].input = asked'[Len(asked') - Len(cache') + i]
    BY <2>2, <2>4
  <2> QED
    BY <1>5, <2>3, <2>4, <2>5, <2>6 DEF CacheHistory
<1>8. \A i \in 1 .. Len(cache') : Fresh(cache'[i])
  BY <1>6, <1>m DEF m
<1>9. \A i \in 1 .. Len(cache') : Fresh(cache[i])'
  BY <1>3, <1>8 DEF Fresh
<1> QED
  BY <1>3, <1>7, <1>9 DEF ServiceHistory

\* What a request does to the cache: its entry is fresh, new or read.
LEMMA RequestKeeps ==
  ASSUME ServiceHistory, NEW input \in Inputs, HitCache(input) \/ MissCache(input)
  PROVE  /\ ServiceHistory'
         /\ reply'.input = input /\ now - reply'.at <= TTL[input.kind]
<1>1. /\ UNCHANGED <<catalog, index, now>>
      /\ asked' = Append(Erased(asked, {i \in DOMAIN asked : asked[i] = input}), input)
  BY DEF HitCache, MissCache, Reply
<1>0. cache \in Seq(Entries) /\ CacheHistory /\ now \in Nat /\ MaxEntries \in Nat \ {0}
  <2>1. now \in Nat /\ MaxEntries \in Nat \ {0}
    BY ServiceAssumption DEF ServiceHistory, Times
  <2> QED
    BY <2>1 DEF ServiceHistory, CacheHistory
<1>t. TTL[input.kind] \in Nat
  BY ServiceAssumption DEF Inputs, Kinds
<1>2. ASSUME NEW e \in Entries, e.input = input, Fresh(e), Stores(e)
      PROVE  ServiceHistory'
  <2>1. /\ CacheHistory'
        /\ \A i \in 1 .. Len(cache') : cache'[i] = e \/ \E j \in 1 .. Len(cache) : cache'[i] = cache[j]
    BY <1>0, <1>1, <1>2, RenewedCache DEF Renews
  <2>2. \A i \in 1 .. Len(cache') : Fresh(cache'[i])
    BY <1>2, <2>1 DEF ServiceHistory
  <2>3. now' = now
    BY <1>1
  <2>4. \A i \in 1 .. Len(cache') : Fresh(cache[i])'
    BY <2>2, <2>3 DEF Fresh
  <2> QED
    BY <1>1, <2>1, <2>4 DEF ServiceHistory
<1>3. CASE HitCache(input)
  <2>1. PICK e \in Live(input) : cache' = Touched(e) /\ Reply(input, TRUE, e.answer)
    BY <1>3 DEF HitCache
  <2>2. PICK k \in 1 .. Len(cache) : e = cache[k]
    BY <1>0, <2>1 DEF Live, ToSet
  <2>3. e \in Entries /\ e.input = input /\ now <= e.expires /\ Fresh(e)
    BY <1>0, <2>1, <2>2 DEF Live, ServiceHistory
  <2>4. PICK all : all = Append(Without(input), e)
    OBVIOUS
  <2>5. cache' = all
    BY <2>1, <2>3, <2>4 DEF Touched
  <2>6. all \in Seq(Entries) /\ Len(all) = Len(cache) /\ Len(cache) <= MaxEntries
    <3> DEFINE places == {i \in DOMAIN cache : cache[i].input = input}
    <3>1. \A i \in 1 .. Len(cache) : cache[i].input = input => i = k
      <4>1. ASSUME NEW i \in 1 .. Len(cache), cache[i].input = input PROVE i = k
        <5>1. /\ Len(asked) \in Nat /\ Len(cache) \in Nat /\ Len(cache) <= Len(asked)
          BY <1>0 DEF CacheHistory
        <5>2. Len(asked) - Len(cache) + i \in 1 .. Len(asked) /\ Len(asked) - Len(cache) + k \in 1 .. Len(asked)
          BY <5>1
        <5>3. asked[Len(asked) - Len(cache) + i] = asked[Len(asked) - Len(cache) + k]
          BY <1>0, <2>2, <2>3, <4>1 DEF CacheHistory
        <5>4. Len(asked) - Len(cache) + i = Len(asked) - Len(cache) + k
          BY <1>0, <5>2, <5>3 DEF CacheHistory
        <5> QED
          BY <5>1, <5>4
      <4> QED
        BY <4>1
    <3>2. places = {k}
      <4>1. DOMAIN cache = 1 .. Len(cache)
        BY <1>0
      <4> QED
        BY <2>2, <2>3, <3>1, <4>1
    <3>3. all = Renewed(cache, places, e)
      BY <2>4 DEF Renewed, Without
    <3> HIDE DEF places
    <3> DEFINE t == Renewed(cache, places, e)
    <3>4. /\ t \in Seq(Entries) /\ Len(t) = Len(cache) /\ t[Len(cache)] = e
          /\ \A i \in 1 .. Len(cache) - 1 : t[i] = IF i < k THEN cache[i] ELSE cache[i + 1]
      BY <1>0, <2>3, <3>2, RenewedOld
    <3>5. Len(cache) <= MaxEntries
      BY <1>0 DEF CacheHistory
    <3> QED
      BY <3>3, <3>4, <3>5
  <2>7. ServiceHistory'
    <3> DEFINE d == IF Len(all) > MaxEntries THEN Len(all) - MaxEntries ELSE 0
    <3>1. d = 0
      <4>1. Len(cache) \in Nat
        BY <1>0
      <4> QED
        BY <1>0, <2>6, <4>1
    <3>2. Len(cache') = Len(all) - d
      <4>1. Len(all) \in Nat
        BY <2>6
      <4> QED
        BY <2>5, <3>1, <4>1
    <3>3. \A i \in 1 .. Len(cache') : cache'[i] = all[d + i]
      <4>1. \A i \in 1 .. Len(cache') : d + i = i
        BY <3>1
      <4> QED
        BY <2>5, <4>1
    <3> HIDE DEF d
    <3> QED
      BY <1>2, <2>3, <2>4, <2>5, <2>6, <3>2, <3>3 DEF d, Stores, Surplus, Pushed
  <2>8. reply'.input = input /\ reply'.at = e.answer.at
    BY <2>1 DEF Reply
  <2>9. e.answer.at \in Nat
    BY <2>3 DEF Entries, Answers, Times
  <2>10. now - e.answer.at <= TTL[input.kind]
    <3>1. e.expires = e.answer.at + TTL[input.kind] /\ e.answer.at <= now
      BY <2>3 DEF Fresh
    <3> QED
      BY <1>0, <1>t, <2>3, <2>9, <3>1
  <2> QED
    BY <2>7, <2>8, <2>10
<1>4. CASE MissCache(input)
  <2>0. PICK answer \in Fetch(input) :
          /\ cache' = Remember([input |-> input, expires |-> now + TTL[input.kind], answer |-> answer])
          /\ Reply(input, FALSE, answer)
    BY <1>4 DEF MissCache
  <2> DEFINE e == [input |-> input, expires |-> now + TTL[input.kind], answer |-> answer]
  <2>1. cache' = Remember(e) /\ Reply(input, FALSE, answer)
    BY <2>0
  <2>2. answer \in Answers /\ answer.at = now
    <3>1. \A a \in SUBSET Assets, v \in {"postgres", "qdrant", "fallback"} :
            Answer(a, v) \in Answers /\ Answer(a, v).at = now
      BY DEF Answer, Answers, ServiceHistory
    <3>2. \A hits : VectorSearch(hits) \in Answers /\ VectorSearch(hits).at = now
      BY <3>1 DEF VectorSearch, Hydrated, ServiceHistory
    <3> QED
      BY <2>0, <3>1, <3>2 DEF Fetch, ServiceHistory
  <2>3. e \in Entries /\ e.input = input /\ Fresh(e)
    BY <1>0, <1>t, <2>2 DEF Entries, Fresh
  <2>4. reply'.input = input /\ reply'.at = now
    BY <2>1, <2>2 DEF Reply
  <2> HIDE DEF e
  <2>5. PICK f \in Entries : f = e
    BY <2>3
  <2>6. PICK all : all = Append(Without(input), f)
    OBVIOUS
  <2>7. all \in Seq(Entries)
    <3>1. Without(input) \in Seq(Entries)
      <4> DEFINE places == {i \in DOMAIN cache : cache[i].input = input}
      <4>1. CASE places = {}
        BY <1>0, <4>1 DEF Without, Erased
      <4>2. CASE places # {}
        <5>1. (CHOOSE i \in places : TRUE) \in 1 .. Len(cache)
          BY <1>0, <4>2
        <5>2. Without(input) = RemoveAt(cache, CHOOSE i \in places : TRUE)
          BY <4>2 DEF Without, Erased
        <5> HIDE DEF places
        <5> QED
          BY <1>0, <5>1, <5>2, Shortened
      <4> QED
        BY <4>1, <4>2
    <3> QED
      BY <2>6, <3>1
  <2> DEFINE d == IF Len(all) > MaxEntries THEN Len(all) - MaxEntries ELSE 0
  <2>8. cache' = SubSeq(all, 1 + d, Len(all))
    BY <2>1, <2>3, <2>5, <2>6 DEF Remember, Window
  <2>9. d \in Nat /\ Len(all) \in Nat /\ d <= Len(all) /\ all \in [1 .. Len(all) -> Entries]
    BY <1>0, <2>7
  <2> HIDE DEF d
  <2>10. /\ cache' \in Seq(Entries) /\ Len(cache') = Len(all) - d
         /\ \A i \in 1 .. Len(cache') : cache'[i] = all[d + i]
    BY <2>7, <2>8, <2>9, LastOnes
  <2>11. ServiceHistory'
    BY <1>2, <2>3, <2>5, <2>6, <2>10 DEF d, Stores, Surplus, Pushed
  <2>12. now - now <= TTL[input.kind]
    BY <1>0, <1>t
  <2> QED
    BY <2>4, <2>11, <2>12
<1> QED
  BY <1>3, <1>4

\* Time and the two stores go on without the cache.
LEMMA RestKeeps ==
  ASSUME ServiceHistory,
         \/ \E a \in Assets : Ingest(a) \/ Drop(a) \/ Index(a)
         \/ Outage \/ Tick \/ UNCHANGED serviceVars
  PROVE  ServiceHistory' /\ UNCHANGED reply
<1>1. /\ UNCHANGED <<cache, asked, reply>> /\ now' \in Times /\ now' >= now
      /\ catalog' \subseteq Assets /\ index' \subseteq Assets
  BY ServiceAssumption DEF Ingest, Drop, Index, Outage, Tick, serviceVars, ServiceHistory, Times
<1>2. CacheHistory'
  BY <1>1 DEF ServiceHistory, CacheHistory
<1>3. \A i \in 1 .. Len(cache) : cache[i] \in Entries /\ Fresh(cache[i])
  BY DEF ServiceHistory, CacheHistory
<1>4. \A e \in Entries : Fresh(e) => Fresh(e)'
  BY <1>1 DEF Fresh, Entries, Answers, ServiceHistory, Times
<1> QED
  BY <1>1, <1>2, <1>3, <1>4 DEF ServiceHistory

LEMMA InitHistory == ServiceInit => ServiceHistory
BY ServiceAssumption DEF ServiceInit, ServiceHistory, CacheHistory, Times

LEMMA NextHistory == ServiceHistory /\ [ServiceNext]_serviceVars => ServiceHistory'
BY RequestKeeps, RaiseKeeps, RestKeeps DEF ServiceNext

\* The cache is a least recently used cache, whatever is asked, whatever expires, whatever
\* fetch raises, for any number of entries (LRUCache.get, LRUCache.set).
THEOREM CacheKeepsOrder == ServiceSpec => []CacheIsLRU
<1>1. ServiceHistory => CacheIsLRU
  <2> SUFFICES ASSUME ServiceHistory PROVE CacheIsLRU
    OBVIOUS
  <2> DEFINE w == Window(asked)
  <2>1. /\ w \in Seq(Inputs) /\ Len(w) = Len(cache)
        /\ \A i \in 1 .. Len(cache) : w[i] = cache[i].input
    BY WindowOfAsked DEF ServiceHistory
  <2> HIDE DEF w
  <2>2. [i \in 1 .. Len(cache) |-> cache[i].input] = w
    BY <2>1
  <2> QED
    BY <2>2 DEF CacheIsLRU, w
<1> QED
  BY <1>1, InitHistory, NextHistory, PTL DEF ServiceSpec

\* No answer is older than the time to live of its kind, however often it is read from the
\* cache in between (RetrievalPipeline.run, LRUCache.get).
THEOREM AnswersStayFresh == ServiceSpec => AnswersAreRecent
<1>1. ServiceHistory /\ [ServiceNext]_serviceVars =>
        [\A input \in Inputs : reply' # reply /\ reply'.input = input =>
           now - reply'.at <= TTL[input.kind]]_serviceVars
  BY RequestKeeps, RaiseKeeps, RestKeeps DEF ServiceNext
<1> QED
  BY <1>1, InitHistory, NextHistory, PTL DEF ServiceSpec, AnswersAreRecent

-----------------------------------------------------------------------------
(* Lineage walks. *)

\* Induction on the numbers up to n, as a fact about sets: the least number that is not in
\* good is neither 0 nor the successor of one that is.
LEMMA Climbing ==
  ASSUME NEW n \in Nat, NEW good,
         0 \in good, \A m \in 1 .. n : m - 1 \in good => m \in good
  PROVE  \A m \in 0 .. n : m \in good
<1> DEFINE bad == {m \in 0 .. n : m \notin good}
<1> SUFFICES ASSUME bad # {} PROVE FALSE
  OBVIOUS
<1>1. bad \in SUBSET Nat
  OBVIOUS
<1>2. PICK m \in bad : \A j \in bad : ~ (<<j, m>> \in OpToRel(<, Nat))
  <2> HIDE DEF bad
  <2> QED
    BY <1>1, NatLessThanWellFounded, WFMin
<1>3. m \in 0 .. n /\ m \notin good
  OBVIOUS
<1>4. m # 0 /\ m \in 1 .. n /\ m - 1 \in 0 .. n
  BY <1>3
<1>5. m - 1 \notin bad
  <2>1. m - 1 \in Nat /\ m \in Nat /\ m - 1 < m
    BY <1>4
  <2>2. <<m - 1, m>> \in OpToRel(<, Nat)
    BY <2>1 DEF OpToRel
  <2> HIDE DEF bad
  <2> QED
    BY <1>2, <2>2
<1> QED
  BY <1>3, <1>4, <1>5

Onward(edges, nodes) == {e[2] : e \in {x \in edges : x[1] \in nodes}}
Reaching(h, edges, root, n) ==
  h = [i \in 0 .. n |-> IF i = 0 THEN {root} ELSE h[i - 1] \union Onward(edges, h[i - 1])]

LEMMA ReachExists ==
  ASSUME NEW edges, NEW root, NEW n \in Nat
  PROVE  \E h : Reaching(h, edges, root, n)
<1> DEFINE good == {m \in 0 .. n : \E h : Reaching(h, edges, root, m)}
<1>1. 0 \in good
  <2>1. Reaching([i \in 0 .. 0 |-> {root}], edges, root, 0)
    BY DEF Reaching
  <2> QED
    BY <2>1
<1>2. ASSUME NEW m \in 1 .. n, m - 1 \in good PROVE m \in good
  <2>1. PICK h : Reaching(h, edges, root, m - 1)
    BY <1>2
  <2> DEFINE g == [i \in 0 .. m |-> IF i = m THEN h[m - 1] \union Onward(edges, h[m - 1]) ELSE h[i]]
  <2>2. ASSUME NEW i \in 0 .. m
        PROVE  g[i] = IF i = 0 THEN {root} ELSE g[i - 1] \union Onward(edges, g[i - 1])
    <3>1. CASE i = m
      <4>1. m - 1 \in 0 .. m /\ m - 1 # m /\ i # 0 /\ i - 1 = m - 1
        BY <3>1
      <4> QED
        BY <3>1, <4>1
    <3>2. CASE i # m
      <4>1. i \in 0 .. m - 1
        BY <3>2
      <4>2. h[i] = IF i = 0 THEN {root} ELSE h[i - 1] \union Onward(edges, h[i - 1])
        BY <2>1, <4>1 DEF Reaching
      <4>3. i # 0 => i - 1 \in 0 .. m /\ i - 1 # m
        BY <4>1
      <4> QED
        BY <3>2, <4>2, <4>3
    <3> QED
      BY <3>1, <3>2
  <2>3. g = [i \in 0 .. m |-> g[i]]
    OBVIOUS
  <2> HIDE DEF g
  <2>4. Reaching(g, edges, root, m)
    BY <2>2, <2>3 DEF Reaching
  <2> QED
    BY <2>4
<1> HIDE DEF good
<1>3. n \in good
  BY <1>1, <1>2, Climbing
<1> QED
  BY <1>3 DEF good

LEMMA ReachAgrees ==
  ASSUME NEW edges, NEW root, NEW m \in Nat, NEW n \in Nat, m <= n, NEW g, NEW h,
         Reaching(g, edges, root, m), Reaching(h, edges, root, n)
  PROVE  \A i \in 0 .. m : g[i] = h[i]
<1> DEFINE good == {i \in 0 .. m : g[i] = h[i]}
<1>1. 0 \in good
  BY DEF Reaching
<1>2. ASSUME NEW i \in 1 .. m, i - 1 \in good PROVE i \in good
  <2>1. i \in 0 .. m /\ i \in 0 .. n /\ i # 0 /\ g[i - 1] = h[i - 1]
    BY <1>2
  <2>2. g[i] = g[i - 1] \union Onward(edges, g[i - 1])
    BY <2>1 DEF Reaching
  <2>3. h[i] = h[i - 1] \union Onward(edges, h[i - 1])
    BY <2>1 DEF Reaching
  <2> QED
    BY <2>1, <2>2, <2>3
<1> HIDE DEF good
<1>3. \A i \in 0 .. m : i \in good
  BY <1>1, <1>2, Climbing
<1> QED
  BY <1>3 DEF good

\* Within is what it is meant to be.
LEMMA WithinGrows ==
  ASSUME NEW edges, NEW root
  PROVE  /\ Within(edges, root, 0) = {root}
         /\ \A n \in Nat : Within(edges, root, n + 1) =
                             Within(edges, root, n) \union Onward(edges, Within(edges, root, n))
<1> DEFINE F(n) == CHOOSE h : Reaching(h, edges, root, n)
<1>1. \A n \in Nat : Reaching(F(n), edges, root, n)
  BY ReachExists
<1>2. \A n : Within(edges, root, n) = F(n)[n]
  BY DEF Within, Reaching, Onward
<1> HIDE DEF F
<1>3. Within(edges, root, 0) = {root}
  <2>1. Reaching(F(0), edges, root, 0)
    BY <1>1
  <2> QED
    BY <1>2, <2>1 DEF Reaching
<1>4. ASSUME NEW n \in Nat
      PROVE  Within(edges, root, n + 1) = Within(edges, root, n) \union Onward(edges, Within(edges, root, n))
  <2>1. n + 1 \in Nat /\ n <= n + 1 /\ n \in 0 .. n /\ n + 1 \in 0 .. n + 1 /\ n + 1 # 0 /\ (n + 1) - 1 = n
    OBVIOUS
  <2>2. F(n)[n] = F(n + 1)[n]
    BY <1>1, <2>1, ReachAgrees
  <2>3. F(n + 1)[n + 1] = F(n + 1)[n] \union Onward(edges, F(n + 1)[n])
    <3>1. Reaching(F(n + 1), edges, root, n + 1)
      BY <1>1, <2>1
    <3> QED
      BY <2>1, <3>1 DEF Reaching
  <2> QED
    BY <1>2, <2>1, <2>2, <2>3
<1> QED
  BY <1>3, <1>4

LEMMA WithinMonotone ==
  ASSUME NEW edges, NEW root, NEW n \in Nat
  PROVE  \A m \in 0 .. n : Within(edges, root, m) \subseteq Within(edges, root, n) /\ root \in Within(edges, root, m)
<1> DEFINE W(m) == Within(edges, root, m)
           good == {k \in 0 .. n : W(n - k) \subseteq W(n)}
           rooted == {k \in 0 .. n : root \in W(k)}
<1>1. W(0) = {root} /\ \A m \in Nat : W(m) \subseteq W(m + 1)
  BY WithinGrows
<1> HIDE DEF W
<1>2. 0 \in good /\ 0 \in rooted
  BY <1>1
<1>3. ASSUME NEW k \in 1 .. n, k - 1 \in good PROVE k \in good
  <2>1. n - k \in Nat /\ (n - k) + 1 = n - (k - 1)
    OBVIOUS
  <2> QED
    BY <1>1, <1>3, <2>1
<1>4. ASSUME NEW k \in 1 .. n, k - 1 \in rooted PROVE k \in rooted
  <2>1. k - 1 \in Nat /\ (k - 1) + 1 = k
    OBVIOUS
  <2> QED
    BY <1>1, <1>4, <2>1
<1> HIDE DEF good, rooted
<1>5. \A k \in 0 .. n : k \in good /\ k \in rooted
  BY <1>2, <1>3, <1>4, Climbing
<1>6. ASSUME NEW m \in 0 .. n PROVE W(m) \subseteq W(n) /\ root \in W(m)
  <2>1. n - m \in 0 .. n /\ n - (n - m) = m
    OBVIOUS
  <2> QED
    BY <1>5, <2>1 DEF good, rooted
<1> QED
  BY <1>6 DEF W

\* Against the edges a walk goes on from their ends to their starts.
Back(edges, nodes) == {e[1] : e \in {x \in edges : x[2] \in nodes}}

LEMMA BackwardsIsReversed ==
  ASSUME NEW edges, NEW nodes
  PROVE  Onward(Reversed(edges), nodes) = Back(edges, nodes)
<1>1. ASSUME NEW x \in Onward(Reversed(edges), nodes) PROVE x \in Back(edges, nodes)
  <2>1. PICK r \in Reversed(edges) : r[1] \in nodes /\ x = r[2]
    BY <1>1 DEF Onward
  <2>2. PICK e \in edges : r = <<e[2], e[1]>>
    BY <2>1 DEF Reversed
  <2> QED
    BY <2>1, <2>2 DEF Back
<1>2. ASSUME NEW x \in Back(edges, nodes) PROVE x \in Onward(Reversed(edges), nodes)
  <2>1. PICK e \in edges : e[2] \in nodes /\ x = e[1]
    BY <1>2 DEF Back
  <2>2. <<e[2], e[1]>> \in Reversed(edges) /\ <<e[2], e[1]>>[1] \in nodes /\ <<e[2], e[1]>>[2] = x
    BY <2>1 DEF Reversed
  <2> QED
    BY <2>2 DEF Onward
<1> QED
  BY <1>1, <1>2

\* A finite set is listed once.
LEMMA SetIsListed ==
  ASSUME NEW S, IsFiniteSet(S)
  PROVE  SetToSeq(S) \in Seq(S) /\ IsInjective(SetToSeq(S)) /\ ToSet(SetToSeq(S)) = S
<1> DEFINE n == Cardinality(S)
           f == SetToSeq(S)
<1>1. n \in Nat /\ IsFiniteSet(1 .. n) /\ Cardinality(1 .. n) = n
  BY FS_CardinalityType, FS_Interval
<1>2. PICK g : g \in Bijection(1 .. n, S)
  <2>1. Cardinality(1 .. n) = Cardinality(S)
    BY <1>1
  <2> HIDE DEF n
  <2> QED
    BY <1>1, <2>1, FS_SameCardinalityBij DEF ExistsBijection
<1>3. g \in [1 .. n -> S] /\ IsInjective(g)
  BY <1>2 DEF Bijection, Injection, IsInjective
<1>4. f \in [1 .. n -> S] /\ IsInjective(f)
  BY <1>3 DEF SetToSeq
<1> HIDE DEF f
<1>5. f \in Injection(1 .. n, S)
  BY <1>4 DEF Injection, IsInjective
<1>6. f \in Surjection(1 .. n, S)
  <2> HIDE DEF n
  <2> QED
    BY <1>1, <1>5, FS_Injection DEF n
<1>7. ToSet(f) = S
  BY <1>4, <1>6 DEF Surjection, ToSet
<1>8. f \in Seq(S)
  BY <1>1, <1>4
<1> QED
  BY <1>4, <1>7, <1>8 DEF f

\* Two lists without repetition, of different things, one after the other.
LEMMA ListsFollow ==
  ASSUME NEW S, NEW s \in Seq(S), NEW t \in Seq(S), IsInjective(s), IsInjective(t),
         ToSet(s) \intersect ToSet(t) = {}
  PROVE  s \o t \in Seq(S) /\ IsInjective(s \o t) /\ ToSet(s \o t) = ToSet(s) \union ToSet(t)
<1> DEFINE u == s \o t
           m == Len(s)
           n == Len(t)
<1>1. /\ u \in Seq(S) /\ Len(u) = m + n /\ m \in Nat /\ n \in Nat
      /\ \A i \in 1 .. m + n : u[i] = IF i <= m THEN s[i] ELSE t[i - m]
  BY ConcatProperties
<1>2. DOMAIN u = 1 .. m + n /\ DOMAIN s = 1 .. m /\ DOMAIN t = 1 .. n
  BY <1>1
<1>3. \A i \in 1 .. m : s[i] \in ToSet(s)
  BY <1>2 DEF ToSet
<1>4. \A i \in 1 .. n : t[i] \in ToSet(t)
  BY <1>2 DEF ToSet
<1>5. \A i, j \in 1 .. m : s[i] = s[j] => i = j
  BY <1>2 DEF IsInjective
<1>6. \A i, j \in 1 .. n : t[i] = t[j] => i = j
  BY <1>2 DEF IsInjective
<1> HIDE DEF u, m, n
<1>7. \A i \in 1 .. m + n : \/ i \in 1 .. m /\ u[i] = s[i]
                            \/ i > m /\ i - m \in 1 .. n /\ u[i] = t[i - m]
  BY <1>1
<1>8. ASSUME NEW i \in 1 .. m + n, NEW j \in 1 .. m + n, u[i] = u[j] PROVE i = j
  <2>1. CASE i \in 1 .. m /\ u[i] = s[i]
    <3>1. j \in 1 .. m /\ u[j] = s[j]
      BY <1>3, <1>4, <1>7, <1>8, <2>1
    <3> QED
      BY <1>5, <1>8, <2>1, <3>1
  <2>2. CASE i > m /\ i - m \in 1 .. n /\ u[i] = t[i - m]
    <3>1. j > m /\ j - m \in 1 .. n /\ u[j] = t[j - m]
      BY <1>3, <1>4, <1>7, <1>8, <2>2
    <3>2. i - m = j - m
      BY <1>6, <1>8, <2>2, <3>1
    <3> QED
      BY <1>1, <3>2
  <2> QED
    BY <1>7, <2>1, <2>2
<1>9. IsInjective(u)
  BY <1>2, <1>8 DEF IsInjective
<1>10. ToSet(u) \subseteq ToSet(s) \union ToSet(t)
  BY <1>2, <1>3, <1>4, <1>7 DEF ToSet
<1>11. ASSUME NEW x \in ToSet(s) PROVE x \in ToSet(u)
  <2>1. PICK i \in 1 .. m : s[i] = x
    BY <1>2 DEF ToSet
  <2>2. i \in 1 .. m + n /\ u[i] = x
    BY <1>1, <2>1
  <2> QED
    BY <1>2, <2>2 DEF ToSet
<1>12. ASSUME NEW x \in ToSet(t) PROVE x \in ToSet(u)
  <2>1. PICK i \in 1 .. n : t[i] = x
    BY <1>2 DEF ToSet
  <2>2. i + m \in 1 .. m + n /\ ~ (i + m <= m) /\ (i + m) - m = i
    BY <1>1, <2>1
  <2>3. u[i + m] = x
    BY <1>1, <2>1, <2>2
  <2> QED
    BY <1>2, <2>2, <2>3 DEF ToSet
<1> QED
  BY <1>1, <1>9, <1>10, <1>11, <1>12 DEF u

\* What a walk has found that got to A against the edges and to B along them, where Ab and
\* Bb are what it had reached one hop before.
Found(walk, edges, A, Ab, B, Bb) ==
  /\ walk.up = A \ Ab /\ walk.down = B \ Bb /\ DOMAIN walk.hop = A \union B
  /\ walk.rows \in Seq(edges) /\ IsInjective(walk.rows)
  /\ ToSet(walk.rows) = {e \in edges : e[2] \in Ab \/ e[1] \in Bb}

\* A2 and B2 are one hop further than A and B.
Further(edges, root, A, Ab, A2, B, Bb, B2) ==
  /\ Ab \subseteq A /\ Back(edges, Ab) \subseteq A /\ A2 = A \union Back(edges, A)
  /\ Bb \subseteq B /\ Onward(edges, Bb) \subseteq B /\ B2 = B \union Onward(edges, B)
  /\ A = {} \/ root \in A
  /\ B = {} \/ root \in B
  /\ A = {} \/ B = {} \/ (A2 \intersect B2 = {root} /\ <<root, root>> \notin edges)

LEMMA HopGoesOn ==
  ASSUME NEW nodes, NEW edges \in SUBSET (nodes \X nodes), IsFiniteSet(edges), NEW root,
         NEW A, NEW Ab, NEW A2, NEW B, NEW Bb, NEW B2,
         Further(edges, root, A, Ab, A2, B, Bb, B2),
         NEW walk, Found(walk, edges, A, Ab, B, Bb)
  PROVE  /\ Found(Hop(edges, walk), edges, A2, A, B2, B)
         /\ Hop(edges, walk).hops = walk.hops + 1
         /\ \A x \in A2 \union B2 :
              Hop(edges, walk).hop[x] = IF x \in A \union B THEN walk.hop[x] ELSE walk.hops + 1
<1> DEFINE fetchedUp == {e \in edges : e[2] \in walk.up}
           fetchedDown == {e \in edges : e[1] \in walk.down}
           newUp == {e[1] : e \in fetchedUp} \ DOMAIN walk.hop
           newDown == {e[2] : e \in fetchedDown} \ (DOMAIN walk.hop \union newUp)
           w2 == Hop(edges, walk)
<1>1. /\ w2.hops = walk.hops + 1 /\ w2.up = newUp /\ w2.down = newDown
      /\ w2.hop = [x \in DOMAIN walk.hop \union newUp \union newDown |->
                     IF x \in DOMAIN walk.hop THEN walk.hop[x] ELSE walk.hops + 1]
      /\ w2.rows = walk.rows \o SetToSeq(fetchedUp) \o SetToSeq(fetchedDown)
  BY DEF Hop
<1> HIDE DEF w2
<1>2. A # {} /\ B # {} => A2 \intersect B2 = {root} /\ <<root, root>> \notin edges
  BY DEF Further
<1>3. (A = {} => A2 = {}) /\ (B = {} => B2 = {})
  BY DEF Further, Back, Onward
<1>4. \A x : x \in A2 /\ x \in B2 => x = root /\ x \in A /\ x \in B
  BY <1>2, <1>3 DEF Further
<1>5. newUp = A2 \ A
  <2>1. ASSUME NEW x \in newUp PROVE x \in A2 \ A
    <3>1. PICK e \in edges : e[2] \in walk.up /\ x = e[1]
      OBVIOUS
    <3>2. e[2] \in A
      BY <3>1 DEF Found
    <3>3. x \in Back(edges, A)
      BY <3>1, <3>2 DEF Back
    <3> QED
      BY <3>3 DEF Found, Further
  <2>2. ASSUME NEW x \in A2, x \notin A PROVE x \in newUp
    <3>1. PICK e \in edges : e[2] \in A /\ x = e[1]
      BY <2>2 DEF Further, Back
    <3>2. e[2] \notin Ab
      BY <2>2, <3>1 DEF Further, Back
    <3>3. x \notin B
      BY <1>4, <2>2 DEF Further
    <3> QED
      BY <2>2, <3>1, <3>2, <3>3 DEF Found
  <2> QED
    BY <2>1, <2>2
<1>6. newDown = B2 \ B
  <2>1. ASSUME NEW x \in newDown PROVE x \in B2 \ B
    <3>1. PICK e \in edges : e[1] \in walk.down /\ x = e[2]
      OBVIOUS
    <3>2. e[1] \in B
      BY <3>1 DEF Found
    <3>3. x \in Onward(edges, B)
      BY <3>1, <3>2 DEF Onward
    <3> QED
      BY <3>3 DEF Found, Further
  <2>2. ASSUME NEW x \in B2, x \notin B PROVE x \in newDown
    <3>1. PICK e \in edges : e[1] \in B /\ x = e[2]
      BY <2>2 DEF Further, Onward
    <3>2. e[1] \notin Bb
      BY <2>2, <3>1 DEF Further, Onward
    <3>3. x \notin A2
      BY <1>4, <2>2
    <3>4. x \notin A
      BY <3>3 DEF Further
    <3> QED
      BY <1>5, <2>2, <3>1, <3>2, <3>3, <3>4 DEF Found
  <2> QED
    BY <2>1, <2>2
<1>7. DOMAIN walk.hop = A \union B /\ A \subseteq A2 /\ B \subseteq B2
  BY DEF Found, Further
<1>8. /\ DOMAIN w2.hop = A2 \union B2
      /\ \A x \in A2 \union B2 : w2.hop[x] = IF x \in A \union B THEN walk.hop[x] ELSE walk.hops + 1
  <2> HIDE DEF newUp, newDown
  <2>1. DOMAIN walk.hop \union newUp \union newDown = A2 \union B2
    BY <1>5, <1>6, <1>7
  <2> QED
    BY <1>1, <1>7, <2>1
<1>9. w2.up = A2 \ A /\ w2.down = B2 \ B
  BY <1>1, <1>5, <1>6
<1>10. fetchedUp = {e \in edges : e[2] \in A \ Ab} /\ fetchedDown = {e \in edges : e[1] \in B \ Bb}
  BY DEF Found
<1>11. ASSUME NEW e \in edges, e[2] \in A, e[1] \in B PROVE FALSE
  <2>1. e[1] \in A2 /\ e[2] \in B2 /\ e[1] \in B2 /\ e[2] \in A2
    BY <1>7, <1>11 DEF Further, Back, Onward
  <2>2. e[1] = root /\ e[2] = root
    BY <1>4, <2>1
  <2>3. e = <<e[1], e[2]>>
    OBVIOUS
  <2> QED
    BY <1>2, <1>11, <2>2, <2>3
<1> DEFINE old == {e \in edges : e[2] \in Ab \/ e[1] \in Bb}
<1>12. /\ old \intersect fetchedUp = {} /\ (old \union fetchedUp) \intersect fetchedDown = {}
       /\ old \union fetchedUp \union fetchedDown = {e \in edges : e[2] \in A \/ e[1] \in B}
  <2>1. Ab \subseteq A /\ Bb \subseteq B
    BY DEF Further
  <2>2. \A e \in edges : e \in fetchedUp <=> e[2] \in A /\ e[2] \notin Ab
    BY <1>10
  <2>3. \A e \in edges : e \in fetchedDown <=> e[1] \in B /\ e[1] \notin Bb
    BY <1>10
  <2>4. fetchedUp \subseteq edges /\ fetchedDown \subseteq edges
    OBVIOUS
  <2> HIDE DEF fetchedUp, fetchedDown
  <2> QED
    BY <1>11, <2>1, <2>2, <2>3, <2>4
<1>13. IsFiniteSet(fetchedUp) /\ IsFiniteSet(fetchedDown) /\ fetchedUp \in SUBSET edges /\ fetchedDown \in SUBSET edges
  BY FS_Subset
<1> HIDE DEF fetchedUp, fetchedDown
<1>14. /\ SetToSeq(fetchedUp) \in Seq(edges) /\ IsInjective(SetToSeq(fetchedUp)) /\ ToSet(SetToSeq(fetchedUp)) = fetchedUp
       /\ SetToSeq(fetchedDown) \in Seq(edges) /\ IsInjective(SetToSeq(fetchedDown)) /\ ToSet(SetToSeq(fetchedDown)) = fetchedDown
  <2>1. SetToSeq(fetchedUp) \in Seq(fetchedUp) /\ SetToSeq(fetchedDown) \in Seq(fetchedDown)
    BY <1>13, SetIsListed
  <2>2. \A T \in SUBSET edges : \A q \in Seq(T) : q \in Seq(edges)
    OBVIOUS
  <2> QED
    BY <1>13, <2>1, <2>2, SetIsListed
<1>15. walk.rows \in Seq(edges) /\ IsInjective(walk.rows) /\ ToSet(walk.rows) = old
  BY DEF Found
<1> DEFINE listed == walk.rows \o SetToSeq(fetchedUp)
<1>16. listed \in Seq(edges) /\ IsInjective(listed) /\ ToSet(listed) = old \union fetchedUp
  <2> HIDE DEF old
  <2> QED
    BY <1>12, <1>14, <1>15, ListsFollow
<1>17. /\ w2.rows \in Seq(edges) /\ IsInjective(w2.rows)
       /\ ToSet(w2.rows) = {e \in edges : e[2] \in A \/ e[1] \in B}
  <2>1. w2.rows = listed \o SetToSeq(fetchedDown)
    BY <1>1
  <2> HIDE DEF old, listed
  <2>2. /\ listed \o SetToSeq(fetchedDown) \in Seq(edges) /\ IsInjective(listed \o SetToSeq(fetchedDown))
        /\ ToSet(listed \o SetToSeq(fetchedDown)) = old \union fetchedUp \union fetchedDown
    BY <1>12, <1>14, <1>16, ListsFollow
  <2> QED
    BY <1>12, <2>1, <2>2
<1> QED
  BY <1>1, <1>8, <1>9, <1>17 DEF Found, w2

\* The walk, hop by hop.
Walking(w, edges, root, direction, n) ==
  w = [i \in 0 .. n |-> IF i = 0 THEN Seed(root, direction) ELSE Hop(edges, w[i - 1])]

LEMMA WalkExists ==
  ASSUME NEW edges, NEW root, NEW direction, NEW n \in Nat
  PROVE  \E w : Walking(w, edges, root, direction, n)
<1> DEFINE good == {m \in 0 .. n : \E w : Walking(w, edges, root, direction, m)}
<1>1. 0 \in good
  <2>1. Walking([i \in 0 .. 0 |-> Seed(root, direction)], edges, root, direction, 0)
    BY DEF Walking
  <2> QED
    BY <2>1
<1>2. ASSUME NEW m \in 1 .. n, m - 1 \in good PROVE m \in good
  <2>1. PICK w : Walking(w, edges, root, direction, m - 1)
    BY <1>2
  <2> DEFINE g == [i \in 0 .. m |-> IF i = m THEN Hop(edges, w[m - 1]) ELSE w[i]]
  <2>2. ASSUME NEW i \in 0 .. m
        PROVE  g[i] = IF i = 0 THEN Seed(root, direction) ELSE Hop(edges, g[i - 1])
    <3>1. CASE i = m
      <4>1. m - 1 \in 0 .. m /\ m - 1 # m /\ i # 0 /\ i - 1 = m - 1
        BY <3>1
      <4> QED
        BY <3>1, <4>1
    <3>2. CASE i # m
      <4>1. i \in 0 .. m - 1
        BY <3>2
      <4>2. w[i] = IF i = 0 THEN Seed(root, direction) ELSE Hop(edges, w[i - 1])
        BY <2>1, <4>1 DEF Walking
      <4>3. i # 0 => i - 1 \in 0 .. m /\ i - 1 # m
        BY <4>1
      <4> QED
        BY <3>2, <4>2, <4>3
    <3> QED
      BY <3>1, <3>2
  <2>3. g = [i \in 0 .. m |-> g[i]]
    OBVIOUS
  <2> HIDE DEF g
  <2>4. Walking(g, edges, root, direction, m)
    BY <2>2, <2>3 DEF Walking
  <2> QED
    BY <2>4
<1> HIDE DEF good
<1>3. n \in good
  BY <1>1, <1>2, Climbing
<1> QED
  BY <1>3 DEF good

\* What a walk reaches against the edges, and along them, in n hops.
Above(edges, root, direction, n) ==
  IF direction # "downstream" THEN Within(Reversed(edges), root, n) ELSE {}
Below(edges, root, direction, n) ==
  IF direction # "upstream" THEN Within(edges, root, n) ELSE {}

LEMMA SidesGrow ==
  ASSUME NEW edges, NEW root, NEW direction
  PROVE  /\ Above(edges, root, direction, 0) = (IF direction # "downstream" THEN {root} ELSE {})
         /\ Below(edges, root, direction, 0) = (IF direction # "upstream" THEN {root} ELSE {})
         /\ \A n \in Nat :
              /\ Above(edges, root, direction, n + 1) =
                   Above(edges, root, direction, n) \union Back(edges, Above(edges, root, direction, n))
              /\ Below(edges, root, direction, n + 1) =
                   Below(edges, root, direction, n) \union Onward(edges, Below(edges, root, direction, n))
         /\ \A n : Sides(edges, root, n, direction) =
                     Above(edges, root, direction, n) \union Below(edges, root, direction, n)
<1>1. Back(edges, {}) = {} /\ Onward(edges, {}) = {}
  BY DEF Back, Onward
<1>2. /\ Within(Reversed(edges), root, 0) = {root}
      /\ \A n \in Nat : Within(Reversed(edges), root, n + 1) =
           Within(Reversed(edges), root, n) \union Back(edges, Within(Reversed(edges), root, n))
  BY WithinGrows, BackwardsIsReversed
<1>3. /\ Within(edges, root, 0) = {root}
      /\ \A n \in Nat : Within(edges, root, n + 1) =
           Within(edges, root, n) \union Onward(edges, Within(edges, root, n))
  BY WithinGrows
<1> QED
  BY <1>1, <1>2, <1>3 DEF Above, Below, Sides

\* How a walk stands after i hops.
Stands(walk, edges, root, direction, i) ==
  /\ walk.hops = i
  /\ Found(walk, edges,
           Above(edges, root, direction, i),
           IF i = 0 THEN {} ELSE Above(edges, root, direction, i - 1),
           Below(edges, root, direction, i),
           IF i = 0 THEN {} ELSE Below(edges, root, direction, i - 1))
  /\ \A x \in DOMAIN walk.hop :
       walk.hop[x] # 0 => x \notin Sides(edges, root, walk.hop[x] - 1, direction)

LEMMA WalkStands ==
  ASSUME NEW nodes, NEW edges \in SUBSET (nodes \X nodes), IsFiniteSet(edges), NEW root,
         NEW direction \in {"upstream", "downstream", "both"}, NEW n \in Nat,
         direction # "both" \/ Apart(edges, root, n),
         NEW w, Walking(w, edges, root, direction, n)
  PROVE  Stands(w[n], edges, root, direction, n)
<1> DEFINE A(i) == Above(edges, root, direction, i)
           B(i) == Below(edges, root, direction, i)
           good == {i \in 0 .. n : Stands(w[i], edges, root, direction, i)}
<1>1. /\ A(0) = (IF direction # "downstream" THEN {root} ELSE {})
      /\ B(0) = (IF direction # "upstream" THEN {root} ELSE {})
      /\ \A i \in Nat : A(i + 1) = A(i) \union Back(edges, A(i)) /\ B(i + 1) = B(i) \union Onward(edges, B(i))
      /\ \A i : Sides(edges, root, i, direction) = A(i) \union B(i)
  BY SidesGrow
<1>2. \A i \in 0 .. n : /\ A(i) = {} \/ (root \in A(i) /\ direction # "downstream")
                        /\ B(i) = {} \/ (root \in B(i) /\ direction # "upstream")
                        /\ A(i) = {} \/ B(i) = {} \/ (A(i) \intersect B(i) = {root} /\ <<root, root>> \notin edges)
  <2> SUFFICES ASSUME NEW i \in 0 .. n
               PROVE  /\ A(i) = {} \/ (root \in A(i) /\ direction # "downstream")
                      /\ B(i) = {} \/ (root \in B(i) /\ direction # "upstream")
                      /\ A(i) = {} \/ B(i) = {} \/ (A(i) \intersect B(i) = {root} /\ <<root, root>> \notin edges)
    OBVIOUS
  <2>1. /\ Within(Reversed(edges), root, i) \subseteq Within(Reversed(edges), root, n)
        /\ root \in Within(Reversed(edges), root, i)
        /\ Within(edges, root, i) \subseteq Within(edges, root, n)
        /\ root \in Within(edges, root, i)
    BY WithinMonotone
  <2>2. CASE direction = "both"
    <3>1. Within(Reversed(edges), root, n) \intersect Within(edges, root, n) = {root} /\ <<root, root>> \notin edges
      BY <2>2 DEF Apart
    <3>2. A(i) = Within(Reversed(edges), root, i) /\ B(i) = Within(edges, root, i)
      BY <2>2 DEF Above, Below
    <3> QED
      BY <2>1, <2>2, <3>1, <3>2
  <2>3. CASE direction # "both"
    BY <2>1, <2>3 DEF Above, Below
  <2> QED
    BY <2>2, <2>3
<1>3. 0 \in good
  <2>1. w[0] = Seed(root, direction)
    BY DEF Walking
  <2>2. /\ w[0].hops = 0 /\ w[0].up = A(0) /\ w[0].down = B(0) /\ w[0].rows = <<>>
        /\ w[0].hop = [x \in {root} |-> 0] /\ A(0) \union B(0) = {root}
    <3>1. A(0) = (IF direction # "downstream" THEN {root} ELSE {}) /\ B(0) = (IF direction # "upstream" THEN {root} ELSE {})
      BY <1>1
    <3> HIDE DEF A, B
    <3> QED
      BY <2>1, <3>1 DEF Seed
  <2> HIDE DEF A, B
  <2>3. IsInjective(<<>>) /\ ToSet(<<>>) = {} /\ <<>> \in Seq(edges)
    BY DEF IsInjective, ToSet
  <2>4. Found(w[0], edges, A(0), {}, B(0), {})
    BY <2>2, <2>3 DEF Found
  <2>5. \A x \in DOMAIN w[0].hop : w[0].hop[x] = 0
    BY <2>2
  <2> QED
    BY <2>2, <2>4, <2>5 DEF Stands, A, B
<1>4. ASSUME NEW i \in 1 .. n, i - 1 \in good PROVE i \in good
  <2> DEFINE j == i - 1
             Ab == IF j = 0 THEN {} ELSE A(j - 1)
             Bb == IF j = 0 THEN {} ELSE B(j - 1)
  <2>1. j \in 0 .. n /\ j \in Nat /\ i \in 0 .. n /\ i # 0 /\ j + 1 = i /\ (j # 0 => j - 1 \in Nat /\ (j - 1) + 1 = j)
    OBVIOUS
  <2>2. w[i] = Hop(edges, w[j])
    BY <2>1 DEF Walking
  <2>3. /\ w[j].hops = j /\ Found(w[j], edges, A(j), Ab, B(j), Bb)
        /\ \A x \in DOMAIN w[j].hop :
             w[j].hop[x] # 0 => x \notin Sides(edges, root, w[j].hop[x] - 1, direction)
    BY <1>4 DEF Stands
  <2> HIDE DEF A, B, good
  <2>4. Further(edges, root, A(j), Ab, A(i), B(j), Bb, B(i))
    <3>1. A(i) = A(j) \union Back(edges, A(j)) /\ B(i) = B(j) \union Onward(edges, B(j))
      BY <1>1, <2>1
    <3>2. Ab \subseteq A(j) /\ Back(edges, Ab) \subseteq A(j)
      <4>1. CASE j = 0
        BY <4>1 DEF Back
      <4>2. CASE j # 0
        BY <1>1, <2>1, <4>2
      <4> QED
        BY <4>1, <4>2
    <3>3. Bb \subseteq B(j) /\ Onward(edges, Bb) \subseteq B(j)
      <4>1. CASE j = 0
        BY <4>1 DEF Onward
      <4>2. CASE j # 0
        BY <1>1, <2>1, <4>2
      <4> QED
        BY <4>1, <4>2
    <3>4. A(j) = {} \/ root \in A(j)
      BY <1>2, <2>1
    <3>5. B(j) = {} \/ root \in B(j)
      BY <1>2, <2>1
    <3>6. A(j) = {} \/ B(j) = {} \/ (A(i) \intersect B(i) = {root} /\ <<root, root>> \notin edges)
      BY <1>2, <2>1, <3>1
    <3> HIDE DEF j, Ab, Bb
    <3> QED
      BY <3>1, <3>2, <3>3, <3>4, <3>5, <3>6 DEF Further
  <2> HIDE DEF j, Ab, Bb
  <2>5. /\ Found(w[i], edges, A(i), A(j), B(i), B(j))
        /\ w[i].hops = w[j].hops + 1
        /\ \A x \in A(i) \union B(i) :
             w[i].hop[x] = IF x \in A(j) \union B(j) THEN w[j].hop[x] ELSE w[j].hops + 1
    BY <2>2, <2>3, <2>4, HopGoesOn
  <2>6. ASSUME NEW x \in DOMAIN w[i].hop, w[i].hop[x] # 0
        PROVE  x \notin Sides(edges, root, w[i].hop[x] - 1, direction)
    <3>1. x \in A(i) \union B(i)
      BY <2>5 DEF Found
    <3>2. CASE x \in A(j) \union B(j)
      <4>1. w[i].hop[x] = w[j].hop[x] /\ x \in DOMAIN w[j].hop
        BY <2>3, <2>5, <3>1, <3>2 DEF Found
      <4> QED
        BY <2>3, <2>6, <4>1
    <3>3. CASE x \notin A(j) \union B(j)
      <4>1. w[i].hop[x] = j + 1 /\ (j + 1) - 1 = j
        BY <2>1, <2>3, <2>5, <3>1, <3>3
      <4>2. Sides(edges, root, j, direction) = A(j) \union B(j)
        BY <1>1
      <4> QED
        BY <3>3, <4>1, <4>2
    <3> QED
      BY <3>2, <3>3
  <2>7. Stands(w[i], edges, root, direction, i)
    <3>1. Found(w[i], edges, A(i), IF i = 0 THEN {} ELSE A(i - 1), B(i), IF i = 0 THEN {} ELSE B(i - 1))
      BY <2>1, <2>5 DEF j
    <3> QED
      BY <2>1, <2>3, <2>5, <2>6, <3>1 DEF Stands, A, B
  <2> QED
    BY <2>1, <2>7 DEF good
<1> HIDE DEF good
<1>5. n \in good
  BY <1>3, <1>4, Climbing
<1> QED
  BY <1>5 DEF good

\* A walk finds the assets within max_hops, each at its distance and with the rows of its
\* edges once, over any edges, from any root and however far; in both directions if no
\* node lies on both sides (PostgresLineageSource.trace).
THEOREM WalksAreExact ==
  ASSUME NEW nodes, NEW edges \in SUBSET (nodes \X nodes), IsFiniteSet(edges), NEW root,
         NEW direction \in {"upstream", "downstream", "both"}, NEW max_hops \in Nat
  PROVE  TraceIsExact(edges, root, direction, max_hops)
<1> DEFINE F == CHOOSE w : Walking(w, edges, root, direction, max_hops)
<1>1. Walking(F, edges, root, direction, max_hops)
  BY WalkExists
<1>2. trace(edges, root, direction, max_hops) = F[max_hops]
  BY DEF trace, Walking
<1> HIDE DEF F
<1>3. SUFFICES ASSUME direction # "both" \/ Apart(edges, root, max_hops)
      PROVE  /\ DOMAIN F[max_hops].hop = Sides(edges, root, max_hops, direction)
             /\ \A x \in DOMAIN F[max_hops].hop : F[max_hops].hop[x] # 0 =>
                  x \notin Sides(edges, root, F[max_hops].hop[x] - 1, direction)
             /\ IsInjective(F[max_hops].rows)
  BY <1>2 DEF TraceIsExact
<1>4. Stands(F[max_hops], edges, root, direction, max_hops)
  BY <1>1, <1>3, WalkStands
<1>5. Sides(edges, root, max_hops, direction) =
        Above(edges, root, direction, max_hops) \union Below(edges, root, direction, max_hops)
  BY DEF Sides, Above, Below
<1> QED
  BY <1>4, <1>5 DEF Stands, Found

-----------------------------------------------------------------------------
(* Scopes and legacy calls. *)

\* The vector route of a search has every asset of the relational one, and others only as
\* Unfiltered says; only who asks for deprecated assets is shown any on the relational one,
\* and the helper's views are views - for any tags, schemas and catalogs
\* (_base_select_for_scope, _fetch_asset_vector_search, get_views).
THEOREM ScopesAreKept ==
  ASSUME NEW Tags, NEW Schemas, NEW Catalogs,
         NEW a \in AssetRows(Tags, Schemas, Catalogs), NEW scope \in Scopes(Tags, Schemas, Catalogs)
  PROVE  RoutesAgree(a, scope) /\ DeprecatedIsAskedFor(a, scope) /\ HelperGivesViews(a, scope)
<1>1. a.kind \in AssetKinds /\ a.stage \in {"production", "deprecated", "none"}
      /\ scope.kinds \subseteq {"table", "view", "materialized_view", "function"}
      /\ scope.stages \subseteq {"production", "deprecated"} /\ scope.deprecated \in BOOLEAN
  BY DEF AssetRows, Scopes
<1>2. RoutesAgree(a, scope)
  <2> SUFFICES ASSUME scope.kinds \in {{}, {"table"}, {"view", "materialized_view"}, AssetKinds}
               PROVE  /\ BaseSelectForScope(a, scope) => PayloadFilter(a, scope)
                      /\ PayloadFilter(a, scope) => BaseSelectForScope(a, scope) \/ Unfiltered(a, scope)
    BY DEF RoutesAgree
  <2> DEFINE staged == IF scope.stages # {} THEN a.stage \in scope.stages
                       ELSE scope.deprecated \/ a.stage # "deprecated"
             shown == scope.stages # {} => (IF a.stage = "none" THEN "production" ELSE a.stage) \in scope.stages
             placed == Overlaps(scope.schema_rks, {a.schema}) /\ Overlaps(scope.catalog_uids, a.catalogs)
             sorted == /\ "table" \in scope.kinds /\ "view" \notin scope.kinds => a.kind = "table"
                       /\ "view" \in scope.kinds /\ "table" \notin scope.kinds => a.kind # "table"
  <2>1. (staged => shown) /\ (shown => staged \/ Unfiltered(a, scope))
    BY <1>1 DEF Unfiltered
  <2>2. placed \/ Unfiltered(a, scope)
    BY DEF Unfiltered, Overlaps
  <2>3. sorted <=> (scope.kinds # {} => a.kind \in scope.kinds)
    <3>1. "table" # "view" /\ "table" # "materialized_view" /\ "view" # "materialized_view"
      OBVIOUS
    <3> QED
      BY <1>1, <3>1 DEF AssetKinds
  <2>4. BaseSelectForScope(a, scope) <=> placed /\ Overlaps(scope.tags, a.tags) /\ staged /\ sorted
    BY Zenon DEF BaseSelectForScope
  <2>5. PayloadFilter(a, scope) <=>
          Overlaps(scope.tags, a.tags) /\ shown /\ (scope.kinds # {} => a.kind \in scope.kinds)
    BY Zenon DEF PayloadFilter
  <2> HIDE DEF staged, shown, placed, sorted
  <2> QED
    BY <2>1, <2>2, <2>3, <2>4, <2>5
<1>3. DeprecatedIsAskedFor(a, scope)
  BY DEF DeprecatedIsAskedFor, BaseSelectForScope
<1>4. HelperGivesViews(a, scope)
  <2> DEFINE views == HelperScope("get_views", scope)
             any == [scope EXCEPT !.kinds = {}]
  <2>1. Helpers["get_views"].narrowed = {"view", "materialized_view"}
    BY DEF Helpers
  <2>2. views = [scope EXCEPT !.kinds = {"view", "materialized_view"}]
    BY <2>1 DEF HelperScope
  <2>3. /\ views.kinds = {"view", "materialized_view"} /\ views.tags = scope.tags /\ views.stages = scope.stages
        /\ views.deprecated = scope.deprecated
        /\ views.schema_rks = scope.schema_rks /\ views.catalog_uids = scope.catalog_uids
        /\ any.kinds = {} /\ any.tags = scope.tags /\ any.stages = scope.stages /\ any.deprecated = scope.deprecated
        /\ any.schema_rks = scope.schema_rks /\ any.catalog_uids = scope.catalog_uids
    BY <2>2 DEF Scopes
  <2>4. "view" \in views.kinds /\ "table" \notin views.kinds
    BY <2>3
  <2> HIDE DEF views, any
  <2> QED
    BY <2>3, <2>4 DEF HelperGivesViews, BaseSelectForScope, views, any
<1> QED
  BY <1>2, <1>3, <1>4

\* Every combination of names that a legacy caller may give is accepted unless it mixes a
\* scope with parts of one (_translate_kwargs and the inputs of the kinds).
THEOREM LegacyCallsAreServed ==
  ASSUME NEW names \in SUBSET LegacyNames
  PROVE  LegacyCallIsServed(names)
<1> DEFINE clean == "scope" \notin names \/ names \intersect ScopeNames = {}
           plain(ns) == "scope" \notin ns \/ ns \intersect ScopeNames = {}
<1>1. ASSUME NEW ns \in SUBSET LegacyNames
      PROVE  /\ "scope" \in TranslateKwargs(ns)
             /\ TranslateKwargs(ns) \subseteq {"query", "scope", "k"} <=> plain(ns)
             /\ "query" \in TranslateKwargs(ns) <=> "query" \in ns
             /\ "k" \in TranslateKwargs(ns) <=> ns \intersect (KNames \union {"k"}) # {}
  <2>1. CASE "scope" \in ns
    BY <2>1 DEF TranslateKwargs, LegacyNames, ScopeNames, KNames, DroppedNames
  <2>2. CASE "scope" \notin ns
    BY <2>2 DEF TranslateKwargs, LegacyNames, ScopeNames, KNames, DroppedNames
  <2> HIDE DEF plain
  <2> QED
    BY <2>1, <2>2, Zenon
<1>2. ASSUME NEW alias \in DOMAIN Aliases
      PROVE  LET kind == Aliases[alias] IN
             Accepted(kind, TranslateKwargs(names)) <=> clean /\ ("query" \in RetrievalKinds[kind].needs => "query" \in names)
  <2> DEFINE kind == Aliases[alias]
             t == TranslateKwargs(names)
  <2>1. kind \in {"asset_search", "metrics_search", "sql_pairs_search", "instructions_search", "historical_qa_search"}
    BY DEF Aliases
  <2>2. /\ RetrievalKinds[kind].takes = {"query", "scope", "k"}
        /\ RetrievalKinds[kind].needs = IF kind = "asset_search" THEN {"scope"} ELSE {"query", "scope"}
    BY <2>1 DEF RetrievalKinds
  <2>3. "scope" \in t /\ (t \subseteq {"query", "scope", "k"} <=> clean) /\ ("query" \in t <=> "query" \in names)
    BY <1>1
  <2> HIDE DEF kind, t, clean
  <2>4. Accepted(kind, t) <=> clean /\ ("query" \in RetrievalKinds[kind].needs => "query" \in names)
    <3>1. CASE kind = "asset_search"
      BY <2>2, <2>3, <3>1 DEF Accepted
    <3>2. CASE kind # "asset_search"
      BY <2>2, <2>3, <3>2 DEF Accepted
    <3> QED
      BY <3>1, <3>2
  <2> QED
    BY <2>4 DEF kind, t
<1>3. ASSUME NEW method \in DOMAIN Helpers
      PROVE  Accepted(Helpers[method].kind, HelperCall(names)) <=> clean
  <2> DEFINE kind == Helpers[method].kind
             ns == names \union {"project_id", "query"}
             t == TranslateKwargs(ns)
  <2>1. kind \in {"asset_search", "metrics_search", "sql_pairs_search", "instructions_search", "historical_qa_search"}
    BY DEF Helpers
  <2>2. /\ RetrievalKinds[kind].takes = {"query", "scope", "k"}
        /\ RetrievalKinds[kind].needs \subseteq {"query", "scope"}
    BY <2>1 DEF RetrievalKinds
  <2>3. ns \in SUBSET LegacyNames /\ "query" \in ns /\ (plain(ns) <=> clean)
    BY DEF LegacyNames, ScopeNames
  <2>4. {"scope", "query"} \subseteq t /\ (t \subseteq {"query", "scope", "k"} <=> clean)
    <3> HIDE DEF ns, clean
    <3> QED
      BY <1>1, <2>3
  <2> HIDE DEF kind, t, clean
  <2>5. Accepted(kind, t) <=> clean
    BY <2>2, <2>4 DEF Accepted
  <2> QED
    BY <2>5 DEF kind, t, HelperCall
<1>4. names \intersect (KNames \union {"k"}) # {} <=> "k" \in TranslateKwargs(names)
  BY <1>1
<1> QED
  BY <1>2, <1>3, <1>4 DEF LegacyCallIsServed

-----------------------------------------------------------------------------
(* Paging: without changes and with names of their own, assets have one order. *)

ReadSpec == ReadInit /\ [][ReadNext]_readVars
OwnNames == \A a, b \in shelf : a # b => NameOf[a] # NameOf[b]

\* An order lists each asset once.
LEMMA OrderLists ==
  ASSUME shelf \subseteq Shelf, NEW s \in Orders
  PROVE  /\ s \in Seq(shelf) /\ Len(s) = Cardinality(shelf) /\ Cardinality(shelf) \in Nat
         /\ IsInjective(s) /\ ToSet(s) = shelf
<1> DEFINE n == Cardinality(shelf)
<1>1. IsFiniteSet(shelf) /\ n \in Nat
  BY ReadAssumption, FS_Subset, FS_CardinalityType
<1>2. s \in [1 .. n -> shelf] /\ \A i, j \in 1 .. n : i # j => s[i] # s[j]
  BY DEF Orders, SetToSeqs
<1>3. s \in Seq(shelf) /\ Len(s) = n /\ IsInjective(s)
  BY <1>1, <1>2 DEF IsInjective
<1>4. s \in Injection(1 .. n, shelf)
  BY <1>2, <1>3 DEF Injection
<1>5. IsFiniteSet(1 .. n) /\ Cardinality(1 .. n) = n
  BY <1>1, FS_Interval
<1>6. s \in Surjection(1 .. n, shelf)
  <2> HIDE DEF n
  <2> QED
    BY <1>1, <1>4, <1>5, FS_Injection DEF n
<1>7. ToSet(s) = shelf
  BY <1>2, <1>6 DEF Surjection, ToSet
<1> QED
  BY <1>1, <1>3, <1>7

\* Place i of an order has as many assets up to it as its number says.
LEMMA PlaceCounts ==
  ASSUME shelf \subseteq Shelf, OwnNames, NEW s \in Orders, NEW i \in 1 .. Len(s)
  PROVE  Cardinality({a \in shelf : NameOf[a] <= NameOf[s[i]]}) = i
<1> DEFINE below == {a \in shelf : NameOf[a] <= NameOf[s[i]]}
           f == [j \in 1 .. i |-> s[j]]
<1>1. /\ s \in Seq(shelf) /\ IsInjective(s) /\ ToSet(s) = shelf /\ Len(s) \in Nat
      /\ DOMAIN s = 1 .. Len(s)
      /\ \A j, k \in 1 .. Len(s) : j < k => NameOf[s[j]] <= NameOf[s[k]]
      /\ \A a \in shelf : NameOf[a] \in Nat
  BY OrderLists, ReadAssumption DEF Orders
<1>2. \A j \in 1 .. Len(s) : s[j] \in shelf /\ (s[j] \in below <=> j <= i)
  <2> SUFFICES ASSUME NEW j \in 1 .. Len(s) PROVE s[j] \in shelf /\ (s[j] \in below <=> j <= i)
    OBVIOUS
  <2>1. s[j] \in shelf /\ s[i] \in shelf
    BY <1>1
  <2>2. j <= i => NameOf[s[j]] <= NameOf[s[i]]
    <3>1. CASE j = i
      BY <1>1, <2>1, <3>1
    <3>2. CASE j < i
      BY <1>1, <3>2
    <3> QED
      BY <1>1, <3>1, <3>2
  <2>3. ~ (j <= i) => ~ (NameOf[s[j]] <= NameOf[s[i]])
    <3> SUFFICES ASSUME i < j PROVE ~ (NameOf[s[j]] <= NameOf[s[i]])
      BY <1>1
    <3>1. NameOf[s[i]] <= NameOf[s[j]] /\ s[i] # s[j]
      BY <1>1 DEF IsInjective
    <3>2. NameOf[s[i]] # NameOf[s[j]]
      BY <2>1, <3>1 DEF OwnNames
    <3> QED
      BY <1>1, <2>1, <3>1, <3>2
  <2> QED
    BY <2>1, <2>2, <2>3
<1>3. f \in Injection(1 .. i, below) /\ f \in Surjection(1 .. i, below)
  <2>1. 1 .. i \subseteq 1 .. Len(s)
    BY <1>1
  <2>2. f \in [1 .. i -> below] /\ \A j, k \in 1 .. i : f[j] = f[k] => j = k
    BY <1>1, <1>2, <2>1 DEF IsInjective
  <2>3. \A a \in below : \E j \in 1 .. i : f[j] = a
    <3> SUFFICES ASSUME NEW a \in below PROVE \E j \in 1 .. i : f[j] = a
      OBVIOUS
    <3>1. PICK j \in 1 .. Len(s) : s[j] = a
      BY <1>1 DEF ToSet
    <3>2. j \in 1 .. i
      BY <1>1, <1>2, <3>1
    <3> QED
      BY <3>1, <3>2
  <2> HIDE DEF f, below
  <2> QED
    BY <2>2, <2>3 DEF Injection, Surjection, IsInjective
<1>4. IsFiniteSet(1 .. i) /\ Cardinality(1 .. i) = i
  <2>1. i \in Int /\ 1 \in Int /\ 1 <= i /\ i - 1 + 1 = i
    BY <1>1
  <2> HIDE DEF f, below
  <2> QED
    BY ONLY <2>1, FS_Interval
<1> HIDE DEF f, below
<1>5. Cardinality(below) = Cardinality(1 .. i)
  BY <1>3, <1>4, FS_Surjection
<1> QED
  BY <1>4, <1>5 DEF below

LEMMA OneOrder ==
  ASSUME shelf \subseteq Shelf, OwnNames, NEW s \in Orders, NEW t \in Orders
  PROVE  s = t
<1>1. /\ s \in Seq(shelf) /\ t \in Seq(shelf) /\ Len(s) = Len(t) /\ ToSet(t) = shelf /\ Len(s) \in Nat
  BY OrderLists
<1>2. ASSUME NEW i \in 1 .. Len(s) PROVE s[i] = t[i]
  <2>1. PICK j \in 1 .. Len(t) : t[j] = s[i]
    BY <1>1 DEF ToSet
  <2>2. j = i
    <3>1. Cardinality({a \in shelf : NameOf[a] <= NameOf[s[i]]}) = i
      BY PlaceCounts
    <3>2. Cardinality({a \in shelf : NameOf[a] <= NameOf[t[j]]}) = j
      BY PlaceCounts
    <3> QED
      BY <2>1, <3>1, <3>2
  <2> QED
    BY <2>1, <2>2
<1> QED
  BY <1>1, <1>2, SeqEqual

\* What a caller has seen is the beginning of the order, as far as the next page.
PagesInv ==
  /\ shelf \subseteq Shelf /\ moves \in Nat
  /\ pages \in [offset : Nat, seen : {pages.seen}, over : BOOLEAN]
  /\ moves = 0 /\ OwnNames =>
       /\ pages.over => pages.seen \in Orders
       /\ ~ pages.over => \A s \in Orders : pages.offset <= Len(s) /\ pages.seen = SubSeq(s, 1, pages.offset)

LEMMA PageKeeps == ASSUME PagesInv, NextPage PROVE PagesInv'
<1>1. PICK s \in Orders :
        LET rows == SubSeq(s, pages.offset + 1,
                     IF pages.offset + PageSize + 1 < Len(s) THEN pages.offset + PageSize + 1 ELSE Len(s))
            more == Len(rows) > PageSize IN
        pages' = [offset |-> pages.offset + PageSize, over |-> ~more,
                  seen |-> pages.seen \o (IF more THEN Front(rows) ELSE rows)]
  BY DEF NextPage
<1> DEFINE o == pages.offset
           last == IF o + PageSize + 1 < Len(s) THEN o + PageSize + 1 ELSE Len(s)
           rows == SubSeq(s, o + 1, last)
           more == Len(rows) > PageSize
<1>2. ~ pages.over /\ shelf' = shelf /\ moves' = moves /\ o \in Nat /\ PageSize \in Nat \ {0} /\ Orders' = Orders
      /\ (OwnNames' <=> OwnNames)
  BY ReadAssumption DEF NextPage, PagesInv, Orders, OwnNames
<1>3. /\ pages'.offset = o + PageSize /\ pages'.over = ~ more
      /\ pages'.seen = pages.seen \o (IF more THEN Front(rows) ELSE rows)
      /\ pages' \in [offset : Nat, seen : {pages'.seen}, over : BOOLEAN]
  <2> DEFINE seen == pages.seen \o (IF more THEN Front(rows) ELSE rows)
             over == ~ more
  <2>1. pages' = [offset |-> o + PageSize, over |-> over, seen |-> seen] /\ over \in BOOLEAN
    BY <1>1
  <2>2. o + PageSize \in Nat
    BY <1>2
  <2> HIDE DEF seen, over, o
  <2>3. pages'.offset = o + PageSize /\ pages'.over = over /\ pages'.seen = seen
        /\ pages' \in [offset : Nat, seen : {pages'.seen}, over : BOOLEAN]
    BY <2>1, <2>2
  <2> QED
    BY <2>3 DEF seen, over, o
<1>4. ASSUME moves = 0, OwnNames
      PROVE  /\ pages'.over => pages'.seen \in Orders
             /\ ~ pages'.over => \A t \in Orders : pages'.offset <= Len(t) /\ pages'.seen = SubSeq(t, 1, pages'.offset)
  <2>1. s \in Seq(shelf) /\ Len(s) \in Nat
    BY OrderLists DEF PagesInv
  <2>2. o <= Len(s) /\ pages.seen = SubSeq(s, 1, o)
    BY <1>2, <1>4 DEF PagesInv
  <2>3. /\ rows \in Seq(shelf) /\ last \in Nat /\ last <= Len(s) /\ Len(rows) = last - o /\ o <= last
        /\ \A j \in 1 .. Len(rows) : rows[j] = s[o + j]
    <3>1. last \in Nat /\ last <= Len(s) /\ o <= last
      BY <1>2, <2>1, <2>2
    <3>2. o \in Nat /\ rows = SubSeq(s, o + 1, last)
      BY <1>2
    <3> HIDE DEF last, rows, o
    <3>3. rows \in Seq(shelf) /\ Len(rows) = last - o
      BY <2>1, <3>1, <3>2
    <3>4. \A j \in 1 .. Len(rows) : rows[j] = s[o + j]
      BY <2>1, <3>1, <3>2, <3>3
    <3> QED
      BY <3>1, <3>3, <3>4
  <2>4. /\ pages.seen \in Seq(shelf) /\ Len(pages.seen) = o /\ \A j \in 1 .. o : pages.seen[j] = s[j]
    BY <1>2, <2>1, <2>2
  <2>5. CASE more
    <3>1. last = o + PageSize + 1 /\ o + PageSize + 1 <= Len(s)
      <4>1. last - o > PageSize /\ o \in Nat /\ PageSize \in Nat
        BY <1>2, <2>3, <2>5
      <4> HIDE DEF o
      <4> QED
        BY <2>1, <2>3, <4>1
    <3> DEFINE front == Front(rows)
    <3>2. /\ front \in Seq(shelf) /\ Len(front) = PageSize
          /\ \A j \in 1 .. PageSize : front[j] = s[o + j]
      <4> HIDE DEF rows
      <4> QED
        BY <1>2, <2>3, <3>1 DEF Front
    <3> HIDE DEF front, last
    <3>3. pages'.seen = pages.seen \o front /\ ~ pages'.over
      BY <1>3, <2>5 DEF front
    <3>4. pages'.seen = SubSeq(s, 1, o + PageSize)
      <4>1. /\ pages.seen \o front \in Seq(shelf) /\ Len(pages.seen \o front) = o + PageSize
            /\ \A j \in 1 .. o + PageSize : (pages.seen \o front)[j] = s[j]
        <5> HIDE DEF o
        <5>1. o \in Nat /\ PageSize \in Nat
          BY <1>2
        <5>2. pages.seen \o front \in Seq(shelf) /\ Len(pages.seen \o front) = o + PageSize
              /\ \A j \in 1 .. o + PageSize : (pages.seen \o front)[j] = IF j <= o THEN pages.seen[j] ELSE front[j - o]
          <6>1. pages.seen \in Seq(shelf) /\ front \in Seq(shelf) /\ Len(pages.seen) = o /\ Len(front) = PageSize
            BY <2>4, <3>2
          <6> QED
            BY <5>1, <6>1, ConcatProperties
        <5>3. ASSUME NEW j \in 1 .. o + PageSize PROVE (pages.seen \o front)[j] = s[j]
          <6>1. CASE j <= o
            BY <2>4, <5>1, <5>2, <6>1
          <6>2. CASE ~ (j <= o)
            <7>1. j - o \in 1 .. PageSize /\ o + (j - o) = j
              BY <5>1, <6>2
            <7> QED
              BY <3>2, <5>1, <5>2, <6>2, <7>1
          <6> QED
            BY <6>1, <6>2
        <5> QED
          BY <5>2, <5>3
      <4>2. /\ SubSeq(s, 1, o + PageSize) \in Seq(shelf) /\ Len(SubSeq(s, 1, o + PageSize)) = o + PageSize
            /\ \A j \in 1 .. o + PageSize : SubSeq(s, 1, o + PageSize)[j] = s[j]
        BY <1>2, <2>1, <3>1
      <4> QED
        BY <3>3, <4>1, <4>2, SeqEqual
    <3>5. \A t \in Orders : t = s
      BY <1>4, OneOrder DEF PagesInv
    <3> QED
      <4>1. pages'.offset = o + PageSize /\ o \in Nat /\ PageSize \in Nat
        BY <1>2, <1>3
      <4> HIDE DEF o
      <4> QED
        BY <2>1, <3>1, <3>3, <3>4, <3>5, <4>1
  <2>6. CASE ~ more
    <3>1. last = Len(s)
      BY <1>2, <2>1, <2>3, <2>6
    <3>2. pages'.seen = pages.seen \o rows /\ pages'.over
      BY <1>3, <2>6
    <3>3. pages.seen \o rows = s
      <4> HIDE DEF rows, last
      <4>1. /\ pages.seen \o rows \in Seq(shelf) /\ Len(pages.seen \o rows) = Len(s)
            /\ \A j \in 1 .. Len(s) : (pages.seen \o rows)[j] = s[j]
        <5> HIDE DEF o
        <5>1. o \in Nat /\ Len(rows) \in Nat /\ o + Len(rows) = Len(s) /\ Len(rows) = Len(s) - o
          BY <1>2, <2>1, <2>3, <3>1
        <5>2. pages.seen \o rows \in Seq(shelf) /\ Len(pages.seen \o rows) = Len(s)
              /\ \A j \in 1 .. Len(s) : (pages.seen \o rows)[j] = IF j <= o THEN pages.seen[j] ELSE rows[j - o]
          <6>1. pages.seen \in Seq(shelf) /\ rows \in Seq(shelf) /\ Len(pages.seen) = o
            BY <2>3, <2>4
          <6>2. pages.seen \o rows \in Seq(shelf) /\ Len(pages.seen \o rows) = o + Len(rows)
                /\ \A j \in 1 .. o + Len(rows) : (pages.seen \o rows)[j] = IF j <= o THEN pages.seen[j] ELSE rows[j - o]
            BY <6>1, ConcatProperties
          <6> QED
            BY <5>1, <6>2
        <5>3. ASSUME NEW j \in 1 .. Len(s) PROVE (pages.seen \o rows)[j] = s[j]
          <6>1. CASE j <= o
            <7>1. j \in 1 .. o
              BY <5>1, <6>1
            <7> QED
              BY <2>4, <5>2, <6>1, <7>1
          <6>2. CASE ~ (j <= o)
            <7>1. j - o \in 1 .. Len(rows) /\ o + (j - o) = j
              BY <2>1, <5>1, <6>2
            <7> QED
              BY <2>3, <5>1, <5>2, <6>2, <7>1
          <6> QED
            BY <6>1, <6>2
        <5> QED
          BY <5>2, <5>3
      <4> QED
        BY <2>1, <4>1, SeqEqual
    <3> QED
      BY <3>2, <3>3
  <2> QED
    BY <2>5, <2>6
<1> QED
  BY <1>2, <1>3, <1>4 DEF PagesInv

LEMMA PagesStep == PagesInv /\ [ReadNext]_readVars => PagesInv'
<1> SUFFICES ASSUME PagesInv, [ReadNext]_readVars PROVE PagesInv'
  OBVIOUS
<1>1. CASE UNCHANGED readVars
  BY <1>1 DEF readVars, PagesInv, Orders, OwnNames
<1>2. ASSUME NEW a \in Shelf, Arrive(a) \/ Leave(a) PROVE PagesInv'
  <2>1. pages' = pages /\ moves' = moves + 1 /\ shelf' \subseteq Shelf
    BY <1>2 DEF Arrive, Leave, PagesInv
  <2> QED
    BY <2>1 DEF PagesInv
<1> QED
  BY <1>1, <1>2, PageKeeps DEF ReadNext

\* A caller who pages to the end has seen every asset once, whatever their number and the
\* size of a page, if nothing came or went and no two assets share a name
\* (_fetch_asset_list).
THEOREM PagesAreComplete == ReadSpec => []PagesCoverTheList
<1>1. ReadInit => PagesInv
  <2> SUFFICES ASSUME ReadInit PROVE PagesInv
    OBVIOUS
  <2>1. pages = [offset |-> 0, seen |-> <<>>, over |-> FALSE] /\ shelf \subseteq Shelf /\ moves = 0
    BY DEF ReadInit, NoPages
  <2>2. \A s \in Orders : 0 <= Len(s) /\ <<>> = SubSeq(s, 1, 0)
    BY <2>1, OrderLists
  <2> QED
    BY <2>1, <2>2 DEF PagesInv
<1>2. PagesInv => PagesCoverTheList
  BY OrderLists DEF PagesInv, PagesCoverTheList, OwnNames
<1> QED
  BY <1>1, <1>2, PagesStep, PTL DEF ReadSpec
=============================================================================
