---------------------------- MODULE EvalScorers ----------------------------
(***************************************************************************)
(* The scores of a retrieval: the metrics over the list that came back and *)
(* the expected and forbidden assets of a case, and the two scorers that   *)
(* decide whether the case passes.  A fraction is <<number, of how many>>; *)
(* the discounts 1 / log2(rank + 1) are rounded to thousandths.            *)
(***************************************************************************)
EXTENDS Integers, FiniteSets, Sequences, SequencesExt

-----------------------------------------------------------------------------
(* eval/metrics.py *)

Shortest(m, n) == IF m < n THEN m ELSE n
Top(list, k) == SubSeq(list, 1, Shortest(k, Len(list)))
HitsIn(list, rks) == Cardinality({i \in DOMAIN list : list[i] \in rks})
Zero == <<0, 1>>
AtMost(p, q) == p[1] * q[2] <= q[1] * p[2]

precision_at_k(list, relevant, k) ==
  IF k = 0 \/ list = <<>> THEN Zero ELSE <<HitsIn(Top(list, k), relevant), k>>

recall_at_k(list, relevant, k) ==
  IF relevant = {} \/ k = 0 \/ list = <<>> THEN Zero
  ELSE <<HitsIn(Top(list, k), relevant), Cardinality(relevant)>>

RankOfFirst(list, relevant) == SelectInSeq(list, LAMBDA rk : rk \in relevant)

mean_reciprocal_rank(list, relevant) ==
  LET rank == RankOfFirst(list, relevant) IN IF rank = 0 THEN Zero ELSE <<1, rank>>

Discount == <<1000, 631, 500, 431, 387, 356, 333, 315, 301, 289>>

\* Grades: [rk -> 0 .. 2]; an item without one counts as 0.
Gain(grades, rk) == IF rk \in DOMAIN grades THEN 2 ^ grades[rk] - 1 ELSE 0
discounted_cumulative_gain(list, grades, k) ==
  LET top == Top(list, k) IN
  MapThenFoldSet(LAMBDA a, b : a + b, 0, LAMBDA i : Gain(grades, top[i]) * Discount[i],
                 LAMBDA S : CHOOSE i \in S : TRUE, DOMAIN top)

\* The best order there is: every graded item, best first.
IdealOrder(grades) == SetToSortSeq(DOMAIN grades, LAMBDA a, b : grades[a] > grades[b])
ndcg(list, grades, k) ==
  LET ideal == discounted_cumulative_gain(IdealOrder(grades), grades, k) IN
  IF ideal = 0 THEN Zero ELSE <<discounted_cumulative_gain(list, grades, k), ideal>>
Binary(relevant) == [rk \in relevant |-> 1]

hit_rate(list, relevant, k) == \E i \in DOMAIN Top(list, k) : list[i] \in relevant
forbidden_violations(list, forbidden, k) == HitsIn(Top(list, k), forbidden)

-----------------------------------------------------------------------------
(* The scorers' gates, as they are configured by default.                  *)

\* HistoricalComparisonScorer.
HistoricalPasses(list, expected, forbidden, k) ==
  hit_rate(list, expected, k) /\ forbidden_violations(list, forbidden, k) = 0

ItemLimit == 10
MinCoverage == 3

\* LLMJudgeScorer: the last rating that the answer gives an asset counts, 0 if it gives
\* none; 3 of 10 items or more are relevant, or the answer is not enough.
RatingOf(rk, ratings) ==
  LET place == SelectLastInSeq(ratings, LAMBDA r : r.rk = rk) IN
  IF place = 0 THEN 0 ELSE ratings[place].rating
JudgePasses(list, ratings, coverage) ==
  LET items == Top(list, ItemLimit)
      relevant == Cardinality({i \in DOMAIN items : RatingOf(items[i], ratings) = 2}) IN
  items # <<>> /\ coverage >= MinCoverage /\ AtMost(<<3, 10>>, <<relevant, Len(items)>>)

-----------------------------------------------------------------------------
(* What scores promise. *)

\* Without duplicates in the list - a metric counts a hit as often as it is there -
\* precision, recall and reciprocal rank lie between 0 and 1, recall grows with k and is
\* whole exactly if everything was found, and a case that passes has found something at a
\* rank that its reciprocal rank gives (HistoricalComparisonScorer.score).
ScoresAreFractions(list, expected, k) ==
  IsInjective(list) =>
    /\ \A score \in {precision_at_k(list, expected, k), recall_at_k(list, expected, k),
                     mean_reciprocal_rank(list, expected)} :
         AtMost(Zero, score) /\ AtMost(score, <<1, 1>>)
    /\ AtMost(recall_at_k(list, expected, k), recall_at_k(list, expected, k + 1))
    /\ recall_at_k(list, expected, k) = <<Cardinality(expected), Cardinality(expected)>>
         <=> expected # {} /\ expected \subseteq ToSet(Top(list, k))
    /\ \A forbidden \in SUBSET expected :
         HistoricalPasses(list, expected, forbidden, k) =>
           /\ AtMost(<<1, k>>, mean_reciprocal_rank(list, expected))
           /\ mean_reciprocal_rank(list, expected)[2] \notin {i \in DOMAIN Top(list, k) : list[i] \in forbidden}
           /\ precision_at_k(list, expected, k)[1] # 0

\* Nor does a gain count beyond that of the best order: the score of a list lies between 0
\* and 1, and is that of its best order exactly if no item stands below one of a lower
\* grade that it could have replaced (ndcg).
BestOrderIsOne(list, expected, grades, k) ==
  IsInjective(list) =>
    /\ \A score \in {ndcg(list, grades, k), ndcg(list, Binary(expected), k)} :
         AtMost(Zero, score) /\ AtMost(score, <<1, 1>>)
    /\ (\E rk \in DOMAIN grades : grades[rk] # 0) /\ k # 0 =>
         (AtMost(<<1, 1>>, ndcg(list, grades, k)) <=>
            \A i \in 1 .. Shortest(k, Cardinality({rk \in DOMAIN grades : grades[rk] # 0})) :
              i <= Len(list) /\ \A rk \in DOMAIN grades \ ToSet(Top(list, i)) :
                 Gain(grades, rk) <= Gain(grades, list[i]))

\* An item that the judge does not mention, or a list that is empty, never helps a case
\* to pass (LLMJudgeScorer.score).
JudgeIsStrict(list, ratings, coverage) ==
  JudgePasses(list, ratings, coverage) =>
    /\ coverage >= MinCoverage
    /\ \E i \in DOMAIN list : i <= ItemLimit /\ [rk |-> list[i], rating |-> 2] \in ToSet(ratings)
=============================================================================
