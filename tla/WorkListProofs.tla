--------------------------- MODULE WorkListProofs ---------------------------
(***************************************************************************)
(* Proofs about the components that work from a list: the activities that  *)
(* a job's plan leaves to do (JobWorkflows), the files that a run of the   *)
(* preview has yet to write (PreviewTree) and the rows of the queue of     *)
(* reindex work (ReindexWorker).  The lists of the first two are put       *)
(* together from lists, so the lemmas on FlattenSeq come first.            *)
(***************************************************************************)
EXTENDS JobWorkflows, PreviewTree, ReindexWorker, FiniteSetTheorems, SequenceTheorems,
        WellFoundedInduction, TLAPS

-----------------------------------------------------------------------------
(* Lists of lists: where a member of FlattenSeq comes from. *)

\* Induction on the numbers up to n, as a fact about sets.
LEMMA Climb ==
  ASSUME NEW n \in Nat, NEW good,
         0 \in good, \A m \in 1 .. n : m - 1 \in good => m \in good
  PROVE  \A m \in 0 .. n : m \in good
<1> DEFINE bad == {m \in 0 .. n : m \notin good}
<1> SUFFICES ASSUME bad # {} PROVE FALSE
  OBVIOUS
<1>1. bad \in SUBSET Nat
  OBVIOUS
<1>2. PICK m \in bad : \A j \in bad : ~ (<<j, m>> \in OpToRel(<, Nat))
  <2> HIDE DEF bad
  <2> QED
    BY <1>1, NatLessThanWellFounded, WFMin
<1>3. m \in 0 .. n /\ m \notin good
  OBVIOUS
<1>4. m # 0 /\ m \in 1 .. n /\ m - 1 \in 0 .. n
  BY <1>3
<1>5. m - 1 \notin bad
  <2>1. m - 1 \in Nat /\ m \in Nat /\ m - 1 < m
    BY <1>4
  <2>2. <<m - 1, m>> \in OpToRel(<, Nat)
    BY <2>1 DEF OpToRel
  <2> HIDE DEF bad
  <2> QED
    BY <1>2, <2>2
<1> QED
  BY <1>3, <1>4, <1>5

\* The function that FlattenSeq is defined by exists: its values are the concatenations
\* of the first members.
LEMMA Flattened ==
  ASSUME NEW ss, Len(ss) \in Nat \ {0}
  PROVE  \E h : /\ h = [i \in 1 .. Len(ss) |-> IF i = 1 THEN ss[i] ELSE h[i - 1] \o ss[i]]
                /\ FlattenSeq(ss) = h[Len(ss)]
<1> DEFINE n == Len(ss)
           Is(h, m) == h = [i \in 1 .. m |-> IF i = 1 THEN ss[i] ELSE h[i - 1] \o ss[i]]
           good == {m \in 0 .. n : \E h : Is(h, m)}
<1>1. n \in Nat /\ n # 0
  OBVIOUS
<1> HIDE DEF n
<1>2. 0 \in good
  <2>1. Is([i \in 1 .. 0 |-> ss[i]], 0)
    OBVIOUS
  <2>2. 0 \in 0 .. n
    BY <1>1
  <2> HIDE DEF Is
  <2> QED
    BY <2>1, <2>2
<1>3. ASSUME NEW m \in 1 .. n, m - 1 \in good PROVE m \in good
  <2>1. PICK h : Is(h, m - 1)
    BY <1>3
  <2> DEFINE e == [i \in 1 .. m |-> IF i = m THEN IF i = 1 THEN ss[i] ELSE h[i - 1] \o ss[i] ELSE h[i]]
  <2>2. \A i \in 1 .. m : e[i] = IF i = 1 THEN ss[i] ELSE e[i - 1] \o ss[i]
    <3> SUFFICES ASSUME NEW i \in 1 .. m PROVE e[i] = IF i = 1 THEN ss[i] ELSE e[i - 1] \o ss[i]
      OBVIOUS
    <3>0. m \in Nat /\ i \in Nat
      BY <1>1
    <3>1. CASE i = 1
      <4>1. CASE m = 1
        BY <3>1, <4>1
      <4>2. CASE m # 1
        <5>1. i \in 1 .. m - 1 /\ i # m
          BY <3>0, <3>1, <4>2
        <5> QED
          BY <2>1, <3>1, <5>1
      <4> QED
        BY <4>1, <4>2
    <3>2. CASE i # 1
      <4>1. i - 1 \in 1 .. m /\ i - 1 # m /\ e[i - 1] = h[i - 1]
        BY <3>0, <3>2
      <4>2. CASE i = m
        BY <4>1, <4>2, <3>2
      <4>3. CASE i # m
        <5>1. i \in 1 .. m - 1
          BY <3>0, <4>3
        <5> QED
          BY <2>1, <3>2, <4>1, <4>3, <5>1
      <4> QED
        BY <4>2, <4>3
    <3> QED
      BY <3>1, <3>2
  <2>3. DOMAIN e = 1 .. m
    OBVIOUS
  <2>4. e = [i \in 1 .. m |-> e[i]]
    OBVIOUS
  <2> HIDE DEF e
  <2>5. Is(e, m)
    BY <2>2, <2>4
  <2>6. m \in 0 .. n
    BY <1>1
  <2> HIDE DEF Is
  <2> QED
    BY <2>5, <2>6
<1>4. \E h : Is(h, n)
  <2>1. n \in good
    <3> HIDE DEF good
    <3> QED
      BY <1>1, <1>2, <1>3, Climb
  <2> QED
    BY <2>1
<1> DEFINE flat[i \in 1 .. n] == IF i = 1 THEN ss[i] ELSE flat[i - 1] \o ss[i]
<1>5. FlattenSeq(ss) = flat[n]
  BY <1>1 DEF FlattenSeq, n
<1>6. flat = CHOOSE h : Is(h, n)
  OBVIOUS
<1> HIDE DEF flat
<1>7. Is(flat, n)
  BY <1>4, <1>6
<1> QED
  BY <1>5, <1>7 DEF n

LEMMA Joined ==
  ASSUME NEW S, NEW s \in Seq(S), NEW t \in Seq(S)
  PROVE  /\ s \o t \in Seq(S) /\ Len(s \o t) = Len(s) + Len(t)
         /\ \A m \in 1 .. Len(s) : (s \o t)[m] = s[m] /\ m \in 1 .. Len(s \o t)
         /\ \A j \in 1 .. Len(t) : (s \o t)[Len(s) + j] = t[j] /\ Len(s) + j \in 1 .. Len(s \o t)
OBVIOUS

\* FlattenSeq: its members are those of the sequences it is given, one sequence after the
\* other; ends[i] is where the i-th ends.
LEMMA Flattening ==
  ASSUME NEW S, NEW ss \in Seq(Seq(S))
  PROVE  /\ FlattenSeq(ss) \in Seq(S)
         /\ \E ends \in [0 .. Len(ss) -> Nat] :
              /\ ends[0] = 0 /\ ends[Len(ss)] = Len(FlattenSeq(ss))
              /\ \A i \in 1 .. Len(ss) : ends[i] = ends[i - 1] + Len(ss[i])
              /\ \A i \in 1 .. Len(ss) : \A j \in 1 .. Len(ss[i]) :
                   FlattenSeq(ss)[ends[i - 1] + j] = ss[i][j]
<1>1. CASE Len(ss) = 0
  <2>1. FlattenSeq(ss) = ss /\ ss = <<>>
    BY <1>1 DEF FlattenSeq
  <2>2. [i \in 0 .. 0 |-> 0] \in [0 .. 0 -> Nat]
    OBVIOUS
  <2>3. <<>> \in Seq(S) /\ Len(<<>>) = 0 /\ ss \in Seq(S)
    BY <2>1
  <2> DEFINE ends == [i \in 0 .. 0 |-> 0]
  <2>4. ends[0] = 0 /\ \A i \in 1 .. 0 : FALSE
    OBVIOUS
  <2> HIDE DEF ends
  <2> QED
    BY <1>1, <2>1, <2>2, <2>3, <2>4 DEF ends
<1>2. CASE Len(ss) # 0
  <2>1. Len(ss) \in Nat \ {0} /\ \A i \in 1 .. Len(ss) : ss[i] \in Seq(S)
    BY <1>2
  <2>2. PICK h : /\ h = [i \in 1 .. Len(ss) |-> IF i = 1 THEN ss[i] ELSE h[i - 1] \o ss[i]]
                 /\ FlattenSeq(ss) = h[Len(ss)]
    BY <2>1, Flattened
  <2> DEFINE n == Len(ss)
             end(i) == IF i = 0 THEN 0 ELSE Len(h[i])
             Fine(i) == /\ h[i] \in Seq(S) /\ Len(h[i]) = end(i - 1) + Len(ss[i])
                        /\ \A k \in 1 .. i : \A j \in 1 .. Len(ss[k]) :
                             end(k - 1) + j \in 1 .. Len(h[i]) /\ h[i][end(k - 1) + j] = ss[k][j]
             good == {i \in 0 .. n : i # 0 => Fine(i)}
  <2>3. n \in Nat /\ n # 0
    BY <2>1
  <2>4. /\ h[1] = ss[1]
        /\ \A i \in 2 .. n : h[i] = h[i - 1] \o ss[i]
    <3>1. 1 \in 1 .. n /\ \A i \in 2 .. n : i \in 1 .. n /\ i # 1
      BY <2>3
    <3> QED
      BY <2>2, <3>1
  <2> HIDE DEF n
  <2>5. 0 \in good
    BY <2>3
  <2>6. ASSUME NEW i \in 1 .. n, i - 1 \in good PROVE i \in good
    <3>0. i \in Nat /\ i \in 0 .. n /\ ss[i] \in Seq(S)
      BY <2>1, <2>3 DEF n
    <3>1. CASE i = 1
      <4>1. Fine(1)
        BY <2>4, <3>0, <3>1
      <4> QED
        BY <3>0, <3>1, <4>1
    <3>2. CASE i # 1
      <4>0. i - 1 \in Nat /\ i - 1 # 0 /\ i \in 2 .. n /\ i - 1 \in 1 .. n
        BY <2>3, <3>0, <3>2
      <4>1. h[i - 1] \in Seq(S) /\ Fine(i - 1)
        BY <2>6, <4>0
      <4>2. h[i] = h[i - 1] \o ss[i]
        BY <2>4, <4>0
      <4>3. /\ h[i] \in Seq(S) /\ Len(h[i]) = Len(h[i - 1]) + Len(ss[i])
            /\ \A m \in 1 .. Len(h[i - 1]) : h[i][m] = h[i - 1][m] /\ m \in 1 .. Len(h[i])
            /\ \A j \in 1 .. Len(ss[i]) : h[i][Len(h[i - 1]) + j] = ss[i][j]
                                        /\ Len(h[i - 1]) + j \in 1 .. Len(h[i])
        <5> DEFINE a == h[i - 1]
                   b == ss[i]
        <5>1. a \in Seq(S) /\ b \in Seq(S) /\ h[i] = a \o b
          BY <3>0, <4>1, <4>2
        <5> HIDE DEF a, b
        <5>2. /\ a \o b \in Seq(S) /\ Len(a \o b) = Len(a) + Len(b)
              /\ \A m \in 1 .. Len(a) : (a \o b)[m] = a[m] /\ m \in 1 .. Len(a \o b)
              /\ \A j \in 1 .. Len(b) : (a \o b)[Len(a) + j] = b[j] /\ Len(a) + j \in 1 .. Len(a \o b)
          BY <5>1, Joined
        <5> QED
          BY <5>1, <5>2, Zenon DEF a, b
      <4>4. end(i - 1) = Len(h[i - 1])
        BY <4>0
      <4>5. ASSUME NEW k \in 1 .. i, NEW j \in 1 .. Len(ss[k])
            PROVE  end(k - 1) + j \in 1 .. Len(h[i]) /\ h[i][end(k - 1) + j] = ss[k][j]
        <5>1. CASE k = i
          BY <4>3, <4>4, <5>1
        <5>2. CASE k # i
          <6>1. k \in 1 .. i - 1
            BY <3>0, <5>2
          <6>2. end(k - 1) + j \in 1 .. Len(h[i - 1]) /\ h[i - 1][end(k - 1) + j] = ss[k][j]
            BY <4>1, <6>1
          <6> HIDE DEF end
          <6> QED
            BY <4>3, <6>2
        <5> QED
          BY <5>1, <5>2
      <4>6. Fine(i)
        BY <4>3, <4>4, <4>5
      <4> HIDE DEF Fine
      <4> QED
        BY <3>0, <4>6
    <3> QED
      BY <3>1, <3>2
  <2>7. \A i \in 0 .. n : i \in good
    <3> HIDE DEF good
    <3> QED
      BY <2>3, <2>5, <2>6, Climb
  <2>8. \A i \in 1 .. n : Fine(i)
    <3>1. \A i \in 1 .. n : i \in 0 .. n /\ i # 0
      BY <2>3
    <3> HIDE DEF Fine
    <3> QED
      BY <2>7, <3>1
  <2> DEFINE ends == [i \in 0 .. n |-> end(i)]
  <2>9. ends \in [0 .. n -> Nat]
    <3>1. \A i \in 0 .. n : i = 0 \/ i \in 1 .. n
      BY <2>3
    <3> QED
      BY <2>8, <3>1
  <2>10. /\ n \in 1 .. n /\ n \in 0 .. n /\ 0 \in 0 .. n
         /\ \A i \in 1 .. n : i \in 0 .. n /\ i - 1 \in 0 .. n /\ i # 0
    BY <2>3
  <2>11. /\ FlattenSeq(ss) \in Seq(S) /\ ends[0] = 0 /\ ends[n] = Len(FlattenSeq(ss))
         /\ \A i \in 1 .. n : ends[i] = ends[i - 1] + Len(ss[i])
    BY <2>2, <2>3, <2>8, <2>10 DEF n
  <2>12. \A i \in 1 .. n : \A j \in 1 .. Len(ss[i]) : FlattenSeq(ss)[ends[i - 1] + j] = ss[i][j]
    <3> SUFFICES ASSUME NEW i \in 1 .. n, NEW j \in 1 .. Len(ss[i])
                 PROVE  FlattenSeq(ss)[ends[i - 1] + j] = ss[i][j]
      OBVIOUS
    <3>1. Fine(n) /\ i \in 1 .. n /\ ends[i - 1] = end(i - 1)
      BY <2>8, <2>10
    <3>2. h[n][end(i - 1) + j] = ss[i][j]
      BY <3>1
    <3>3. FlattenSeq(ss) = h[n]
      BY <2>2 DEF n
    <3>4. ends[i - 1] = end(i - 1)
      BY <3>1
    <3> HIDE DEF ends, end
    <3> QED
      BY <3>2, <3>3, <3>4
  <2> HIDE DEF ends
  <2> QED
    BY <2>9, <2>11, <2>12 DEF n
<1> QED
  BY <1>1, <1>2
\* The sums of the lengths of the members: every place is in one of them.
LEMMA Places ==
  ASSUME NEW n \in Nat, NEW ends \in [0 .. n -> Nat], NEW len \in [1 .. n -> Nat],
         ends[0] = 0, \A i \in 1 .. n : ends[i] = ends[i - 1] + len[i]
  PROVE  /\ \A p \in 1 .. ends[n] : \E i \in 1 .. n : \E j \in 1 .. len[i] : p = ends[i - 1] + j
         /\ \A m \in 0 .. n : \A i \in 0 .. m : ends[i] <= ends[m]
<1> DEFINE Within(m) == /\ \A p \in 1 .. ends[m] : \E i \in 1 .. n : \E j \in 1 .. len[i] : p = ends[i - 1] + j
                        /\ \A i \in 0 .. m : ends[i] <= ends[m]
           good == {m \in 0 .. n : Within(m)}
<1>1. 0 \in good
  <2>1. 0 \in 0 .. n /\ \A i \in 0 .. 0 : i = 0
    OBVIOUS
  <2> QED
    BY <2>1
<1>2. ASSUME NEW m \in 1 .. n, m - 1 \in good PROVE m \in good
  <2>1. m \in 0 .. n /\ m - 1 \in 0 .. n /\ m \in Nat /\ ends[m] = ends[m - 1] + len[m] /\ Within(m - 1)
        /\ ends[m] \in Nat /\ ends[m - 1] \in Nat /\ len[m] \in Nat
    BY <1>2
  <2>2. ASSUME NEW p \in 1 .. ends[m]
        PROVE  \E i \in 1 .. n : \E j \in 1 .. len[i] : p = ends[i - 1] + j
    <3>1. CASE p <= ends[m - 1]
      BY <2>1, <3>1
    <3>2. CASE ~ (p <= ends[m - 1])
      <4>1. p - ends[m - 1] \in 1 .. len[m] /\ p = ends[m - 1] + (p - ends[m - 1])
        BY <2>1, <3>2
      <4> QED
        BY <4>1
    <3> QED
      BY <3>1, <3>2
  <2>3. ASSUME NEW i \in 0 .. m PROVE ends[i] <= ends[m]
    <3>1. i = m \/ i \in 0 .. m - 1
      BY <2>1
    <3>2. i \in 0 .. n /\ ends[i] \in Nat
      BY <2>1
    <3>3. CASE i = m
      BY <2>1, <3>3
    <3>4. CASE i \in 0 .. m - 1
      <4>1. ends[i] <= ends[m - 1]
        BY <2>1, <3>4
      <4> QED
        BY <2>1, <3>2, <4>1
    <3> QED
      BY <3>1, <3>3, <3>4
  <2> QED
    BY <2>1, <2>2, <2>3
<1>3. \A m \in 0 .. n : m \in good
  <2> HIDE DEF good
  <2> QED
    BY <1>1, <1>2, Climb
<1>4. \A m \in 0 .. n : Within(m)
  BY <1>3
<1>5. n \in 0 .. n
  OBVIOUS
<1> QED
  BY <1>4, <1>5

\* The ends of n sequences one after the other, and what lies at the places before the last
\* end: the sequence of[p] and its place no[p].
Ends(n, ends, len) ==
  /\ n \in Nat /\ ends \in [0 .. n -> Nat] /\ len \in [1 .. n -> Nat]
  /\ ends[0] = 0 /\ \A i \in 1 .. n : ends[i] = ends[i - 1] + len[i]
Lies(n, ends, len, of, no) ==
  /\ of \in [1 .. ends[n] -> 1 .. n] /\ no \in [1 .. ends[n] -> Nat]
  /\ \A p \in 1 .. ends[n] : no[p] \in 1 .. len[of[p]] /\ p = ends[of[p] - 1] + no[p]
  /\ \A i \in 1 .. n : \A j \in 1 .. len[i] :
       /\ ends[i - 1] + j \in 1 .. ends[n]
       /\ of[ends[i - 1] + j] = i /\ no[ends[i - 1] + j] = j
  /\ \A p, q \in 1 .. ends[n] : p < q => of[p] <= of[q]

LEMMA Numbered ==
  ASSUME NEW n, NEW ends, NEW len, Ends(n, ends, len)
  PROVE  \E of, no : Lies(n, ends, len, of, no)
<1>a. n \in Nat /\ ends \in [0 .. n -> Nat] /\ len \in [1 .. n -> Nat]
  BY DEF Ends
<1>b. ends[0] = 0 /\ \A i \in 1 .. n : ends[i] = ends[i - 1] + len[i]
  BY DEF Ends
<1>1. /\ \A p \in 1 .. ends[n] : \E i \in 1 .. n : \E j \in 1 .. len[i] : p = ends[i - 1] + j
      /\ \A m \in 0 .. n : \A i \in 0 .. m : ends[i] <= ends[m]
  BY <1>a, <1>b, Places
<1> DEFINE of == [p \in 1 .. ends[n] |-> CHOOSE i \in 1 .. n : \E j \in 1 .. len[i] : p = ends[i - 1] + j]
           no == [p \in 1 .. ends[n] |-> p - ends[of[p] - 1]]
<1>2. \A p \in 1 .. ends[n] : of[p] \in 1 .. n /\ \E j \in 1 .. len[of[p]] : p = ends[of[p] - 1] + j
  BY <1>1
<1>3. of \in [1 .. ends[n] -> 1 .. n]
  BY <1>2
<1>4. \A p \in 1 .. ends[n] : no[p] = p - ends[of[p] - 1]
  OBVIOUS
<1> HIDE DEF of
<1>0. \A i \in 1 .. n : /\ i \in 0 .. n /\ i - 1 \in 0 .. n /\ i \in Nat
                        /\ ends[i] \in Nat /\ ends[i - 1] \in Nat /\ len[i] \in Nat
  BY <1>a
<1>5. ASSUME NEW p \in 1 .. ends[n]
      PROVE  no[p] \in 1 .. len[of[p]] /\ p = ends[of[p] - 1] + no[p] /\ no[p] \in Nat
  <2>1. PICK i \in 1 .. n : i = of[p] /\ \E j \in 1 .. len[i] : p = ends[i - 1] + j
    BY <1>2
  <2>2. PICK e \in Nat, l \in Nat : e = ends[i - 1] /\ l = len[i]
    BY <1>0
  <2>3. PICK j \in 1 .. l : p = e + j
    BY <2>1, <2>2
  <2>4. no[p] = p - e
    BY <1>4, <2>1, <2>2
  <2>5. no[p] = j
    <3> HIDE DEF no
    <3> QED
      BY <2>3, <2>4
  <2> HIDE DEF no
  <2> QED
    <3>1. j \in Nat
      BY <2>2
    <3>2. j \in 1 .. len[of[p]] /\ p = ends[of[p] - 1] + j
      BY <2>1, <2>2, <2>3, Zenon
    <3> QED
      BY <2>5, <3>1, <3>2, Zenon
<1>6. no \in [1 .. ends[n] -> Nat]
  <2>1. \A p \in 1 .. ends[n] : no[p] \in Nat
    BY <1>5
  <2> QED
    BY <2>1
<1> HIDE DEF no
<1>7. ASSUME NEW i \in 1 .. n, NEW j \in 1 .. len[i] PROVE ends[i - 1] + j \in 1 .. ends[n]
  <2>1. ends[i] <= ends[n] /\ n \in 0 .. n /\ ends[n] \in Nat
    BY <1>0, <1>1, <1>a
  <2> QED
    BY <1>0, <1>b, <2>1
\* The members do not overlap.
<1>8. ASSUME NEW i \in 1 .. n, NEW k \in 1 .. n, NEW j \in 1 .. len[i], NEW l \in 1 .. len[k],
             ends[i - 1] + j <= ends[k - 1] + l
      PROVE  i <= k
  <2> SUFFICES ASSUME k < i PROVE FALSE
    BY <1>0
  <2>1. k \in 0 .. i - 1
    BY <1>0
  <2>2. ends[k] <= ends[i - 1]
    BY <1>0, <1>1, <2>1
  <2>3. PICK e \in Nat, d \in Nat, m \in Nat : e = ends[i - 1] /\ d = ends[k - 1] /\ m = len[k]
    BY <1>0
  <2>4. PICK x \in Nat, y \in Nat : x = j /\ y = l /\ x >= 1 /\ y <= m
    BY <1>0, <2>3
  <2>5. d + m <= e
    <3>1. ends[k] = d + m
      BY <1>b, <2>3
    <3> QED
      BY <2>2, <2>3, <3>1
  <2>6. e + x <= d + y
    BY <1>8, <2>3, <2>4
  <2> QED
    BY <2>4, <2>5, <2>6
<1>9. ASSUME NEW i \in 1 .. n, NEW j \in 1 .. len[i]
      PROVE  of[ends[i - 1] + j] = i /\ no[ends[i - 1] + j] = j
  <2>1. PICK p \in 1 .. ends[n] : p = ends[i - 1] + j
    BY <1>7
  <2>2. PICK k \in 1 .. n : k = of[p]
    BY <1>2
  <2>3. PICK l \in 1 .. len[k] : l = no[p] /\ p = ends[k - 1] + l
    BY <1>5, <2>2
  <2>4. PICK e \in Nat, d \in Nat : e = ends[i - 1] /\ d = ends[k - 1]
    BY <1>0
  <2>5. j \in Nat /\ l \in Nat
    BY <1>0
  <2>6. e + j = d + l
    BY <2>1, <2>3, <2>4
  <2>7. i <= k /\ k <= i
    <3>1. e + j <= d + l /\ d + l <= e + j
      BY <2>4, <2>5, <2>6
    <3> QED
      BY <1>8, <2>4, <3>1
  <2>8. i = k
    BY <1>0, <2>7
  <2>9. l = j
    BY <2>4, <2>5, <2>6, <2>8
  <2> QED
    BY <2>1, <2>2, <2>3, <2>8, <2>9
<1>10. ASSUME NEW p \in 1 .. ends[n], NEW q \in 1 .. ends[n], p < q PROVE of[p] <= of[q]
  <2>1. PICK i \in 1 .. n, k \in 1 .. n : i = of[p] /\ k = of[q]
    BY <1>2
  <2>2. PICK j \in 1 .. len[i], l \in 1 .. len[k] : p = ends[i - 1] + j /\ q = ends[k - 1] + l
    BY <1>5, <2>1
  <2>3. ends[i - 1] + j <= ends[k - 1] + l
    BY <1>10, <2>2
  <2> QED
    BY <1>8, <2>1, <2>3
<1>11. /\ \A p \in 1 .. ends[n] : no[p] \in 1 .. len[of[p]] /\ p = ends[of[p] - 1] + no[p]
       /\ \A i \in 1 .. n : \A j \in 1 .. len[i] :
            /\ ends[i - 1] + j \in 1 .. ends[n]
            /\ of[ends[i - 1] + j] = i /\ no[ends[i - 1] + j] = j
       /\ \A p, q \in 1 .. ends[n] : p < q => of[p] <= of[q]
  BY <1>5, <1>7, <1>9, <1>10, Zenon
<1>12. Lies(n, ends, len, of, no)
  BY <1>3, <1>6, <1>11, Zenon DEF Lies
<1> QED
  BY <1>12, Zenon

\* The places of a flattened sequence: of[p] says of which of the n sequences the one at p
\* is, and no[p] which place of it.
Counts(n, size, len, of, no) ==
  /\ of \in [1 .. size -> 1 .. n] /\ no \in [1 .. size -> Nat]
  /\ \A p \in 1 .. size : no[p] \in 1 .. len[of[p]]
  /\ \A i \in 1 .. n : \A j \in 1 .. len[i] : \E p \in 1 .. size : of[p] = i /\ no[p] = j
  /\ \A p \in 1 .. size : no[p] < len[of[p]] =>
       p + 1 \in 1 .. size /\ of[p + 1] = of[p] /\ no[p + 1] = no[p] + 1
  /\ \A p \in 1 .. size : no[p] > 1 =>
       p - 1 \in 1 .. size /\ of[p - 1] = of[p] /\ no[p - 1] = no[p] - 1
  /\ \A p, q \in 1 .. size : p < q => of[p] <= of[q] /\ (of[p] = of[q] => no[p] < no[q])

LEMMA Counted ==
  ASSUME NEW n, NEW ends, NEW len, NEW of, NEW no, Ends(n, ends, len), Lies(n, ends, len, of, no),
         NEW size, size = ends[n]
  PROVE  Counts(n, size, len, of, no)
<1>a. n \in Nat /\ ends \in [0 .. n -> Nat] /\ len \in [1 .. n -> Nat]
  BY DEF Ends
<1>b. /\ \A p \in 1 .. size : no[p] \in 1 .. len[of[p]] /\ p = ends[of[p] - 1] + no[p]
      /\ \A i \in 1 .. n : \A j \in 1 .. len[i] :
           /\ ends[i - 1] + j \in 1 .. size
           /\ of[ends[i - 1] + j] = i /\ no[ends[i - 1] + j] = j
      /\ \A p, q \in 1 .. size : p < q => of[p] <= of[q]
  BY Zenon DEF Lies
<1>12. of \in [1 .. size -> 1 .. n] /\ no \in [1 .. size -> Nat]
  BY Zenon DEF Lies
<1>c. size \in Nat
  <2>1. n \in 0 .. n
    BY <1>a
  <2> QED
    BY <1>a, <2>1
<1>0. \A i \in 1 .. n : /\ i - 1 \in 0 .. n /\ ends[i - 1] \in Nat /\ len[i] \in Nat
  BY <1>a
<1>1. \A p \in 1 .. size : of[p] \in 1 .. n /\ no[p] \in Nat
  BY <1>12
<1>8. ASSUME NEW p \in 1 .. size, no[p] < len[of[p]]
      PROVE  p + 1 \in 1 .. size /\ of[p + 1] = of[p] /\ no[p + 1] = no[p] + 1
  <2>1. PICK i \in 1 .. n, j \in Nat : i = of[p] /\ j = no[p]
    BY <1>1
  <2>2. PICK e \in Nat, l \in Nat : e = ends[i - 1] /\ l = len[i]
    BY <1>0
  <2>3. j \in 1 .. l /\ p = e + j /\ j < l
    BY <1>8, <1>b, <2>1, <2>2, Zenon
  <2>4. j + 1 \in 1 .. l /\ p + 1 = e + (j + 1)
    BY <2>3
  <2>5. PICK k : k = j + 1
    OBVIOUS
  <2>6. k \in 1 .. len[i]
    BY <2>2, <2>4, <2>5, Zenon
  <2>7. ends[i - 1] + k \in 1 .. size /\ of[ends[i - 1] + k] = i /\ no[ends[i - 1] + k] = k
    BY <1>b, <2>6, Zenon
  <2>8. p + 1 = ends[i - 1] + k
    BY <2>2, <2>4, <2>5, Zenon
  <2> QED
    BY <2>1, <2>5, <2>7, <2>8, Zenon
<1>9. ASSUME NEW p \in 1 .. size, no[p] > 1
      PROVE  p - 1 \in 1 .. size /\ of[p - 1] = of[p] /\ no[p - 1] = no[p] - 1
  <2>1. PICK i \in 1 .. n, j \in Nat : i = of[p] /\ j = no[p]
    BY <1>1
  <2>2. PICK e \in Nat, l \in Nat : e = ends[i - 1] /\ l = len[i]
    BY <1>0
  <2>3. j \in 1 .. l /\ p = e + j /\ j > 1
    BY <1>9, <1>b, <2>1, <2>2, Zenon
  <2>4. j - 1 \in 1 .. l /\ p - 1 = e + (j - 1)
    BY <2>3
  <2>5. PICK k : k = j - 1
    OBVIOUS
  <2>6. k \in 1 .. len[i]
    BY <2>2, <2>4, <2>5, Zenon
  <2>7. ends[i - 1] + k \in 1 .. size /\ of[ends[i - 1] + k] = i /\ no[ends[i - 1] + k] = k
    BY <1>b, <2>6, Zenon
  <2>8. p - 1 = ends[i - 1] + k
    BY <2>2, <2>4, <2>5, Zenon
  <2> QED
    BY <2>1, <2>5, <2>7, <2>8, Zenon
<1>10. ASSUME NEW p \in 1 .. size, NEW q \in 1 .. size, p < q
       PROVE  of[p] <= of[q] /\ (of[p] = of[q] => no[p] < no[q])
  <2>1. of[p] <= of[q]
    BY <1>10, <1>b
  <2>2. ASSUME of[p] = of[q] PROVE no[p] < no[q]
    <3>1. PICK i \in 1 .. n, j \in Nat, k \in Nat : i = of[p] /\ j = no[p] /\ k = no[q]
      BY <1>1
    <3>2. PICK e \in Nat : e = ends[i - 1]
      BY <1>0
    <3>3. p = e + j /\ q = e + k
      BY <1>b, <2>2, <3>1, <3>2, Zenon
    <3>4. j < k
      BY <1>10, <3>3
    <3> QED
      BY <3>1, <3>4, Zenon
  <2> QED
    BY <2>1, <2>2
<1>11. ASSUME NEW i \in 1 .. n, NEW j \in 1 .. len[i]
       PROVE  \E p \in 1 .. size : of[p] = i /\ no[p] = j
  <2>1. ends[i - 1] + j \in 1 .. size /\ of[ends[i - 1] + j] = i /\ no[ends[i - 1] + j] = j
    BY <1>b
  <2> QED
    BY <2>1, Zenon
<1>13. \A p \in 1 .. size : no[p] \in 1 .. len[of[p]]
  BY <1>b
<1> QED
  BY <1>8, <1>9, <1>10, <1>11, <1>12, <1>13, Zenon DEF Counts

\* The members of a flattened sequence are those of the sequences it is made of.
Lengths(ss) == [i \in 1 .. Len(ss) |-> Len(ss[i])]
Numbers(ss, of, no) ==
  /\ Counts(Len(ss), Len(FlattenSeq(ss)), Lengths(ss), of, no)
  /\ \A p \in 1 .. Len(FlattenSeq(ss)) : FlattenSeq(ss)[p] = ss[of[p]][no[p]]

LEMMA Members ==
  ASSUME NEW S, NEW ss \in Seq(Seq(S))
  PROVE  FlattenSeq(ss) \in Seq(S) /\ \E of, no : Numbers(ss, of, no)
<1> DEFINE all == FlattenSeq(ss)
           n == Len(ss)
           len == Lengths(ss)
<1>1. n \in Nat /\ len \in [1 .. n -> Nat] /\ \A i \in 1 .. n : len[i] = Len(ss[i])
  BY DEF Lengths
<1>2. all \in Seq(S) /\ Len(all) \in Nat
  BY Flattening
<1>3. PICK ends \in [0 .. n -> Nat] :
        /\ ends[0] = 0 /\ ends[n] = Len(all)
        /\ \A i \in 1 .. n : ends[i] = ends[i - 1] + Len(ss[i])
        /\ \A i \in 1 .. n : \A j \in 1 .. Len(ss[i]) : all[ends[i - 1] + j] = ss[i][j]
  BY Flattening
<1> HIDE DEF all, n, len
<1>4. Ends(n, ends, len)
  BY <1>1, <1>3 DEF Ends
<1>5. PICK of, no : Lies(n, ends, len, of, no)
  BY <1>4, Numbered
<1>6. Counts(n, Len(all), len, of, no)
  BY <1>3, <1>4, <1>5, Counted
<1>9. \A p \in 1 .. Len(all) : of[p] \in 1 .. n /\ no[p] \in 1 .. len[of[p]] /\ p = ends[of[p] - 1] + no[p]
  BY <1>3, <1>5, Zenon DEF Lies
<1>10. ASSUME NEW p \in 1 .. Len(all) PROVE all[p] = ss[of[p]][no[p]]
  <2>1. no[p] \in 1 .. Len(ss[of[p]])
    BY <1>1, <1>9, Zenon
  <2> QED
    BY <1>3, <1>9, <2>1, Zenon
<1>11. Numbers(ss, of, no)
  BY <1>6, <1>10 DEF Numbers, all, n, len
<1> QED
  BY <1>2, <1>11 DEF all

-----------------------------------------------------------------------------
(* The workflows of YAML job files. *)

FlowSpec == FlowInit /\ [][FlowNext]_flowVars

-----------------------------------------------------------------------------
(* What a file asks for. *)

\* The files that are started.
Good(f) == f \in JobFiles /\ Loads(f) /\ f.type \in Registered

LEMMA FilesFine ==
  ASSUME NEW f, Good(f)
  PROVE  /\ f.steps \in Seq(ToSet(f.steps)) /\ f.steps # <<>> /\ Len(f.steps) \in Nat
         /\ f.post \subseteq {"summary", "chart"}
         /\ \A k \in 1 .. Len(f.steps) : f.steps[k].kind \in StepKinds
         /\ \A k, l \in 1 .. Len(f.steps) : f.steps[k].id = f.steps[l].id => k = l
         /\ \A k \in 1 .. Len(f.steps) : f.steps[k].consumes \subseteq IdsOf(f)
         /\ IdsOf(f) = {f.steps[k].id : k \in 1 .. Len(f.steps)}
         /\ IdsOf(f) \subseteq StepIds
<1>1. PICK d \in Directories : f \in ToSet(d)
  BY DEF Good, JobFiles
<1>2. /\ f.steps \in Seq(ToSet(f.steps)) /\ f.steps # <<>> /\ f.post \subseteq {"summary", "chart"}
      /\ \A s \in ToSet(f.steps) : s.kind \in StepKinds
  <2>1. /\ f.steps \in Seq(ToSet(f.steps)) \ {<<>>} /\ f.post \subseteq {"summary", "chart"}
        /\ f.readable => \A s \in ToSet(f.steps) : s.kind \in StepKinds
    BY <1>1, FlowAssumption, Zenon DEF FlowAssumption
  <2>2. f.readable
    BY DEF Good, Loads
  <2> QED
    BY <2>1, <2>2
<1>3. Len(f.steps) \in Nat /\ DOMAIN f.steps = 1 .. Len(f.steps)
  BY <1>2
<1>4. \A k \in 1 .. Len(f.steps) : f.steps[k] \in ToSet(f.steps)
  BY <1>3 DEF ToSet
<1>5. InputIsValid(f)
  BY DEF Good, Loads
<1> DEFINE ids == [k \in DOMAIN f.steps |-> f.steps[k].id]
<1>6. IsInjective(ids) /\ \A s \in ToSet(f.steps) : s.consumes \subseteq ToSet(ids)
  BY <1>5 DEF InputIsValid
<1>7. ToSet(ids) = {f.steps[k].id : k \in 1 .. Len(f.steps)} /\ IdsOf(f) = {f.steps[k].id : k \in 1 .. Len(f.steps)}
  BY <1>3 DEF ToSet, IdsOf
<1>8. \A k, l \in 1 .. Len(f.steps) : f.steps[k].id = f.steps[l].id => k = l
  BY <1>3, <1>6 DEF IsInjective
<1>9. IdsOf(f) \subseteq StepIds
  <2>1. PICK i \in DOMAIN d : f = d[i]
    BY <1>1 DEF ToSet
  <2>2. IdsOf(f) = {d[i].steps[k].id : k \in DOMAIN d[i].steps}
    BY <1>3, <1>7, <2>1
  <2> DEFINE file(e, j) == {e[j].steps[k].id : k \in DOMAIN e[j].steps}
             all(e) == UNION {file(e, j) : j \in DOMAIN e}
  <2>3. file(d, i) \subseteq all(d)
    BY <2>1
  <2>4. StepIds = UNION {all(e) : e \in Directories}
    BY DEF StepIds
  <2>5. all(d) \subseteq StepIds
    <3> HIDE DEF all
    <3> QED
      BY <2>4
  <2> QED
    BY <2>2, <2>3, <2>5
<1> QED
  BY <1>2, <1>3, <1>4, <1>6, <1>7, <1>8, <1>9

LEMMA StepOfId ==
  ASSUME NEW f, Good(f), NEW k \in 1 .. Len(f.steps)
  PROVE  Step(f, f.steps[k].id) = f.steps[k] /\ Position(f, f.steps[k].id) = k
<1>1. DOMAIN f.steps = 1 .. Len(f.steps) /\ ToSet(f.steps) = {f.steps[l] : l \in 1 .. Len(f.steps)}
  BY FilesFine DEF ToSet
<1>2. \A l \in 1 .. Len(f.steps) : f.steps[k].id = f.steps[l].id => k = l
  BY FilesFine
<1>3. Step(f, f.steps[k].id) = f.steps[k]
  <2>1. \A s \in ToSet(f.steps) : s.id = f.steps[k].id => s = f.steps[k]
    BY <1>1, <1>2
  <2>2. f.steps[k] \in ToSet(f.steps)
    BY <1>1
  <2> QED
    BY <2>1, <2>2 DEF Step
<1>4. Position(f, f.steps[k].id) = k
  BY <1>1, <1>2 DEF Position
<1> QED
  BY <1>3, <1>4

\* A step is made of itself and of what the steps it is fed are made of.
LEMMA UpstreamOf ==
  ASSUME NEW f, NEW id \in IdsOf(f), \A t \in IdsOf(f) : Fed(f, t) \subseteq IdsOf(f)
  PROVE  /\ Upstream(f, id) = {id} \union UNION {Upstream(f, s) : s \in Fed(f, id)}
         /\ id \in Upstream(f, id)
<1> DEFINE Closed(ids) == \A t \in ids : Fed(f, t) \subseteq ids
           whole == {id} \union UNION {Upstream(f, s) : s \in Fed(f, id)}
<1>1. \A s : Upstream(f, s) \subseteq IdsOf(f)
  BY DEF Upstream
<1>2. ASSUME NEW s \in IdsOf(f) PROVE s \in Upstream(f, s) /\ Closed(Upstream(f, s))
  BY DEF Upstream
<1>3. whole \subseteq Upstream(f, id)
  <2>1. ASSUME NEW s \in Fed(f, id), NEW x \in Upstream(f, s) PROVE x \in Upstream(f, id)
    BY <2>1 DEF Upstream
  <2> QED
    BY <1>2, <2>1
<1>4. whole \in SUBSET IdsOf(f) /\ id \in whole
  BY <1>1
<1>5. Closed(whole)
  BY <1>2
<1>6. Upstream(f, id) \subseteq whole
  <2> HIDE DEF whole
  <2> QED
    BY <1>4, <1>5 DEF Upstream
<1> QED
  BY <1>2, <1>3, <1>6

StepRuns == {"render", "execute", "tool", "fetch", "combine"}
ActsOf(f) == [run : StepRuns, step : {s.id : s \in ToSet(f.steps)}]

LEMMA OfOneStep ==
  ASSUME NEW s, s.kind \in StepKinds, NEW T, s.id \in T
  PROVE  /\ OfStep(s) \in Seq([run : StepRuns, step : T]) /\ Len(OfStep(s)) \in Nat \ {0}
         /\ \A j \in 1 .. Len(OfStep(s)) :
              /\ OfStep(s)[j].step = s.id
              /\ OfStep(s)[j].run = "render" <=> j < Len(OfStep(s))
              /\ OfStep(s)[j].run = "tool" <=> s.kind = "dstools_python"
              /\ OfStep(s)[j].run = "combine" <=> s.kind = "combine"
<1> DEFINE act(run) == [run |-> run, step |-> s.id]
<1>1. \A run \in StepRuns : act(run) \in [run : StepRuns, step : T] /\ act(run).step = s.id /\ act(run).run = run
  OBVIOUS
<1>a. \A x, y \in [run : StepRuns, step : T] :
        /\ <<x>> \in Seq([run : StepRuns, step : T]) /\ Len(<<x>>) = 1 /\ <<x>>[1] = x
        /\ <<x, y>> \in Seq([run : StepRuns, step : T]) /\ Len(<<x, y>>) = 2 /\ <<x, y>>[1] = x /\ <<x, y>>[2] = y
  OBVIOUS
<1>2. CASE s.kind = "dstools_sql"
  <2>1. OfStep(s) = <<act("render"), act("execute")>>
    BY <1>2 DEF OfStep
  <2> HIDE DEF act
  <2>2. Len(OfStep(s)) = 2 /\ \A j \in 1 .. 2 : j = 1 \/ j = 2
    BY <2>1
  <2> QED
    BY <1>1, <1>a, <1>2, <2>1, <2>2 DEF StepRuns
<1>3. CASE s.kind # "dstools_sql"
  <2>1. PICK run \in StepRuns : /\ OfStep(s) = <<act(run)>> /\ run # "render"
                                /\ run = "tool" <=> s.kind = "dstools_python"
                                /\ run = "combine" <=> s.kind = "combine"
    <3>1. CASE s.kind = "fedsql"
      BY <3>1 DEF OfStep, StepRuns
    <3>2. CASE s.kind = "dstools_python"
      BY <3>2 DEF OfStep, StepRuns
    <3>3. CASE s.kind = "fetch"
      BY <3>3 DEF OfStep, StepRuns
    <3>4. CASE s.kind = "combine"
      BY <3>4 DEF OfStep, StepRuns
    <3> QED
      BY <1>3, <3>1, <3>2, <3>3, <3>4 DEF StepKinds
  <2> HIDE DEF act
  <2>2. Len(OfStep(s)) = 1 /\ \A j \in 1 .. 1 : j = 1
    BY <2>1
  <2> QED
    BY <1>1, <1>a, <2>1, <2>2
<1> QED
  BY <1>2, <1>3

\* The list of a file: the activities of its steps in their order, each step with one
\* at least, a template rendered just before its text is executed.
Plans(f, of) ==
  LET acts == StepActs(f) IN
  /\ of \in [1 .. Len(acts) -> 1 .. Len(f.steps)]
  /\ \A k \in 1 .. Len(f.steps) : \E p \in 1 .. Len(acts) : of[p] = k
  /\ \A p \in 1 .. Len(acts) :
       /\ acts[p].step = f.steps[of[p]].id
       /\ acts[p].run = "tool" <=> f.steps[of[p]].kind = "dstools_python"
       /\ acts[p].run = "combine" <=> f.steps[of[p]].kind = "combine"
       /\ acts[p].run = "render" => p + 1 \in 1 .. Len(acts) /\ of[p + 1] = of[p]
  /\ \A p, q \in 1 .. Len(acts) : p < q => /\ of[p] <= of[q]
                                           /\ acts[p].run # "render" => of[p] < of[q]

LEMMA PlanOfFile ==
  ASSUME NEW f, Good(f)
  PROVE  StepActs(f) \in Seq(ActsOf(f)) /\ \E of : Plans(f, of)
<1> DEFINE n == Len(f.steps)
           ss == [k \in DOMAIN f.steps |-> OfStep(f.steps[k])]
           step(k) == f.steps[k]
<1>1. n \in Nat /\ DOMAIN f.steps = 1 .. n
  BY FilesFine
<1>2. ASSUME NEW k \in 1 .. n
      PROVE  /\ OfStep(step(k)) \in Seq(ActsOf(f)) /\ Len(OfStep(step(k))) \in Nat \ {0}
             /\ \A j \in 1 .. Len(OfStep(step(k))) :
                  /\ OfStep(step(k))[j].step = step(k).id
                  /\ OfStep(step(k))[j].run = "render" <=> j < Len(OfStep(step(k)))
                  /\ OfStep(step(k))[j].run = "tool" <=> step(k).kind = "dstools_python"
                  /\ OfStep(step(k))[j].run = "combine" <=> step(k).kind = "combine"
  <2>1. step(k).kind \in StepKinds /\ step(k) \in ToSet(f.steps)
    BY <1>1, FilesFine DEF ToSet
  <2>2. step(k).id \in {s.id : s \in ToSet(f.steps)}
    BY <2>1
  <2> HIDE DEF step
  <2> QED
    BY <2>1, <2>2, OfOneStep DEF ActsOf
<1>3. ss \in Seq(Seq(ActsOf(f))) /\ Len(ss) = n /\ \A k \in 1 .. n : ss[k] = OfStep(step(k))
  BY <1>1, <1>2
<1>4. StepActs(f) = FlattenSeq(ss)
  BY DEF StepActs
<1> HIDE DEF ss, n, step
<1>5. StepActs(f) \in Seq(ActsOf(f))
  BY <1>3, <1>4, Members
<1>6. PICK of, no : Numbers(ss, of, no)
  BY <1>3, Members
<1> DEFINE acts == StepActs(f)
           size == Len(acts)
           len == Lengths(ss)
<1>7. len \in [1 .. n -> Nat] /\ \A k \in 1 .. n : len[k] = Len(OfStep(step(k))) /\ len[k] \in Nat \ {0}
  BY <1>2, <1>3 DEF Lengths
<1>8. Counts(n, size, len, of, no) /\ \A p \in 1 .. size : acts[p] = ss[of[p]][no[p]]
  BY <1>3, <1>4, <1>6 DEF Numbers
<1>s. size \in Nat
  BY <1>5
<1> HIDE DEF acts, size, len
<1>9. /\ of \in [1 .. size -> 1 .. n] /\ no \in [1 .. size -> Nat]
      /\ \A p \in 1 .. size : of[p] \in 1 .. n /\ no[p] \in 1 .. len[of[p]] /\ no[p] \in Nat
  <2>1. of \in [1 .. size -> 1 .. n] /\ no \in [1 .. size -> Nat]
    BY <1>8 DEF Counts
  <2>2. \A p \in 1 .. size : of[p] \in 1 .. n /\ no[p] \in Nat
    BY <2>1
  <2> QED
    BY <1>8, <2>1, <2>2 DEF Counts
<1>10. ASSUME NEW p \in 1 .. size
       PROVE  /\ acts[p].step = step(of[p]).id
              /\ acts[p].run = "render" <=> no[p] < len[of[p]]
              /\ acts[p].run = "tool" <=> step(of[p]).kind = "dstools_python"
              /\ acts[p].run = "combine" <=> step(of[p]).kind = "combine"
  <2>1. PICK k \in 1 .. n : k = of[p]
    BY <1>9
  <2>2. PICK j : j = no[p] /\ j \in 1 .. Len(OfStep(step(k)))
    BY <1>7, <1>9, <2>1, Zenon
  <2>3. acts[p] = OfStep(step(k))[j]
    BY <1>3, <1>8, <2>1, <2>2, Zenon
  <2>4. /\ acts[p].step = step(k).id
        /\ acts[p].run = "render" <=> j < len[k]
        /\ acts[p].run = "tool" <=> step(k).kind = "dstools_python"
        /\ acts[p].run = "combine" <=> step(k).kind = "combine"
    <3>1. /\ OfStep(step(k))[j].step = step(k).id
          /\ OfStep(step(k))[j].run = "render" <=> j < Len(OfStep(step(k)))
          /\ OfStep(step(k))[j].run = "tool" <=> step(k).kind = "dstools_python"
          /\ OfStep(step(k))[j].run = "combine" <=> step(k).kind = "combine"
      BY <1>2, <2>2
    <3>2. len[k] = Len(OfStep(step(k)))
      BY <1>7
    <3> QED
      BY <2>3, <3>1, <3>2, Zenon
  <2> QED
    BY <2>1, <2>2, <2>4, Zenon
<1>11. ASSUME NEW k \in 1 .. n PROVE \E p \in 1 .. size : of[p] = k
  <2>1. 1 \in 1 .. len[k]
    BY <1>7
  <2> QED
    BY <1>8, <2>1, Zenon DEF Counts
<1>12. ASSUME NEW p \in 1 .. size, acts[p].run = "render"
       PROVE  p + 1 \in 1 .. size /\ of[p + 1] = of[p]
  BY <1>8, <1>10, <1>12, Zenon DEF Counts
<1>13. ASSUME NEW p \in 1 .. size, NEW q \in 1 .. size, p < q
       PROVE  of[p] <= of[q] /\ (acts[p].run # "render" => of[p] < of[q])
  <2>1. of[p] <= of[q] /\ (of[p] = of[q] => no[p] < no[q])
    BY <1>8, <1>13, Zenon DEF Counts
  <2>2. ASSUME acts[p].run # "render" PROVE of[p] < of[q]
    <3>1. PICK k \in 1 .. n, i \in 1 .. n, j \in Nat, m \in Nat, l \in Nat :
            k = of[p] /\ i = of[q] /\ j = no[p] /\ m = no[q] /\ l = len[k]
      <4>1. of[p] \in 1 .. n /\ of[q] \in 1 .. n /\ no[p] \in Nat /\ no[q] \in Nat
        BY <1>9
      <4>2. len[of[p]] \in Nat
        BY <1>7, <4>1
      <4> QED
        BY <4>1, <4>2, Zenon
    <3>2. ~ (j < l)
      BY <1>10, <2>2, <3>1, Zenon
    <3>3. k <= i /\ (k = i => j < m)
      BY <2>1, <3>1, Zenon
    <3>4. k = i => m \in 1 .. l
      BY <1>9, <3>1, Zenon
    <3>5. k < i
      BY <1>1, <3>1, <3>2, <3>3, <3>4
    <3> QED
      BY <3>1, <3>5, Zenon
  <2> QED
    BY <2>1, <2>2
<1>14. Plans(f, of)
  BY <1>9, <1>10, <1>11, <1>12, <1>13, Zenon DEF Plans, acts, size, n, step
<1> QED
  BY <1>5, <1>14
\* The artifacts asked for, each made once.
LEMMA ArtifactsAsked ==
  ASSUME NEW f, f.post \subseteq {"summary", "chart"}
  PROVE  /\ Len(PostActs(f)) \in Nat
         /\ PostActs(f) \in Seq([run : {"summary", "chart"}, step : {""}])
         /\ {PostActs(f)[q].run : q \in 1 .. Len(PostActs(f))} = f.post
<1> DEFINE n == Cardinality(f.post)
           run(q) == IF q = 1 /\ "summary" \in f.post THEN "summary" ELSE "chart"
           Artifacts == [run : {"summary", "chart"}, step : {""}]
<1>1. PostActs(f) = [q \in 1 .. n |-> [run |-> run(q), step |-> ""]]
  BY DEF PostActs
<1>2. n \in Nat /\ {run(q) : q \in 1 .. n} = f.post
  <2>1. CASE f.post = {}
    <3>1. n = 0
      BY <2>1, FS_EmptySet
    <3> QED
      BY <2>1, <3>1
  <2>2. CASE f.post = {"summary"}
    <3>1. n = 1
      BY <2>2, FS_Singleton
    <3>2. run(1) = "summary" /\ 1 .. 1 = {1}
      BY <2>2
    <3> HIDE DEF n, run
    <3> QED
      BY <2>2, <3>1, <3>2
  <2>3. CASE f.post = {"chart"}
    <3>1. n = 1
      BY <2>3, FS_Singleton
    <3>2. run(1) = "chart" /\ 1 .. 1 = {1}
      BY <2>3
    <3> HIDE DEF n, run
    <3> QED
      BY <2>3, <3>1, <3>2
  <2>4. CASE f.post = {"summary", "chart"}
    <3>1. IsFiniteSet({"summary"}) /\ Cardinality({"summary"}) = 1
      BY FS_Singleton
    <3>2. {"summary", "chart"} = {"summary"} \union {"chart"} /\ "chart" \notin {"summary"}
      OBVIOUS
    <3>3. n = 2
      BY <2>4, <3>1, <3>2, FS_AddElement
    <3>4. run(1) = "summary" /\ run(2) = "chart" /\ 1 .. 2 = {1, 2}
      BY <2>4
    <3> HIDE DEF n, run
    <3> QED
      BY <2>4, <3>3, <3>4
  <2> QED
    BY <2>1, <2>2, <2>3, <2>4
<1> DEFINE act(q) == [run |-> run(q), step |-> ""]
<1>3. \A q \in 1 .. n : act(q) \in Artifacts /\ act(q).run = run(q)
  OBVIOUS
<1>a. PostActs(f) = [q \in 1 .. n |-> act(q)]
  BY <1>1
<1> HIDE DEF run, Artifacts, n, act
<1>4. PostActs(f) \in Seq(Artifacts) /\ Len(PostActs(f)) = n
  BY <1>a, <1>2, <1>3
<1>5. \A q \in 1 .. n : PostActs(f)[q].run = run(q)
  BY <1>a, <1>3
<1>6. {PostActs(f)[q].run : q \in 1 .. n} = {run(q) : q \in 1 .. n}
  BY <1>5
<1> QED
  BY <1>2, <1>4, <1>6 DEF Artifacts

\* The whole list: first the steps, then the artifacts.
LEMMA ActsOfFile ==
  ASSUME NEW f, Good(f)
  PROVE  /\ Len(StepActs(f)) \in Nat \ {0} /\ Len(PostActs(f)) \in Nat
         /\ Len(Acts[f]) = Len(StepActs(f)) + Len(PostActs(f))
         /\ \A p \in 1 .. Len(StepActs(f)) : Acts[f][p] = StepActs(f)[p] /\ Acts[f][p] \in ActsOf(f)
         /\ \A q \in 1 .. Len(PostActs(f)) : /\ Acts[f][Len(StepActs(f)) + q] = PostActs(f)[q]
                                             /\ PostActs(f)[q].run \in {"summary", "chart"}
<1>1. StepActs(f) \in Seq(ActsOf(f)) /\ \E of : Plans(f, of)
  BY PlanOfFile
<1>2. PICK of : Plans(f, of)
  BY <1>1
<1>3. Len(f.steps) \in Nat \ {0}
  BY FilesFine
<1>4. \E p \in 1 .. Len(StepActs(f)) : of[p] = 1
  BY <1>2, <1>3 DEF Plans
<1>5. Len(StepActs(f)) \in Nat \ {0}
  BY <1>1, <1>4
<1>6. Len(PostActs(f)) \in Nat /\ PostActs(f) \in Seq([run : {"summary", "chart"}, step : {""}])
  BY FilesFine, ArtifactsAsked
<1>7. Acts[f] = StepActs(f) \o PostActs(f)
  BY DEF Acts, Good
<1> DEFINE u == StepActs(f)
           v == PostActs(f)
           w == Acts[f]
           S == ActsOf(f)
           T == [run : {"summary", "chart"}, step : {""}]
<1>8. u \in Seq(S) /\ v \in Seq(T) /\ w = u \o v /\ \A x \in T : x.run \in {"summary", "chart"}
  BY <1>1, <1>6, <1>7
<1> HIDE DEF u, v, w, S, T
<1>9. /\ Len(w) = Len(u) + Len(v)
      /\ \A p \in 1 .. Len(u) : w[p] = u[p] /\ u[p] \in S
      /\ \A q \in 1 .. Len(v) : w[Len(u) + q] = v[q] /\ v[q] \in T
  BY <1>8
<1> QED
  BY <1>5, <1>6, <1>8, <1>9 DEF u, v, w, S

\* The steps a step is fed are steps of the file.
LEMMA FedBySteps ==
  ASSUME NEW f, Good(f)
  PROVE  \A id \in IdsOf(f) : Fed(f, id) \subseteq IdsOf(f)
<1>1. ASSUME NEW k \in 1 .. Len(f.steps) PROVE Fed(f, f.steps[k].id) \subseteq IdsOf(f)
  BY FilesFine, StepOfId DEF Fed
<1>2. IdsOf(f) = {f.steps[k].id : k \in 1 .. Len(f.steps)}
  BY FilesFine
<1> QED
  BY <1>1, <1>2

-----------------------------------------------------------------------------
(* A run. *)

\* Every activity of the step is before the next one.
Over(f, id, at) == \A p \in 1 .. Len(StepActs(f)) : StepActs(f)[p].step = id => p < at
Made(f, at) == {PostActs(f)[q].run : q \in {q \in 1 .. Len(PostActs(f)) : Len(StepActs(f)) + q < at}}

\* The rows and the artifacts of a run whose next activity is the one at "at".
Ahead(f, rows, meta, at) ==
  /\ \A id \in IdsOf(f) : rows[id] = IF Over(f, id, at) THEN Upstream(f, id) ELSE {}
  /\ meta = Made(f, at)

LEMMA StartsEmpty ==
  ASSUME NEW f, Good(f)
  PROVE  Ahead(f, [s \in StepIds |-> {}], {}, 1)
<1>1. PICK of : Plans(f, of)
  BY PlanOfFile
<1>2. ASSUME NEW k \in 1 .. Len(f.steps) PROVE ~ Over(f, f.steps[k].id, 1)
  <2>1. PICK p \in 1 .. Len(StepActs(f)) : of[p] = k
    BY <1>1 DEF Plans
  <2>2. StepActs(f)[p].step = f.steps[k].id /\ ~ (p < 1)
    BY <1>1, <2>1 DEF Plans
  <2> QED
    BY <2>2 DEF Over
<1>3. \A id \in IdsOf(f) : ~ Over(f, id, 1) /\ id \in StepIds
  BY <1>2, FilesFine
<1>4. Made(f, 1) = {}
  BY ActsOfFile DEF Made
<1> QED
  BY <1>3, <1>4 DEF Ahead

LEMMA EndsWhole ==
  ASSUME NEW f, Good(f), NEW rows, NEW meta, Ahead(f, rows, meta, Len(Acts[f]) + 1)
  PROVE  FinalOf(f) \in IdsOf(f) /\ rows[FinalOf(f)] = Upstream(f, FinalOf(f)) /\ meta = f.post
<1>1. FinalOf(f) \in IdsOf(f)
  <2>1. CASE f.final = ""
    <3>1. f.steps \in Seq(ToSet(f.steps)) /\ f.steps # <<>> /\ Len(f.steps) \in Nat
      BY FilesFine
    <3>2. Len(f.steps) \in 1 .. Len(f.steps)
      BY <3>1
    <3>3. FinalOf(f) = f.steps[Len(f.steps)].id
      BY <2>1 DEF FinalOf, Last
    <3> QED
      BY <3>2, <3>3, FilesFine
  <2>2. CASE f.final # ""
    <3>1. InputIsValid(f)
      BY DEF Good, Loads
    <3>2. f.final \in ToSet([k \in DOMAIN f.steps |-> f.steps[k].id])
      BY <2>2, <3>1 DEF InputIsValid
    <3>3. f.final \in IdsOf(f)
      BY <3>2 DEF ToSet, IdsOf
    <3> QED
      BY <2>2, <3>3 DEF FinalOf
  <2> QED
    BY <2>1, <2>2
<1>2. Over(f, FinalOf(f), Len(Acts[f]) + 1)
  BY ActsOfFile DEF Over
<1>3. Made(f, Len(Acts[f]) + 1) = f.post
  <2>1. {q \in 1 .. Len(PostActs(f)) : Len(StepActs(f)) + q < Len(Acts[f]) + 1} = 1 .. Len(PostActs(f))
    BY ActsOfFile
  <2>2. {PostActs(f)[q].run : q \in 1 .. Len(PostActs(f))} = f.post
    BY FilesFine, ArtifactsAsked
  <2> QED
    BY <2>1, <2>2 DEF Made
<1> QED
  BY <1>1, <1>2, <1>3 DEF Ahead
\* The activities of a step are over when the last of them has answered, those of the
\* steps before it are by then and those of the steps after it are not.
LEMMA OverAt ==
  ASSUME NEW f, Good(f), NEW of, Plans(f, of), NEW p \in 1 .. Len(StepActs(f))
  PROVE  LET act == StepActs(f)[p] IN
         /\ of[p] \in 1 .. Len(f.steps) /\ act.step = f.steps[of[p]].id
         /\ \A l \in 1 .. Len(f.steps) : Over(f, f.steps[l].id, p) <=> l < of[p]
         /\ \A l \in 1 .. Len(f.steps) : l # of[p] =>
              (Over(f, f.steps[l].id, p + 1) <=> Over(f, f.steps[l].id, p))
         /\ Over(f, act.step, p + 1) <=> act.run # "render"
<1> DEFINE n == Len(f.steps)
           size == Len(StepActs(f))
           act(q) == StepActs(f)[q]
<1>1. n \in Nat /\ size \in Nat
  BY FilesFine, ActsOfFile
<1>2. /\ \A q \in 1 .. size : of[q] \in 1 .. n /\ act(q).step = f.steps[of[q]].id
      /\ \A k \in 1 .. n : \E q \in 1 .. size : of[q] = k
      /\ \A q, r \in 1 .. size : q < r => of[q] <= of[r] /\ (act(q).run # "render" => of[q] < of[r])
      /\ \A q \in 1 .. size : act(q).run = "render" => q + 1 \in 1 .. size /\ of[q + 1] = of[q]
  BY DEF Plans
<1>3. ASSUME NEW q \in 1 .. size, NEW l \in 1 .. n
      PROVE  act(q).step = f.steps[l].id <=> of[q] = l
  <2>1. of[q] \in 1 .. n /\ act(q).step = f.steps[of[q]].id
    BY <1>2
  <2>2. \A k, m \in 1 .. n : f.steps[k].id = f.steps[m].id => k = m
    BY FilesFine
  <2> HIDE DEF n, act
  <2> QED
    BY <2>1, <2>2, Zenon
<1>4. ASSUME NEW l \in 1 .. n, NEW at
      PROVE  Over(f, f.steps[l].id, at) <=> \A q \in 1 .. size : of[q] = l => q < at
  BY <1>3 DEF Over
<1> HIDE DEF n, size, act
<1>5. of[p] \in 1 .. n /\ p \in 1 .. size
  BY <1>2 DEF size
<1>6. ASSUME NEW l \in 1 .. n PROVE Over(f, f.steps[l].id, p) <=> l < of[p]
  <2>1. ASSUME l < of[p], NEW q \in 1 .. size, of[q] = l PROVE q < p
    <3> SUFFICES ASSUME ~ (q < p) PROVE FALSE
      OBVIOUS
    <3>1. p = q \/ p < q
      BY <1>1, <1>5
    <3>2. of[p] <= of[q]
      <4>1. CASE p = q
        BY <1>1, <1>5, <4>1
      <4>2. CASE p < q
        BY <1>2, <1>5, <4>2
      <4> QED
        BY <3>1, <4>1, <4>2
    <3> QED
      BY <1>1, <1>5, <2>1, <3>2
  <2>2. ASSUME ~ (l < of[p]) PROVE \E q \in 1 .. size : of[q] = l /\ ~ (q < p)
    <3>1. PICK q \in 1 .. size : of[q] = l
      BY <1>2
    <3>2. CASE q < p
      <4>1. of[q] <= of[p]
        BY <1>2, <1>5, <3>2
      <4>2. of[p] = l
        BY <1>1, <1>5, <2>2, <3>1, <4>1
      <4>3. ~ (p < p)
        BY <1>1, <1>5
      <4> QED
        BY <1>5, <4>2, <4>3
    <3> QED
      BY <3>1, <3>2
  <2> QED
    BY <1>4, <2>1, <2>2
<1>7. ASSUME NEW l \in 1 .. n, l # of[p]
      PROVE  Over(f, f.steps[l].id, p + 1) <=> Over(f, f.steps[l].id, p)
  <2>1. ASSUME NEW q \in 1 .. size, of[q] = l PROVE q < p + 1 <=> q < p
    BY <1>1, <1>5, <1>7, <2>1
  <2> QED
    BY <1>4, <2>1
<1>8. act(p).step = f.steps[of[p]].id
  BY <1>2, <1>5
<1>9. Over(f, act(p).step, p + 1) <=> act(p).run # "render"
  <2>1. Over(f, act(p).step, p + 1) <=> \A q \in 1 .. size : of[q] = of[p] => q < p + 1
    BY <1>4, <1>5, <1>8
  <2>2. CASE act(p).run = "render"
    <3>1. p + 1 \in 1 .. size /\ of[p + 1] = of[p]
      BY <1>2, <1>5, <2>2
    <3>2. ~ (p + 1 < p + 1)
      BY <1>1, <1>5
    <3> QED
      BY <2>1, <2>2, <3>1, <3>2
  <2>3. CASE act(p).run # "render"
    <3>1. ASSUME NEW q \in 1 .. size, of[q] = of[p] PROVE q < p + 1
      <4> SUFFICES ASSUME p < q PROVE FALSE
        BY <1>1, <1>5
      <4>1. of[p] < of[q]
        BY <1>2, <1>5, <2>3
      <4> QED
        BY <1>1, <1>5, <3>1, <4>1
    <3> QED
      BY <2>1, <2>3, <3>1
  <2> QED
    BY <2>2, <2>3
<1> QED
  BY <1>5, <1>6, <1>7, <1>8, <1>9 DEF n, size, act
\* What a run has when an activity of a step answers: nothing yet of the step, all that the
\* steps before it are made of, nothing of those after it; so a tool or a join makes its
\* rows of just the steps it is to be fed.
LEMMA FedWhatIsThere ==
  ASSUME NEW f, Good(f), NEW of, Plans(f, of), NEW p \in 1 .. Len(StepActs(f)),
         NEW rows, NEW meta, Ahead(f, rows, meta, p)
  PROVE  LET id == StepActs(f)[p].step IN
         /\ StepActs(f)[p].run \in {"tool", "combine"} =>
              {id} \union UNION {rows[s] : s \in Step(f, id).consumes} = Upstream(f, id)
         /\ StepActs(f)[p].run \notin {"tool", "combine"} => {id} = Upstream(f, id)
<1> DEFINE act == StepActs(f)[p]
           n == Len(f.steps)
           k == of[p]
           id == act.step
<1>1. /\ k \in 1 .. n /\ id = f.steps[k].id
      /\ \A l \in 1 .. n : Over(f, f.steps[l].id, p) <=> l < k
  BY OverAt
<1>2. Step(f, id) = f.steps[k] /\ Position(f, id) = k
  BY <1>1, StepOfId
<1>3. act.run \in {"tool", "combine"} <=> Step(f, id).kind \in {"dstools_python", "combine"}
  <2>1. /\ act.run = "tool" <=> f.steps[k].kind = "dstools_python"
        /\ act.run = "combine" <=> f.steps[k].kind = "combine"
    BY DEF Plans
  <2> QED
    BY <1>2, <2>1
<1>4. id \in IdsOf(f)
  BY <1>1, FilesFine
<1>5. Upstream(f, id) = {id} \union UNION {Upstream(f, s) : s \in Fed(f, id)}
  BY <1>4, FedBySteps, UpstreamOf
<1>6. CASE act.run \notin {"tool", "combine"}
  <2>1. Fed(f, id) = {}
    BY <1>3, <1>6 DEF Fed
  <2> QED
    BY <1>5, <1>6, <2>1
<1>7. CASE act.run \in {"tool", "combine"}
  <2>1. Fed(f, id) = {s \in Step(f, id).consumes : Position(f, s) < Position(f, id)}
    BY <1>3, <1>7 DEF Fed
  <2>2. ASSUME NEW s \in Step(f, id).consumes
        PROVE  rows[s] = IF s \in Fed(f, id) THEN Upstream(f, s) ELSE {}
    <3>1. s \in IdsOf(f)
      BY <1>1, <1>2, FilesFine
    <3>2. PICK l \in 1 .. n : s = f.steps[l].id
      BY <3>1, FilesFine
    <3>3. Position(f, s) = l
      BY <3>2, StepOfId
    <3>4. s \in Fed(f, id) <=> l < k
      BY <1>2, <2>1, <3>3
    <3>5. rows[s] = IF Over(f, s, p) THEN Upstream(f, s) ELSE {}
      BY <3>1 DEF Ahead
    <3>6. Over(f, s, p) <=> l < k
      BY <1>1, <3>2
    <3> QED
      BY <3>4, <3>5, <3>6
  <2>3. Fed(f, id) \subseteq Step(f, id).consumes
    BY <2>1
  <2>4. UNION {rows[s] : s \in Step(f, id).consumes} = UNION {Upstream(f, s) : s \in Fed(f, id)}
    BY <2>2, <2>3
  <2> QED
    BY <1>5, <1>7, <2>4
<1> QED
  BY <1>6, <1>7

RunRecords == [phase : {"none", "open", "done", "failed"}, at : Nat, tries : Nat,
               rows : [StepIds -> SUBSET StepIds], meta : SUBSET {"summary", "chart"},
               rejected : BOOLEAN]

Same(answered, r) ==
  /\ answered \in RunRecords
  /\ answered.phase = r.phase /\ answered.at = r.at /\ answered.tries = r.tries
  /\ answered.rejected = r.rejected

\* The answer of a step's activity leaves the run as it should be for the next one.
LEMMA StepAnswered ==
  ASSUME NEW f, Good(f), NEW r \in RunRecords, r.at \in 1 .. Len(StepActs(f)),
         Ahead(f, r.rows, r.meta, r.at),
         NEW answered, answered = Answered(f, StepActs(f)[r.at], r)
  PROVE  Same(answered, r) /\ Ahead(f, answered.rows, answered.meta, r.at + 1)
<1> DEFINE p == r.at
           act == StepActs(f)[p]
           id == act.step
           n == Len(f.steps)
<1>1. PICK of : Plans(f, of)
  BY PlanOfFile
<1>2. /\ of[p] \in 1 .. n /\ id = f.steps[of[p]].id
      /\ \A l \in 1 .. n : Over(f, f.steps[l].id, p) <=> l < of[p]
      /\ \A l \in 1 .. n : l # of[p] => (Over(f, f.steps[l].id, p + 1) <=> Over(f, f.steps[l].id, p))
      /\ Over(f, id, p + 1) <=> act.run # "render"
  BY <1>1, OverAt
<1>3. id \in IdsOf(f) /\ id \in StepIds /\ IdsOf(f) = {f.steps[l].id : l \in 1 .. n} /\ n \in Nat
  BY <1>2, FilesFine
<1>4. act.run \in StepRuns
  <2>1. StepActs(f) \in Seq(ActsOf(f))
    BY PlanOfFile
  <2>2. act \in ActsOf(f)
    BY <2>1
  <2> QED
    BY <2>2 DEF ActsOf
<1>5. Made(f, p) = {} /\ Made(f, p + 1) = {}
  BY ActsOfFile DEF Made
<1>6. \A s \in IdsOf(f) : s # id => (Over(f, s, p + 1) <=> Over(f, s, p))
  BY <1>2, <1>3
<1>7. r.rows[id] = {} /\ r.meta = {} /\ r.rows \in [StepIds -> SUBSET StepIds]
  <2>1. ~ Over(f, id, p)
    BY <1>2
  <2> QED
    BY <1>3, <1>5, <2>1 DEF Ahead, RunRecords
<1>8. CASE act.run = "render"
  <2>1. answered = r
    BY <1>8 DEF Answered
  <2>2. \A s \in IdsOf(f) : r.rows[s] = IF Over(f, s, p + 1) THEN Upstream(f, s) ELSE {}
    BY <1>2, <1>6, <1>7, <1>8 DEF Ahead
  <2> QED
    BY <1>5, <1>7, <2>1, <2>2 DEF Ahead, Same
<1>9. CASE act.run # "render"
  <2> DEFINE new == Upstream(f, id)
  <2>1. /\ act.run \in {"tool", "combine"} =>
             {id} \union UNION {r.rows[s] : s \in Step(f, id).consumes} = new
        /\ act.run \notin {"tool", "combine"} => {id} = new
    BY <1>1, FedWhatIsThere
  <2>2. new \in SUBSET StepIds
    BY FilesFine DEF Upstream
  <2>3. UNION {r.rows[s] : s \in {s \in Step(f, id).consumes : r.rows[s] # {}}}
          = UNION {r.rows[s] : s \in Step(f, id).consumes}
    OBVIOUS
  <2>4. answered = [r EXCEPT !.rows[id] = new]
    <3>1. CASE act.run = "execute"
      BY <2>1, <3>1 DEF Answered, Executed
    <3>2. CASE act.run = "fetch"
      BY <2>1, <3>2 DEF Answered, Fetched
    <3>3. CASE act.run = "combine"
      BY <2>1, <3>3 DEF Answered, Combined
    <3>4. CASE act.run = "tool"
      BY <2>1, <2>3, <3>4 DEF Answered, FromTool
    <3> QED
      BY <1>4, <1>9, <3>1, <3>2, <3>3, <3>4 DEF StepRuns
  <2>5. Over(f, id, p + 1)
    BY <1>2, <1>9
  <2> HIDE DEF new, id, act
  <2>6. /\ answered.rows = [r.rows EXCEPT ![id] = new] /\ answered.meta = r.meta
        /\ answered.phase = r.phase /\ answered.at = r.at /\ answered.tries = r.tries
        /\ answered.rejected = r.rejected /\ answered \in RunRecords
    BY <1>3, <1>7, <2>2, <2>4 DEF RunRecords
  <2>7. \A s \in IdsOf(f) : answered.rows[s] = IF Over(f, s, p + 1) THEN Upstream(f, s) ELSE {}
    <3> SUFFICES ASSUME NEW s \in IdsOf(f)
                 PROVE  answered.rows[s] = IF Over(f, s, p + 1) THEN Upstream(f, s) ELSE {}
      OBVIOUS
    <3>1. CASE s = id
      BY <1>3, <1>7, <2>5, <2>6, <3>1 DEF new
    <3>2. CASE s # id
      <4>1. answered.rows[s] = r.rows[s]
        BY <1>7, <2>6, <3>2, FilesFine
      <4> QED
        BY <1>6, <3>2, <4>1 DEF Ahead
    <3> QED
      BY <3>1, <3>2
  <2> QED
    BY <1>5, <1>7, <2>6, <2>7 DEF Ahead, Same
<1> QED
  BY <1>8, <1>9

\* So does the answer of an artifact's.
LEMMA ArtifactAnswered ==
  ASSUME NEW f, Good(f), NEW r \in RunRecords, NEW q \in 1 .. Len(PostActs(f)),
         r.at = Len(StepActs(f)) + q, Ahead(f, r.rows, r.meta, r.at),
         NEW answered, answered = Answered(f, PostActs(f)[q], r)
  PROVE  Same(answered, r) /\ Ahead(f, answered.rows, answered.meta, r.at + 1)
<1> DEFINE act == PostActs(f)[q]
<1>1. act.run \in {"summary", "chart"} /\ Len(StepActs(f)) \in Nat /\ Len(PostActs(f)) \in Nat
  BY ActsOfFile
<1>2. answered = [r EXCEPT !.meta = r.meta \union {act.run}]
  BY <1>1 DEF Answered, Artifact
<1> HIDE DEF act
<1>3. Same(answered, r) /\ answered.rows = r.rows /\ answered.meta = r.meta \union {act.run}
  BY <1>1, <1>2 DEF RunRecords, Same
<1>4. \A id : Over(f, id, r.at) /\ Over(f, id, r.at + 1)
  BY <1>1 DEF Over
<1>5. Made(f, r.at + 1) = Made(f, r.at) \union {act.run}
  <2>1. {i \in 1 .. Len(PostActs(f)) : Len(StepActs(f)) + i < r.at + 1}
          = {i \in 1 .. Len(PostActs(f)) : Len(StepActs(f)) + i < r.at} \union {q}
    BY <1>1
  <2> QED
    BY <2>1 DEF Made, act
<1> QED
  BY <1>3, <1>4, <1>5 DEF Ahead

LEMMA OneAnswered ==
  ASSUME NEW f, Good(f), NEW r \in RunRecords, r.at \in 1 .. Len(Acts[f]),
         Ahead(f, r.rows, r.meta, r.at),
         NEW answered, answered = Answered(f, Acts[f][r.at], r)
  PROVE  Same(answered, r) /\ Ahead(f, answered.rows, answered.meta, r.at + 1)
<1>1. CASE r.at \in 1 .. Len(StepActs(f))
  <2>1. Acts[f][r.at] = StepActs(f)[r.at]
    BY <1>1, ActsOfFile
  <2> QED
    BY <1>1, <2>1, StepAnswered
<1>2. CASE r.at \notin 1 .. Len(StepActs(f))
  <2>1. PICK q \in 1 .. Len(PostActs(f)) : r.at = Len(StepActs(f)) + q
    <3>1. /\ Len(StepActs(f)) \in Nat /\ Len(PostActs(f)) \in Nat
          /\ Len(Acts[f]) = Len(StepActs(f)) + Len(PostActs(f))
      BY ActsOfFile
    <3>2. /\ r.at - Len(StepActs(f)) \in 1 .. Len(PostActs(f))
          /\ r.at = Len(StepActs(f)) + (r.at - Len(StepActs(f)))
      BY <1>2, <3>1
    <3> QED
      BY <3>2
  <2>2. Acts[f][r.at] = PostActs(f)[q]
    BY <2>1, ActsOfFile
  <2> QED
    BY <2>1, <2>2, ArtifactAnswered
<1> QED
  BY <1>1, <1>2
-----------------------------------------------------------------------------
(* The invariant. *)

\* A run that is open is as far as its next activity; a run that is done was whole.
RunOK(f, r) ==
  /\ r.rejected => r.phase = "failed"
  /\ r.phase = "open" =>
       /\ Loads(f)
       /\ f.type \in Registered => r.at \in 1 .. Len(Acts[f]) /\ Ahead(f, r.rows, r.meta, r.at)
  /\ f.type \in Registered /\ r.phase = "done" => r.rows[FinalOf(f)] = Upstream(f, FinalOf(f)) /\ r.meta = f.post

FlowsFine ==
  /\ flow \in [Commands -> [DOMAIN directory -> RunRecords]]
  /\ \A c \in Commands : \A i \in DOMAIN directory : RunOK(directory[i], flow[c][i])

\* Only a worker that knows the type attempts its activities.
AttemptsFine ==
  /\ attempts \subseteq [c : Commands, i : DOMAIN directory, at : Nat, n : Nat]
  /\ \A a \in attempts : directory[a.i].type \in Registered

\* What a command has recorded of a file stays true of its run.
Finished(f, r) == r.phase = "done" \/ (~ f.wait /\ r.phase # "none")

CommandRecords == [pc : {"idle", "load", "start", "await", "exited"}, at : Nat, oks : Seq(BOOLEAN),
                   exit : {"none", "zero", "one", "raised"}]

CommandOK(cmd, runs) ==
  /\ cmd.at \in DOMAIN directory
  /\ cmd.pc \in {"load", "start", "await"} => Len(cmd.oks) = cmd.at - 1 /\ cmd.exit = "none"
  /\ cmd.pc \in {"start", "await"} => Loads(directory[cmd.at])
  /\ Len(cmd.oks) <= Len(directory)
  /\ \A j \in 1 .. Len(cmd.oks) : cmd.oks[j] => Finished(directory[j], runs[j])
  /\ cmd.exit = "zero" => Len(cmd.oks) = Len(directory) /\ \A j \in 1 .. Len(cmd.oks) : cmd.oks[j]

CommandsFine ==
  /\ command \in [Commands -> CommandRecords]
  /\ \A c \in Commands : CommandOK(command[c], flow[c])

FlowHistory ==
  /\ directory \in Directories /\ mishaps \in 0 .. MaxMishaps[directory]
  /\ FlowsFine /\ AttemptsFine /\ CommandsFine

LEMMA Folder ==
  ASSUME directory \in Directories
  PROVE  /\ Len(directory) \in Nat \ {0} /\ DOMAIN directory = 1 .. Len(directory)
         /\ \A i \in DOMAIN directory : directory[i] \in JobFiles
         /\ MaxMishaps[directory] \in Nat
<1>1. directory \in Seq(ToSet(directory)) \ {<<>>} /\ MaxMishaps[directory] \in Nat
  BY FlowAssumption DEF FlowAssumption
<1>2. \A i \in DOMAIN directory : directory[i] \in JobFiles
  BY DEF JobFiles, ToSet
<1> QED
  BY <1>1, <1>2

\* A step of one open run that ends well.
LEMMA RunMoves ==
  ASSUME FlowHistory, NEW c \in Commands, NEW i \in DOMAIN directory, NEW r \in RunRecords,
         IsOpen(c, i), Set(c, i, r), RunOK(directory[i], r), r.phase # "none",
         UNCHANGED <<directory, command>>
  PROVE  FlowsFine' /\ CommandsFine'
<1>1. /\ flow \in [Commands -> [DOMAIN directory -> RunRecords]]
      /\ \A b \in Commands : \A j \in DOMAIN directory : RunOK(directory[j], flow[b][j])
  BY DEF FlowHistory, FlowsFine
<1>2. flow' = [flow EXCEPT ![c] = [flow[c] EXCEPT ![i] = r]]
  BY DEF Set
<1>3. flow' \in [Commands -> [DOMAIN directory -> RunRecords]]
  BY <1>1, <1>2
<1>4. \A b \in Commands : \A j \in DOMAIN directory :
        flow'[b][j] = IF b = c /\ j = i THEN r ELSE flow[b][j]
  BY <1>1, <1>2
<1>5. FlowsFine'
  <2>1. \A b \in Commands : \A j \in DOMAIN directory : RunOK(directory[j], flow'[b][j])
    BY <1>1, <1>4
  <2> QED
    BY <1>3, <2>1 DEF FlowsFine
<1>6. ASSUME NEW b \in Commands, NEW j \in DOMAIN directory, Finished(directory[j], flow[b][j])
      PROVE  Finished(directory[j], flow'[b][j])
  <2>1. CASE b = c /\ j = i
    BY <1>4, <1>6, <2>1 DEF Finished, IsOpen
  <2>2. CASE ~ (b = c /\ j = i)
    BY <1>4, <1>6, <2>2
  <2> QED
    BY <2>1, <2>2
<1>7. ASSUME NEW b \in Commands PROVE CommandOK(command[b], flow'[b])
  <2>1. CommandOK(command[b], flow[b]) /\ command[b].oks \in Seq(BOOLEAN)
    BY DEF FlowHistory, CommandsFine, CommandRecords
  <2>2. \A j \in 1 .. Len(command[b].oks) : j \in DOMAIN directory
    <3>1. DOMAIN directory = 1 .. Len(directory) /\ Len(directory) \in Nat
      BY Folder DEF FlowHistory
    <3>2. Len(command[b].oks) \in Nat /\ Len(command[b].oks) <= Len(directory)
      BY <2>1 DEF CommandOK
    <3> QED
      BY <3>1, <3>2
  <2> QED
    BY <1>6, <2>1, <2>2 DEF CommandOK
<1>8. CommandsFine'
  BY <1>7 DEF FlowHistory, CommandsFine, CommandOK
<1> QED
  BY <1>5, <1>8

LEMMA TryAgainKeeps ==
  ASSUME FlowHistory, NEW c \in Commands, NEW i \in DOMAIN directory, NEW rest, NEW retryable \in BOOLEAN,
         IsOpen(c, i), directory[i].type \in Registered, rest \subseteq attempts,
         TryAgain(c, i, rest, retryable), UNCHANGED <<directory, command>>
  PROVE  FlowsFine' /\ AttemptsFine' /\ CommandsFine'
<1> DEFINE r == flow[c][i]
<1>1. r \in RunRecords /\ RunOK(directory[i], r) /\ r.phase = "open" /\ r.rejected = FALSE
  BY DEF FlowHistory, FlowsFine, IsOpen, RunOK, RunRecords
<1>2. rest \subseteq [c : Commands, i : DOMAIN directory, at : Nat, n : Nat]
      /\ \A a \in rest : directory[a.i].type \in Registered
  BY DEF FlowHistory, AttemptsFine
<1>3. CASE retryable /\ MayTryAgain(directory[i], ActOf(c, i), r.tries)
  <2> DEFINE s == [r EXCEPT !.tries = @ + 1]
             a == [c |-> c, i |-> i, at |-> r.at, n |-> r.tries + 1]
  <2>1. Set(c, i, s) /\ attempts' = rest \union {a}
    BY <1>3 DEF TryAgain
  <2>2. /\ s \in RunRecords /\ s.phase = "open" /\ s.rejected = FALSE
        /\ s.at = r.at /\ s.rows = r.rows /\ s.meta = r.meta
        /\ a \in [c : Commands, i : DOMAIN directory, at : Nat, n : Nat] /\ a.i = i
    BY <1>1 DEF RunRecords
  <2> HIDE DEF s, a
  <2>3. RunOK(directory[i], s)
    BY <1>1, <2>2 DEF RunOK
  <2>4. FlowsFine' /\ CommandsFine'
    BY <2>1, <2>2, <2>3, RunMoves
  <2>5. AttemptsFine'
    BY <1>2, <2>1, <2>2 DEF AttemptsFine
  <2> QED
    BY <2>4, <2>5
<1>4. CASE ~ (retryable /\ MayTryAgain(directory[i], ActOf(c, i), r.tries))
  <2> DEFINE s == [r EXCEPT !.phase = "failed", !.rejected = ~ retryable]
  <2>1. Set(c, i, s) /\ attempts' = rest
    BY <1>4 DEF TryAgain
  <2>2. s \in RunRecords /\ s.phase = "failed"
    BY <1>1 DEF RunRecords
  <2> HIDE DEF s
  <2>3. RunOK(directory[i], s)
    BY <2>2 DEF RunOK
  <2>4. FlowsFine' /\ CommandsFine'
    BY <2>1, <2>2, <2>3, RunMoves
  <2>5. AttemptsFine'
    BY <1>2, <2>1 DEF AttemptsFine
  <2> QED
    BY <2>4, <2>5
<1> QED
  BY <1>3, <1>4
LEMMA ReplyKeeps ==
  ASSUME FlowHistory, NEW a \in attempts, Replies(a)
  PROVE  FlowsFine' /\ AttemptsFine' /\ CommandsFine'
<1> DEFINE f == directory[a.i]
           r == flow[a.c][a.i]
           answered == Answered(f, ActOf(a.c, a.i), r)
<1>1. /\ a \in [c : Commands, i : DOMAIN directory, at : Nat, n : Nat]
      /\ a.c \in Commands /\ a.i \in DOMAIN directory /\ f.type \in Registered
  BY DEF FlowHistory, AttemptsFine
<1>2. /\ IsOpen(a.c, a.i) /\ r.at = a.at /\ Completes(a) /\ UNCHANGED <<directory, command>>
  BY DEF Replies, AwaitedBy
<1>3. r \in RunRecords /\ RunOK(f, r) /\ r.phase = "open"
  BY <1>1, <1>2 DEF FlowHistory, FlowsFine, IsOpen
<1>4. f \in JobFiles
  BY <1>1, Folder DEF FlowHistory
<1>5. Good(f) /\ r.at \in 1 .. Len(Acts[f]) /\ Ahead(f, r.rows, r.meta, r.at)
  BY <1>1, <1>3, <1>4 DEF Good, RunOK
<1>6. Same(answered, r) /\ Ahead(f, answered.rows, answered.meta, r.at + 1)
  BY <1>3, <1>5, OneAnswered DEF ActOf
<1>7. Len(Acts[f]) \in Nat
  BY <1>5, ActsOfFile
<1>8. r.rejected = FALSE
  BY <1>3 DEF RunOK, RunRecords
<1> HIDE DEF answered
<1>9. CASE r.at < Len(Acts[f])
  <2> DEFINE s == [answered EXCEPT !.at = @ + 1, !.tries = 1]
             b == [a EXCEPT !.at = @ + 1, !.n = 1]
  <2>1. Set(a.c, a.i, s) /\ attempts' = (attempts \ {a}) \union {b}
    BY <1>2, <1>9 DEF Completes, answered
  <2>2. /\ s \in RunRecords /\ s.phase = "open" /\ s.at = r.at + 1
        /\ s.rows = answered.rows /\ s.meta = answered.meta /\ s.rejected = FALSE
    <3>1. answered \in RunRecords /\ answered.phase = "open" /\ answered.at = r.at /\ answered.rejected = FALSE
      BY <1>3, <1>6, <1>8 DEF Same
    <3>2. PICK m \in Nat : m = r.at + 1
      BY <1>3 DEF RunRecords
    <3>3. s = [answered EXCEPT !.at = m, !.tries = 1]
      BY <3>1, <3>2
    <3> HIDE DEF r, s
    <3> QED
      BY <3>1, <3>2, <3>3 DEF RunRecords
  <2>3. b \in [c : Commands, i : DOMAIN directory, at : Nat, n : Nat] /\ b.i = a.i
    <3>1. a \in [c : Commands, i : DOMAIN directory, at : Nat, n : Nat]
      BY <1>1
    <3>2. PICK m \in Nat : m = a.at + 1
      BY <3>1
    <3>3. b = [a EXCEPT !.at = m, !.n = 1]
      BY <3>1, <3>2
    <3> HIDE DEF b
    <3> QED
      BY <3>1, <3>2, <3>3
  <2> HIDE DEF s, b
  <2>4. RunOK(f, s)
    <3>1. s.at \in 1 .. Len(Acts[f])
      BY <1>5, <1>7, <1>9, <2>2
    <3>2. Ahead(f, s.rows, s.meta, s.at)
      BY <1>6, <2>2
    <3> QED
      BY <1>5, <2>2, <3>1, <3>2 DEF RunOK, Good
  <2>5. FlowsFine' /\ CommandsFine'
    BY <1>1, <1>2, <2>1, <2>2, <2>4, RunMoves
  <2>6. AttemptsFine'
    BY <1>1, <1>2, <2>1, <2>3 DEF FlowHistory, AttemptsFine
  <2> QED
    BY <2>5, <2>6
<1>10. CASE ~ (r.at < Len(Acts[f]))
  <2> DEFINE s == [answered EXCEPT !.phase = "done"]
  <2>1. Set(a.c, a.i, s) /\ attempts' = attempts \ {a}
    BY <1>2, <1>10 DEF Completes, answered
  <2>2. /\ s \in RunRecords /\ s.phase = "done"
        /\ s.rows = answered.rows /\ s.meta = answered.meta /\ s.rejected = FALSE
    BY <1>6, <1>8 DEF Same, RunRecords
  <2> HIDE DEF s
  <2>3. r.at + 1 = Len(Acts[f]) + 1
    <3>1. PICK m \in Nat, l \in Nat : m = r.at /\ l = Len(Acts[f]) /\ m \in 1 .. l
      BY <1>5, <1>7
    <3> HIDE DEF r
    <3> QED
      BY <1>10, <3>1
  <2>4. s.rows[FinalOf(f)] = Upstream(f, FinalOf(f)) /\ s.meta = f.post
    BY <1>5, <1>6, <2>2, <2>3, EndsWhole
  <2>5. RunOK(f, s)
    BY <2>2, <2>4 DEF RunOK
  <2>6. FlowsFine' /\ CommandsFine'
    BY <1>1, <1>2, <2>1, <2>2, <2>5, RunMoves
  <2>7. AttemptsFine'
    BY <1>2, <2>1 DEF FlowHistory, AttemptsFine
  <2> QED
    BY <2>6, <2>7
<1> QED
  BY <1>9, <1>10

\* A command that records an outcome goes to the next file, or ends.
LEMMA Recorded ==
  ASSUME FlowHistory, NEW c \in Commands, NEW ok \in BOOLEAN, command[c].pc \in {"start", "await"},
         NEW runs, CommandOK(command[c], runs),
         ok => Finished(directory[command[c].at], runs[command[c].at]), Record(c, ok)
  PROVE  /\ command' \in [Commands -> CommandRecords] /\ CommandOK(command'[c], runs)
         /\ \A b \in Commands : b # c => command'[b] = command[b]
<1> DEFINE cmd == command[c]
           oks == Append(cmd.oks, ok)
           n == Len(directory)
           next == IF c \in FailFast /\ ~ ok THEN [cmd EXCEPT !.oks = oks, !.pc = "exited", !.exit = "one"]
                   ELSE IF cmd.at < n THEN [cmd EXCEPT !.oks = oks, !.pc = "load", !.at = @ + 1]
                   ELSE [cmd EXCEPT !.oks = oks, !.pc = "exited",
                                    !.exit = IF FALSE \in ToSet(oks) THEN "one" ELSE "zero"]
<1>1. command \in [Commands -> CommandRecords] /\ cmd \in CommandRecords
  BY DEF FlowHistory, CommandsFine
<1>2. command' = [command EXCEPT ![c] = next]
  BY DEF Record
<1>3. n \in Nat \ {0} /\ DOMAIN directory = 1 .. n
  BY Folder DEF FlowHistory
<1>4. /\ cmd.at \in 1 .. n /\ Len(cmd.oks) = cmd.at - 1 /\ cmd.exit = "none"
      /\ \A j \in 1 .. Len(cmd.oks) : cmd.oks[j] => Finished(directory[j], runs[j])
      /\ cmd.oks \in Seq(BOOLEAN)
  BY <1>1, <1>3 DEF CommandOK, CommandRecords
<1>5. /\ oks \in Seq(BOOLEAN) /\ Len(oks) = cmd.at
      /\ \A j \in 1 .. Len(oks) : oks[j] = IF j = cmd.at THEN ok ELSE cmd.oks[j]
  BY <1>4
<1>6. \A j \in 1 .. Len(oks) : oks[j] => Finished(directory[j], runs[j])
  <2> SUFFICES ASSUME NEW j \in 1 .. Len(oks), oks[j] PROVE Finished(directory[j], runs[j])
    OBVIOUS
  <2>1. CASE j = cmd.at
    BY <1>5, <2>1
  <2>2. CASE j # cmd.at
    <3>1. j \in 1 .. Len(cmd.oks)
      BY <1>3, <1>4, <1>5, <2>2
    <3> QED
      BY <1>4, <1>5, <2>2, <3>1
  <2> QED
    BY <2>1, <2>2
<1>7. ASSUME FALSE \notin ToSet(oks), NEW j \in 1 .. Len(oks) PROVE oks[j]
  <2>1. oks[j] \in BOOLEAN /\ j \in DOMAIN oks
    BY <1>5
  <2>2. oks[j] # FALSE
    BY <1>7, <2>1, Zenon DEF ToSet
  <2> QED
    BY <2>1, <2>2, Zenon
<1> HIDE DEF oks
<1>8. /\ next \in CommandRecords /\ next.oks = oks /\ next.at \in 1 .. n
      /\ next.pc = "load" => next.at = cmd.at + 1 /\ next.exit = "none"
      /\ next.pc \notin {"start", "await"}
      /\ next.exit = "zero" => cmd.at = n /\ FALSE \notin ToSet(oks)
  <2>0. cmd \in CommandRecords /\ cmd.exit = "none" /\ cmd.at \in 1 .. n /\ n \in Nat /\ oks \in Seq(BOOLEAN)
    BY <1>1, <1>3, <1>4, <1>5
  <2>1. CASE c \in FailFast /\ ~ ok
    <3>1. next = [cmd EXCEPT !.oks = oks, !.pc = "exited", !.exit = "one"]
      BY <2>1
    <3> HIDE DEF next, cmd, n
    <3> QED
      BY <2>0, <3>1 DEF CommandRecords
  <2>2. CASE ~ (c \in FailFast /\ ~ ok) /\ cmd.at < n
    <3>1. next = [cmd EXCEPT !.oks = oks, !.pc = "load", !.at = cmd.at + 1]
      BY <2>2
    <3>2. PICK m \in Nat : m = cmd.at + 1
      BY <2>0
    <3>3. m \in 1 .. n
      BY <2>0, <2>2, <3>2
    <3>4. next = [cmd EXCEPT !.oks = oks, !.pc = "load", !.at = m]
      BY <3>1, <3>2
    <3> HIDE DEF next, cmd, n
    <3> QED
      BY <2>0, <3>2, <3>3, <3>4 DEF CommandRecords
  <2>3. CASE ~ (c \in FailFast /\ ~ ok) /\ ~ (cmd.at < n)
    <3> DEFINE code == IF FALSE \in ToSet(oks) THEN "one" ELSE "zero"
    <3>1. next = [cmd EXCEPT !.oks = oks, !.pc = "exited", !.exit = code]
      BY <2>3
    <3>2. cmd.at = n
      BY <2>0, <2>3
    <3>3. code \in {"one", "zero"} /\ (code = "zero" => FALSE \notin ToSet(oks))
      OBVIOUS
    <3> HIDE DEF next, cmd, n, code
    <3> QED
      BY <2>0, <3>1, <3>2, <3>3 DEF CommandRecords
  <2> QED
    BY <2>1, <2>2, <2>3
<1> HIDE DEF next
<1>9. CommandOK(next, runs)
  <2>1. next.at \in DOMAIN directory /\ Len(next.oks) <= Len(directory)
    BY <1>3, <1>4, <1>5, <1>8
  <2>2. next.pc \in {"load", "start", "await"} => Len(next.oks) = next.at - 1 /\ next.exit = "none"
    <3>1. ASSUME next.pc = "load" PROVE Len(oks) = next.at - 1
      BY <1>4, <1>5, <1>8, <3>1
    <3> QED
      BY <1>8, <3>1
  <2>3. next.pc \notin {"start", "await"}
    BY <1>8
  <2>4. \A j \in 1 .. Len(next.oks) : next.oks[j] => Finished(directory[j], runs[j])
    BY <1>6, <1>8, Zenon
  <2>5. next.exit = "zero" => Len(next.oks) = Len(directory) /\ \A j \in 1 .. Len(next.oks) : next.oks[j]
    <3>1. \A j \in 1 .. Len(oks) : FALSE \notin ToSet(oks) => oks[j]
      BY <1>7, Zenon
    <3> QED
      BY <1>5, <1>8, <3>1, Zenon
  <2> HIDE DEF cmd, n
  <2> QED
    BY <2>1, <2>2, <2>3, <2>4, <2>5, Zenon DEF CommandOK
<1> QED
  BY <1>1, <1>2, <1>8, <1>9
\* The command's part, when one command changes and its runs are what they were for it.
LEMMA OneCommand ==
  ASSUME FlowHistory, NEW c \in Commands, command' \in [Commands -> CommandRecords],
         CommandOK(command'[c], flow'[c]),
         \A b \in Commands : b # c => command'[b] = command[b] /\ flow'[b] = flow[b],
         UNCHANGED directory
  PROVE  CommandsFine'
<1>1. \A b \in Commands : CommandOK(command'[b], flow'[b])
  BY DEF FlowHistory, CommandsFine
<1> QED
  BY <1>1 DEF CommandsFine, CommandOK

LEMMA StartKeeps ==
  ASSUME FlowHistory, NEW c \in Commands, StartWorkflow(c)
  PROVE  FlowsFine' /\ AttemptsFine' /\ CommandsFine'
<1> DEFINE i == command[c].at
           f == directory[i]
           r == [NotStarted EXCEPT !.phase = "open", !.at = 1, !.tries = 1]
<1>1. /\ command[c].pc = "start" /\ Set(c, i, r) /\ UNCHANGED directory
      /\ f.wait => command' = [command EXCEPT ![c].pc = "await"]
      /\ ~ f.wait => Record(c, TRUE)
      /\ attempts' = IF f.type \in Registered
                     THEN attempts \union {[c |-> c, i |-> i, at |-> 1, n |-> 1]} ELSE attempts
  BY DEF StartWorkflow
<1>2. /\ command \in [Commands -> CommandRecords] /\ CommandOK(command[c], flow[c])
      /\ flow \in [Commands -> [DOMAIN directory -> RunRecords]]
      /\ \A b \in Commands : \A j \in DOMAIN directory : RunOK(directory[j], flow[b][j])
  BY DEF FlowHistory, FlowsFine, CommandsFine
<1>3. i \in DOMAIN directory /\ Loads(f) /\ Len(command[c].oks) = i - 1
  BY <1>1, <1>2 DEF CommandOK
<1>4. DOMAIN directory = 1 .. Len(directory) /\ Len(directory) \in Nat /\ f \in JobFiles
  BY <1>3, Folder DEF FlowHistory
<1>5. /\ r \in RunRecords /\ r.phase = "open" /\ r.at = 1 /\ r.rejected = FALSE
      /\ r.rows = [s \in StepIds |-> {}] /\ r.meta = {}
  BY DEF NotStarted, RunRecords
<1> HIDE DEF r
<1>6. RunOK(f, r)
  <2>1. ASSUME f.type \in Registered PROVE r.at \in 1 .. Len(Acts[f]) /\ Ahead(f, r.rows, r.meta, r.at)
    <3>1. Good(f)
      BY <1>3, <1>4, <2>1 DEF Good
    <3>2. 1 \in 1 .. Len(Acts[f])
      BY <3>1, ActsOfFile
    <3> QED
      BY <1>5, <3>1, <3>2, StartsEmpty
  <2> QED
    BY <1>3, <1>5, <2>1 DEF RunOK
<1>7. flow' = [flow EXCEPT ![c] = [flow[c] EXCEPT ![i] = r]]
  BY <1>1 DEF Set
<1>8. /\ flow' \in [Commands -> [DOMAIN directory -> RunRecords]]
      /\ \A b \in Commands : \A j \in DOMAIN directory :
           flow'[b][j] = IF b = c /\ j = i THEN r ELSE flow[b][j]
      /\ \A b \in Commands : b # c => flow'[b] = flow[b]
  BY <1>2, <1>3, <1>5, <1>7
<1>9. FlowsFine'
  <2>1. \A b \in Commands : \A j \in DOMAIN directory : RunOK(directory[j], flow'[b][j])
    BY <1>2, <1>6, <1>8
  <2> QED
    BY <1>1, <1>8, <2>1 DEF FlowsFine
<1>10. AttemptsFine'
  <2>1. [c |-> c, i |-> i, at |-> 1, n |-> 1] \in [c : Commands, i : DOMAIN directory, at : Nat, n : Nat]
    BY <1>3
  <2> QED
    BY <1>1, <2>1 DEF FlowHistory, AttemptsFine
\* What is recorded already is about the files before this one.
<1>11. CommandOK(command[c], flow'[c])
  <2>1. \A j \in 1 .. Len(command[c].oks) : j \in DOMAIN directory /\ j # i
    BY <1>3, <1>4
  <2>2. \A j \in 1 .. Len(command[c].oks) : flow'[c][j] = flow[c][j]
    BY <1>8, <2>1
  <2> QED
    BY <1>2, <2>2 DEF CommandOK
<1>12. CASE f.wait
  <2>1. /\ command' \in [Commands -> CommandRecords]
        /\ \A b \in Commands : b # c => command'[b] = command[b]
        /\ command'[c] = [command[c] EXCEPT !.pc = "await"]
    <3>1. [command[c] EXCEPT !.pc = "await"] \in CommandRecords
      BY <1>2 DEF CommandRecords
    <3>2. command' = [command EXCEPT ![c] = [command[c] EXCEPT !.pc = "await"]]
      BY <1>1, <1>12
    <3>3. command \in [Commands -> CommandRecords]
      BY <1>2
    <3> QED
      BY <3>1, <3>2, <3>3
  <2>2. /\ command'[c].at = i /\ command'[c].oks = command[c].oks /\ command'[c].exit = command[c].exit
        /\ command'[c].pc = "await"
    BY <1>2, <2>1 DEF CommandRecords
  <2>3. CommandOK(command'[c], flow'[c])
    BY <1>1, <1>3, <1>11, <2>2 DEF CommandOK
  <2>4. CommandsFine'
    BY <1>1, <1>8, <2>1, <2>3, OneCommand
  <2> QED
    BY <1>9, <1>10, <2>4
<1>13. CASE ~ f.wait
  <2>1. Finished(f, flow'[c][i])
    BY <1>3, <1>5, <1>8, <1>13 DEF Finished
  <2>2. /\ command' \in [Commands -> CommandRecords] /\ CommandOK(command'[c], flow'[c])
        /\ \A b \in Commands : b # c => command'[b] = command[b]
    BY <1>1, <1>11, <1>13, <2>1, Recorded
  <2>3. CommandsFine'
    BY <1>1, <1>8, <2>2, OneCommand
  <2> QED
    BY <1>9, <1>10, <2>3
<1> QED
  BY <1>12, <1>13

\* A command that records the outcome of its file, its runs left alone.
LEMMA OutcomeKeeps ==
  ASSUME FlowHistory, NEW c \in Commands, NEW ok \in BOOLEAN, command[c].pc \in {"start", "await"},
         ok => flow[c][command[c].at].phase = "done", Record(c, ok), UNCHANGED <<directory, flow>>
  PROVE  CommandsFine'
<1>1. CommandOK(command[c], flow[c])
  BY DEF FlowHistory, CommandsFine
<1>2. ok => Finished(directory[command[c].at], flow[c][command[c].at])
  BY DEF Finished
<1>3. /\ command' \in [Commands -> CommandRecords] /\ CommandOK(command'[c], flow[c])
      /\ \A b \in Commands : b # c => command'[b] = command[b]
  BY <1>1, <1>2, Recorded
<1> QED
  BY <1>3, OneCommand

LEMMA LoadKeeps ==
  ASSUME FlowHistory, NEW c \in Commands, LoadFile(c)
  PROVE  CommandsFine'
<1>1. /\ command \in [Commands -> CommandRecords] /\ CommandOK(command[c], flow[c])
      /\ command[c].pc = "load" /\ UNCHANGED <<directory, flow>>
  BY DEF FlowHistory, CommandsFine, LoadFile
<1>2. CASE Loads(directory[command[c].at])
  <2>1. command' = [command EXCEPT ![c].pc = "start"]
    BY <1>2 DEF LoadFile
  <2>2. /\ command' \in [Commands -> CommandRecords]
        /\ command'[c].at = command[c].at /\ command'[c].oks = command[c].oks
        /\ command'[c].exit = command[c].exit /\ command'[c].pc = "start"
        /\ \A b \in Commands : b # c => command'[b] = command[b]
    BY <1>1, <2>1 DEF CommandRecords
  <2>3. CommandOK(command'[c], flow[c])
    BY <1>1, <1>2, <2>2 DEF CommandOK
  <2> QED
    BY <1>1, <2>2, <2>3, OneCommand
<1>3. CASE ~ Loads(directory[command[c].at])
  <2>1. command' = [command EXCEPT ![c].pc = "exited", ![c].exit = "raised"]
    BY <1>3 DEF LoadFile, Exit
  <2>2. /\ command' \in [Commands -> CommandRecords]
        /\ command'[c].at = command[c].at /\ command'[c].oks = command[c].oks
        /\ command'[c].exit = "raised" /\ command'[c].pc = "exited"
        /\ \A b \in Commands : b # c => command'[b] = command[b]
    BY <1>1, <2>1 DEF CommandRecords
  <2>3. CommandOK(command'[c], flow[c])
    BY <1>1, <2>2 DEF CommandOK
  <2> QED
    BY <1>1, <2>2, <2>3, OneCommand
<1> QED
  BY <1>2, <1>3

LEMMA MishapCounts ==
  ASSUME FlowHistory, Mishap \/ UNCHANGED mishaps
  PROVE  mishaps' \in 0 .. MaxMishaps[directory]
<1>1. mishaps \in 0 .. MaxMishaps[directory] /\ MaxMishaps[directory] \in Nat
  BY Folder DEF FlowHistory
<1> QED
  BY <1>1 DEF Mishap
LEMMA AwaitedRun ==
  ASSUME FlowHistory, NEW a \in attempts, AwaitedBy(a)
  PROVE  /\ a.c \in Commands /\ a.i \in DOMAIN directory
         /\ IsOpen(a.c, a.i) /\ directory[a.i].type \in Registered
BY DEF FlowHistory, AttemptsFine, AwaitedBy

LEMMA FlowStarts == FlowInit => FlowHistory
<1> SUFFICES ASSUME FlowInit PROVE FlowHistory
  OBVIOUS
<1>1. directory \in Directories /\ mishaps \in 0 .. MaxMishaps[directory]
  <2>1. directory \in Directories /\ mishaps = 0
    BY DEF FlowInit
  <2> QED
    BY <2>1, Folder
<1>2. DOMAIN directory = 1 .. Len(directory) /\ Len(directory) \in Nat \ {0}
  BY <1>1, Folder
<1>3. FlowsFine
  <2>1. NotStarted \in RunRecords /\ NotStarted.phase = "none" /\ NotStarted.rejected = FALSE
    BY DEF NotStarted, RunRecords
  <2>2. flow = [c \in Commands |-> [i \in DOMAIN directory |-> NotStarted]]
    BY DEF FlowInit
  <2>3. \A f : RunOK(f, NotStarted)
    BY <2>1 DEF RunOK
  <2> QED
    BY <2>1, <2>2, <2>3 DEF FlowsFine
<1>4. AttemptsFine
  BY DEF FlowInit, AttemptsFine
<1>5. CommandsFine
  <2>1. PICK invoked \in SUBSET Commands :
          command = [c \in Commands |-> [pc |-> IF c \in invoked THEN "load" ELSE "idle",
                                         at |-> 1, oks |-> <<>>, exit |-> "none"]]
    BY DEF FlowInit
  <2>2. <<>> \in Seq(BOOLEAN) /\ Len(<<>>) = 0
    OBVIOUS
  <2>3. \A c \in Commands : /\ command[c] \in CommandRecords /\ command[c].pc \in {"load", "idle"}
                            /\ command[c].at = 1 /\ command[c].oks = <<>> /\ command[c].exit = "none"
    BY <2>1, <2>2 DEF CommandRecords
  <2>4. \A c \in Commands : CommandOK(command[c], flow[c])
    BY <1>2, <2>2, <2>3 DEF CommandOK
  <2> QED
    BY <2>1, <2>3, <2>4 DEF CommandsFine
<1> QED
  BY <1>1, <1>3, <1>4, <1>5 DEF FlowHistory

LEMMA FlowSteps ==
  ASSUME FlowHistory, [FlowNext]_flowVars
  PROVE  FlowHistory'
<1> DEFINE Kept == FlowsFine' /\ AttemptsFine' /\ CommandsFine'
<1>0. ASSUME UNCHANGED directory, Mishap \/ UNCHANGED mishaps, FlowsFine', AttemptsFine', CommandsFine'
      PROVE  FlowHistory'
  BY <1>0, MishapCounts DEF FlowHistory
<1>1. ASSUME NEW a \in attempts, Replies(a) PROVE FlowHistory'
  BY <1>0, <1>1, ReplyKeeps DEF Replies
<1>2. ASSUME NEW a \in attempts, RaiseUnbound(a) PROVE FlowHistory'
  BY <1>0, <1>2, AwaitedRun, TryAgainKeeps DEF RaiseUnbound
<1>3. ASSUME NEW a \in attempts, attempts' = attempts \ {a}, UNCHANGED <<directory, command, flow>>,
             Mishap \/ UNCHANGED mishaps
      PROVE  FlowHistory'
  <2>1. FlowsFine' /\ CommandsFine'
    BY <1>3 DEF FlowHistory, FlowsFine, CommandsFine, CommandOK
  <2>2. AttemptsFine'
    BY <1>3 DEF FlowHistory, AttemptsFine
  <2> QED
    BY <1>0, <1>3, <2>1, <2>2
<1>4. ASSUME NEW a \in attempts, AnswerLate(a) \/ WorkerDies(a) PROVE FlowHistory'
  BY <1>3, <1>4 DEF AnswerLate, WorkerDies
<1>5. ASSUME NEW a \in attempts, Reject(a) PROVE FlowHistory'
  BY <1>0, <1>5, AwaitedRun, TryAgainKeeps DEF Reject
<1>6. ASSUME NEW a \in attempts, Fail(a) PROVE FlowHistory'
  BY <1>0, <1>6, AwaitedRun, TryAgainKeeps DEF Fail
<1>7. ASSUME NEW c \in Commands, NEW i \in DOMAIN directory, GiveUp(c, i) PROVE FlowHistory'
  <2>1. Mishap \/ UNCHANGED mishaps
    BY <1>7 DEF GiveUp
  <2> QED
    BY <1>0, <1>7, <2>1, TryAgainKeeps DEF GiveUp
<1>20. ASSUME NEW c \in Commands, NEW i \in DOMAIN directory, RecipeEnds(c, i) PROVE FlowHistory'
  <2>1. PICK phase \in {"done", "failed"} : Set(c, i, [flow[c][i] EXCEPT !.phase = phase])
    BY <1>20 DEF RecipeEnds
  <2> DEFINE r == [flow[c][i] EXCEPT !.phase = phase]
  <2>2. /\ flow[c][i] \in RunRecords /\ RunOK(directory[i], flow[c][i])
        /\ IsOpen(c, i) /\ directory[i].type \in RecipeTypes
        /\ UNCHANGED <<directory, command, attempts, mishaps>>
    BY <1>20 DEF FlowHistory, FlowsFine, RecipeEnds
  <2>3. r \in RunRecords /\ r.phase = phase /\ r.phase # "none" /\ r.rejected = FALSE
    BY <2>2 DEF RunRecords, RunOK, IsOpen
  <2>4. directory[i].type \notin Registered
    BY <2>2 DEF RecipeTypes, Registered
  <2> HIDE DEF r
  <2>5. RunOK(directory[i], r)
    BY <2>3, <2>4 DEF RunOK
  <2>6. FlowsFine' /\ CommandsFine'
    BY <2>1, <2>2, <2>3, <2>5, RunMoves DEF r
  <2>7. AttemptsFine'
    BY <2>2 DEF FlowHistory, AttemptsFine
  <2> QED
    BY <1>0, <2>2, <2>6, <2>7
<1>8. ASSUME NEW c \in Commands, UNCHANGED <<directory, flow, attempts>>, CommandsFine',
             Mishap \/ UNCHANGED mishaps
      PROVE  FlowHistory'
  <2>1. FlowsFine' /\ AttemptsFine'
    BY <1>8 DEF FlowHistory, FlowsFine, AttemptsFine
  <2> QED
    BY <1>0, <1>8, <2>1
<1>9. ASSUME NEW c \in Commands, LoadFile(c) PROVE FlowHistory'
  BY <1>8, <1>9, LoadKeeps DEF LoadFile
<1>10. ASSUME NEW c \in Commands, StartWorkflow(c) PROVE FlowHistory'
  BY <1>0, <1>10, StartKeeps DEF StartWorkflow
<1>11. ASSUME NEW c \in Commands, RefusedStart(c) PROVE FlowHistory'
  BY <1>8, <1>11, OutcomeKeeps DEF RefusedStart
<1>12. ASSUME NEW c \in Commands, Returns(c) PROVE FlowHistory'
  <2> DEFINE ok == flow[c][command[c].at].phase = "done"
  <2>1. Record(c, ok) /\ command[c].pc \in {"start", "await"} /\ ok \in BOOLEAN /\ UNCHANGED <<directory, flow>>
    BY <1>12 DEF Returns
  <2>2. CommandsFine'
    BY <2>1, OutcomeKeeps
  <2> QED
    BY <1>8, <1>12, <2>2 DEF Returns
<1>13. ASSUME NEW c \in Commands, LosesServer(c) PROVE FlowHistory'
  BY <1>8, <1>13, OutcomeKeeps DEF LosesServer
<1>14. CASE UNCHANGED flowVars
  BY <1>14 DEF flowVars, FlowHistory, FlowsFine, AttemptsFine, CommandsFine, CommandOK
<1>15. CASE FlowNext
  <2>1. CASE \E r \in Runs : GiveUp(r[1], r[2]) \/ RecipeEnds(r[1], r[2])
    BY <1>7, <1>20, <2>1 DEF Runs
  <2>2. CASE WorkerStep
    BY <1>1, <1>2, <1>4, <2>2 DEF WorkerStep
  <2>3. CASE \E a \in attempts : Reject(a) \/ Fail(a) \/ WorkerDies(a)
    BY <1>4, <1>5, <1>6, <2>3
  <2>4. CASE \E c \in Commands : CommandStep(c) \/ LosesServer(c)
    BY <1>9, <1>10, <1>11, <1>12, <1>13, <2>4 DEF CommandStep
  <2> QED
    BY <1>15, <2>1, <2>2, <2>3, <2>4 DEF FlowNext
<1> QED
  BY <1>14, <1>15

LEMMA HistoryIsWhole == FlowHistory => FlowSafety
<1> SUFFICES ASSUME FlowHistory PROVE FlowSafety
  OBVIOUS
<1>0. \A c \in Commands : \A i \in DOMAIN directory : RunOK(directory[i], flow[c][i])
  BY DEF FlowHistory, FlowsFine
<1>1. ASSUME NEW r \in Runs
      PROVE  \E c \in Commands, i \in DOMAIN directory : r = <<c, i>> /\ RunOK(directory[i], flow[c][i])
  BY <1>0 DEF Runs
<1>2. AnswersAreWhole
  BY <1>1 DEF AnswersAreWhole, RunOK
<1>3. RejectionEndsTheRun
  <2> SUFFICES ASSUME NEW r \in Runs, flow[r[1]][r[2]].rejected
               PROVE  flow[r[1]][r[2]].phase = "failed" /\ ~ \E a \in attempts : AwaitedBy(a) /\ <<a.c, a.i>> = r
    BY DEF RejectionEndsTheRun
  <2>1. flow[r[1]][r[2]].phase = "failed"
    BY <1>1 DEF RunOK
  <2>2. ASSUME NEW a \in attempts, AwaitedBy(a), <<a.c, a.i>> = r PROVE FALSE
    BY <2>1, <2>2 DEF AwaitedBy, IsOpen
  <2> QED
    BY <2>1, <2>2
<1>4. ZeroMeansDone
  <2> SUFFICES ASSUME NEW c \in Commands, command[c].exit = "zero", NEW i \in DOMAIN directory
               PROVE  flow[c][i].phase = "done" \/ (~ directory[i].wait /\ flow[c][i].phase # "none")
    BY DEF ZeroMeansDone
  <2>1. CommandOK(command[c], flow[c])
    BY DEF FlowHistory, CommandsFine
  <2>2. i \in 1 .. Len(directory)
    BY Folder DEF FlowHistory
  <2>3. i \in 1 .. Len(command[c].oks) /\ command[c].oks[i]
    BY <2>1, <2>2 DEF CommandOK
  <2>4. Finished(directory[i], flow[c][i])
    BY <2>1, <2>3 DEF CommandOK
  <2> QED
    BY <2>4 DEF Finished
<1> QED
  BY <1>2, <1>3, <1>4 DEF FlowSafety

\* However many commands are given the directory, and however many attempts at the activities
\* die, are retried or answer late: a run that is done has the rows its steps were to be fed,
\* a command exits with 0 only if every file was started and every run it waited for is done,
\* and a rejected statement ends its run (DstoolsPipelineWorkflow.run, _cmd_run_dir).
THEOREM FlowsAreWhole == FlowSpec => []FlowSafety
<1>1. FlowInit => FlowHistory
  BY FlowStarts
<1>2. FlowHistory /\ [FlowNext]_flowVars => FlowHistory'
  BY FlowSteps
<1>3. FlowHistory => FlowSafety
  BY HistoryIsWhole
<1> QED
  BY <1>1, <1>2, <1>3, PTL DEF FlowSpec

-----------------------------------------------------------------------------
(* The preview sink and its import. *)

PreviewSpec == PreviewInit /\ [][PreviewNext]_previewVars

-----------------------------------------------------------------------------
(* The files of an operation. *)

\* The line of an event is about its file, the event about its row.
Asks(w) == w.line \/ w.path[1] = "event"
Need(w) == IF w.line THEN w.path ELSE RowOf(w.path)
Gives(w, path) == ~ w.line /\ w.path = path

\* What a file asks for is written just before it.
Sound(s) ==
  /\ s \in Seq(ToSet(s))
  /\ \A k \in 1 .. Len(s) : Asks(s[k]) => k - 1 \in 1 .. Len(s) /\ Gives(s[k - 1], Need(s[k]))

LEMMA OfItsMembers ==
  ASSUME NEW S, NEW s \in Seq(S)
  PROVE  s \in Seq(ToSet(s)) /\ DOMAIN s = 1 .. Len(s) /\ Len(s) \in Nat
<1>1. s = [k \in 1 .. Len(s) |-> s[k]] /\ DOMAIN s = 1 .. Len(s) /\ Len(s) \in Nat
  OBVIOUS
<1>2. \A k \in 1 .. Len(s) : s[k] \in ToSet(s)
  BY <1>1 DEF ToSet
<1> QED
  BY <1>1, <1>2

LEMMA WithoutFiles == Sound(<<>>) /\ ToSet(<<>>) = {}
<1>1. <<>> \in Seq({}) /\ Len(<<>>) = 0 /\ DOMAIN <<>> = {}
  OBVIOUS
<1>2. ToSet(<<>>) = {}
  BY <1>1 DEF ToSet
<1> QED
  BY <1>1, <1>2 DEF Sound

LEMMA OneFile ==
  ASSUME NEW path, NEW says, path[1] # "event"
  PROVE  Sound(<<File(path, says)>>) /\ ToSet(<<File(path, says)>>) = {File(path, says)}
<1> DEFINE w == File(path, says)
           s == <<w>>
<1>1. w.line = FALSE /\ w.path = path
  BY DEF File
<1> HIDE DEF w
<1>2. s \in Seq({w}) /\ Len(s) = 1 /\ DOMAIN s = {1} /\ s[1] = w
  OBVIOUS
<1>3. ToSet(s) = {w}
  BY <1>2 DEF ToSet
<1>4. ~ Asks(w)
  BY <1>1 DEF Asks
<1> HIDE DEF s
<1>5. \A k \in 1 .. Len(s) : ~ Asks(s[k])
  BY <1>2, <1>4
<1> QED
  BY <1>2, <1>3, <1>5 DEF Sound, s, w

LEMMA TwoInARow ==
  ASSUME NEW r, NEW e
  PROVE  <<r, e>> = <<r>> \o <<e>>
<1> DEFINE T == {r, e}
           u == <<r>>
           v == <<e>>
           w == <<r, e>>
<1>1. u \in Seq(T) /\ v \in Seq(T) /\ Len(u) = 1 /\ Len(v) = 1 /\ u[1] = r /\ v[1] = e
  OBVIOUS
<1>2. w \in Seq(T) /\ Len(w) = 2 /\ w[1] = r /\ w[2] = e
  OBVIOUS
<1> HIDE DEF T, u, v, w
<1> DEFINE z == u \o v
<1>3. z \in Seq(T) /\ Len(z) = 1 + 1 /\ z[1] = u[1] /\ z[1 + 1] = v[1]
  <2>1. u \in Seq(T) /\ v \in Seq(T) /\ 1 \in 1 .. Len(u) /\ 1 \in 1 .. Len(v)
    BY <1>1
  <2>2. /\ u \o v \in Seq(T) /\ Len(u \o v) = Len(u) + Len(v)
        /\ \A m \in 1 .. Len(u) : (u \o v)[m] = u[m] /\ m \in 1 .. Len(u \o v)
        /\ \A j \in 1 .. Len(v) : (u \o v)[Len(u) + j] = v[j] /\ Len(u) + j \in 1 .. Len(u \o v)
    BY <2>1, Joined, Zenon
  <2>3. (u \o v)[1] = u[1] /\ (u \o v)[Len(u) + 1] = v[1]
    BY <2>1, <2>2, Zenon
  <2> QED
    BY <1>1, <2>2, <2>3, Zenon DEF z
<1> HIDE DEF z
<1>4. Len(z) = 2 /\ z[1] = r /\ z[2] = e
  BY <1>1, <1>3
<1>5. \A k \in 1 .. 2 : w[k] = z[k]
  <2>1. \A k \in 1 .. 2 : k = 1 \/ k = 2
    OBVIOUS
  <2> QED
    BY <1>2, <1>4, <2>1, Zenon
<1>6. w = z
  BY <1>2, <1>3, <1>4, <1>5, SeqEqual
<1> QED
  BY <1>6 DEF u, v, w, z

LEMMA ThreeInARow ==
  ASSUME NEW r, NEW e, NEW l
  PROVE  <<r>> \o <<e, l>> = <<r, e, l>>
<1> DEFINE T == {r, e, l}
           u == <<r>>
           v == <<e, l>>
           w == <<r, e, l>>
<1>1. u \in Seq(T) /\ v \in Seq(T) /\ Len(u) = 1 /\ Len(v) = 2 /\ u[1] = r /\ v[1] = e /\ v[2] = l
  OBVIOUS
<1>2. w \in Seq(T) /\ Len(w) = 3 /\ w[1] = r /\ w[2] = e /\ w[3] = l
  OBVIOUS
<1> HIDE DEF T, u, v, w
<1>3. /\ u \o v \in Seq(T) /\ Len(u \o v) = 3 /\ (u \o v)[1] = u[1] /\ (u \o v)[1 + 1] = v[1] /\ (u \o v)[1 + 2] = v[2]
  <2>1. 1 \in 1 .. Len(u) /\ 1 \in 1 .. Len(v) /\ 2 \in 1 .. Len(v)
    BY <1>1
  <2>2. /\ u \o v \in Seq(T) /\ Len(u \o v) = Len(u) + Len(v)
        /\ \A m \in 1 .. Len(u) : (u \o v)[m] = u[m] /\ m \in 1 .. Len(u \o v)
        /\ \A j \in 1 .. Len(v) : (u \o v)[Len(u) + j] = v[j] /\ Len(u) + j \in 1 .. Len(u \o v)
    <3>1. u \in Seq(T) /\ v \in Seq(T)
      BY <1>1
    <3> QED
      BY <3>1, Joined, Zenon
  <2> QED
    BY <1>1, <2>1, <2>2
<1>4. /\ (u \o v)[1] = r /\ (u \o v)[2] = e /\ (u \o v)[3] = l
  BY <1>1, <1>3
<1> DEFINE z == u \o v
<1>5. z \in Seq(T) /\ Len(z) = 3 /\ z[1] = r /\ z[2] = e /\ z[3] = l
  BY <1>3, <1>4
<1> HIDE DEF z
<1>6. \A k \in 1 .. 3 : z[k] = w[k]
  <2>1. \A k \in 1 .. 3 : k = 1 \/ k = 2 \/ k = 3
    OBVIOUS
  <2> QED
    BY <1>2, <1>5, <2>1, Zenon
<1>7. z = w
  BY <1>2, <1>5, <1>6, SeqEqual
<1> QED
  BY <1>7 DEF u, v, w, z

\* The row, the event and the line of something that is dumped.
Dumped(row, kind, key, says) ==
  LET path == <<"event", kind, key, preview.run>> IN
  {File(row, says), File(path, says), [path |-> path, says |-> says, line |-> TRUE]}

LEMMA RowFirst ==
  ASSUME NEW row, NEW kind, NEW key, NEW says, row[1] = "row",
         row = RowOf(<<"event", kind, key, preview.run>>)
  PROVE  /\ Sound(RowThenEvent(row, kind, key, says))
         /\ ToSet(RowThenEvent(row, kind, key, says)) = Dumped(row, kind, key, says)
<1> DEFINE path == <<"event", kind, key, preview.run>>
           r == File(row, says)
           e == File(path, says)
           l == [path |-> path, says |-> says, line |-> TRUE]
           s == <<r, e, l>>
<1>1. RowThenEvent(row, kind, key, says) = s
  <2>1. RowThenEvent(row, kind, key, says) = <<r>> \o <<e, l>>
    BY DEF RowThenEvent, Emitted
  <2> HIDE DEF r, e, l
  <2>2. <<r>> \o <<e, l>> = <<r, e, l>>
    BY ThreeInARow, Zenon
  <2> QED
    BY <2>1, <2>2
<1>2. /\ r.line = FALSE /\ r.path = row /\ e.line = FALSE /\ e.path = path
      /\ l.line = TRUE /\ l.path = path /\ path[1] = "event"
  BY DEF File
<1>3. Dumped(row, kind, key, says) = {r, e, l}
  BY DEF Dumped
<1> HIDE DEF r, e, l, path
<1>4. s \in Seq({r, e, l}) /\ Len(s) = 3 /\ DOMAIN s = {1, 2, 3} /\ s[1] = r /\ s[2] = e /\ s[3] = l
  OBVIOUS
<1>5. ToSet(s) = {r, e, l}
  BY <1>4 DEF ToSet
<1>6. ~ Asks(r) /\ Need(e) = row /\ Need(l) = path
  BY <1>2 DEF Asks, Need, path
<1>7. Gives(r, row) /\ Gives(e, path)
  BY <1>2 DEF Gives
<1> HIDE DEF s
<1>8. ASSUME NEW k \in 1 .. Len(s), Asks(s[k])
      PROVE  k - 1 \in 1 .. Len(s) /\ Gives(s[k - 1], Need(s[k]))
  <2>1. k \in {1, 2, 3}
    BY <1>4
  <2>2. CASE k = 1
    BY <1>4, <1>6, <1>8, <2>2
  <2>3. CASE k = 2
    BY <1>4, <1>6, <1>7, <2>3
  <2>4. CASE k = 3
    BY <1>4, <1>6, <1>7, <2>4
  <2> QED
    BY <2>1, <2>2, <2>3, <2>4
<1> QED
  BY <1>1, <1>3, <1>4, <1>5, <1>8 DEF Sound

LEMMA OneAfterTheOther ==
  ASSUME NEW s, NEW t, Sound(s), Sound(t)
  PROVE  Sound(s \o t) /\ ToSet(s \o t) = ToSet(s) \union ToSet(t)
<1> DEFINE S == ToSet(s) \union ToSet(t)
           u == s \o t
           n == Len(s)
           m == Len(t)
<1>1. s \in Seq(ToSet(s)) /\ t \in Seq(ToSet(t))
  BY DEF Sound
<1>2. s \in Seq(S) /\ t \in Seq(S) /\ n \in Nat /\ m \in Nat /\ DOMAIN s = 1 .. n /\ DOMAIN t = 1 .. m
  BY <1>1
<1> HIDE DEF S
<1>3. /\ u \in Seq(S) /\ Len(u) = n + m
      /\ \A k \in 1 .. n : u[k] = s[k] /\ k \in 1 .. Len(u)
      /\ \A k \in 1 .. m : u[n + k] = t[k] /\ n + k \in 1 .. Len(u)
  BY <1>2, Joined
<1> HIDE DEF u, n, m
<1>4. \A k \in 1 .. Len(u) : k \in 1 .. n \/ \E j \in 1 .. m : k = n + j
  <2> SUFFICES ASSUME NEW k \in 1 .. Len(u), k \notin 1 .. n PROVE \E j \in 1 .. m : k = n + j
    OBVIOUS
  <2>1. k - n \in 1 .. m /\ k = n + (k - n)
    BY <1>2, <1>3
  <2> QED
    BY <2>1
<1>5. DOMAIN u = 1 .. Len(u)
  BY <1>3
<1>6. ToSet(u) = S
  <2>1. \A k \in 1 .. Len(u) : u[k] \in S
    BY <1>3
  <2>2. ToSet(s) \subseteq ToSet(u)
    BY <1>2, <1>3, <1>5, Zenon DEF ToSet
  <2>3. ToSet(t) \subseteq ToSet(u)
    <3> SUFFICES ASSUME NEW k \in 1 .. m PROVE t[k] \in ToSet(u)
      BY <1>2 DEF ToSet
    <3>1. u[n + k] = t[k] /\ n + k \in DOMAIN u
      BY <1>3, <1>5
    <3> QED
      BY <3>1, Zenon DEF ToSet
  <2>4. ToSet(u) \subseteq S
    BY <1>5, <2>1 DEF ToSet
  <2> QED
    BY <2>2, <2>3, <2>4 DEF S
<1>7. ASSUME NEW k \in 1 .. Len(u), Asks(u[k])
      PROVE  k - 1 \in 1 .. Len(u) /\ Gives(u[k - 1], Need(u[k]))
  <2>1. CASE k \in 1 .. n
    <3>1. u[k] = s[k]
      BY <1>3, <2>1
    <3>2. k - 1 \in 1 .. n /\ Gives(s[k - 1], Need(s[k]))
      BY <1>7, <2>1, <3>1 DEF Sound, n
    <3> QED
      BY <1>3, <3>1, <3>2
  <2>2. ASSUME NEW j \in 1 .. m, k = n + j PROVE k - 1 \in 1 .. Len(u) /\ Gives(u[k - 1], Need(u[k]))
    <3>1. u[k] = t[j]
      BY <1>3, <2>2
    <3>2. j - 1 \in 1 .. m /\ Gives(t[j - 1], Need(t[j]))
      BY <1>7, <3>1 DEF Sound, m
    <3>3. k - 1 = n + (j - 1)
      BY <1>2, <2>2
    <3> QED
      BY <1>3, <3>1, <3>2, <3>3
  <2> QED
    BY <1>4, <2>1, <2>2
<1> QED
  BY <1>3, <1>6, <1>7 DEF Sound, u, S

\* Lists of files, one after the other.
LEMMA ManyLists ==
  ASSUME NEW n \in Nat, NEW ss, ss = [i \in 1 .. n |-> ss[i]], \A i \in 1 .. n : Sound(ss[i])
  PROVE  Sound(FlattenSeq(ss)) /\ ToSet(FlattenSeq(ss)) = UNION {ToSet(ss[i]) : i \in 1 .. n}
<1> DEFINE S == UNION {ToSet(ss[i]) : i \in 1 .. n}
           u == FlattenSeq(ss)
<1>1. \A i \in 1 .. n : ss[i] \in Seq(S)
  <2> SUFFICES ASSUME NEW i \in 1 .. n PROVE ss[i] \in Seq(S)
    OBVIOUS
  <2>1. ss[i] \in Seq(ToSet(ss[i]))
    BY DEF Sound
  <2>2. ToSet(ss[i]) \subseteq S
    OBVIOUS
  <2> HIDE DEF S
  <2> QED
    BY <2>1, <2>2
<1>2. ss \in Seq(Seq(S)) /\ Len(ss) = n
  <2> HIDE DEF S
  <2> QED
    BY <1>1
<1> HIDE DEF S
<1>3. u \in Seq(S)
  BY <1>2, Members
<1>4. PICK of, no : Numbers(ss, of, no)
  BY <1>2, Members
<1> DEFINE len == Lengths(ss)
<1>5. \A i \in 1 .. n : len[i] = Len(ss[i])
  BY <1>2 DEF Lengths
<1>6. Counts(n, Len(u), len, of, no) /\ \A p \in 1 .. Len(u) : u[p] = ss[of[p]][no[p]]
  BY <1>2, <1>4 DEF Numbers
<1> HIDE DEF u, len
<1>7. of \in [1 .. Len(u) -> 1 .. n] /\ no \in [1 .. Len(u) -> Nat]
  BY <1>6 DEF Counts
<1>8. ASSUME NEW p \in 1 .. Len(u)
      PROVE  /\ of[p] \in 1 .. n /\ no[p] \in Nat /\ no[p] \in 1 .. Len(ss[of[p]]) /\ u[p] = ss[of[p]][no[p]]
  <2>1. of[p] \in 1 .. n /\ no[p] \in Nat
    BY <1>7
  <2>2. no[p] \in 1 .. len[of[p]]
    BY <1>6, Zenon DEF Counts
  <2> QED
    BY <1>5, <1>6, <2>1, <2>2, Zenon
<1>9. ToSet(u) = S
  <2>1. DOMAIN u = 1 .. Len(u) /\ \A p \in 1 .. Len(u) : u[p] \in S
    BY <1>3
  <2>2. ToSet(u) \subseteq S
    BY <2>1 DEF ToSet
  <2>3. ASSUME NEW i \in 1 .. n, NEW j \in 1 .. Len(ss[i]) PROVE ss[i][j] \in ToSet(u)
    <3>0. len[i] = Len(ss[i])
      BY <1>5
    <3>4. j \in 1 .. len[i]
      BY <3>0
    <3>5. \A h \in 1 .. n : \A l \in 1 .. len[h] : \E p \in 1 .. Len(u) : of[p] = h /\ no[p] = l
      BY <1>6 DEF Counts
    <3>1. PICK p \in 1 .. Len(u) : of[p] = i /\ no[p] = j
      BY <3>4, <3>5, Zenon
    <3>2. u[p] = ss[i][j]
      BY <1>8, <3>1
    <3> QED
      BY <2>1, <3>2, Zenon DEF ToSet
  <2>4. ASSUME NEW i \in 1 .. n PROVE ToSet(ss[i]) \subseteq ToSet(u)
    <3>1. DOMAIN ss[i] = 1 .. Len(ss[i])
      BY <1>1
    <3> QED
      BY <2>3, <3>1, Zenon DEF ToSet
  <2>5. S \subseteq ToSet(u)
    BY <2>4 DEF S
  <2> QED
    BY <2>2, <2>5
<1>10. ASSUME NEW p \in 1 .. Len(u), Asks(u[p])
       PROVE  p - 1 \in 1 .. Len(u) /\ Gives(u[p - 1], Need(u[p]))
  <2>1. PICK i \in 1 .. n, j \in Nat : i = of[p] /\ j = no[p] /\ j \in 1 .. Len(ss[i]) /\ u[p] = ss[i][j]
    BY <1>8
  <2>2. j - 1 \in 1 .. Len(ss[i]) /\ Gives(ss[i][j - 1], Need(ss[i][j]))
    BY <1>10, <2>1 DEF Sound
  <2>3. j > 1
    BY <2>1, <2>2
  <2>4. p - 1 \in 1 .. Len(u) /\ of[p - 1] = i /\ no[p - 1] = j - 1
    BY <1>6, <2>1, <2>3, Zenon DEF Counts
  <2>5. u[p - 1] = ss[i][j - 1]
    BY <1>8, <2>4
  <2> QED
    BY <2>1, <2>2, <2>4, <2>5
<1> QED
  BY <1>3, <1>9, <1>10 DEF Sound, u, S

\* The same of the items of a run, which go from one operation to the next.
Backed(todo, paths) ==
  \A k \in 1 .. Len(todo) : Asks(todo[k].file) =>
    \/ Need(todo[k].file) \in paths
    \/ /\ k - 1 \in 1 .. Len(todo) /\ todo[k - 1].op = todo[k].op
       /\ Gives(todo[k - 1].file, Need(todo[k].file))

Items(n, ops, fs) ==
  FlattenSeq([i \in 1 .. n |-> [k \in DOMAIN fs[i] |-> [op |-> ops[i], file |-> fs[i][k]]]])

LEMMA ManyOperations ==
  ASSUME NEW n \in Nat, NEW ops, NEW fs, \A i \in 1 .. n : Sound(fs[i]),
         NEW todo, todo = Items(n, ops, fs)
  PROVE  /\ todo \in Seq(ToSet(todo)) /\ Len(todo) \in Nat
         /\ \A paths : Backed(todo, paths)
         /\ \A k \in 1 .. Len(todo) : \E i \in 1 .. n : todo[k].file \in ToSet(fs[i])
<1> DEFINE item(i, k) == [op |-> ops[i], file |-> fs[i][k]]
           ss == [i \in 1 .. n |-> [k \in DOMAIN fs[i] |-> item(i, k)]]
           of1(i) == {item(i, k) : k \in DOMAIN fs[i]}
           S == UNION {of1(i) : i \in 1 .. n}
<1>1. \A i \in 1 .. n : Len(fs[i]) \in Nat /\ DOMAIN fs[i] = 1 .. Len(fs[i])
  BY DEF Sound
<1>2. \A i, k : item(i, k).op = ops[i] /\ item(i, k).file = fs[i][k]
  OBVIOUS
<1>3. \A i \in 1 .. n : \A k \in DOMAIN fs[i] : item(i, k) \in S
  <2> HIDE DEF item
  <2> SUFFICES ASSUME NEW i \in 1 .. n, NEW k \in DOMAIN fs[i] PROVE item(i, k) \in S
    OBVIOUS
  <2>1. item(i, k) \in of1(i)
    OBVIOUS
  <2> HIDE DEF of1
  <2> QED
    BY <2>1
<1>4. todo = FlattenSeq(ss)
  BY DEF Items
<1> HIDE DEF item, S
<1>5. ss \in Seq(Seq(S)) /\ Len(ss) = n
  <2>1. ASSUME NEW i \in 1 .. n PROVE [k \in DOMAIN fs[i] |-> item(i, k)] \in Seq(S)
    <3>1. PICK m \in Nat : DOMAIN fs[i] = 1 .. m
      BY <1>1
    <3>2. \A k \in 1 .. m : item(i, k) \in S
      BY <1>3, <3>1
    <3> QED
      BY <3>1, <3>2
  <2> QED
    BY <2>1
<1>6. \A i \in 1 .. n : Len(ss[i]) = Len(fs[i]) /\ \A k \in 1 .. Len(fs[i]) : ss[i][k] = item(i, k)
  BY <1>1
<1> HIDE DEF ss
<1>7. todo \in Seq(S) /\ Len(todo) \in Nat
  BY <1>4, <1>5, Members
<1>8. PICK of, no : Numbers(ss, of, no)
  BY <1>5, Members
<1> DEFINE len == Lengths(ss)
<1>9. \A i \in 1 .. n : len[i] = Len(fs[i])
  BY <1>5, <1>6 DEF Lengths
<1>10. Counts(n, Len(todo), len, of, no) /\ \A p \in 1 .. Len(todo) : todo[p] = ss[of[p]][no[p]]
  BY <1>4, <1>5, <1>8 DEF Numbers
<1> HIDE DEF len
<1>11. of \in [1 .. Len(todo) -> 1 .. n] /\ no \in [1 .. Len(todo) -> Nat]
  BY <1>10 DEF Counts
<1>12. ASSUME NEW p \in 1 .. Len(todo)
       PROVE  /\ of[p] \in 1 .. n /\ no[p] \in Nat /\ no[p] \in 1 .. Len(fs[of[p]])
              /\ todo[p].op = ops[of[p]] /\ todo[p].file = fs[of[p]][no[p]]
  <2>1. of[p] \in 1 .. n /\ no[p] \in Nat
    BY <1>11
  <2>2. no[p] \in 1 .. len[of[p]]
    BY <1>10, Zenon DEF Counts
  <2>3. no[p] \in 1 .. Len(fs[of[p]])
    BY <1>9, <2>1, <2>2, Zenon
  <2>4. todo[p] = item(of[p], no[p])
    BY <1>6, <1>10, <2>1, <2>3, Zenon
  <2>5. item(of[p], no[p]).op = ops[of[p]] /\ item(of[p], no[p]).file = fs[of[p]][no[p]]
    BY <1>2
  <2> QED
    BY <2>1, <2>3, <2>4, <2>5, Zenon
<1>13. \A k \in 1 .. Len(todo) : \E i \in 1 .. n : todo[k].file \in ToSet(fs[i])
  <2> SUFFICES ASSUME NEW k \in 1 .. Len(todo) PROVE \E i \in 1 .. n : todo[k].file \in ToSet(fs[i])
    OBVIOUS
  <2>1. PICK i \in 1 .. n, j \in Nat : i = of[k] /\ j \in 1 .. Len(fs[i]) /\ todo[k].file = fs[i][j]
    BY <1>12
  <2>2. fs[i][j] \in ToSet(fs[i])
    BY <1>1, <2>1, Zenon DEF ToSet
  <2> QED
    BY <2>1, <2>2
<1>14. ASSUME NEW p \in 1 .. Len(todo), Asks(todo[p].file)
       PROVE  /\ p - 1 \in 1 .. Len(todo) /\ todo[p - 1].op = todo[p].op
              /\ Gives(todo[p - 1].file, Need(todo[p].file))
  <2>1. PICK i \in 1 .. n, j \in Nat : /\ i = of[p] /\ j = no[p] /\ j \in 1 .. Len(fs[i])
                                      /\ todo[p].op = ops[i] /\ todo[p].file = fs[i][j]
    BY <1>12
  <2>2. j - 1 \in 1 .. Len(fs[i]) /\ Gives(fs[i][j - 1], Need(fs[i][j]))
    BY <1>14, <2>1 DEF Sound
  <2>3. j > 1
    BY <2>1, <2>2
  <2>4. p - 1 \in 1 .. Len(todo) /\ of[p - 1] = i /\ no[p - 1] = j - 1
    BY <1>10, <2>1, <2>3, Zenon DEF Counts
  <2>5. todo[p - 1].op = ops[i] /\ todo[p - 1].file = fs[i][j - 1]
    BY <1>12, <2>4
  <2> QED
    BY <2>1, <2>2, <2>4, <2>5
<1>15. todo \in Seq(ToSet(todo))
  BY <1>7, OfItsMembers
<1> QED
  BY <1>7, <1>13, <1>14, <1>15 DEF Backed

-----------------------------------------------------------------------------
(* What the files of an operation say. *)

\* An event about anything but hints says what its path tells.
Told(p) == IF p[2] = "causal" THEN p[3][2] ELSE p[3]
EventFile(w, n) ==
  w.path[1] = "event" =>
    /\ w.path[2] \in {"causal", "relation", "protection"} /\ w.path[4] = n
    /\ w.path[2] # "protection" => w.says = Told(w.path)
Hints(p) == p[1] = "event" /\ p[2] = "protection"

\* A file of table a, of which x was said, in run n; a file of a pass over all the tables.
TableFile(w, a, x, n) ==
  /\ w.path[1] = "mdl" => w.path = <<"mdl", a>> /\ w.says \subseteq x.pii
  /\ w.path[1] = "samples" => w.path = <<"samples", a>> /\ w.says \intersect x.pii = {}
  /\ Hints(w.path) => w.path = <<"event", "protection", a, n>> /\ w.says = x.cls
  /\ EventFile(w, n)
PassFile(w, n) ==
  w.path[1] \notin {"mdl", "samples"} /\ ~ Hints(w.path) /\ EventFile(w, n)

LEMMA PlainFiles ==
  ASSUME NEW path, NEW says, path[1] \notin {"mdl", "samples", "event"}
  PROVE  /\ Sound(<<File(path, says)>>) /\ ToSet(<<File(path, says)>>) = {File(path, says)}
         /\ \A n : PassFile(File(path, says), n)
         /\ \A a, x, n : TableFile(File(path, says), a, x, n)
<1>1. File(path, says).path = path
  BY DEF File
<1>2. Sound(<<File(path, says)>>) /\ ToSet(<<File(path, says)>>) = {File(path, says)}
  BY OneFile
<1> QED
  BY <1>1, <1>2 DEF PassFile, TableFile, EventFile, Hints

LEMMA DumpedFiles ==
  ASSUME NEW row, NEW kind \in {"causal", "relation"}, NEW key, NEW says, row[1] = "row",
         says = IF kind = "causal" THEN key[2] ELSE key
  PROVE  \A w \in Dumped(row, kind, key, says) :
           PassFile(w, preview.run) /\ \A a, x : TableFile(w, a, x, preview.run)
<1> DEFINE path == <<"event", kind, key, preview.run>>
           l == [path |-> path, says |-> says, line |-> TRUE]
<1> SUFFICES ASSUME NEW w \in Dumped(row, kind, key, says)
             PROVE  PassFile(w, preview.run) /\ \A a, x : TableFile(w, a, x, preview.run)
  OBVIOUS
<1>1. path[1] = "event" /\ path[2] = kind /\ path[3] = key /\ path[4] = preview.run
  OBVIOUS
<1>2. Told(path) = says /\ ~ Hints(path)
  BY <1>1 DEF Told, Hints
<1>3. CASE w = File(row, says)
  BY <1>3, PlainFiles
<1>4. CASE w = File(path, says) \/ w = l
  <2>1. w.path = path /\ w.says = says
    BY <1>4 DEF File
  <2> HIDE DEF path
  <2> QED
    BY <1>1, <1>2, <2>1 DEF PassFile, TableFile, EventFile
<1> QED
  BY <1>3, <1>4 DEF Dumped

LEMMA CandidatesFound ==
  ASSUME NEW label, NEW claims \in SUBSET Claims
  PROVE  /\ Sound(CandidateFiles(label, claims))
         /\ \A w \in ToSet(CandidateFiles(label, claims)) :
              PassFile(w, preview.run) /\ \A a, x : TableFile(w, a, x, preview.run)
<1>1. CASE claims = {}
  <2>1. CandidateFiles(label, claims) = <<>>
    BY <1>1 DEF CandidateFiles
  <2> QED
    BY <2>1, WithoutFiles
<1>2. CASE claims # {}
  <2> DEFINE n == Cardinality(claims)
             row(c) == <<"row", RowFile[c]>>
             ss == [i \in 1 .. n |-> LET c == SetToSeq(claims)[i]
                                    IN RowThenEvent(row(c), "causal", <<label, c>>, c)]
             first == File(<<"causal", label>>, claims)
  <2>1. CandidateFiles(label, claims) = <<first>> \o FlattenSeq(ss)
    BY <1>2 DEF CandidateFiles
  <2>2. n \in Nat
    <3>1. IsFiniteSet(Claims)
      BY PreviewAssumption
    <3> QED
      BY <3>1, FS_Subset, FS_CardinalityType
  <2> HIDE DEF n
  <2>3. ASSUME NEW c
        PROVE  /\ Sound(RowThenEvent(row(c), "causal", <<label, c>>, c))
               /\ \A w \in ToSet(RowThenEvent(row(c), "causal", <<label, c>>, c)) :
                    PassFile(w, preview.run) /\ \A a, x : TableFile(w, a, x, preview.run)
    <3> DEFINE key == <<label, c>>
    <3>1. row(c)[1] = "row" /\ key[2] = c
      OBVIOUS
    <3>2. row(c) = RowOf(<<"event", "causal", key, preview.run>>)
      BY DEF RowOf
    <3> HIDE DEF row, key
    <3>3. Sound(RowThenEvent(row(c), "causal", key, c)) /\ ToSet(RowThenEvent(row(c), "causal", key, c)) = Dumped(row(c), "causal", key, c)
      BY <3>1, <3>2, RowFirst
    <3>4. \A w \in Dumped(row(c), "causal", key, c) :
            PassFile(w, preview.run) /\ \A a, x : TableFile(w, a, x, preview.run)
      BY <3>1, DumpedFiles
    <3> QED
      BY <3>3, <3>4 DEF key
  <2>4. \A i \in 1 .. n : /\ Sound(ss[i])
                         /\ \A w \in ToSet(ss[i]) :
                              PassFile(w, preview.run) /\ \A a, x : TableFile(w, a, x, preview.run)
    <3> HIDE DEF row
    <3> SUFFICES ASSUME NEW i \in 1 .. n
                 PROVE  /\ Sound(ss[i])
                        /\ \A w \in ToSet(ss[i]) :
                             PassFile(w, preview.run) /\ \A a, x : TableFile(w, a, x, preview.run)
      OBVIOUS
    <3>1. PICK c : ss[i] = RowThenEvent(row(c), "causal", <<label, c>>, c)
      OBVIOUS
    <3> HIDE DEF ss
    <3> QED
      BY <2>3, <3>1
  <2>5. ss = [i \in 1 .. n |-> ss[i]]
    OBVIOUS
  <2> HIDE DEF ss
  <2>6. Sound(FlattenSeq(ss)) /\ ToSet(FlattenSeq(ss)) = UNION {ToSet(ss[i]) : i \in 1 .. n}
    BY <2>2, <2>4, <2>5, ManyLists
  <2>7. /\ Sound(<<first>>) /\ ToSet(<<first>>) = {first} /\ PassFile(first, preview.run)
        /\ \A a, x : TableFile(first, a, x, preview.run)
    BY PlainFiles
  <2> HIDE DEF first
  <2>8. /\ Sound(<<first>> \o FlattenSeq(ss))
        /\ ToSet(<<first>> \o FlattenSeq(ss)) = ToSet(<<first>>) \union ToSet(FlattenSeq(ss))
    BY <2>6, <2>7, OneAfterTheOther
  <2>9. \A w \in ToSet(<<first>> \o FlattenSeq(ss)) : w = first \/ \E i \in 1 .. n : w \in ToSet(ss[i])
    BY <2>6, <2>7, <2>8
  <2>10. \A w \in ToSet(<<first>> \o FlattenSeq(ss)) :
           PassFile(w, preview.run) /\ \A a, x : TableFile(w, a, x, preview.run)
    BY <2>4, <2>7, <2>9, Zenon
  <2> QED
    BY <2>1, <2>8, <2>10
<1> QED
  BY <1>1, <1>2

LEMMA HintsFound ==
  ASSUME NEW a, NEW x
  PROVE  /\ Sound(HintFiles(a, x))
         /\ \A w \in ToSet(HintFiles(a, x)) : TableFile(w, a, x, preview.run)
<1>1. CASE x.cls = {} /\ ~x.rls
  <2>1. HintFiles(a, x) = <<>>
    BY <1>1 DEF HintFiles
  <2> QED
    BY <2>1, WithoutFiles
<1>2. CASE ~ (x.cls = {} /\ ~x.rls)
  <2> DEFINE path == <<"event", "protection", a, preview.run>>
             row == <<"row", "hint", a>>
             first == File(<<"hints", a>>, x.pii \union x.cls)
             s == RowThenEvent(row, "protection", a, x.cls)
             l == [path |-> path, says |-> x.cls, line |-> TRUE]
  <2>1. HintFiles(a, x) = <<first>> \o s
    BY <1>2 DEF HintFiles
  <2>2. Sound(<<first>>) /\ ToSet(<<first>>) = {first} /\ TableFile(first, a, x, preview.run)
    BY PlainFiles
  <2>3. row[1] = "row" /\ row = RowOf(path)
    BY DEF RowOf
  <2>4. Sound(s) /\ ToSet(s) = Dumped(row, "protection", a, x.cls)
    BY <2>3, RowFirst
  <2>5. TableFile(File(row, x.cls), a, x, preview.run)
    BY <2>3, PlainFiles
  <2>6. ASSUME NEW w, w = File(path, x.cls) \/ w = l
        PROVE  TableFile(w, a, x, preview.run)
    <3>1. w.path = path /\ w.says = x.cls
      BY <2>6 DEF File
    <3>2. path[1] = "event" /\ path[2] = "protection" /\ path[4] = preview.run
      OBVIOUS
    <3>3. Hints(path)
      BY <3>2 DEF Hints
    <3> QED
      BY <3>1, <3>2, <3>3 DEF TableFile, EventFile
  <2>7. \A w \in ToSet(s) : TableFile(w, a, x, preview.run)
    BY <2>4, <2>5, <2>6 DEF Dumped
  <2> HIDE DEF first, s
  <2>8. Sound(<<first>> \o s) /\ ToSet(<<first>> \o s) = ToSet(<<first>>) \union ToSet(s)
    BY <2>2, <2>4, OneAfterTheOther
  <2> QED
    BY <2>1, <2>2, <2>7, <2>8
<1> QED
  BY <1>1, <1>2

LEMMA SamplesFound ==
  ASSUME NEW a, NEW x \in Answers
  PROVE  /\ Sound(SampleFiles(a, x))
         /\ \A w \in ToSet(SampleFiles(a, x)) : TableFile(w, a, x, preview.run)
<1> DEFINE safe == DocFields \ (x.pii \union x.cls)
           file == File(<<"samples", a>>, safe)
           s == IF x.rows THEN <<file>> ELSE <<>>
           t == <<File(<<"row", "table", a>>, TRUE)>>
           u == IF x.rows /\ safe # {} THEN <<File(<<"row", "columns' samples", a>>, safe)>> ELSE <<>>
           Fine(v) == Sound(v) /\ \A w \in ToSet(v) : TableFile(w, a, x, preview.run)
<1>1. SampleFiles(a, x) = (s \o t) \o u
  BY DEF SampleFiles
<1>2. safe \intersect x.pii = {}
  OBVIOUS
<1> HIDE DEF safe
<1>3. Fine(<<file>>)
  <2> DEFINE path == <<"samples", a>>
  <2>1. path[1] = "samples"
    OBVIOUS
  <2>2. Sound(<<File(path, safe)>>) /\ ToSet(<<File(path, safe)>>) = {File(path, safe)}
    <3> HIDE DEF path
    <3> QED
      BY <2>1, OneFile
  <2>3. File(path, safe).path = path /\ File(path, safe).says = safe
    BY DEF File
  <2>4. TableFile(File(path, safe), a, x, preview.run)
    <3>1. ~ Hints(path)
      BY <2>1 DEF Hints
    <3> QED
      BY <1>2, <2>1, <2>3, <3>1 DEF TableFile, EventFile
  <2> QED
    BY <2>2, <2>4
<1>4. Fine(<<>>)
  BY WithoutFiles
<1>a. ASSUME NEW path, NEW says, path[1] \notin {"mdl", "samples", "event"}
      PROVE  Fine(<<File(path, says)>>)
  BY <1>a, PlainFiles
<1>5. Fine(t)
  BY <1>a
<1>6. Fine(<<File(<<"row", "columns' samples", a>>, safe)>>)
  BY <1>a
<1>7. Fine(s) /\ Fine(u)
  BY <1>3, <1>4, <1>6
<1> HIDE DEF s, t, u
<1>8. Fine(s \o t)
  BY <1>5, <1>7, OneAfterTheOther
<1>9. Fine((s \o t) \o u)
  <2> DEFINE v == s \o t
  <2>1. Fine(v)
    BY <1>8
  <2> HIDE DEF v
  <2>2. Fine(v \o u)
    BY <1>7, <2>1, OneAfterTheOther
  <2> QED
    BY <2>2 DEF v
<1> QED
  BY <1>1, <1>9

\* The two versions of the model.
LEMMA ModelFound ==
  ASSUME NEW a, NEW x, NEW says \in SUBSET x.pii
  PROVE  /\ Sound(<<File(<<"mdl", a>>, says)>>)
         /\ \A w \in ToSet(<<File(<<"mdl", a>>, says)>>) : TableFile(w, a, x, preview.run)
<1> DEFINE path == <<"mdl", a>>
<1>1. path[1] = "mdl" /\ path = <<"mdl", a>>
  OBVIOUS
<1> HIDE DEF path
<1>2. Sound(<<File(path, says)>>) /\ ToSet(<<File(path, says)>>) = {File(path, says)}
  BY <1>1, OneFile
<1>3. File(path, says).path = path /\ File(path, says).says = says
  BY DEF File
<1>4. ~ Hints(path)
  BY <1>1 DEF Hints
<1>5. TableFile(File(path, says), a, x, preview.run)
  BY <1>1, <1>3, <1>4 DEF TableFile, EventFile
<1> QED
  BY <1>1, <1>2, <1>5

\* More than one file that is no event.
LEMMA TwoLists ==
  ASSUME NEW s, NEW t, NEW a, NEW x, NEW n,
         Sound(s), Sound(t),
         \A w \in ToSet(s) : TableFile(w, a, x, n), \A w \in ToSet(t) : TableFile(w, a, x, n)
  PROVE  Sound(s \o t) /\ \A w \in ToSet(s \o t) : TableFile(w, a, x, n)
BY OneAfterTheOther

LEMMA TableFiles ==
  ASSUME NEW a \in Documented, NEW x \in Answers, NEW op \in ToSet(TableOps)
  PROVE  /\ Sound(FilesOf(op, a, x))
         /\ \A w \in ToSet(FilesOf(op, a, x)) : TableFile(w, a, x, preview.run)
<1> DEFINE Fine(s) == Sound(s) /\ \A w \in ToSet(s) : TableFile(w, a, x, preview.run)
<1>1. op \in {"spine", "aggregates", "protect", "relate", "cause", "samples", "model"}
  BY DEF ToSet, TableOps
<1>2. x.claims \in SUBSET Claims /\ {} \in SUBSET x.pii /\ x.pii \in SUBSET x.pii
  BY PreviewAssumption
<1>3. ASSUME NEW path, NEW says, path[1] \notin {"mdl", "samples", "event"}
      PROVE  Fine(<<File(path, says)>>)
  BY <1>3, PlainFiles
<1>4. CASE op = "spine"
  <2>1. FilesOf(op, a, x) = <<File(<<"mdl", a>>, {})>>
    BY <1>4 DEF FilesOf
  <2> QED
    BY <1>2, <2>1, ModelFound
<1>5. CASE op = "model"
  <2> DEFINE r == File(<<"mdl", a>>, x.pii)
             e == File(<<"annotations", a>>, {})
  <2>1. FilesOf(op, a, x) = <<r, e>>
    BY <1>5 DEF FilesOf
  <2>2. Fine(<<r>>)
    BY <1>2, ModelFound
  <2>3. Fine(<<e>>)
    BY <1>3
  <2> HIDE DEF r, e
  <2>4. Fine(<<r>> \o <<e>>)
    BY <2>2, <2>3, TwoLists
  <2>5. FilesOf(op, a, x) = <<r>> \o <<e>>
    BY <2>1, TwoInARow, Zenon
  <2> QED
    BY <2>4, <2>5
<1>6. CASE op = "aggregates"
  <2> DEFINE r == File(<<"aggregates", a>>, DocFields)
             e == File(<<"row", "columns", a>>, DocFields)
             l == File(<<"row", "table", a>>, FALSE)
  <2>1. FilesOf(op, a, x) = <<r, e, l>>
    BY <1>6 DEF FilesOf
  <2>2. Fine(<<r>>) /\ Fine(<<e>>) /\ Fine(<<l>>)
    BY <1>3
  <2> HIDE DEF r, e, l
  <2>3. Fine(<<e>> \o <<l>>)
    BY <2>2, TwoLists
  <2>4. Fine(<<r>> \o (<<e>> \o <<l>>))
    <3> DEFINE t == <<e>> \o <<l>>
    <3>1. Fine(t)
      BY <2>3
    <3> HIDE DEF t
    <3>2. Fine(<<r>> \o t)
      BY <2>2, <3>1, TwoLists
    <3> QED
      BY <3>2 DEF t
  <2>5. FilesOf(op, a, x) = <<r>> \o (<<e>> \o <<l>>)
    BY <2>1, TwoInARow, ThreeInARow, Zenon
  <2> QED
    BY <2>4, <2>5
<1>7. CASE op = "protect"
  <2>1. FilesOf(op, a, x) = HintFiles(a, x)
    BY <1>7 DEF FilesOf
  <2> QED
    BY <2>1, HintsFound
<1>8. CASE op = "relate"
  <2> DEFINE r == File(<<"rels", a>>, {})
  <2>1. FilesOf(op, a, x) = IF x.rels THEN <<r>> ELSE <<>>
    BY <1>8 DEF FilesOf
  <2>2. Fine(<<r>>) /\ Fine(<<>>)
    BY <1>3, WithoutFiles
  <2> HIDE DEF r
  <2> QED
    BY <2>1, <2>2
<1>9. CASE op = "cause"
  <2>1. FilesOf(op, a, x) = CandidateFiles(a, x.claims)
    BY <1>9 DEF FilesOf
  <2> QED
    BY <1>2, <2>1, CandidatesFound
<1>10. CASE op = "samples"
  <2>1. FilesOf(op, a, x) = SampleFiles(a, x)
    BY <1>10 DEF FilesOf
  <2> QED
    BY <2>1, SamplesFound
<1> QED
  BY <1>1, <1>4, <1>5, <1>6, <1>7, <1>8, <1>9, <1>10

LEMMA SchemaFound ==
  Sound(SchemaFiles) /\ \A w \in ToSet(SchemaFiles) : PassFile(w, preview.run)
<1>1. CASE ~ preview.inferred
  <2>1. SchemaFiles = <<>>
    BY <1>1 DEF SchemaFiles
  <2> QED
    BY <2>1, WithoutFiles
<1>2. CASE preview.inferred
  <2> DEFINE s(k) == RowThenEvent(<<"row", k>>, "relation", k, k)
             first == File(<<"relation schema">>, "types and edges")
  <2>1. SchemaFiles = <<first>> \o s("type") \o s("edge")
    BY <1>2 DEF SchemaFiles
  <2>2. ASSUME NEW k \in {"type", "edge"}
        PROVE  Sound(s(k)) /\ \A w \in ToSet(s(k)) : PassFile(w, preview.run)
    <3> DEFINE row == <<"row", k>>
    <3>1. row[1] = "row" /\ row = RowOf(<<"event", "relation", k, preview.run>>)
      BY DEF RowOf
    <3> HIDE DEF row
    <3>2. Sound(s(k)) /\ ToSet(s(k)) = Dumped(row, "relation", k, k)
      BY <3>1, RowFirst DEF row
    <3>3. \A w \in Dumped(row, "relation", k, k) : PassFile(w, preview.run)
      BY <3>1, DumpedFiles
    <3> QED
      BY <3>2, <3>3
  <2> DEFINE t == s("type")
             u == s("edge")
  <2>3. /\ Sound(t) /\ \A w \in ToSet(t) : PassFile(w, preview.run)
        /\ Sound(u) /\ \A w \in ToSet(u) : PassFile(w, preview.run)
    BY <2>2
  <2>4. SchemaFiles = (<<first>> \o t) \o u
    BY <2>1
  <2>5. Sound(<<first>>) /\ ToSet(<<first>>) = {first} /\ PassFile(first, preview.run)
    BY PlainFiles
  <2> HIDE DEF t, u, first
  <2>6. Sound(<<first>> \o t) /\ \A w \in ToSet(<<first>> \o t) : PassFile(w, preview.run)
    BY <2>3, <2>5, OneAfterTheOther
  <2> QED
    BY <2>3, <2>4, <2>6, OneAfterTheOther
<1> QED
  BY <1>1, <1>2

-----------------------------------------------------------------------------
(* What is left to write. *)

LEMMA WithOne ==
  ASSUME NEW f, NEW x, NEW y
  PROVE  /\ DOMAIN With(f, x, y) = DOMAIN f \union {x} /\ With(f, x, y)[x] = y
         /\ \A z \in DOMAIN f : z # x => With(f, x, y)[z] = f[z]
BY DEF With

LEMMA First ==
  ASSUME NEW n \in Nat, NEW ks \in SUBSET (1 .. n), ks # {}
  PROVE  \E k \in ks : \A l \in ks : k <= l
<1>1. ks \in SUBSET Nat
  OBVIOUS
<1>2. PICK k \in ks : \A l \in ks : ~ (<<l, k>> \in OpToRel(<, Nat))
  BY <1>1, NatLessThanWellFounded, WFMin
<1>3. \A l \in ks : ~ (l < k)
  BY <1>1, <1>2 DEF OpToRel
<1> QED
  BY <1>1, <1>3

LEMMA WhenWritten ==
  ASSUME NEW S, NEW todo \in Seq(S), todo # <<>>, NEW paths, NEW more,
         Backed(todo, paths), paths \subseteq more,
         ~ Head(todo).file.line => Head(todo).file.path \in more
  PROVE  /\ Tail(todo) \in Seq(S) /\ Backed(Tail(todo), more)
         /\ \A k \in 1 .. Len(Tail(todo)) : \E j \in 1 .. Len(todo) : Tail(todo)[k] = todo[j]
<1> DEFINE t == Tail(todo)
           n == Len(todo)
<1>1. /\ t \in Seq(S) /\ Len(t) = n - 1 /\ n \in Nat /\ n >= 1 /\ Head(todo) = todo[1]
      /\ \A k \in 1 .. n - 1 : t[k] = todo[k + 1]
  OBVIOUS
<1> HIDE DEF t, n
<1>2. ASSUME NEW k \in 1 .. Len(t), Asks(t[k].file)
      PROVE  \/ Need(t[k].file) \in more
             \/ /\ k - 1 \in 1 .. Len(t) /\ t[k - 1].op = t[k].op
                /\ Gives(t[k - 1].file, Need(t[k].file))
  <2>1. k \in Nat /\ k \in 1 .. n - 1 /\ k + 1 \in 1 .. n /\ (k + 1) - 1 = k /\ t[k] = todo[k + 1]
    BY <1>1
  <2>2. \/ Need(t[k].file) \in paths
        \/ todo[k].op = t[k].op /\ Gives(todo[k].file, Need(t[k].file))
    BY <1>2, <2>1 DEF Backed, n
  <2>3. CASE Need(t[k].file) \in paths
    BY <2>3
  <2>4. CASE todo[k].op = t[k].op /\ Gives(todo[k].file, Need(t[k].file))
    <3>1. CASE k = 1
      BY <1>1, <2>4, <3>1 DEF Gives
    <3>2. CASE k # 1
      <4>1. k - 1 \in 1 .. n - 1 /\ k - 1 \in 1 .. Len(t) /\ (k - 1) + 1 = k
        BY <1>1, <2>1, <3>2
      <4>2. t[k - 1] = todo[k]
        BY <1>1, <4>1
      <4> QED
        BY <2>4, <4>1, <4>2
    <3> QED
      BY <3>1, <3>2
  <2> QED
    BY <2>2, <2>3, <2>4
<1>3. \A k \in 1 .. Len(t) : k + 1 \in 1 .. n /\ t[k] = todo[k + 1]
  BY <1>1
<1>4. Backed(t, more)
  BY <1>2 DEF Backed
<1> QED
  BY <1>1, <1>3, <1>4 DEF t, n

LEMMA WhenGivenUp ==
  ASSUME NEW S, NEW todo \in Seq(S), todo # <<>>, NEW paths, Backed(todo, paths)
  PROVE  /\ GivenUp(todo) \in Seq(S) /\ Backed(GivenUp(todo), paths)
         /\ \A k \in 1 .. Len(GivenUp(todo)) : \E j \in 1 .. Len(todo) : GivenUp(todo)[k] = todo[j]
<1> DEFINE n == Len(todo)
           op == Head(todo).op
           others == {k \in DOMAIN todo : todo[k].op # op}
           t == GivenUp(todo)
<1>1. n \in Nat /\ DOMAIN todo = 1 .. n /\ \A k \in 1 .. n : todo[k] \in S
  OBVIOUS
<1>2. CASE others = {}
  <2>1. t = <<>>
    BY <1>2 DEF GivenUp
  <2>2. <<>> \in Seq(S) /\ Len(<<>>) = 0
    OBVIOUS
  <2> QED
    BY <2>1, <2>2 DEF Backed
<1>3. CASE others # {}
  <2> DEFINE k0 == CHOOSE k \in others : \A l \in others : k <= l
  <2>1. others \in SUBSET (1 .. n)
    BY <1>1
  <2>2. k0 \in others /\ \A l \in others : k0 <= l
    <3> HIDE DEF others
    <3> QED
      BY <1>1, <1>3, <2>1, First
  <2>3. t = SubSeq(todo, k0, n)
    BY <1>3 DEF GivenUp
  <2> HIDE DEF k0, t
  <2>4. k0 \in 1 .. n /\ k0 \in Nat /\ todo[k0].op # op
    BY <1>1, <2>2
  <2>5. \A k \in 1 .. n : k < k0 => todo[k].op = op
    BY <1>1, <2>2, <2>4
  <2> HIDE DEF others, op
  <2>6. /\ t \in Seq(S) /\ Len(t) = (n - k0) + 1
        /\ \A k \in 1 .. Len(t) : t[k] = todo[(k0 - 1) + k] /\ (k0 - 1) + k \in 1 .. n
    BY <1>1, <2>3, <2>4, SubSeqProperties
  <2>7. ASSUME NEW k \in 1 .. Len(t), Asks(t[k].file)
        PROVE  \/ Need(t[k].file) \in paths
               \/ /\ k - 1 \in 1 .. Len(t) /\ t[k - 1].op = t[k].op
                  /\ Gives(t[k - 1].file, Need(t[k].file))
    <3>1. PICK j \in 1 .. n : j = (k0 - 1) + k /\ t[k] = todo[j] /\ j \in Nat /\ k \in Nat
      BY <1>1, <2>4, <2>6
    <3>2. \/ Need(t[k].file) \in paths
          \/ /\ j - 1 \in 1 .. n /\ todo[j - 1].op = todo[j].op
             /\ Gives(todo[j - 1].file, Need(todo[j].file))
      BY <2>7, <3>1 DEF Backed, n
    <3>3. CASE k = 1
      <4>1. j = k0 /\ (j - 1 \in 1 .. n => todo[j - 1].op = op)
        BY <2>4, <2>5, <3>1, <3>3
      <4> QED
        BY <2>4, <3>1, <3>2, <4>1
    <3>4. CASE k # 1
      <4>1. k - 1 \in 1 .. Len(t) /\ (k0 - 1) + (k - 1) = j - 1
        BY <1>1, <2>4, <2>6, <3>1, <3>4
      <4>2. t[k - 1] = todo[j - 1]
        BY <2>6, <4>1
      <4> QED
        BY <3>1, <3>2, <4>1, <4>2
    <3> QED
      BY <3>3, <3>4
  <2>8. Backed(t, paths)
    BY <2>7 DEF Backed
  <2> QED
    BY <2>6, <2>8 DEF t, n
<1> QED
  BY <1>2, <1>3

-----------------------------------------------------------------------------
(* The run of the pipeline. *)

PreviewShape ==
  /\ preview \in [run : Nat, phase : {"idle", "tables", "passes"}, left : SUBSET Documented,
                  todo : {preview.todo}, inferred : {preview.inferred}]
  /\ importer \in [at : {"idle", "assets", "fields", "done", "causal", "relation", "protection"},
                   left : {importer.left}, lost : {importer.lost}, quiet : BOOLEAN,
                   asset : {importer.asset}, flags : {importer.flags}]

\* What the files of the tree are known to say: each is of a run that has begun, and an
\* event carries the run in its name.
TreeTells ==
  \A p \in DOMAIN tree :
    /\ tree[p].run \in Nat /\ tree[p].run <= preview.run
    /\ p[1] = "event" => /\ p[2] \in {"causal", "relation", "protection"}
                         /\ p[4] \in Nat /\ p[4] <= preview.run
                         /\ p[2] # "protection" => tree[p].says = Told(p)

\* This run has not written of table a what depends on the answers; what it has
\* written of it goes with answers x.
Untouched(a) ==
  /\ \A kind \in {"mdl", "samples"} :
       <<kind, a>> \in DOMAIN tree => tree[<<kind, a>>].run # preview.run
  /\ <<"event", "protection", a, preview.run>> \notin DOMAIN tree
Accords(a, x) ==
  /\ <<"mdl", a>> \in DOMAIN tree /\ tree[<<"mdl", a>>].run = preview.run =>
       tree[<<"mdl", a>>].says \subseteq x.pii
  /\ <<"samples", a>> \in DOMAIN tree /\ tree[<<"samples", a>>].run = preview.run =>
       tree[<<"samples", a>>].says \intersect x.pii = {}
  /\ <<"event", "protection", a, preview.run>> \in DOMAIN tree =>
       tree[<<"event", "protection", a, preview.run>>].says = x.cls

InTable(a, x) ==
  /\ preview.phase = "tables" /\ a \notin preview.left /\ Accords(a, x)
  /\ \A k \in 1 .. Len(preview.todo) : TableFile(preview.todo[k].file, a, x, preview.run)
InPasses ==
  /\ preview.phase = "passes"
  /\ \A k \in 1 .. Len(preview.todo) : PassFile(preview.todo[k].file, preview.run)

RunFits ==
  /\ preview.todo \in Seq(ToSet(preview.todo)) /\ Backed(preview.todo, DOMAIN tree)
  /\ preview.todo # <<>> => InPasses \/ \E a \in Documented, x \in Answers : InTable(a, x)
  /\ preview.phase = "tables" => \A a \in preview.left : Untouched(a)

\* What the script has done, when nothing was written meanwhile.
AssetDone(a) ==
  <<"asset", a>> \notin importer.lost =>
    <<"asset", a>> \in DOMAIN indexed /\ indexed[<<"asset", a>>] = AssetPayload(a)
FieldsDone(a) ==
  <<"fields", a>> \notin importer.lost =>
    /\ <<"fields", a>> \in DOMAIN indexed
    /\ tree[<<"mdl", a>>].says \subseteq indexed[<<"fields", a>>]
EventDone(p) == p \notin importer.lost => p \in DOMAIN indexed /\ indexed[p] = tree[p].says

WithAssets == importer.at \in {"assets", "fields"}
Reached(dir) ==
  \/ importer.at = "done"
  \/ importer.at = "causal" /\ dir = "causal"
  \/ importer.at = "relation" /\ dir \in {"causal", "relation"}
  \/ importer.at = "protection"
ImportFits ==
  /\ importer.at \in {"causal", "relation", "protection"} => importer.left \subseteq EventFiles(importer.at)
  /\ importer.at = "done" => importer.left = {}
  /\ importer.quiet /\ importer.at # "idle" =>
       /\ \A a \in Models : ~ (WithAssets /\ a \in importer.left) =>
            AssetDone(a) /\ (~ (importer.at = "fields" /\ a = importer.asset) => FieldsDone(a))
       /\ importer.at = "fields" => importer.flags = tree[<<"mdl", importer.asset>>].says
       /\ \A p \in DOMAIN tree :
            p[1] = "event" /\ Reached(p[2]) /\ p \notin importer.left => EventDone(p)

PreviewHistory ==
  /\ PreviewTypeOK /\ PreviewShape /\ TreeTells /\ RunFits /\ ImportFits
  /\ QueueNamesFiles /\ EventsHaveRows /\ SamplesFollowModel /\ EventPointsAreFiles

LEMMA EventDirectories == Range(EventDirs) = {"causal", "relation", "protection"}
                     /\ DOMAIN EventDirs = {1, 2, 3} /\ Last(EventDirs) = "protection"
<1>1. DOMAIN EventDirs = {1, 2, 3} /\ Len(EventDirs) = 3
      /\ EventDirs[1] = "causal" /\ EventDirs[2] = "relation" /\ EventDirs[3] = "protection"
  BY DEF EventDirs
<1>2. Range(EventDirs) = {EventDirs[i] : i \in DOMAIN EventDirs}
  BY DEF Range
<1> QED
  BY <1>1, <1>2 DEF Last

\* What holds when nothing but the run has moved.
LEMMA OnlyRun ==
  ASSUME PreviewHistory, UNCHANGED <<tree, queued, importer, indexed>>,
         preview'.run \in Nat, preview.run <= preview'.run
  PROVE  /\ TreeTells' /\ ImportFits' /\ QueueNamesFiles' /\ EventsHaveRows'
         /\ SamplesFollowModel' /\ EventPointsAreFiles'
<1>1. preview.run \in Nat
  BY DEF PreviewHistory, PreviewShape
<1>2. TreeTells'
  <2> SUFFICES ASSUME NEW p \in DOMAIN tree
               PROVE  /\ tree[p].run \in Nat /\ tree[p].run <= preview'.run
                      /\ p[1] = "event" => /\ p[2] \in {"causal", "relation", "protection"}
                                           /\ p[4] \in Nat /\ p[4] <= preview'.run
                                           /\ p[2] # "protection" => tree[p].says = Told(p)
    BY DEF TreeTells, Told
  <2>1. /\ tree[p].run \in Nat /\ tree[p].run <= preview.run
        /\ p[1] = "event" => /\ p[2] \in {"causal", "relation", "protection"}
                             /\ p[4] \in Nat /\ p[4] <= preview.run
                             /\ p[2] # "protection" => tree[p].says = Told(p)
    BY DEF PreviewHistory, TreeTells
  <2> QED
    BY <1>1, <2>1
<1>3. ImportFits'
  BY DEF PreviewHistory, ImportFits, AssetDone, FieldsDone, EventDone, WithAssets, Reached,
         EventFiles, Models, Has, AssetPayload, count_causal_for_table
<1>4. QueueNamesFiles' /\ EventPointsAreFiles'
  BY DEF PreviewHistory, QueueNamesFiles, EventPointsAreFiles
<1>5. EventsHaveRows'
  BY DEF PreviewHistory, EventsHaveRows, RowOf
<1>6. SamplesFollowModel'
  BY DEF PreviewHistory, SamplesFollowModel
<1> QED
  BY <1>2, <1>3, <1>4, <1>5, <1>6


LEMMA BeginsFits ==
  ASSUME PreviewHistory, BeginPreview
  PROVE  PreviewHistory'
<1>1. /\ preview \in [run : Nat, phase : {"idle", "tables", "passes"}, left : SUBSET Documented,
                      todo : {preview.todo}, inferred : {preview.inferred}]
      /\ preview.todo = <<>> /\ preview.run < MaxPreviews /\ preview.run \in 0 .. MaxPreviews
      /\ UNCHANGED <<tree, queued, importer, indexed, imports, slips>> /\ MaxPreviews \in Nat
  BY PreviewAssumption DEF PreviewHistory, PreviewShape, PreviewTypeOK, BeginPreview, Working
<1>2. preview' = [run |-> preview.run + 1, phase |-> "tables", left |-> Documented, todo |-> <<>>,
                  inferred |-> FALSE]
  BY DEF BeginPreview, NoPreview
<1>3. preview'.run = preview.run + 1 /\ preview'.phase = "tables" /\ preview'.left = Documented
      /\ preview'.todo = <<>> /\ preview.run + 1 \in 0 .. MaxPreviews /\ preview.run \in Nat
  BY <1>1, <1>2
<1>4. PreviewTypeOK' /\ PreviewShape'
  BY <1>1, <1>2, <1>3 DEF PreviewHistory, PreviewTypeOK, PreviewShape
<1>5. ASSUME NEW a \in Documented PROVE Untouched(a)'
  <2>1. ASSUME NEW kind \in {"mdl", "samples"}, <<kind, a>> \in DOMAIN tree
        PROVE  tree[<<kind, a>>].run # preview.run + 1
    BY <1>3, <2>1 DEF PreviewHistory, TreeTells
  <2>2. <<"event", "protection", a, preview.run + 1>> \notin DOMAIN tree
    <3> DEFINE p == <<"event", "protection", a, preview.run + 1>>
    <3>1. p[1] = "event" /\ p[4] = preview.run + 1
      OBVIOUS
    <3> HIDE DEF p
    <3>2. p \notin DOMAIN tree
      BY <1>3, <3>1 DEF PreviewHistory, TreeTells
    <3> QED
      BY <3>2 DEF p
  <2> QED
    BY <1>1, <1>3, <2>1, <2>2 DEF Untouched
<1>6. <<>> \in Seq(ToSet(<<>>)) /\ \A paths : Backed(<<>>, paths)
  BY DEF Backed
<1>7. RunFits'
  BY <1>3, <1>5, <1>6 DEF RunFits
<1>8. preview'.run \in Nat /\ preview.run <= preview'.run
  BY <1>3
<1> QED
  BY <1>1, <1>4, <1>7, <1>8, OnlyRun DEF PreviewHistory

\* The run has nothing to write.
LEMMA Idle ==
  ASSUME PreviewHistory, UNCHANGED <<tree, queued, importer, indexed, imports>>,
         slips' \in 0 .. MaxSlips, preview'.run = preview.run, preview'.todo = <<>>,
         preview' \in [run : Nat, phase : {"idle", "tables", "passes"}, left : SUBSET preview.left,
                       todo : {preview'.todo}, inferred : {preview'.inferred}],
         preview'.phase = "tables" => preview.phase = "tables"
  PROVE  PreviewHistory'
<1>1. preview.left \subseteq Documented /\ preview.run \in Nat
  BY DEF PreviewHistory, PreviewShape
<1>2. PreviewTypeOK' /\ PreviewShape'
  BY <1>1 DEF PreviewHistory, PreviewTypeOK, PreviewShape
<1>3. <<>> \in Seq(ToSet(<<>>)) /\ \A paths : Backed(<<>>, paths)
  BY DEF Backed
<1>4. preview'.phase = "tables" => \A a \in preview'.left : Untouched(a)'
  BY DEF PreviewHistory, RunFits, Untouched
<1>5. RunFits'
  BY <1>3, <1>4 DEF RunFits
<1> QED
  BY <1>1, <1>2, <1>5, OnlyRun DEF PreviewHistory

LEMMA EndsFits ==
  ASSUME PreviewHistory, EndPreview \/ PreviewDies \/ \E a \in Documented : TakeUnchanged(a)
  PROVE  PreviewHistory'
<1>1. /\ preview \in [run : Nat, phase : {"idle", "tables", "passes"}, left : SUBSET Documented,
                      todo : {preview.todo}, inferred : {preview.inferred}]
      /\ slips \in 0 .. MaxSlips /\ MaxSlips \in Nat
  BY PreviewAssumption DEF PreviewHistory, PreviewShape, PreviewTypeOK
<1>2. CASE EndPreview \/ PreviewDies
  <2>1. preview' = [run |-> preview.run, phase |-> "idle", left |-> {}, todo |-> <<>>, inferred |-> FALSE]
    BY <1>2 DEF EndPreview, PreviewDies, NoPreview
  <2>2. UNCHANGED <<tree, queued, importer, indexed, imports>> /\ slips' \in 0 .. MaxSlips
    BY <1>1, <1>2 DEF EndPreview, PreviewDies, Working, Slips
  <2> QED
    BY <1>1, <2>1, <2>2, Idle
<1>3. CASE \E a \in Documented : TakeUnchanged(a)
  <2> PICK a \in Documented : TakeUnchanged(a)
    BY <1>3
  <2>1. preview.phase = "tables" /\ preview.todo = <<>> /\ preview' = [preview EXCEPT !.left = @ \ {a}]
    BY DEF TakeUnchanged, Working
  <2>2. UNCHANGED <<tree, queued, importer, indexed, imports>> /\ slips' \in 0 .. MaxSlips
    BY <1>1 DEF TakeUnchanged, Working
  <2> QED
    BY <1>1, <2>1, <2>2, Idle
<1> QED
  BY <1>2, <1>3

LEMMA TablePlanned ==
  ASSUME NEW a \in Documented, NEW x \in Answers, NEW ops \in {TableOps, WithoutBundle}, NEW todo,
         todo = FlattenSeq([i \in DOMAIN ops |-> [k \in DOMAIN FilesOf(ops[i], a, x) |->
                              [op |-> ops[i], file |-> FilesOf(ops[i], a, x)[k]]]])
  PROVE  /\ todo \in Seq(ToSet(todo)) /\ \A paths : Backed(todo, paths)
         /\ \A k \in 1 .. Len(todo) : TableFile(todo[k].file, a, x, preview.run)
<1>1. PICK n \in Nat : DOMAIN ops = 1 .. n
  <2>1. DOMAIN TableOps = 1 .. 7 /\ DOMAIN WithoutBundle = 1 .. 4
    BY DEF TableOps, WithoutBundle
  <2> QED
    BY <2>1
<1>2. \A i \in 1 .. n : ops[i] \in ToSet(TableOps)
  <2>1. \A i \in DOMAIN TableOps : TableOps[i] \in ToSet(TableOps)
    BY DEF ToSet
  <2>2. \A i \in DOMAIN WithoutBundle : \E j \in DOMAIN TableOps : WithoutBundle[i] = TableOps[j]
    BY DEF WithoutBundle, TableOps
  <2> QED
    BY <1>1, <2>1, <2>2
<1> DEFINE fs == [i \in 1 .. n |-> FilesOf(ops[i], a, x)]
<1>3. \A i \in 1 .. n : fs[i] = FilesOf(ops[i], a, x)
  OBVIOUS
<1> HIDE DEF fs
<1>4. \A i \in 1 .. n : Sound(fs[i]) /\ \A w \in ToSet(fs[i]) : TableFile(w, a, x, preview.run)
  BY <1>2, <1>3, TableFiles
<1>5. todo = Items(n, ops, fs)
  BY <1>1, <1>3 DEF Items
<1>6. /\ todo \in Seq(ToSet(todo)) /\ \A paths : Backed(todo, paths)
      /\ \A k \in 1 .. Len(todo) : \E i \in 1 .. n : todo[k].file \in ToSet(fs[i])
  BY <1>4, <1>5, ManyOperations
<1> QED
  BY <1>4, <1>6

LEMMA PassesPlanned ==
  ASSUME NEW claims \in SUBSET Claims, NEW todo, NEW FilesFor,
         FilesFor = <<CandidateFiles("cross", claims), SchemaFiles>>,
         todo = FlattenSeq([i \in DOMAIN PassOps |-> [k \in DOMAIN FilesFor[i] |->
                              [op |-> PassOps[i], file |-> FilesFor[i][k]]]])
  PROVE  /\ todo \in Seq(ToSet(todo)) /\ \A paths : Backed(todo, paths)
         /\ \A k \in 1 .. Len(todo) : PassFile(todo[k].file, preview.run)
<1>1. DOMAIN PassOps = 1 .. 2 /\ 2 \in Nat
  BY DEF PassOps
<1>2. \A i \in 1 .. 2 : Sound(FilesFor[i]) /\ \A w \in ToSet(FilesFor[i]) : PassFile(w, preview.run)
  <2>1. \A i \in 1 .. 2 : i = 1 \/ i = 2
    OBVIOUS
  <2>2. FilesFor[1] = CandidateFiles("cross", claims) /\ FilesFor[2] = SchemaFiles
    OBVIOUS
  <2>3. Sound(FilesFor[1]) /\ \A w \in ToSet(FilesFor[1]) : PassFile(w, preview.run)
    BY <2>2, CandidatesFound
  <2>4. Sound(FilesFor[2]) /\ \A w \in ToSet(FilesFor[2]) : PassFile(w, preview.run)
    BY <2>2, SchemaFound
  <2> QED
    BY <2>1, <2>3, <2>4
<1>3. todo = Items(2, PassOps, FilesFor)
  BY <1>1 DEF Items
<1>4. /\ todo \in Seq(ToSet(todo)) /\ \A paths : Backed(todo, paths)
      /\ \A k \in 1 .. Len(todo) : \E i \in 1 .. 2 : todo[k].file \in ToSet(FilesFor[i])
  BY <1>1, <1>2, <1>3, ManyOperations
<1> QED
  BY <1>2, <1>4

\* The run has taken something up.
LEMMA Busy ==
  ASSUME PreviewHistory, UNCHANGED <<tree, queued, importer, indexed, imports>>,
         slips' \in 0 .. MaxSlips, preview'.run = preview.run,
         preview' \in [run : Nat, phase : {"idle", "tables", "passes"}, left : SUBSET preview.left,
                       todo : {preview'.todo}, inferred : {preview'.inferred}],
         preview'.phase = "tables" => preview.phase = "tables",
         preview'.todo \in Seq(ToSet(preview'.todo)), Backed(preview'.todo, DOMAIN tree),
         preview'.todo # <<>> => InPasses' \/ \E a \in Documented, x \in Answers : InTable(a, x)'
  PROVE  PreviewHistory'
<1>1. preview.left \subseteq Documented /\ preview.run \in Nat
  BY DEF PreviewHistory, PreviewShape
<1>2. PreviewTypeOK' /\ PreviewShape'
  BY <1>1 DEF PreviewHistory, PreviewTypeOK, PreviewShape
<1>3. preview'.phase = "tables" => \A a \in preview'.left : Untouched(a)'
  BY DEF PreviewHistory, RunFits, Untouched
<1>4. RunFits'
  <2>1. (DOMAIN tree)' = DOMAIN tree
    OBVIOUS
  <2>2. Backed(preview.todo, DOMAIN tree)'
    BY <2>1 DEF Backed, Asks, Need, Gives, RowOf
  <2> QED
    BY <1>3, <2>2 DEF RunFits
<1> QED
  BY <1>1, <1>2, <1>4, OnlyRun DEF PreviewHistory

LEMMA TableFits ==
  ASSUME PreviewHistory, NEW a \in Documented, NEW x \in Answers, TakeTable(a, x)
  PROVE  PreviewHistory'
<1> DEFINE ops == IF x.bundle THEN TableOps ELSE WithoutBundle
           todo == FlattenSeq([i \in DOMAIN ops |-> [k \in DOMAIN FilesOf(ops[i], a, x) |->
                              [op |-> ops[i], file |-> FilesOf(ops[i], a, x)[k]]]])
<1>1. /\ preview \in [run : Nat, phase : {"idle", "tables", "passes"}, left : SUBSET Documented,
                      todo : {preview.todo}, inferred : {preview.inferred}]
      /\ slips \in 0 .. MaxSlips
  BY DEF PreviewHistory, PreviewShape, PreviewTypeOK
<1>2. /\ preview.phase = "tables" /\ a \in preview.left
      /\ UNCHANGED <<tree, queued, importer, indexed, imports, slips>>
      /\ preview' = [preview EXCEPT !.left = @ \ {a}, !.inferred = @ \/ x.rels, !.todo = todo]
  BY DEF TakeTable, Working, Todo
<1>3. /\ todo \in Seq(ToSet(todo)) /\ \A paths : Backed(todo, paths)
      /\ \A k \in 1 .. Len(todo) : TableFile(todo[k].file, a, x, preview.run)
  BY TablePlanned
<1> HIDE DEF todo
<1>4. /\ preview'.run = preview.run /\ preview'.phase = "tables" /\ preview'.todo = todo
      /\ preview'.left = preview.left \ {a}
      /\ preview' \in [run : Nat, phase : {"idle", "tables", "passes"}, left : SUBSET preview.left,
                       todo : {preview'.todo}, inferred : {preview'.inferred}]
  BY <1>1, <1>2
<1>5. Untouched(a)
  BY <1>2 DEF PreviewHistory, RunFits
<1>6. Accords(a, x)'
  BY <1>2, <1>4, <1>5 DEF Untouched, Accords
<1>7. InTable(a, x)'
  BY <1>3, <1>4, <1>6 DEF InTable
<1>8. preview'.todo \in Seq(ToSet(preview'.todo)) /\ Backed(preview'.todo, DOMAIN tree)
  BY <1>3, <1>4
<1>9. \E b \in Documented, y \in Answers : InTable(b, y)'
  BY <1>7
<1> QED
  BY <1>1, <1>2, <1>4, <1>8, <1>9, Busy

LEMMA PassesFit ==
  ASSUME PreviewHistory, NEW claims \in CrossAnswers, BeginPasses(claims)
  PROVE  PreviewHistory'
<1> DEFINE Files(op) == IF op = "cross" THEN CandidateFiles("cross", claims) ELSE SchemaFiles
           files == <<CandidateFiles("cross", claims), SchemaFiles>>
           todo == FlattenSeq([i \in DOMAIN PassOps |-> [k \in DOMAIN files[i] |->
                              [op |-> PassOps[i], file |-> files[i][k]]]])
<1>1. /\ preview \in [run : Nat, phase : {"idle", "tables", "passes"}, left : SUBSET Documented,
                      todo : {preview.todo}, inferred : {preview.inferred}]
      /\ slips \in 0 .. MaxSlips /\ claims \in SUBSET Claims
  BY PreviewAssumption DEF PreviewHistory, PreviewShape, PreviewTypeOK
<1>2. \A i \in DOMAIN PassOps : files[i] = Files(PassOps[i])
  BY DEF PassOps
<1>3. /\ UNCHANGED <<tree, queued, importer, indexed, imports, slips>>
      /\ preview' = [preview EXCEPT !.phase = "passes", !.todo = todo]
  <2> HIDE DEF files, Files
  <2>1. todo = FlattenSeq([i \in DOMAIN PassOps |-> [k \in DOMAIN Files(PassOps[i]) |->
                              [op |-> PassOps[i], file |-> Files(PassOps[i])[k]]]])
    BY <1>2
  <2> HIDE DEF todo
  <2> QED
    BY <2>1 DEF BeginPasses, Working, Todo, Files
<1>4. /\ todo \in Seq(ToSet(todo)) /\ \A paths : Backed(todo, paths)
      /\ \A k \in 1 .. Len(todo) : PassFile(todo[k].file, preview.run)
  BY <1>1, PassesPlanned
<1> HIDE DEF todo, files, Files
<1>5. /\ preview'.run = preview.run /\ preview'.phase = "passes" /\ preview'.todo = todo
      /\ preview' \in [run : Nat, phase : {"idle", "tables", "passes"}, left : SUBSET preview.left,
                       todo : {preview'.todo}, inferred : {preview'.inferred}]
  BY <1>1, <1>3
<1>6. InPasses'
  BY <1>4, <1>5 DEF InPasses
<1> QED
  BY <1>1, <1>3, <1>4, <1>5, <1>6, Busy

LEMMA FailFits ==
  ASSUME PreviewHistory, PutFails
  PROVE  PreviewHistory'
<1> DEFINE op == Head(preview.todo).op
<1>1. /\ preview \in [run : Nat, phase : {"idle", "tables", "passes"}, left : SUBSET Documented,
                      todo : {preview.todo}, inferred : {preview.inferred}]
      /\ slips \in 0 .. MaxSlips /\ MaxSlips \in Nat
      /\ preview.todo \in Seq(ToSet(preview.todo)) /\ Backed(preview.todo, DOMAIN tree)
      /\ InPasses \/ \E a \in Documented, x \in Answers : InTable(a, x)
  BY PreviewAssumption DEF PreviewHistory, PreviewShape, PreviewTypeOK, RunFits, PutFails
<1>2. /\ UNCHANGED <<tree, queued, importer, indexed, imports>> /\ slips' \in 0 .. MaxSlips
      /\ preview.todo # <<>>
  BY <1>1 DEF PutFails, Slips
<1>3. preview' = IF op \in Routed THEN [preview EXCEPT !.todo = GivenUp(@)]
                 ELSE IF op = "schema" THEN NoPreview(preview.run) ELSE [preview EXCEPT !.todo = <<>>]
  BY DEF PutFails
<1> HIDE DEF op
<1>4. CASE op \in Routed
  <2> DEFINE S == ToSet(preview.todo)
             todo == GivenUp(preview.todo)
  <2>1. /\ todo \in Seq(S) /\ Backed(todo, DOMAIN tree)
        /\ \A k \in 1 .. Len(todo) : \E j \in 1 .. Len(preview.todo) : todo[k] = preview.todo[j]
    <3> HIDE DEF S
    <3>1. preview.todo \in Seq(S)
      BY <1>1 DEF S
    <3> QED
      BY <1>1, <1>2, <3>1, WhenGivenUp
  <2> HIDE DEF S, todo
  <2>2. todo \in Seq(ToSet(todo))
    BY <2>1, OfItsMembers
  <2>3. preview' = [preview EXCEPT !.todo = todo]
    BY <1>3, <1>4 DEF todo
  <2>4. /\ preview'.run = preview.run /\ preview'.phase = preview.phase /\ preview'.todo = todo
        /\ preview'.left = preview.left
        /\ preview' \in [run : Nat, phase : {"idle", "tables", "passes"}, left : SUBSET preview.left,
                         todo : {preview'.todo}, inferred : {preview'.inferred}]
    BY <1>1, <2>3
  <2>5. ASSUME InPasses PROVE InPasses'
    <3>1. ASSUME NEW k \in 1 .. Len(todo) PROVE PassFile(todo[k].file, preview'.run)
      <4>1. PICK j \in 1 .. Len(preview.todo) : todo[k] = preview.todo[j]
        BY <2>1
      <4>2. PassFile(todo[k].file, preview.run)
        BY <2>5, <4>1 DEF InPasses
      <4> QED
        BY <2>4, <4>2
    <3> QED
      BY <2>4, <2>5, <3>1 DEF InPasses
  <2>6. ASSUME NEW a \in Documented, NEW x \in Answers, InTable(a, x)
        PROVE  InTable(a, x)'
    <3>1. Accords(a, x)'
      BY <1>2, <2>4, <2>6 DEF InTable, Accords
    <3>2. ASSUME NEW k \in 1 .. Len(todo) PROVE TableFile(todo[k].file, a, x, preview'.run)
      <4>1. PICK j \in 1 .. Len(preview.todo) : todo[k] = preview.todo[j]
        BY <2>1
      <4>2. TableFile(todo[k].file, a, x, preview.run)
        BY <2>6, <4>1 DEF InTable
      <4> QED
        BY <2>4, <4>2
    <3> QED
      BY <2>4, <2>6, <3>1, <3>2 DEF InTable
  <2>7. InPasses' \/ \E a \in Documented, x \in Answers : InTable(a, x)'
    BY <1>1, <2>5, <2>6
  <2>8. preview'.todo \in Seq(ToSet(preview'.todo)) /\ Backed(preview'.todo, DOMAIN tree)
    BY <2>1, <2>2, <2>4
  <2> QED
    BY <1>2, <2>4, <2>7, <2>8, Busy
<1>5. CASE op \notin Routed /\ op = "schema"
  <2>1. preview' = [run |-> preview.run, phase |-> "idle", left |-> {}, todo |-> <<>>, inferred |-> FALSE]
    BY <1>3, <1>5 DEF NoPreview
  <2> QED
    BY <1>1, <1>2, <2>1, Idle
<1>6. CASE op \notin Routed /\ op # "schema"
  <2>1. preview' = [preview EXCEPT !.todo = <<>>]
    BY <1>3, <1>6
  <2> QED
    BY <1>1, <1>2, <2>1, Idle
<1> QED
  BY <1>4, <1>5, <1>6

\* What is written next has what it asks for, and goes with what this run has written.
LEMMA NextFile ==
  ASSUME PreviewHistory, preview.todo # <<>>, NEW w, w = Head(preview.todo).file
  PROVE  /\ Asks(w) => Need(w) \in DOMAIN tree
         /\ EventFile(w, preview.run)
         /\ \/ preview.phase = "passes" /\ PassFile(w, preview.run)
            \/ \E a \in Documented, x \in Answers : InTable(a, x) /\ TableFile(w, a, x, preview.run)
<1> DEFINE S == ToSet(preview.todo)
<1>1. preview.todo \in Seq(S) /\ Backed(preview.todo, DOMAIN tree)
      /\ (InPasses \/ \E a \in Documented, x \in Answers : InTable(a, x))
  BY DEF PreviewHistory, RunFits
<1> HIDE DEF S
<1>2. 1 \in 1 .. Len(preview.todo) /\ Head(preview.todo) = preview.todo[1]
  BY <1>1
<1>3. ~ (1 - 1 \in 1 .. Len(preview.todo))
  BY <1>1
<1>4. Asks(w) => Need(w) \in DOMAIN tree
  BY <1>1, <1>2, <1>3 DEF Backed
<1>5. InPasses => preview.phase = "passes" /\ PassFile(w, preview.run)
  BY <1>2 DEF InPasses
<1>6. \A a, x : InTable(a, x) => TableFile(w, a, x, preview.run)
  BY <1>2 DEF InTable
<1>7. EventFile(w, preview.run)
  BY <1>1, <1>5, <1>6 DEF PassFile, TableFile
<1> QED
  BY <1>1, <1>4, <1>5, <1>6, <1>7

LEMMA LineFits ==
  ASSUME PreviewHistory, Put, Head(preview.todo).file.line
  PROVE  QueueNamesFiles' /\ tree' = tree
<1> DEFINE w == Head(preview.todo).file
<1>1. tree' = tree /\ queued' = queued \union {w.path} /\ w.line /\ preview.todo # <<>>
  BY DEF Put
<1> HIDE DEF w
<1>2. Asks(w) /\ Need(w) = w.path
  BY <1>1 DEF Asks, Need
<1>3. w.path \in DOMAIN tree
  BY <1>1, <1>2, NextFile DEF w
<1> QED
  BY <1>1, <1>3 DEF PreviewHistory, QueueNamesFiles

\* A file is written.
LEMMA WriteTells ==
  ASSUME PreviewHistory, NEW w, NEW says, EventFile(w, preview.run), w.says = says,
         tree' = With(tree, w.path, [says |-> says, run |-> preview.run]),
         preview'.run = preview.run
  PROVE  TreeTells'
<1>1. preview.run \in Nat
  BY DEF PreviewHistory, PreviewShape
<1>2. /\ DOMAIN tree' = DOMAIN tree \union {w.path}
      /\ tree'[w.path] = [says |-> says, run |-> preview.run]
      /\ \A p \in DOMAIN tree : p # w.path => tree'[p] = tree[p]
  BY DEF With
<1>3. \A p \in DOMAIN tree :
        /\ tree[p].run \in Nat /\ tree[p].run <= preview.run
        /\ p[1] = "event" => /\ p[2] \in {"causal", "relation", "protection"}
                             /\ p[4] \in Nat /\ p[4] <= preview.run
                             /\ p[2] # "protection" => tree[p].says = Told(p)
  BY DEF PreviewHistory, TreeTells
<1>4. w.path[1] = "event" =>
        /\ w.path[2] \in {"causal", "relation", "protection"} /\ w.path[4] = preview.run
        /\ w.path[2] # "protection" => says = Told(w.path)
  BY DEF EventFile
<1>5. ASSUME NEW p \in DOMAIN tree'
      PROVE  /\ tree'[p].run \in Nat /\ tree'[p].run <= preview.run
             /\ p[1] = "event" => /\ p[2] \in {"causal", "relation", "protection"}
                                  /\ p[4] \in Nat /\ p[4] <= preview.run
                                  /\ p[2] # "protection" => tree'[p].says = Told(p)
  <2>1. CASE p = w.path
    BY <1>1, <1>2, <1>4, <2>1
  <2>2. CASE p # w.path
    BY <1>2, <1>3, <2>2
  <2> QED
    BY <2>1, <2>2
<1> QED
  BY <1>5 DEF TreeTells, Told

LEMMA WriteKeeps ==
  ASSUME PreviewHistory, NEW w, NEW says, EventFile(w, preview.run), w.says = says, ~ w.line,
         Asks(w) => Need(w) \in DOMAIN tree,
         tree' = With(tree, w.path, [says |-> says, run |-> preview.run]),
         UNCHANGED <<queued, indexed>>,
         \A p \in DOMAIN tree : p = w.path /\ Hints(p) => tree[p].says = says
  PROVE  QueueNamesFiles' /\ EventsHaveRows' /\ EventPointsAreFiles'
<1>1. /\ DOMAIN tree' = DOMAIN tree \union {w.path}
      /\ tree'[w.path] = [says |-> says, run |-> preview.run]
      /\ \A p \in DOMAIN tree : p # w.path => tree'[p] = tree[p]
  BY DEF With
<1>2. QueueNamesFiles'
  BY <1>1 DEF PreviewHistory, QueueNamesFiles
<1>3. w.path[1] = "event" => RowOf(w.path) \in DOMAIN tree
  BY DEF Asks, Need
<1>4. \A p \in DOMAIN tree : p[1] = "event" => RowOf(p) \in DOMAIN tree
  BY DEF PreviewHistory, EventsHaveRows
<1>5. \A p \in DOMAIN tree' : p[1] = "event" => RowOf(p) \in DOMAIN tree'
  BY <1>1, <1>3, <1>4
<1>6. EventsHaveRows'
  BY <1>5 DEF EventsHaveRows, RowOf
<1>7. \A p \in DOMAIN tree : p[1] = "event" => tree'[p].says = tree[p].says
  <2> SUFFICES ASSUME NEW p \in DOMAIN tree, p[1] = "event" PROVE tree'[p].says = tree[p].says
    OBVIOUS
  <2>1. CASE p # w.path
    BY <1>1, <2>1
  <2>2. CASE p = w.path /\ p[2] = "protection"
    BY <1>1, <2>2 DEF Hints
  <2>3. CASE p = w.path /\ p[2] # "protection"
    <3>1. tree[p].says = Told(p)
      BY <2>3 DEF PreviewHistory, TreeTells
    <3>2. says = Told(p)
      BY <2>3 DEF EventFile
    <3> QED
      BY <1>1, <2>3, <3>1, <3>2
  <2> QED
    BY <2>1, <2>2, <2>3
<1>8. EventPointsAreFiles'
  BY <1>1, <1>7 DEF PreviewHistory, EventPointsAreFiles
<1> QED
  BY <1>2, <1>6, <1>8

LEMMA WriteAccords ==
  ASSUME PreviewHistory, NEW w, NEW says, w.says = says,
         tree' = With(tree, w.path, [says |-> says, run |-> preview.run]),
         preview'.run = preview.run,
         NEW a \in Documented, NEW x \in Answers, Accords(a, x), TableFile(w, a, x, preview.run)
  PROVE  /\ Accords(a, x)' /\ SamplesFollowModel'
         /\ \A b \in Documented : b # a /\ Untouched(b) => Untouched(b)'
         /\ \A p \in DOMAIN tree : p = w.path /\ Hints(p) => tree[p].says = says
<1> DEFINE n == preview.run
<1>0. /\ DOMAIN tree' = DOMAIN tree \union {w.path}
      /\ tree'[w.path] = [says |-> says, run |-> preview.run]
      /\ \A p \in DOMAIN tree : p # w.path => tree'[p] = tree[p]
  BY DEF With
<1>1. /\ DOMAIN tree' = DOMAIN tree \union {w.path}
      /\ tree'[w.path].says = says /\ tree'[w.path].run = n
      /\ \A p \in DOMAIN tree : p # w.path => tree'[p] = tree[p]
  BY <1>0
<1>2. /\ w.path[1] = "mdl" => w.path = <<"mdl", a>> /\ says \subseteq x.pii
      /\ w.path[1] = "samples" => w.path = <<"samples", a>> /\ says \intersect x.pii = {}
      /\ Hints(w.path) => w.path = <<"event", "protection", a, n>> /\ says = x.cls
  BY DEF TableFile
<1>3. Hints(<<"event", "protection", a, n>>) /\ \A b : Hints(<<"event", "protection", b, n>>)
  BY DEF Hints
<1> HIDE DEF n
<1>4. /\ <<"mdl", a>> \in DOMAIN tree' /\ tree'[<<"mdl", a>>].run = n =>
           tree'[<<"mdl", a>>].says \subseteq x.pii
      /\ <<"samples", a>> \in DOMAIN tree' /\ tree'[<<"samples", a>>].run = n =>
           tree'[<<"samples", a>>].says \intersect x.pii = {}
      /\ <<"event", "protection", a, n>> \in DOMAIN tree' =>
           tree'[<<"event", "protection", a, n>>].says = x.cls
  <2>1. /\ <<"mdl", a>> \in DOMAIN tree /\ tree[<<"mdl", a>>].run = n =>
             tree[<<"mdl", a>>].says \subseteq x.pii
        /\ <<"samples", a>> \in DOMAIN tree /\ tree[<<"samples", a>>].run = n =>
             tree[<<"samples", a>>].says \intersect x.pii = {}
        /\ <<"event", "protection", a, n>> \in DOMAIN tree =>
             tree[<<"event", "protection", a, n>>].says = x.cls
    BY DEF Accords, n
  <2> DEFINE m == <<"mdl", a>>
             v == <<"samples", a>>
             e == <<"event", "protection", a, n>>
  <2>2. m[1] = "mdl" /\ v[1] = "samples" /\ Hints(e)
    BY <1>3
  <2> HIDE DEF m, v, e
  <2>3. m \in DOMAIN tree' /\ tree'[m].run = n => tree'[m].says \subseteq x.pii
    BY <1>1, <1>2, <2>1, <2>2 DEF m
  <2>4. v \in DOMAIN tree' /\ tree'[v].run = n => tree'[v].says \intersect x.pii = {}
    BY <1>1, <1>2, <2>1, <2>2 DEF v
  <2>5. e \in DOMAIN tree' => tree'[e].says = x.cls
    BY <1>1, <1>2, <2>1, <2>2 DEF e
  <2> QED
    BY <2>3, <2>4, <2>5 DEF m, v, e
<1>5. Accords(a, x)'
  BY <1>4 DEF Accords, n
<1>6. ASSUME NEW b \in Documented, b # a
      PROVE  <<"mdl", b>> # w.path /\ <<"samples", b>> # w.path /\ <<"event", "protection", b, n>> # w.path
  <2>1. <<"mdl", b>> # <<"mdl", a>> /\ <<"samples", b>> # <<"samples", a>>
        /\ <<"event", "protection", b, n>> # <<"event", "protection", a, n>>
    BY <1>6
  <2>2. <<"mdl", b>>[1] = "mdl" /\ <<"samples", b>>[1] = "samples"
    OBVIOUS
  <2> QED
    BY <1>2, <1>3, <2>1, <2>2
<1>7. ASSUME NEW b \in Documented, b # a, Untouched(b) PROVE Untouched(b)'
  <2>1. <<"event", "protection", b, n>> \notin DOMAIN tree'
    BY <1>1, <1>6, <1>7 DEF Untouched, n
  <2>2. ASSUME NEW kind \in {"mdl", "samples"}, <<kind, b>> \in DOMAIN tree'
        PROVE  tree'[<<kind, b>>].run # n
    <3>1. <<kind, b>> # w.path
      BY <1>6, <1>7
    <3> QED
      BY <1>1, <1>7, <2>2, <3>1 DEF Untouched, n
  <2> QED
    BY <2>1, <2>2 DEF Untouched, n
<1>8. ASSUME NEW b \in Documented, {<<"mdl", b>>, <<"samples", b>>} \subseteq DOMAIN tree',
             tree'[<<"mdl", b>>].run = tree'[<<"samples", b>>].run
      PROVE  tree'[<<"mdl", b>>].says \intersect tree'[<<"samples", b>>].says = {}
  <2>1. {<<"mdl", b>>, <<"samples", b>>} \subseteq DOMAIN tree
        /\ tree[<<"mdl", b>>].run = tree[<<"samples", b>>].run
        => tree[<<"mdl", b>>].says \intersect tree[<<"samples", b>>].says = {}
    BY DEF PreviewHistory, SamplesFollowModel
  <2>2. CASE w.path \in {<<"mdl", b>>, <<"samples", b>>}
    <3>1. b = a
      BY <1>6, <2>2
    <3>2. tree'[<<"mdl", a>>].run = n /\ tree'[<<"samples", a>>].run = n
      BY <1>1, <1>8, <2>2, <3>1
    <3> QED
      BY <1>4, <1>8, <3>1, <3>2
  <2>3. CASE w.path \notin {<<"mdl", b>>, <<"samples", b>>}
    BY <1>1, <1>8, <2>1, <2>3
  <2> QED
    BY <2>2, <2>3
<1>9. SamplesFollowModel'
  BY <1>8 DEF SamplesFollowModel
<1>10. \A p \in DOMAIN tree : p = w.path /\ Hints(p) => tree[p].says = says
  BY <1>2 DEF Accords, n
<1> QED
  BY <1>5, <1>7, <1>9, <1>10

LEMMA PutFits ==
  ASSUME PreviewHistory, Put
  PROVE  PreviewHistory'
<1> DEFINE w == Head(preview.todo).file
           todo == Tail(preview.todo)
           S == ToSet(preview.todo)
<1>1. /\ preview \in [run : Nat, phase : {"idle", "tables", "passes"}, left : SUBSET Documented,
                      todo : {preview.todo}, inferred : {preview.inferred}]
      /\ importer \in [at : {"idle", "assets", "fields", "done", "causal", "relation", "protection"},
                       left : {importer.left}, lost : {importer.lost}, quiet : BOOLEAN,
                       asset : {importer.asset}, flags : {importer.flags}]
      /\ preview.todo \in Seq(S) /\ Backed(preview.todo, DOMAIN tree)
  BY DEF PreviewHistory, PreviewShape, RunFits
<1>2. /\ preview.todo # <<>> /\ UNCHANGED <<indexed, imports, slips>>
      /\ preview' = [preview EXCEPT !.todo = todo] /\ importer' = [importer EXCEPT !.quiet = FALSE]
      /\ w.line => tree' = tree
      /\ ~ w.line => /\ tree' = With(tree, w.path, [says |-> w.says, run |-> preview.run])
                     /\ queued' = queued
  BY DEF Put
<1> HIDE DEF S
<1>3. /\ Asks(w) => Need(w) \in DOMAIN tree
      /\ EventFile(w, preview.run)
      /\ \/ preview.phase = "passes" /\ PassFile(w, preview.run)
         \/ \E a \in Documented, x \in Answers : InTable(a, x) /\ TableFile(w, a, x, preview.run)
  BY <1>2, NextFile
<1>4. w.line => QueueNamesFiles'
  BY LineFits
<1>5. DOMAIN tree \subseteq DOMAIN tree' /\ (~ w.line => w.path \in DOMAIN tree')
  BY <1>2 DEF With
<1>6. /\ todo \in Seq(S) /\ Backed(todo, DOMAIN tree')
      /\ \A k \in 1 .. Len(todo) : \E j \in 1 .. Len(preview.todo) : todo[k] = preview.todo[j]
  <2> DEFINE more == DOMAIN tree'
  <2>1. DOMAIN tree \subseteq more /\ (~ w.line => w.path \in more)
    BY <1>5
  <2> HIDE DEF more
  <2>2. /\ todo \in Seq(S) /\ Backed(todo, more)
        /\ \A k \in 1 .. Len(todo) : \E j \in 1 .. Len(preview.todo) : todo[k] = preview.todo[j]
    <3>1. /\ preview.todo \in Seq(S) /\ preview.todo # <<>> /\ Backed(preview.todo, DOMAIN tree)
          /\ ~ Head(preview.todo).file.line => Head(preview.todo).file.path \in more
      BY <1>1, <1>2, <2>1
    <3> QED
      BY <2>1, <3>1, WhenWritten, Zenon
  <2> QED
    BY <2>2 DEF more
<1>7. todo \in Seq(ToSet(todo))
  BY <1>6, OfItsMembers
<1> HIDE DEF w, todo
<1>8. /\ preview'.run = preview.run /\ preview'.phase = preview.phase /\ preview'.todo = todo
      /\ preview'.left = preview.left
      /\ preview' \in [run : Nat, phase : {"idle", "tables", "passes"}, left : SUBSET Documented,
                       todo : {preview'.todo}, inferred : {preview'.inferred}]
  BY <1>1, <1>2
<1>9. /\ importer'.at = importer.at /\ importer'.left = importer.left /\ importer'.quiet = FALSE
      /\ importer' \in [at : {"idle", "assets", "fields", "done", "causal", "relation", "protection"},
                        left : {importer'.left}, lost : {importer'.lost}, quiet : BOOLEAN,
                        asset : {importer'.asset}, flags : {importer'.flags}]
  BY <1>1, <1>2
<1>10. PreviewTypeOK' /\ PreviewShape'
  BY <1>2, <1>8, <1>9 DEF PreviewHistory, PreviewTypeOK, PreviewShape
<1>11. ImportFits'
  BY <1>5, <1>9 DEF PreviewHistory, ImportFits, EventFiles
<1>12. TreeTells'
  <2>1. CASE w.line
    BY <1>2, <1>8, <2>1 DEF PreviewHistory, TreeTells, Told
  <2>2. CASE ~ w.line
    BY <1>2, <1>3, <1>8, <2>2, WriteTells
  <2> QED
    BY <2>1, <2>2
\* What the rest of the conjuncts need of the answers that this run goes with.
<1> DEFINE StaysFit ==
           /\ \A p \in DOMAIN tree : p = w.path /\ Hints(p) => w.line \/ tree[p].says = w.says
           /\ SamplesFollowModel'
           /\ preview.phase = "tables" => \A b \in preview.left : Untouched(b)'
           /\ todo # <<>> => InPasses' \/ \E a \in Documented, x \in Answers : InTable(a, x)'
<1>13. ASSUME w.line PROVE StaysFit
  <2>1. SamplesFollowModel'
    BY <1>2, <1>13 DEF PreviewHistory, SamplesFollowModel
  <2>2. preview.phase = "tables" => \A b \in preview.left : Untouched(b)'
    BY <1>2, <1>8, <1>13 DEF PreviewHistory, RunFits, Untouched
  <2>3. InPasses \/ \E a \in Documented, x \in Answers : InTable(a, x)
    BY <1>2 DEF PreviewHistory, RunFits
  <2>4. ASSUME InPasses PROVE InPasses'
    <3>1. ASSUME NEW k \in 1 .. Len(todo) PROVE PassFile(todo[k].file, preview.run)
      <4>1. PICK j \in 1 .. Len(preview.todo) : todo[k] = preview.todo[j]
        BY <1>6
      <4> QED
        BY <2>4, <4>1 DEF InPasses
    <3> QED
      BY <1>8, <2>4, <3>1 DEF InPasses
  <2>5. ASSUME NEW a \in Documented, NEW x \in Answers, InTable(a, x) PROVE InTable(a, x)'
    <3>1. Accords(a, x)'
      BY <1>2, <1>8, <1>13, <2>5 DEF InTable, Accords
    <3>2. ASSUME NEW k \in 1 .. Len(todo) PROVE TableFile(todo[k].file, a, x, preview.run)
      <4>1. PICK j \in 1 .. Len(preview.todo) : todo[k] = preview.todo[j]
        BY <1>6
      <4> QED
        BY <2>5, <4>1 DEF InTable
    <3> QED
      BY <1>8, <2>5, <3>1, <3>2 DEF InTable
  <2>6. InPasses' \/ \E a \in Documented, x \in Answers : InTable(a, x)'
    BY <2>3, <2>4, <2>5
  <2> QED
    BY <1>13, <2>1, <2>2, <2>6
<1>14. ASSUME ~ w.line, preview.phase = "passes", PassFile(w, preview.run) PROVE StaysFit
  <2>1. w.path[1] \notin {"mdl", "samples"} /\ ~ Hints(w.path)
    BY <1>14 DEF PassFile
  <2>2. \A p \in DOMAIN tree : p # w.path => tree'[p] = tree[p]
    BY <1>2, <1>14 DEF With
  <2>3. DOMAIN tree' = DOMAIN tree \union {w.path}
    BY <1>2, <1>14 DEF With
  <2>4. \A b : <<"mdl", b>> # w.path /\ <<"samples", b>> # w.path
    <3>1. \A b : <<"mdl", b>>[1] = "mdl" /\ <<"samples", b>>[1] = "samples"
      OBVIOUS
    <3> QED
      BY <2>1, <3>1
  <2>5. SamplesFollowModel'
    BY <2>2, <2>3, <2>4 DEF PreviewHistory, SamplesFollowModel
  <2>6. todo # <<>> => InPasses'
    <3>1. InPasses
      BY <1>2, <1>14 DEF PreviewHistory, RunFits, InTable
    <3>2. ASSUME NEW k \in 1 .. Len(todo) PROVE PassFile(todo[k].file, preview.run)
      <4>1. PICK j \in 1 .. Len(preview.todo) : todo[k] = preview.todo[j]
        BY <1>6
      <4> QED
        BY <3>1, <4>1 DEF InPasses
    <3> QED
      BY <1>8, <1>14, <3>2 DEF InPasses
  <2> QED
    BY <1>14, <2>1, <2>5, <2>6
<1>15. ASSUME ~ w.line, NEW a \in Documented, NEW x \in Answers, InTable(a, x),
              TableFile(w, a, x, preview.run)
       PROVE  StaysFit
  <2>1. /\ Accords(a, x)' /\ SamplesFollowModel'
        /\ \A b \in Documented : b # a /\ Untouched(b) => Untouched(b)'
        /\ \A p \in DOMAIN tree : p = w.path /\ Hints(p) => tree[p].says = w.says
    BY <1>2, <1>8, <1>15, WriteAccords DEF InTable
  <2>2. preview.phase = "tables" => \A b \in preview.left : Untouched(b)'
    BY <1>1, <1>15, <2>1 DEF PreviewHistory, RunFits, InTable
  <2>3. ASSUME NEW k \in 1 .. Len(todo) PROVE TableFile(todo[k].file, a, x, preview.run)
    <3>1. PICK j \in 1 .. Len(preview.todo) : todo[k] = preview.todo[j]
      BY <1>6
    <3> QED
      BY <1>15, <3>1 DEF InTable
  <2>4. InTable(a, x)'
    BY <1>8, <1>15, <2>1, <2>3 DEF InTable
  <2> QED
    BY <1>15, <2>1, <2>2, <2>4
<1>16. StaysFit
  BY <1>3, <1>13, <1>14, <1>15
<1>17. QueueNamesFiles' /\ EventsHaveRows' /\ EventPointsAreFiles'
  <2>1. CASE w.line
    BY <1>2, <1>4, <2>1 DEF PreviewHistory, EventsHaveRows, EventPointsAreFiles, RowOf, w
  <2>2. CASE ~ w.line
    BY <1>2, <1>3, <1>16, <2>2, WriteKeeps
  <2> QED
    BY <2>1, <2>2
<1>18. RunFits'
  <2>1. Backed(preview.todo, DOMAIN tree)'
    BY <1>6, <1>8 DEF Backed, Asks, Need, Gives, RowOf
  <2>2. todo # <<>> => InPasses' \/ \E a \in Documented, x \in Answers : InTable(a, x)'
    BY <1>16
  <2>3. preview.phase = "tables" => \A b \in preview.left : Untouched(b)'
    BY <1>16
  <2>4. /\ preview'.todo \in Seq(ToSet(preview'.todo))
        /\ preview'.todo # <<>> => InPasses' \/ \E a \in Documented, x \in Answers : InTable(a, x)'
        /\ preview'.phase = "tables" => \A b \in preview'.left : Untouched(b)'
    BY <1>7, <1>8, <2>2, <2>3
  <2> QED
    BY <2>1, <2>4 DEF RunFits
<1> QED
  BY <1>10, <1>11, <1>12, <1>16, <1>17, <1>18 DEF PreviewHistory

-----------------------------------------------------------------------------
(* The script that imports the tree. *)

ImporterShape(i) ==
  i \in [at : {"idle", "assets", "fields", "done", "causal", "relation", "protection"},
         left : {i.left}, lost : {i.lost}, quiet : BOOLEAN, asset : {i.asset}, flags : {i.flags}]

\* What holds when nothing but the importer has moved.
LEMMA OnlyImporter ==
  ASSUME PreviewHistory, UNCHANGED <<tree, queued, preview>>, ImporterShape(importer'),
         imports' \in 0 .. MaxImports, slips' \in 0 .. MaxSlips, ImportFits', EventPointsAreFiles'
  PROVE  PreviewHistory'
<1>1. PreviewTypeOK' /\ PreviewShape'
  <2>1. importer'.at \in {"idle", "assets", "fields", "done", "causal", "relation", "protection"}
    BY DEF ImporterShape
  <2> QED
    BY <2>1, EventDirectories DEF PreviewHistory, PreviewTypeOK, PreviewShape, ImporterShape
<1>2. TreeTells' /\ QueueNamesFiles' /\ SamplesFollowModel'
  BY DEF PreviewHistory, TreeTells, Told, QueueNamesFiles, SamplesFollowModel
<1>3. EventsHaveRows'
  BY DEF PreviewHistory, EventsHaveRows, RowOf
<1>4. RunFits'
  <2>1. Backed(preview.todo, DOMAIN tree)'
    BY DEF PreviewHistory, RunFits, Backed, Asks, Need, Gives, RowOf
  <2>2. (InPasses => InPasses') /\ (preview.phase = "tables" => \A a \in preview.left : Untouched(a)')
    BY DEF PreviewHistory, RunFits, InPasses, Untouched
  <2>3. \A a, x : InTable(a, x) => InTable(a, x)'
    BY DEF InTable, Accords
  <2> QED
    BY <2>1, <2>2, <2>3 DEF PreviewHistory, RunFits
<1> QED
  BY <1>1, <1>2, <1>3, <1>4 DEF PreviewHistory

LEMMA Upserted ==
  ASSUME PreviewHistory, NEW id, NEW payload, NEW then, Upserts(id, payload, then),
         ImporterShape(then), then.lost = importer.lost,
         id[1] = "event" => id \in DOMAIN tree /\ payload = tree[id].says
  PROVE  /\ UNCHANGED <<tree, queued, preview, imports>> /\ slips' \in 0 .. MaxSlips
         /\ ImporterShape(importer') /\ EventPointsAreFiles'
         /\ importer'.at = then.at /\ importer'.left = then.left /\ importer'.quiet = then.quiet
         /\ importer'.asset = then.asset /\ importer'.flags = then.flags
         /\ \A q : q \notin importer'.lost =>
              /\ q \notin importer.lost
              /\ q # id /\ q \in DOMAIN indexed => q \in DOMAIN indexed' /\ indexed'[q] = indexed[q]
              /\ q = id => q \in DOMAIN indexed' /\ indexed'[q] = payload
<1>1. /\ UNCHANGED <<tree, queued, preview, imports>>
      /\ \/ indexed' = With(indexed, id, payload) /\ importer' = then /\ slips' = slips
         \/ Slips /\ importer' = [then EXCEPT !.lost = @ \union {id}] /\ indexed' = indexed
  BY DEF Upserts, Importing
<1>2. slips' \in 0 .. MaxSlips
  BY <1>1, PreviewAssumption DEF PreviewHistory, PreviewTypeOK, Slips
<1>3. CASE indexed' = With(indexed, id, payload) /\ importer' = then
  <2>1. /\ DOMAIN indexed' = DOMAIN indexed \union {id} /\ indexed'[id] = payload
        /\ \A q \in DOMAIN indexed : q # id => indexed'[q] = indexed[q]
    BY <1>3 DEF With
  <2>2. EventPointsAreFiles'
    BY <1>1, <2>1 DEF PreviewHistory, EventPointsAreFiles
  <2> QED
    BY <1>1, <1>2, <1>3, <2>1, <2>2
<1>4. CASE importer' = [then EXCEPT !.lost = @ \union {id}] /\ indexed' = indexed
  <2>1. EventPointsAreFiles'
    BY <1>1, <1>4 DEF PreviewHistory, EventPointsAreFiles
  <2>2. /\ importer'.at = then.at /\ importer'.left = then.left /\ importer'.quiet = then.quiet
        /\ importer'.asset = then.asset /\ importer'.flags = then.flags
        /\ importer'.lost = importer.lost \union {id} /\ ImporterShape(importer')
    BY <1>4 DEF ImporterShape
  <2> QED
    BY <1>1, <1>2, <1>4, <2>1, <2>2
<1> QED
  BY <1>1, <1>3, <1>4

LEMMA AssetFits ==
  ASSUME PreviewHistory, NEW a \in Documented, ImportAsset(a)
  PROVE  PreviewHistory'
<1> DEFINE then == [importer EXCEPT !.at = "fields", !.left = @ \ {a}, !.asset = a,
                                   !.flags = tree[<<"mdl", a>>].says]
           id == <<"asset", a>>
<1>1. ImporterShape(importer) /\ imports \in 0 .. MaxImports
  BY DEF PreviewHistory, PreviewShape, ImporterShape, PreviewTypeOK
<1>2. importer.at = "assets" /\ a \in importer.left /\ Upserts(id, AssetPayload(a), then)
  BY DEF ImportAsset
<1>3. /\ ImporterShape(then) /\ then.lost = importer.lost /\ then.at = "fields"
      /\ then.left = importer.left \ {a} /\ then.quiet = importer.quiet /\ then.asset = a
      /\ then.flags = tree[<<"mdl", a>>].says
  BY <1>1 DEF ImporterShape
<1>4. id[1] # "event" /\ (\A b : <<"asset", b>> = id => b = a) /\ \A b : <<"fields", b>> # id
  OBVIOUS
<1> HIDE DEF then, id
<1>5. /\ UNCHANGED <<tree, queued, preview, imports>> /\ slips' \in 0 .. MaxSlips
      /\ ImporterShape(importer') /\ EventPointsAreFiles'
      /\ importer'.at = "fields" /\ importer'.left = importer.left \ {a}
      /\ importer'.quiet = importer.quiet
      /\ importer'.asset = a /\ importer'.flags = tree[<<"mdl", a>>].says
      /\ \A q : q \notin importer'.lost =>
           /\ q \notin importer.lost
           /\ q # id /\ q \in DOMAIN indexed => q \in DOMAIN indexed' /\ indexed'[q] = indexed[q]
           /\ q = id => q \in DOMAIN indexed' /\ indexed'[q] = AssetPayload(a)
  BY <1>2, <1>3, <1>4, Upserted
<1>6. Models' = Models /\ \A b : AssetPayload(b)' = AssetPayload(b)
  BY <1>5 DEF Models, Has, AssetPayload, count_causal_for_table
<1>7. ASSUME NEW b \in Models, b = a \/ b \notin importer.left, importer.quiet
      PROVE  AssetDone(b)' /\ (b # a => FieldsDone(b)')
  <2>1. CASE b = a
    BY <1>5, <1>6, <2>1 DEF AssetDone, id
  <2>2. CASE b # a
    <3>1. AssetDone(b) /\ FieldsDone(b)
      BY <1>2, <1>7, <2>2 DEF PreviewHistory, ImportFits
    <3>2. <<"asset", b>> # id /\ <<"fields", b>> # id
      BY <1>4, <2>2
    <3>3. AssetDone(b)'
      BY <1>5, <1>6, <3>1, <3>2 DEF AssetDone
    <3>4. FieldsDone(b)'
      BY <1>5, <3>1, <3>2 DEF FieldsDone
    <3> QED
      BY <3>3, <3>4
  <2> QED
    BY <2>1, <2>2
<1>8. ImportFits'
  BY <1>5, <1>6, <1>7 DEF ImportFits, WithAssets, Reached
<1> QED
  BY <1>1, <1>5, <1>8, OnlyImporter

LEMMA FieldsFit ==
  ASSUME PreviewHistory, ImportFields
  PROVE  PreviewHistory'
<1> DEFINE a == importer.asset
           payload == PiiColumns(a, importer.flags)
           then == [importer EXCEPT !.at = "assets", !.flags = {}]
           id == <<"fields", a>>
<1>1. ImporterShape(importer) /\ imports \in 0 .. MaxImports
  BY DEF PreviewHistory, PreviewShape, ImporterShape, PreviewTypeOK
<1>2. importer.at = "fields" /\ Upserts(id, payload, then)
  BY DEF ImportFields
<1>3. /\ ImporterShape(then) /\ then.lost = importer.lost /\ then.at = "assets"
      /\ then.left = importer.left /\ then.quiet = importer.quiet
  BY <1>1 DEF ImporterShape
<1>4. id[1] # "event" /\ (\A b : <<"fields", b>> = id => b = a) /\ \A b : <<"asset", b>> # id
  OBVIOUS
<1>5. importer.flags \subseteq payload
  BY DEF PiiColumns
<1> HIDE DEF then, id, payload
<1>6. /\ UNCHANGED <<tree, queued, preview, imports>> /\ slips' \in 0 .. MaxSlips
      /\ ImporterShape(importer') /\ EventPointsAreFiles'
      /\ importer'.at = "assets" /\ importer'.left = importer.left
      /\ importer'.quiet = importer.quiet
      /\ \A q : q \notin importer'.lost =>
           /\ q \notin importer.lost
           /\ q # id /\ q \in DOMAIN indexed => q \in DOMAIN indexed' /\ indexed'[q] = indexed[q]
           /\ q = id => q \in DOMAIN indexed' /\ indexed'[q] = payload
  BY <1>2, <1>3, <1>4, Upserted
<1>7. Models' = Models /\ \A b : AssetPayload(b)' = AssetPayload(b)
  BY <1>6 DEF Models, Has, AssetPayload, count_causal_for_table
<1>8. ASSUME NEW b \in Models, b \notin importer.left, importer.quiet
      PROVE  AssetDone(b)' /\ FieldsDone(b)'
  <2>1. AssetDone(b) /\ (b # a => FieldsDone(b))
        /\ importer.flags = tree[<<"mdl", a>>].says
    BY <1>2, <1>8 DEF PreviewHistory, ImportFits
  <2>2. AssetDone(b)'
    BY <1>4, <1>6, <1>7, <2>1 DEF AssetDone
  <2>3. CASE b = a
    <3>1. tree[<<"mdl", b>>].says \subseteq payload /\ id = <<"fields", b>>
      BY <1>5, <2>1, <2>3 DEF id
    <3> QED
      BY <1>6, <2>2, <3>1 DEF FieldsDone
  <2>4. CASE b # a
    BY <1>4, <1>6, <2>1, <2>2, <2>4 DEF FieldsDone
  <2> QED
    BY <2>3, <2>4
<1>9. ImportFits'
  BY <1>6, <1>7, <1>8 DEF ImportFits, WithAssets, Reached
<1> QED
  BY <1>1, <1>6, <1>9, OnlyImporter

LEMMA EventFits ==
  ASSUME PreviewHistory, ImportEvent
  PROVE  PreviewHistory'
<1> DEFINE p == CHOOSE q \in importer.left : TRUE
           then == [importer EXCEPT !.left = @ \ {p}]
<1>1. ImporterShape(importer) /\ imports \in 0 .. MaxImports
  BY DEF PreviewHistory, PreviewShape, ImporterShape, PreviewTypeOK
<1>2. /\ importer.at \in {"causal", "relation", "protection"} /\ importer.left # {}
      /\ Upserts(p, tree[p].says, then)
  BY EventDirectories DEF ImportEvent
<1>3. p \in importer.left /\ importer.left \subseteq EventFiles(importer.at)
  BY <1>2 DEF PreviewHistory, ImportFits
<1>4. p \in DOMAIN tree /\ p[1] = "event"
  BY <1>3 DEF EventFiles
<1>5. /\ ImporterShape(then) /\ then.lost = importer.lost /\ then.at = importer.at
      /\ then.left = importer.left \ {p} /\ then.quiet = importer.quiet
  BY <1>1 DEF ImporterShape
<1> HIDE DEF p, then
<1>6. /\ UNCHANGED <<tree, queued, preview, imports>> /\ slips' \in 0 .. MaxSlips
      /\ ImporterShape(importer') /\ EventPointsAreFiles'
      /\ importer'.at = importer.at /\ importer'.left = importer.left \ {p}
      /\ importer'.quiet = importer.quiet
      /\ \A q : q \notin importer'.lost =>
           /\ q \notin importer.lost
           /\ q # p /\ q \in DOMAIN indexed => q \in DOMAIN indexed' /\ indexed'[q] = indexed[q]
           /\ q = p => q \in DOMAIN indexed' /\ indexed'[q] = tree[p].says
  BY <1>2, <1>4, <1>5, Upserted
<1>7. Models' = Models /\ \A b : AssetPayload(b)' = AssetPayload(b)
  BY <1>6 DEF Models, Has, AssetPayload, count_causal_for_table
<1>8. ASSUME NEW b \in Models, importer.quiet PROVE AssetDone(b)' /\ FieldsDone(b)'
  <2>1. AssetDone(b) /\ FieldsDone(b)
    BY <1>2, <1>8 DEF PreviewHistory, ImportFits, WithAssets
  <2>2. <<"asset", b>> # p /\ <<"fields", b>> # p
    <3>1. <<"asset", b>>[1] = "asset" /\ <<"fields", b>>[1] = "fields"
      OBVIOUS
    <3> QED
      BY <1>4, <3>1
  <2>3. AssetDone(b)'
    BY <1>6, <1>7, <2>1, <2>2 DEF AssetDone
  <2>4. FieldsDone(b)'
    BY <1>6, <2>1, <2>2 DEF FieldsDone
  <2> QED
    BY <2>3, <2>4
<1>9. ASSUME NEW q \in DOMAIN tree, q[1] = "event", Reached(q[2]), q \notin importer.left \ {p}, importer.quiet
      PROVE  EventDone(q)'
  <2>1. CASE q = p
    BY <1>6, <2>1 DEF EventDone
  <2>2. CASE q # p
    <3>1. EventDone(q)
      BY <1>2, <1>9, <2>2 DEF PreviewHistory, ImportFits
    <3> QED
      BY <1>6, <2>2, <3>1 DEF EventDone
  <2> QED
    BY <2>1, <2>2
<1>10. \A dir : Reached(dir)' = Reached(dir)
  BY <1>6 DEF Reached
<1>11. (importer.left \subseteq EventFiles(importer.at))'
  <2>1. EventFiles(importer.at)' = EventFiles(importer.at)
    BY <1>6 DEF EventFiles
  <2> QED
    BY <1>3, <1>6, <2>1
<1>12. ImportFits'
  <2>1. importer'.at \notin {"idle", "fields", "done"}
    BY <1>2, <1>6
  <2>2. importer'.quiet =>
          /\ \A b \in Models : AssetDone(b)' /\ FieldsDone(b)'
          /\ \A q \in DOMAIN tree : q[1] = "event" /\ Reached(q[2])' /\ q \notin importer'.left => EventDone(q)'
    BY <1>6, <1>8, <1>9, <1>10
  <2> QED
    BY <1>6, <1>7, <1>11, <2>1, <2>2 DEF ImportFits
<1> QED
  BY <1>1, <1>6, <1>12, OnlyImporter

LEMMA ListsFit ==
  ASSUME PreviewHistory, (\E i \in DOMAIN EventDirs : ListEvents(i)) \/ EndImport
  PROVE  PreviewHistory'
<1>1. ImporterShape(importer) /\ imports \in 0 .. MaxImports /\ slips \in 0 .. MaxSlips
  BY DEF PreviewHistory, PreviewShape, ImporterShape, PreviewTypeOK
<1>2. PICK at \in {"causal", "relation", "protection", "done"} :
        /\ importer' = [importer EXCEPT !.at = at, !.left = IF at = "done" THEN {} ELSE EventFiles(at)]
        /\ importer.left = {}
        /\ at = "causal" => importer.at = "assets"
        /\ at = "relation" => importer.at = "causal"
        /\ at = "protection" => importer.at = "relation"
        /\ at = "done" => importer.at = "protection"
        /\ UNCHANGED <<tree, queued, preview, imports, indexed, slips>>
  <2>1. CASE EndImport
    <3>1. /\ importer' = [importer EXCEPT !.at = "done"] /\ importer.left = {} /\ importer.at = "protection"
          /\ UNCHANGED <<tree, queued, preview, imports, indexed, slips>>
      BY <2>1, EventDirectories DEF EndImport, Importing
    <3>2. importer' = [importer EXCEPT !.at = "done", !.left = {}]
      BY <1>1, <3>1 DEF ImporterShape
    <3> QED
      BY <3>1, <3>2
  <2>2. ASSUME NEW i \in DOMAIN EventDirs, ListEvents(i)
        PROVE  \E at \in {"causal", "relation", "protection", "done"} :
                 /\ importer' = [importer EXCEPT !.at = at, !.left = IF at = "done" THEN {} ELSE EventFiles(at)]
                 /\ importer.left = {}
                 /\ at = "causal" => importer.at = "assets"
                 /\ at = "relation" => importer.at = "causal"
                 /\ at = "protection" => importer.at = "relation"
                 /\ at = "done" => importer.at = "protection"
                 /\ UNCHANGED <<tree, queued, preview, imports, indexed, slips>>
    <3>1. EventDirs[1] = "causal" /\ EventDirs[2] = "relation" /\ EventDirs[3] = "protection"
      BY DEF EventDirs
    <3>2. /\ importer.at = (IF i = 1 THEN "assets" ELSE EventDirs[i - 1]) /\ importer.left = {}
          /\ importer' = [importer EXCEPT !.at = EventDirs[i], !.left = EventFiles(EventDirs[i])]
          /\ UNCHANGED <<tree, queued, preview, imports, indexed, slips>>
      BY <2>2 DEF ListEvents, Importing
    <3>3. i = 1 \/ i = 2 \/ i = 3
      BY EventDirectories
    <3>4. CASE i = 1
      BY <3>1, <3>2, <3>4
    <3>a. 2 - 1 = 1 /\ 3 - 1 = 2
      OBVIOUS
    <3>5. CASE i = 2
      <4>1. i # 1 /\ EventDirs[i - 1] = "causal" /\ EventDirs[i] = "relation"
        BY <3>1, <3>5, <3>a
      <4>2. importer.at = "causal" /\ importer' = [importer EXCEPT !.at = "relation", !.left = EventFiles("relation")]
        BY <3>2, <4>1
      <4> QED
        BY <3>2, <4>2
    <3>6. CASE i = 3
      <4>1. i # 1 /\ EventDirs[i - 1] = "relation" /\ EventDirs[i] = "protection"
        BY <3>1, <3>6, <3>a
      <4>2. importer.at = "relation" /\ importer' = [importer EXCEPT !.at = "protection", !.left = EventFiles("protection")]
        BY <3>2, <4>1
      <4> QED
        BY <3>2, <4>2
    <3> QED
      BY <3>3, <3>4, <3>5, <3>6
  <2> QED
    BY <2>1, <2>2
<1>3. /\ importer'.at = at /\ importer'.left = IF at = "done" THEN {} ELSE EventFiles(at)
      /\ importer'.lost = importer.lost /\ importer'.quiet = importer.quiet
      /\ ImporterShape(importer') /\ importer.at # "idle" /\ importer.at # "fields"
  BY <1>1, <1>2 DEF ImporterShape
<1>4. EventPointsAreFiles'
  BY <1>2 DEF PreviewHistory, EventPointsAreFiles
<1>5. ASSUME NEW a \in Models, importer.quiet PROVE AssetDone(a)' /\ FieldsDone(a)'
  <2>1. AssetDone(a) /\ FieldsDone(a)
    BY <1>2, <1>3, <1>5 DEF PreviewHistory, ImportFits
  <2> QED
    BY <1>2, <1>3, <2>1 DEF AssetDone, FieldsDone, AssetPayload, Has, count_causal_for_table
<1>6. ASSUME NEW p \in DOMAIN tree, p[1] = "event", Reached(p[2])', p \notin importer'.left, importer.quiet
      PROVE  EventDone(p)'
  <2>1. p[2] \in {"causal", "relation", "protection"}
    BY <1>6 DEF PreviewHistory, TreeTells
  <2>2. at # "done" => p[2] # at
    BY <1>3, <1>6 DEF EventFiles
  <2>3. Reached(p[2])
    BY <1>2, <1>3, <1>6, <2>1, <2>2 DEF Reached
  <2>4. EventDone(p)
    BY <1>2, <1>3, <1>6, <2>3 DEF PreviewHistory, ImportFits
  <2> QED
    BY <1>2, <1>3, <2>4 DEF EventDone
<1>7. ImportFits'
  BY <1>2, <1>3, <1>5, <1>6 DEF ImportFits, WithAssets, Models, Has, EventFiles
<1> QED
  BY <1>1, <1>2, <1>3, <1>4, <1>7, OnlyImporter

LEMMA ImportsFit ==
  ASSUME PreviewHistory, BeginImport \/ ImporterDies
  PROVE  PreviewHistory'
<1>1. ImporterShape(importer) /\ imports \in 0 .. MaxImports /\ slips \in 0 .. MaxSlips
      /\ MaxImports \in Nat /\ MaxSlips \in Nat
  BY PreviewAssumption DEF PreviewHistory, PreviewShape, ImporterShape, PreviewTypeOK
<1>2. /\ UNCHANGED <<tree, queued, preview, indexed>> /\ imports' \in 0 .. MaxImports
      /\ slips' \in 0 .. MaxSlips
  BY <1>1 DEF BeginImport, ImporterDies, Importing, Slips
<1>3. EventPointsAreFiles'
  BY <1>2 DEF PreviewHistory, EventPointsAreFiles
<1>4. CASE BeginImport
  <2>1. importer' = [at |-> "assets", left |-> Models, lost |-> {}, quiet |-> TRUE,
                     asset |-> CHOOSE a \in Documented : TRUE, flags |-> {}]
    BY <1>4 DEF BeginImport, NoImport
  <2>2. ImporterShape(importer') /\ importer'.at = "assets" /\ importer'.left = Models
    BY <2>1 DEF ImporterShape
  <2>3. Models' = Models
    BY <1>2 DEF Models, Has
  <2>4. ImportFits'
    BY <2>2, <2>3 DEF ImportFits, WithAssets, Reached
  <2> QED
    BY <1>2, <1>3, <2>2, <2>4, OnlyImporter
<1>5. CASE ImporterDies
  <2>1. importer' = [at |-> "idle", left |-> {}, lost |-> {}, quiet |-> FALSE,
                     asset |-> CHOOSE a \in Documented : TRUE, flags |-> {}]
    BY <1>5 DEF ImporterDies, NoImport
  <2>2. ImporterShape(importer') /\ importer'.at = "idle"
    BY <2>1 DEF ImporterShape
  <2>3. ImportFits'
    BY <2>2 DEF ImportFits
  <2> QED
    BY <1>2, <1>3, <2>2, <2>3, OnlyImporter
<1> QED
  BY <1>4, <1>5

LEMMA PreviewStarts == PreviewInit => PreviewHistory
<1> SUFFICES ASSUME PreviewInit PROVE PreviewHistory
  OBVIOUS
<1>1. /\ tree = <<>> /\ queued = {} /\ indexed = <<>> /\ imports = 0 /\ slips = 0
      /\ preview = [run |-> 0, phase |-> "idle", left |-> {}, todo |-> <<>>, inferred |-> FALSE]
      /\ importer = [at |-> "idle", left |-> {}, lost |-> {}, quiet |-> FALSE,
                     asset |-> CHOOSE a \in Documented : TRUE, flags |-> {}]
  BY DEF PreviewInit, NoPreview, NoImport
<1>2. DOMAIN tree = {} /\ DOMAIN indexed = {}
  BY <1>1
<1>3. PreviewTypeOK /\ PreviewShape
  BY <1>1, PreviewAssumption DEF PreviewTypeOK, PreviewShape
<1>4. TreeTells /\ QueueNamesFiles /\ EventsHaveRows /\ SamplesFollowModel /\ EventPointsAreFiles
  BY <1>1, <1>2 DEF TreeTells, QueueNamesFiles, EventsHaveRows, SamplesFollowModel, EventPointsAreFiles
<1>5. RunFits
  <2>1. <<>> \in Seq(ToSet(<<>>)) /\ \A paths : Backed(<<>>, paths)
    BY DEF Backed
  <2> QED
    BY <1>1, <2>1 DEF RunFits
<1>6. ImportFits
  BY <1>1 DEF ImportFits
<1> QED
  BY <1>3, <1>4, <1>5, <1>6 DEF PreviewHistory

LEMMA PreviewSteps == PreviewHistory /\ [PreviewNext]_previewVars => PreviewHistory'
<1> SUFFICES ASSUME PreviewHistory, [PreviewNext]_previewVars PROVE PreviewHistory'
  OBVIOUS
<1>1. CASE UNCHANGED previewVars
  <2>1. /\ UNCHANGED <<tree, queued, preview>> /\ importer' = importer /\ indexed' = indexed
        /\ imports' = imports /\ slips' = slips
    BY <1>1 DEF previewVars
  <2>2. ImporterShape(importer') /\ imports' \in 0 .. MaxImports /\ slips' \in 0 .. MaxSlips
    BY <2>1 DEF PreviewHistory, PreviewShape, ImporterShape, PreviewTypeOK
  <2>3. preview.run \in Nat /\ preview.run <= preview.run
    BY DEF PreviewHistory, PreviewShape
  <2>4. ImportFits' /\ EventPointsAreFiles'
    BY <2>1, <2>3, OnlyRun
  <2> QED
    BY <2>1, <2>2, <2>4, OnlyImporter
<1>2. CASE \E a \in Documented, x \in Answers : TakeTable(a, x)
  BY <1>2, TableFits
<1>3. CASE \E claims \in CrossAnswers : BeginPasses(claims)
  BY <1>3, PassesFit
<1>4. CASE \E a \in Documented : ImportAsset(a)
  BY <1>4, AssetFits
<1> QED
  BY <1>1, <1>2, <1>3, <1>4, BeginsFits, PutFits, FailFits, EndsFits, ImportsFit, FieldsFit,
     EventFits, ListsFit DEF PreviewNext

LEMMA MirrorIsWhole == PreviewHistory => PreviewInv
<1> SUFFICES ASSUME PreviewHistory PROVE PreviewInv
  OBVIOUS
<1>1. ASSUME importer.at = "done", importer.quiet PROVE QuietImportMirrors
  <2>1. importer.left = {}
    BY <1>1 DEF PreviewHistory, ImportFits
  <2>2. ASSUME NEW p \in DOMAIN tree, p[1] = "event" PROVE EventDone(p)
    BY <1>1, <2>1, <2>2 DEF PreviewHistory, ImportFits, Reached
  <2>3. ASSUME NEW a \in Models PROVE AssetDone(a) /\ FieldsDone(a)
    BY <1>1, <2>1 DEF PreviewHistory, ImportFits
  <2> QED
    BY <2>2, <2>3 DEF QuietImportMirrors, EventDone, AssetDone, FieldsDone
<1>2. QuietImportMirrors
  BY <1>1 DEF QuietImportMirrors
<1> QED
  BY <1>2 DEF PreviewHistory, PreviewInv

\* A line of the queue names a file that is there, an event is about a row that was dumped,
\* no value of a column that the model marks is among the samples of the same run, and an
\* import that nothing disturbed mirrors the tree: for any tables and columns, whatever is
\* said of them, wherever a write or an upsert fails and whoever dies (the preview sink and
\* main of import_preview_to_qdrant).
THEOREM PreviewIsMirrored == PreviewSpec => []PreviewInv
<1>1. PreviewSpec => []PreviewHistory
  BY PreviewStarts, PreviewSteps, PTL DEF PreviewSpec
<1> QED
  BY <1>1, MirrorIsWhole, PTL

-----------------------------------------------------------------------------
(* The queue and its workers, for any number of workers, tasks and rows, every failure
   model and every bound.  The inductive invariant adds to the checked invariants where each
   location lets a worker hold tasks: without it a claim could overwrite a batch still under
   way. *)

IInv ==
    /\ TypeOK
    /\ HeldIsRunning
    /\ ClaimsDisjoint
    /\ CurLeftBatch
    /\ HoldsInPlace
    /\ AttemptBudget

USE QueueAssumption, WorkerAssumption DEF QueueAssumption, WorkerAssumption

LEMMA InitIInv == Init => IInv
<1> SUFFICES ASSUME Init PROVE IInv
  OBVIOUS
<1> USE DEF Init, EmptyQueue
<1>1. TypeOK
  <2>1. (CHOOSE r \in Rows : TRUE) \in Rows
    OBVIOUS
  <2>2. queue \in [TaskIds -> Task]
    BY <2>1 DEF Task, TaskStatus
  <2>3. log \in [Rows -> Seq(0..MaxVersion)]
    OBVIOUS
  <2> QED BY <2>2, <2>3 DEF TypeOK, Locations
<1>2. HeldIsRunning /\ ClaimsDisjoint /\ CurLeftBatch
  BY DEF HeldIsRunning, ClaimsDisjoint, CurLeftBatch, Held
<1>3. HoldsInPlace /\ AttemptBudget
  BY DEF HoldsInPlace, AttemptBudget
<1> QED BY <1>1, <1>2, <1>3 DEF IInv

LEMMA ChangeRowIInv ==
  ASSUME IInv, NEW r \in Rows, NEW t \in TaskIds, ChangeRow(r, t)
  PROVE  IInv'
<1> USE DEF IInv, ChangeRow, Enqueue, Absent, store, procs
<1>1. TypeOK'
  <2>1. queue' \in [TaskIds -> Task]
    BY DEF TypeOK, Task, TaskStatus
  <2>2. spine' \in [Rows -> 0..MaxVersion]
    BY DEF TypeOK
  <2> QED BY <2>1, <2>2 DEF TypeOK
<1>2. HeldIsRunning'
  BY DEF HeldIsRunning, Held, TypeOK
<1>3. ClaimsDisjoint' /\ CurLeftBatch' /\ HoldsInPlace'
  BY DEF ClaimsDisjoint, CurLeftBatch, HoldsInPlace, Held
<1>4. AttemptBudget'
  BY DEF AttemptBudget, TypeOK, Task
<1> QED BY <1>1, <1>2, <1>3, <1>4

LEMMA DequeueIInv ==
  ASSUME IInv, NEW w \in Workers, Dequeue(w)
  PROVE  IInv'
<1>0. PICK B \in SUBSET Claimable :
        /\ queue' = [t \in TaskIds |->
                       IF t \in B
                       THEN [status |-> "running", row |-> queue[t].row,
                             attempts |-> queue[t].attempts + 1]
                       ELSE queue[t]]
        /\ batch' = [batch EXCEPT ![w] = B]
  BY DEF Dequeue, Claim
<1>a. /\ pc[w] = "poll"
      /\ pc' = [pc EXCEPT ![w] = "next"]
      /\ UNCHANGED <<spine, index, log, cur, snap, faults>>
  BY DEF Dequeue, store
<1> USE <1>0, <1>a DEF IInv
<1>1. \A t \in B : t \in TaskIds /\ queue[t].status = "pending"
  BY DEF Claimable
<1>2. \A v \in Workers : Held(v) \intersect B = {}
  BY <1>1 DEF HeldIsRunning
<1>3. \A t \in TaskIds \ B : queue'[t] = queue[t]
  BY <1>1
<1>4. \A t \in B : /\ queue'[t].status = "running"
                   /\ queue'[t].row = queue[t].row
                   /\ queue'[t].attempts = queue[t].attempts + 1
                   /\ queue'[t].attempts \in 1..MaxAttempts
                   /\ queue'[t] \in Task
  <2> SUFFICES ASSUME NEW t \in B
               PROVE  /\ queue'[t].status = "running"
                      /\ queue'[t].row = queue[t].row
                      /\ queue'[t].attempts = queue[t].attempts + 1
                      /\ queue'[t].attempts \in 1..MaxAttempts
                      /\ queue'[t] \in Task
    OBVIOUS
  <2>1. queue[t] \in Task /\ queue[t].attempts < MaxAttempts
    BY <1>1 DEF TypeOK, AttemptBudget
  <2>2. queue'[t] = [status |-> "running", row |-> queue[t].row,
                     attempts |-> queue[t].attempts + 1]
    BY <1>1
  <2> QED BY <2>1, <2>2 DEF Task, TaskStatus
<1>5. TypeOK'
  <2>1. queue' \in [TaskIds -> Task]
    BY <1>3, <1>4 DEF TypeOK
  <2> QED BY <2>1, <1>1 DEF TypeOK, Locations
<1>6. Held(w)' = B /\ \A v \in Workers \ {w} : Held(v)' = Held(v)
  BY DEF Held, TypeOK, HoldsInPlace, Locations
<1>7. HeldIsRunning'
  <2> SUFFICES ASSUME NEW v \in Workers, NEW t \in Held(v)'
               PROVE  queue'[t].status = "running"
    BY DEF HeldIsRunning
  <2>1. CASE v = w
    BY <2>1, <1>4, <1>6
  <2>2. CASE v # w
    <3>1. t \in Held(v) /\ t \in TaskIds /\ t \notin B
      BY <2>2, <1>2, <1>6 DEF Held, TypeOK
    <3> QED BY <3>1, <1>3 DEF HeldIsRunning
  <2> QED BY <2>1, <2>2
<1>8. ClaimsDisjoint'
  BY <1>2, <1>6 DEF ClaimsDisjoint
<1>9. CurLeftBatch' /\ HoldsInPlace'
  BY <1>1 DEF CurLeftBatch, HoldsInPlace, TypeOK
<1>10. AttemptBudget'
  BY <1>3, <1>4 DEF AttemptBudget
<1> QED BY <1>5, <1>7, <1>8, <1>9, <1>10

\* Steps that leave the table alone and only move a worker: what it holds
\* afterwards it held before.
LEMMA HydrateIInv ==
  ASSUME IInv, NEW w \in Workers, Hydrate(w)
  PROVE  IInv'
<1>0. PICK t \in batch[w] :
        /\ batch' = [batch EXCEPT ![w] = @ \ {t}]
        /\ cur' = [cur EXCEPT ![w] = t]
        /\ snap' = [snap EXCEPT ![w] = spine[queue[t].row]]
  BY DEF Hydrate
<1>a. /\ pc[w] = "next"
      /\ pc' = [pc EXCEPT ![w] = "write"]
      /\ UNCHANGED <<queue, spine, index, log, faults>>
  BY DEF Hydrate, store
<1> USE <1>0, <1>a DEF IInv
<1>1. t \in TaskIds /\ queue[t].row \in Rows /\ cur[w] = NoTask
  BY DEF TypeOK, Task, HoldsInPlace
<1>2. TypeOK'
  BY <1>1 DEF TypeOK, Locations
<1>3. \A v \in Workers : Held(v)' \subseteq Held(v)
  BY <1>1 DEF Held, TypeOK
<1>4. HeldIsRunning' /\ ClaimsDisjoint'
  BY <1>3 DEF HeldIsRunning, ClaimsDisjoint
<1>5. CurLeftBatch' /\ HoldsInPlace'
  BY <1>1 DEF CurLeftBatch, HoldsInPlace, TypeOK
<1>6. AttemptBudget'
  BY DEF AttemptBudget
<1> QED BY <1>2, <1>4, <1>5, <1>6

LEMMA MoveIInv ==
  ASSUME IInv, NEW w \in Workers, UNCHANGED <<queue, spine, batch, cur, snap>>,
         index' \in [Rows -> 0..MaxVersion],
         log' \in [Rows -> Seq(0..MaxVersion)],
         faults' \in 0..MaxFaults,
         NEW l \in Locations, pc' = [pc EXCEPT ![w] = l],
         \/ {pc[w], l} \subseteq {"write", "commit", "retry"}
         \/ cur[w] = NoTask /\ batch[w] = {} /\ l \in {"next", "poll", "down"}
  PROVE  IInv'
<1> USE DEF IInv
<1>1. TypeOK'
  BY DEF TypeOK
<1>2. HeldIsRunning' /\ ClaimsDisjoint' /\ CurLeftBatch' /\ AttemptBudget'
  BY DEF HeldIsRunning, ClaimsDisjoint, CurLeftBatch, AttemptBudget, Held
<1>3. HoldsInPlace'
  BY DEF HoldsInPlace, TypeOK
<1> QED BY <1>1, <1>2, <1>3

LEMMA EndBatchIInv ==
  ASSUME IInv, NEW w \in Workers, EndBatch(w) \/ Restart(w)
  PROVE  IInv'
<1>1. /\ cur[w] = NoTask /\ batch[w] = {}
      /\ pc' = [pc EXCEPT ![w] = "poll"]
      /\ UNCHANGED <<queue, spine, index, log, batch, cur, snap, faults>>
  BY DEF IInv, HoldsInPlace, EndBatch, Restart, store
<1>2. "poll" \in Locations
  BY DEF Locations
<1> QED BY <1>1, <1>2, MoveIInv DEF IInv, TypeOK

LEMMA WriteIInv ==
  ASSUME IInv, NEW w \in Workers, Write(w)
  PROVE  IInv'
<1>1. cur[w] \in TaskIds /\ Row(w) \in Rows /\ snap[w] \in 0..MaxVersion
  <2>1. cur[w] \in TaskIds
    BY DEF IInv, TypeOK, HoldsInPlace, Write
  <2> QED BY <2>1 DEF IInv, TypeOK, Task, Row
<1>2. index' \in [Rows -> 0..MaxVersion]
  BY <1>1 DEF Write, IInv, TypeOK
<1>3. log' \in [Rows -> Seq(0..MaxVersion)]
  <2>1. Append(log[Row(w)], snap[w]) \in Seq(0..MaxVersion)
    BY <1>1 DEF IInv, TypeOK
  <2> QED BY <2>1, <1>1 DEF Write, IInv, TypeOK
<1>4. "commit" \in Locations
  BY DEF Locations
<1> QED BY <1>2, <1>3, <1>4, MoveIInv DEF Write, IInv, TypeOK

LEMMA FaultMoveIInv ==
  ASSUME IInv, NEW w \in Workers, WriteSwallowed(w) \/ HandlerRaises(w)
  PROVE  IInv'
<1>1. PICK l \in {"commit", "retry"} : pc' = [pc EXCEPT ![w] = l]
  BY DEF WriteSwallowed, HandlerRaises
<1>2. /\ pc[w] \in {"write", "commit"}
      /\ faults' \in 0..MaxFaults
      /\ UNCHANGED <<queue, spine, index, log, batch, cur, snap>>
  BY DEF WriteSwallowed, HandlerRaises, Fault, store, IInv, TypeOK
<1>3. l \in Locations
  BY DEF Locations
<1> QED BY <1>1, <1>2, <1>3, MoveIInv DEF IInv, TypeOK

\* A verdict on one task that no worker holds any more.
LEMMA VerdictKeepsBudget ==
  ASSUME IInv, NEW t \in TaskIds, queue[t].status = "running",
         MarkDone(t) \/ MarkFailedRetry(t)
  PROVE  /\ queue' \in [TaskIds -> Task]
         /\ \A u \in TaskIds \ {t} : queue'[u] = queue[u]
         /\ AttemptBudget'
<1> USE DEF IInv, TypeOK
<1>1. queue[t] \in Task /\ queue[t].attempts > 0
  BY DEF AttemptBudget
<1>2. PICK s \in {"done", "failed", "pending"} :
        /\ queue' = [queue EXCEPT ![t].status = s]
        /\ s = "failed" => queue[t].attempts >= MaxAttempts
        /\ s = "pending" => ~(queue[t].attempts >= MaxAttempts)
  BY DEF MarkDone, MarkFailedRetry
<1>3. /\ queue'[t].status = s
      /\ queue'[t].row = queue[t].row
      /\ queue'[t].attempts = queue[t].attempts
      /\ queue'[t] \in Task
  BY <1>1, <1>2 DEF Task, TaskStatus
<1>4. queue' \in [TaskIds -> Task] /\ \A u \in TaskIds \ {t} : queue'[u] = queue[u]
  BY <1>2, <1>3
<1>5. AttemptBudget'
  BY <1>1, <1>2, <1>3, <1>4, SMTT(30) DEF AttemptBudget, Task
<1> QED BY <1>4, <1>5

LEMMA SkipUnknownIInv ==
  ASSUME IInv, NEW w \in Workers, SkipUnknown(w)
  PROVE  IInv'
<1>0. PICK t \in batch[w] : MarkDone(t) /\ batch' = [batch EXCEPT ![w] = @ \ {t}]
  BY DEF SkipUnknown
<1>a. UNCHANGED <<spine, index, log, pc, cur, snap, faults>>
  BY DEF SkipUnknown, store
<1>b. pc[w] = "next"
  BY DEF SkipUnknown
<1>1. t \in TaskIds /\ queue[t].status = "running" /\ t # cur[w]
  BY DEF IInv, TypeOK, HeldIsRunning, Held, CurLeftBatch
<1>2. /\ queue' \in [TaskIds -> Task]
      /\ \A u \in TaskIds \ {t} : queue'[u] = queue[u]
      /\ AttemptBudget'
  BY <1>0, <1>1, VerdictKeepsBudget
<1> USE <1>0, <1>a DEF IInv
<1>3. TypeOK'
  BY <1>2 DEF TypeOK
<1>4. \A v \in Workers : Held(v)' \subseteq Held(v) \ {t}
  BY <1>1 DEF Held, TypeOK, ClaimsDisjoint
<1>5. HeldIsRunning' /\ ClaimsDisjoint'
  BY <1>2, <1>4 DEF HeldIsRunning, ClaimsDisjoint, Held, TypeOK
<1>6. CurLeftBatch' /\ HoldsInPlace'
  BY <1>b DEF CurLeftBatch, HoldsInPlace, TypeOK
<1> QED BY <1>2, <1>3, <1>5, <1>6

LEMMA NextTaskIInv ==
  ASSUME IInv, NEW w \in Workers, CommitDone(w) \/ CommitRetry(w) \/ LoseRetry(w)
  PROVE  IInv'
<1>a. /\ pc' = [pc EXCEPT ![w] = "next"]
      /\ cur' = [cur EXCEPT ![w] = NoTask]
      /\ snap' = [snap EXCEPT ![w] = 0]
      /\ UNCHANGED <<spine, index, log, batch>>
      /\ faults' \in 0..MaxFaults
  BY DEF CommitDone, CommitRetry, LoseRetry, NextTask, store, Fault, IInv, TypeOK
<1>1. pc[w] \in {"commit", "retry"}
  BY DEF CommitDone, CommitRetry, LoseRetry
<1> DEFINE t == cur[w]
<1>2. t \in TaskIds /\ queue[t].status = "running"
  BY <1>1 DEF IInv, TypeOK, HeldIsRunning, Held, HoldsInPlace
<1>3. /\ queue' \in [TaskIds -> Task]
      /\ \A u \in TaskIds \ {t} : queue'[u] = queue[u]
      /\ AttemptBudget'
  <2>1. CASE LoseRetry(w)
    BY <2>1 DEF LoseRetry, IInv, TypeOK, AttemptBudget
  <2>2. CASE CommitDone(w) \/ CommitRetry(w)
    BY <2>2, <1>2, VerdictKeepsBudget DEF CommitDone, CommitRetry
  <2> QED BY <2>1, <2>2
<1> HIDE DEF t
<1>4. \A v \in Workers : Held(v)' \subseteq Held(v) \ {t}
  BY <1>a, <1>2 DEF Held, IInv, TypeOK, ClaimsDisjoint, CurLeftBatch, t
<1> USE <1>a DEF IInv
<1>5. TypeOK'
  BY <1>3 DEF TypeOK, Locations
<1>6. HeldIsRunning' /\ ClaimsDisjoint'
  <2>1. \A v \in Workers : Held(v) \subseteq TaskIds
    BY DEF Held, TypeOK
  <2> QED BY <2>1, <1>3, <1>4 DEF HeldIsRunning, ClaimsDisjoint
<1>7. CurLeftBatch' /\ HoldsInPlace'
  BY DEF CurLeftBatch, HoldsInPlace, TypeOK
<1> QED BY <1>3, <1>5, <1>6, <1>7

LEMMA CrashIInv ==
  ASSUME IInv, NEW w \in Workers, Crash(w)
  PROVE  IInv'
<1> USE DEF IInv, Crash, Fault, store
<1>1. TypeOK'
  BY DEF TypeOK, Locations
<1>2. \A v \in Workers : Held(v)' \subseteq Held(v)
  <2>1. ASSUME NEW v \in Workers PROVE /\ batch'[v] \subseteq batch[v]
                                     /\ cur'[v] \in {cur[v], NoTask}
    BY DEF TypeOK
  <2> QED BY <2>1 DEF Held
<1>3. HeldIsRunning' /\ ClaimsDisjoint'
  BY <1>2 DEF HeldIsRunning, ClaimsDisjoint
<1>4. CurLeftBatch' /\ HoldsInPlace' /\ AttemptBudget'
  BY DEF CurLeftBatch, HoldsInPlace, AttemptBudget, TypeOK
<1> QED BY <1>1, <1>3, <1>4

LEMMA NextIInv == IInv /\ [Next]_vars => IInv'
<1> SUFFICES ASSUME IInv, [Next]_vars PROVE IInv'
  OBVIOUS
<1>1. ASSUME NEW r \in Rows, NEW t \in TaskIds, ChangeRow(r, t) PROVE IInv'
  BY <1>1, ChangeRowIInv
<1>2. ASSUME NEW w \in Workers, Work(w) PROVE IInv'
  BY <1>2, DequeueIInv, HydrateIInv, SkipUnknownIInv, EndBatchIInv, WriteIInv,
     NextTaskIInv DEF Work
<1>3. ASSUME NEW w \in Workers, Failure(w) PROVE IInv'
  BY <1>3, FaultMoveIInv, NextTaskIInv, CrashIInv DEF Failure
<1>4. CASE UNCHANGED vars
  <2> USE <1>4 DEF vars, store, procs, IInv
  <2>1. TypeOK'
    BY DEF TypeOK
  <2>2. HeldIsRunning' /\ ClaimsDisjoint' /\ CurLeftBatch'
    BY DEF HeldIsRunning, ClaimsDisjoint, CurLeftBatch, Held
  <2>3. HoldsInPlace' /\ AttemptBudget'
    BY DEF HoldsInPlace, AttemptBudget
  <2> QED BY <2>1, <2>2, <2>3
<1> QED BY <1>1, <1>2, <1>3, <1>4 DEF Next

\* TypeOK, with the rest of the inductive invariant, holds in every state of
\* the worker system.
THEOREM Invariance == Spec => []IInv
<1> QED BY InitIInv, NextIInv, PTL DEF Spec

\* The variables stay in their types: in particular attempts, which
\* dequeue_batch increments without a bound of its own.
THEOREM TypeCorrect == Spec => []TypeOK
<1>1. IInv => TypeOK
  BY DEF IInv
<1> QED BY <1>1, Invariance, PTL

\* No two workers ever process one task, however they crash and retry.
THEOREM Exclusive == Spec => []ClaimExclusive
<1>1. IInv => ClaimExclusive
  BY DEF IInv, ClaimExclusive
<1> QED BY <1>1, Invariance, PTL

\* A task is retried only below max_attempts and fails only at it.
THEOREM Budget == Spec => []AttemptBudget
<1>1. IInv => AttemptBudget
  BY DEF IInv
<1> QED BY <1>1, Invariance, PTL

-----------------------------------------------------------------------------
\* A step changes a task that exists only if it is pending or a worker holds
\* it: the two action properties are instances.
LEMMA OnlyClaimedOrHeldMoves ==
  ASSUME IInv, Next, NEW t \in TaskIds,
         queue[t].status # "absent", queue[t].status # "pending",
         \A w \in Workers : t \notin Held(w)
  PROVE  queue'[t] = queue[t]
<1> USE DEF IInv, TypeOK
<1>1. ASSUME NEW r \in Rows, NEW u \in TaskIds, ChangeRow(r, u)
      PROVE  queue'[t] = queue[t]
  BY <1>1 DEF ChangeRow, Enqueue, Absent
<1>2. ASSUME NEW w \in Workers, Work(w) PROVE queue'[t] = queue[t]
  <2>1. CASE Dequeue(w)
    BY <2>1 DEF Dequeue, Claim, Claimable
  <2>2. CASE SkipUnknown(w)
    BY <2>2 DEF SkipUnknown, MarkDone, Held
  <2>3. CASE CommitDone(w) \/ CommitRetry(w)
    <3>1. cur[w] \in TaskIds /\ cur[w] # t
      BY <2>3 DEF CommitDone, CommitRetry, Held, HoldsInPlace
    <3> QED BY <2>3, <3>1 DEF CommitDone, CommitRetry, MarkDone, MarkFailedRetry
  <2>4. CASE Hydrate(w) \/ EndBatch(w) \/ Write(w) \/ Restart(w)
    BY <2>4 DEF Hydrate, EndBatch, Write, Restart
  <2> QED BY <1>2, <2>1, <2>2, <2>3, <2>4 DEF Work
<1>3. ASSUME NEW w \in Workers, Failure(w) PROVE queue'[t] = queue[t]
  BY <1>3 DEF Failure, WriteSwallowed, HandlerRaises, LoseRetry, Crash
<1> QED BY <1>1, <1>2, <1>3 DEF Next

\* A task that is done or failed is never changed again, although mark_done
\* and mark_failed_retry look at nothing but its id.
THEOREM VerdictStays == Spec => VerdictIsFinal
<1>1. IInv /\ [Next]_vars =>
        [\A t \in TaskIds :
           queue[t].status \in {"done", "failed"} => queue'[t] = queue[t]]_queue
  <2> SUFFICES ASSUME IInv, Next, NEW t \in TaskIds,
                      queue[t].status \in {"done", "failed"}
               PROVE  queue'[t] = queue[t]
    BY DEF vars
  <2>1. \A w \in Workers : t \notin Held(w)
    BY DEF IInv, HeldIsRunning
  <2> QED BY <2>1, OnlyClaimedOrHeldMoves
<1> QED BY <1>1, Invariance, PTL DEF Spec, VerdictIsFinal

\* A running task that no process holds stays running for ever.
THEOREM OrphanStays == Spec => OrphanIsNeverReclaimed
<1>1. IInv /\ [Next]_vars =>
        [\A t \in TaskIds : Orphan(t) => queue'[t] = queue[t]]_vars
  BY OnlyClaimedOrHeldMoves DEF vars, Orphan
<1> QED BY <1>1, Invariance, PTL DEF Spec, OrphanIsNeverReclaimed

-----------------------------------------------------------------------------
(***************************************************************************)
(* One worker, and a Qdrant client whose failures reach the caller: then   *)
(* no refresh is lost, and the points implement PointMirror.  Both         *)
(* assumptions are needed; the run reindex_race shows what happens with    *)
(* two workers.                                                            *)
(***************************************************************************)

\* What the theorems of this module assume of the constants.
OneLoudWorker ==
    /\ \A v, w \in Workers : v = w
    /\ "qdrant" \notin FaultKinds

\* The tasks that still owe row r a refresh.
Open(r) == {t \in TasksOf(r) : queue[t].status # "done"}

\* The task under way was hydrated from the last version, or another open
\* task of the row will be.
HydratedOrOwed ==
    \A w \in Workers :
        pc[w] \in {"write", "commit"} =>
            \/ snap[w] = spine[Row(w)]
            \/ \E t \in Open(Row(w)) : t # cur[w]

\* Between the upsert and the commit the point holds what was hydrated.
WrittenBeforeCommit ==
    \A w \in Workers :
        pc[w] = "commit" /\ Row(w) \in PointRows => index[Row(w)] = snap[w]

\* Nothing is ahead of the spine, and a hydrated version is not behind the point.
InOrder ==
    /\ \A r \in Rows : index[r] <= spine[r]
    /\ \A w \in Workers :
          pc[w] \in {"write", "commit"} =>
              index[Row(w)] <= snap[w] /\ snap[w] <= spine[Row(w)]

NotLost == \A r \in PointRows : index[r] = spine[r] \/ Open(r) # {}

FreshInv == NotLost /\ HydratedOrOwed /\ WrittenBeforeCommit /\ InOrder

LEMMA NotLostIsSettledMeansFresh == NotLost <=> SettledMeansFresh
BY DEF NotLost, SettledMeansFresh, Settled, Open

LEMMA InitFresh == Init => FreshInv
BY DEF Init, EmptyQueue, FreshInv, NotLost, HydratedOrOwed, WrittenBeforeCommit,
       InOrder, PointRows

\* A held task is open, and its row is a row of the spine.
LEMMA HeldIsOpen ==
  ASSUME IInv, NEW w \in Workers, NEW t \in Held(w)
  PROVE  t \in TaskIds /\ queue[t].row \in Rows /\ t \in Open(queue[t].row)
BY DEF IInv, TypeOK, Held, HeldIsRunning, Open, TasksOf, Task

LEMMA CurIsHeld ==
  ASSUME IInv, NEW w \in Workers, pc[w] \in {"write", "commit", "retry"}
  PROVE  cur[w] \in Held(w) /\ cur[w] \in TaskIds /\ Row(w) \in Rows
BY DEF IInv, TypeOK, Held, HoldsInPlace, Row, Task

LEMMA ChangeRowFresh ==
  ASSUME IInv, FreshInv, NEW r \in Rows, NEW t \in TaskIds, ChangeRow(r, t)
  PROVE  FreshInv'
<1>a. /\ queue[t].status = "absent"
      /\ queue' = [queue EXCEPT ![t] = [status |-> "pending", row |-> r, attempts |-> 0]]
      /\ spine' = [spine EXCEPT ![r] = @ + 1]
      /\ UNCHANGED <<index, log, pc, batch, cur, snap, faults>>
  BY DEF ChangeRow, Enqueue, Absent, procs
<1>1. t \in Open(r)' /\ \A x \in Rows : Open(x) \subseteq Open(x)'
  BY <1>a DEF Open, TasksOf, IInv, TypeOK
<1>2. \A w \in Workers : pc[w] \in {"write", "commit"} =>
        cur[w] # t /\ Row(w)' = Row(w) /\ Row(w) \in Rows
  BY <1>a, CurIsHeld DEF IInv, TypeOK, HeldIsRunning, Row
<1>3. \A x \in Rows \ {r} : spine'[x] = spine[x]
  BY <1>a DEF IInv, TypeOK
<1>4. spine[r] \in Nat /\ spine'[r] = spine[r] + 1
  BY <1>a DEF IInv, TypeOK
<1>5. NotLost'
  BY <1>a, <1>1, <1>3 DEF FreshInv, NotLost, PointRows
<1>6. HydratedOrOwed'
  BY <1>a, <1>1, <1>2, <1>3 DEF FreshInv, HydratedOrOwed
<1>7. WrittenBeforeCommit'
  BY <1>a, <1>2 DEF FreshInv, WrittenBeforeCommit
<1>8. InOrder'
  BY <1>a, <1>2, <1>3, <1>4 DEF FreshInv, InOrder, IInv, TypeOK
<1> QED BY <1>5, <1>6, <1>7, <1>8 DEF FreshInv

(***************************************************************************)
(* A step that touches neither copy, keeps open what is open, and leaves   *)
(* every worker that is writing or committing where it was or one step on. *)
(***************************************************************************)
LEMMA QuietFresh ==
  ASSUME IInv, FreshInv, UNCHANGED <<spine, index>>,
         \A t \in TaskIds : queue'[t].row = queue[t].row,
         \A r \in Rows : Open(r) \subseteq Open(r)',
         \A w \in Workers : pc'[w] \in {"write", "commit"} =>
            /\ pc'[w] = pc[w]
            /\ cur'[w] = cur[w] /\ snap'[w] = snap[w]
  PROVE  FreshInv'
<1>1. \A w \in Workers : pc'[w] \in {"write", "commit"} =>
        Row(w)' = Row(w) /\ Row(w) \in Rows
  BY CurIsHeld DEF Row
<1>2. NotLost'
  BY DEF FreshInv, NotLost, PointRows
<1>3. HydratedOrOwed'
  BY <1>1 DEF FreshInv, HydratedOrOwed
<1>4. WrittenBeforeCommit' /\ InOrder'
  BY <1>1 DEF FreshInv, WrittenBeforeCommit, InOrder
<1> QED BY <1>2, <1>3, <1>4 DEF FreshInv

LEMMA DequeueFresh ==
  ASSUME IInv, FreshInv, NEW w \in Workers, Dequeue(w)
  PROVE  FreshInv'
<1>0. PICK B \in SUBSET Claimable :
        queue' = [t \in TaskIds |->
                   IF t \in B
                   THEN [status |-> "running", row |-> queue[t].row,
                         attempts |-> queue[t].attempts + 1]
                   ELSE queue[t]]
  BY DEF Dequeue, Claim
<1>1. \A t \in TaskIds : queue'[t].row = queue[t].row
  BY <1>0
<1>2. \A r \in Rows : Open(r) \subseteq Open(r)'
  BY <1>0 DEF Open, TasksOf
<1>3. UNCHANGED <<spine, index, cur, snap>> /\ pc' = [pc EXCEPT ![w] = "next"]
  BY DEF Dequeue, store
<1> QED BY <1>1, <1>2, <1>3, QuietFresh DEF IInv, TypeOK

LEMMA HydrateFresh ==
  ASSUME IInv, FreshInv, NEW w \in Workers, Hydrate(w)
  PROVE  FreshInv'
<1>0. PICK t \in batch[w] :
        /\ cur' = [cur EXCEPT ![w] = t]
        /\ snap' = [snap EXCEPT ![w] = spine[queue[t].row]]
  BY DEF Hydrate
<1>a. /\ pc' = [pc EXCEPT ![w] = "write"]
      /\ UNCHANGED <<queue, spine, index>>
  BY DEF Hydrate, store
<1>1. t \in TaskIds /\ queue[t].row \in Rows
  BY HeldIsOpen DEF Held
<1>2. /\ pc'[w] = "write" /\ cur'[w] = t
      /\ Row(w)' = queue[t].row /\ snap'[w] = spine[Row(w)']
  BY <1>0, <1>a DEF IInv, TypeOK, Row
<1>3. \A v \in Workers \ {w} :
        pc'[v] = pc[v] /\ cur'[v] = cur[v] /\ snap'[v] = snap[v] /\ Row(v)' = Row(v)
  BY <1>0, <1>a DEF IInv, TypeOK, Row
<1>4. \A r \in Rows : Open(r)' = Open(r)
  BY <1>a DEF Open, TasksOf
<1>5. NotLost'
  BY <1>a, <1>4 DEF FreshInv, NotLost, PointRows
<1>6. HydratedOrOwed'
  BY <1>a, <1>2, <1>3, <1>4, CurIsHeld DEF FreshInv, HydratedOrOwed
<1>7. WrittenBeforeCommit'
  BY <1>a, <1>2, <1>3 DEF FreshInv, WrittenBeforeCommit
<1>8. InOrder'
  <2>1. spine[queue[t].row] \in Nat /\ index[queue[t].row] <= spine[queue[t].row]
    BY <1>1 DEF FreshInv, InOrder, IInv, TypeOK
  <2> QED BY <1>a, <1>2, <1>3, <2>1 DEF FreshInv, InOrder
<1> QED BY <1>5, <1>6, <1>7, <1>8 DEF FreshInv

\* The upsert: with one worker nobody else is between its hydrate and its commit.
LEMMA WriteFresh ==
  ASSUME OneLoudWorker, IInv, FreshInv, NEW w \in Workers, Write(w)
  PROVE  FreshInv'
<1>a. /\ pc[w] = "write"
      /\ pc' = [pc EXCEPT ![w] = "commit"]
      /\ UNCHANGED <<queue, spine, batch, cur, snap>>
      /\ Row(w) \in PointRows => index' = [index EXCEPT ![Row(w)] = snap[w]]
      /\ Row(w) \notin PointRows => index' = index
  BY CurIsHeld DEF Write, PointRows, PointKinds, EventKinds, NoopKinds
<1>1. cur[w] \in Open(Row(w)) /\ Row(w) \in Rows
  BY <1>a, CurIsHeld, HeldIsOpen DEF Row
<1>2. \A v \in Workers : v = w
  BY DEF OneLoudWorker
<1>3. Row(w)' = Row(w) /\ \A r \in Rows : Open(r)' = Open(r)
  BY <1>a DEF Row, Open, TasksOf
<1>4. \A r \in Rows \ {Row(w)} : index'[r] = index[r]
  BY <1>a DEF IInv, TypeOK
<1>5. index'[Row(w)] \in {index[Row(w)], snap[w]}
      /\ (Row(w) \in PointRows => index'[Row(w)] = snap[w])
  BY <1>a, <1>1 DEF IInv, TypeOK
<1>6. NotLost'
  BY <1>a, <1>1, <1>3, <1>4 DEF FreshInv, NotLost, PointRows
<1>7. HydratedOrOwed'
  <2>1. Open(Row(w))' = Open(Row(w))
    BY <1>a DEF Open, TasksOf, Row
  <2> QED BY <2>1, <1>a, <1>2, <1>3 DEF FreshInv, HydratedOrOwed
<1>8. WrittenBeforeCommit'
  <2>1. Row(w)' \in PointRows' => index'[Row(w)'] = snap'[w]
    BY <1>a, <1>3, <1>5 DEF PointRows
  <2> QED BY <2>1, <1>2 DEF WrittenBeforeCommit
<1>9. InOrder'
  <2>1. /\ snap[w] \in Nat /\ index[Row(w)] \in Nat /\ spine[Row(w)] \in Nat
        /\ index[Row(w)] <= snap[w] /\ snap[w] <= spine[Row(w)]
    BY <1>a, <1>1 DEF FreshInv, InOrder, IInv, TypeOK
  <2>2. \A r \in Rows : index'[r] <= spine'[r]
    BY <2>1, <1>a, <1>4, <1>5 DEF FreshInv, InOrder
  <2>3. index'[Row(w)'] <= snap'[w] /\ snap'[w] <= spine'[Row(w)']
    BY <2>1, <1>a, <1>3, <1>5
  <2> QED BY <2>2, <2>3, <1>2 DEF InOrder
<1> QED BY <1>6, <1>7, <1>8, <1>9 DEF FreshInv

\* mark_done settles the task: either the point is at the last version, or
\* the change that made it stale left another open task behind.
LEMMA CommitDoneFresh ==
  ASSUME OneLoudWorker, IInv, FreshInv, NEW w \in Workers, CommitDone(w)
  PROVE  FreshInv'
<1>a. /\ pc[w] = "commit"
      /\ pc' = [pc EXCEPT ![w] = "next"]
      /\ queue' = [queue EXCEPT ![cur[w]].status = "done"]
      /\ UNCHANGED <<spine, index>>
  BY DEF CommitDone, NextTask, MarkDone, store
<1>1. \A v \in Workers : v = w
  BY DEF OneLoudWorker
<1>2. cur[w] \in TaskIds /\ Row(w) \in Rows
  BY <1>a, CurIsHeld
<1>3. \A r \in Rows : Open(r) \ {cur[w]} \subseteq Open(r)'
  BY <1>a, <1>2 DEF Open, TasksOf, IInv, TypeOK
<1>4. \A r \in Rows \ {Row(w)} : cur[w] \notin Open(r)
  BY DEF Open, TasksOf, Row
<1>5. pc'[w] = "next"
  BY <1>a DEF IInv, TypeOK
<1>6. NotLost'
  <2> SUFFICES ASSUME NEW r \in PointRows, index[r] # spine[r]
               PROVE  Open(r)' # {}
    BY <1>a DEF NotLost, PointRows
  <2>1. CASE r = Row(w)
    BY <2>1, <1>a, <1>3 DEF FreshInv, HydratedOrOwed, WrittenBeforeCommit, PointRows
  <2>2. CASE r # Row(w)
    BY <2>2, <1>3, <1>4 DEF FreshInv, NotLost, PointRows
  <2> QED BY <2>1, <2>2
<1>7. HydratedOrOwed' /\ WrittenBeforeCommit'
  BY <1>1, <1>5 DEF HydratedOrOwed, WrittenBeforeCommit
<1>8. InOrder'
  BY <1>a, <1>1, <1>5 DEF FreshInv, InOrder
<1> QED BY <1>6, <1>7, <1>8 DEF FreshInv

\* A task nobody handles belongs to no point.
LEMMA SkipUnknownFresh ==
  ASSUME OneLoudWorker, IInv, FreshInv, NEW w \in Workers, SkipUnknown(w)
  PROVE  FreshInv'
<1>0. PICK t \in batch[w] :
        /\ KindOf[queue[t].row] \notin HandledKinds
        /\ queue' = [queue EXCEPT ![t].status = "done"]
  BY DEF SkipUnknown, MarkDone
<1>a. UNCHANGED <<spine, index, pc, cur, snap>> /\ pc[w] = "next"
  BY DEF SkipUnknown, store
<1>1. t \in TaskIds /\ queue[t].row \in Rows
  BY HeldIsOpen DEF Held
<1>2. \A r \in Rows : Open(r) \ {t} \subseteq Open(r)'
  BY <1>0, <1>1 DEF Open, TasksOf, IInv, TypeOK
<1>3. \A r \in Rows : KindOf[r] \in HandledKinds => Open(r) \subseteq Open(r)'
  BY <1>0, <1>2 DEF Open, TasksOf
<1>4. NotLost'
  BY <1>a, <1>3 DEF FreshInv, NotLost, PointRows, HandledKinds
<1>5. \A v \in Workers : pc'[v] = "next"
  BY <1>a DEF OneLoudWorker
<1>6. HydratedOrOwed' /\ WrittenBeforeCommit' /\ InOrder'
  BY <1>a, <1>5 DEF FreshInv, HydratedOrOwed, WrittenBeforeCommit, InOrder
<1> QED BY <1>4, <1>6 DEF FreshInv

LEMMA CommitRetryFresh ==
  ASSUME IInv, FreshInv, NEW w \in Workers, CommitRetry(w) \/ LoseRetry(w)
  PROVE  FreshInv'
<1>a. /\ pc' = [pc EXCEPT ![w] = "next"]
      /\ cur' = [cur EXCEPT ![w] = NoTask]
      /\ snap' = [snap EXCEPT ![w] = 0]
      /\ UNCHANGED <<spine, index>>
      /\ pc[w] = "retry"
  BY DEF CommitRetry, LoseRetry, NextTask, store
<1>1. cur[w] \in TaskIds
  BY <1>a, CurIsHeld
<1>b. PICK s \in {"failed", "pending"} :
        queue' = queue \/ queue' = [queue EXCEPT ![cur[w]].status = s]
  BY DEF CommitRetry, LoseRetry, MarkFailedRetry
<1>2. \A t \in TaskIds : queue'[t].row = queue[t].row
                           /\ queue'[t].status \in {queue[t].status, "failed", "pending"}
  <2> SUFFICES ASSUME NEW t \in TaskIds, queue' # queue
               PROVE  queue'[t].row = queue[t].row
                      /\ queue'[t].status \in {queue[t].status, "failed", "pending"}
    OBVIOUS
  <2>1. queue[t] \in Task /\ queue' = [queue EXCEPT ![cur[w]].status = s]
    BY <1>b DEF IInv, TypeOK
  <2>2. CASE t = cur[w]
    <3>1. queue'[t] = [queue[t] EXCEPT !.status = s]
      BY <2>1, <2>2, <1>1 DEF IInv, TypeOK
    <3> QED BY <3>1, <2>1 DEF Task
  <2>3. CASE t # cur[w]
    BY <2>1, <2>3, <1>1 DEF IInv, TypeOK
  <2> QED BY <2>2, <2>3
<1>4. \A r \in Rows : Open(r) \subseteq Open(r)'
  BY <1>2 DEF Open, TasksOf
<1> QED BY <1>a, <1>2, <1>4, QuietFresh DEF IInv, TypeOK

LEMMA OtherFresh ==
  ASSUME IInv, FreshInv, NEW w \in Workers,
         EndBatch(w) \/ Restart(w) \/ HandlerRaises(w) \/ Crash(w)
  PROVE  FreshInv'
<1>1. PICK l \in {"poll", "retry", "down"} : pc' = [pc EXCEPT ![w] = l]
  BY DEF EndBatch, Restart, HandlerRaises, Crash
<1>2. /\ UNCHANGED <<queue, spine, index>>
      /\ \A v \in Workers \ {w} : cur'[v] = cur[v] /\ snap'[v] = snap[v]
  BY DEF EndBatch, Restart, HandlerRaises, Crash, store, IInv, TypeOK
<1>3. \A r \in Rows : Open(r) \subseteq Open(r)'
  BY <1>2 DEF Open, TasksOf
<1> QED BY <1>1, <1>2, <1>3, QuietFresh DEF IInv, TypeOK

LEMMA NextFresh ==
  ASSUME OneLoudWorker, IInv, FreshInv, [Next]_vars
  PROVE  FreshInv'
<1>1. ASSUME NEW r \in Rows, NEW t \in TaskIds, ChangeRow(r, t) PROVE FreshInv'
  BY <1>1, ChangeRowFresh
<1>2. ASSUME NEW w \in Workers, Work(w) PROVE FreshInv'
  BY <1>2, DequeueFresh, HydrateFresh, SkipUnknownFresh, WriteFresh, CommitDoneFresh,
     CommitRetryFresh, OtherFresh DEF Work
<1>3. ASSUME NEW w \in Workers, Failure(w) PROVE FreshInv'
  <2>1. ~WriteSwallowed(w)
    BY DEF OneLoudWorker, WriteSwallowed, Fault
  <2> QED BY <1>3, <2>1, CommitRetryFresh, OtherFresh DEF Failure
<1>4. CASE UNCHANGED vars
  <2>1. \A r \in Rows : Open(r) \subseteq Open(r)'
    BY <1>4 DEF vars, Open, TasksOf
  <2> QED BY <1>4, <2>1, QuietFresh DEF vars, store, procs
<1> QED BY <1>1, <1>2, <1>3, <1>4 DEF Next

\* No refresh is lost: once all tasks of a row are done its point is at the
\* row's last version, through any crashes, retries and failed commits.
THEOREM NoRefreshLost ==
  ASSUME OneLoudWorker
  PROVE  Spec => []SettledMeansFresh
<1>1. IInv /\ FreshInv /\ [Next]_vars => FreshInv'
  BY NextFresh
<1>2. FreshInv => SettledMeansFresh
  BY NotLostIsSettledMeansFresh DEF FreshInv
<1> QED BY <1>1, <1>2, InitFresh, Invariance, PTL DEF Spec

-----------------------------------------------------------------------------
\* A point never goes back to an older version.
THEOREM NoRegress ==
  ASSUME OneLoudWorker
  PROVE  Spec => PointNeverRegresses
<1>1. IInv /\ FreshInv /\ [Next]_vars => FreshInv'
  BY NextFresh
<1>2. IInv /\ FreshInv /\ [Next]_vars => [\A r \in Rows : index'[r] >= index[r]]_index
  <2> SUFFICES ASSUME IInv, FreshInv, Next, NEW r \in Rows, index' # index
               PROVE  index'[r] >= index[r]
    BY DEF vars, store
  <2>1. PICK w \in Workers : Write(w)
    BY DEF Next, Work, Failure, ChangeRow, Dequeue, Hydrate, SkipUnknown, EndBatch,
           CommitDone, CommitRetry, Restart, WriteSwallowed, HandlerRaises, LoseRetry,
           Crash, NextTask, store
  <2>2. /\ index' = [index EXCEPT ![Row(w)] = snap[w]]
        /\ index[Row(w)] <= snap[w] /\ snap[w] \in Nat
    BY <2>1 DEF Write, FreshInv, InOrder, IInv, TypeOK
  <2>3. index[r] \in Nat
    BY DEF IInv, TypeOK
  <2> QED BY <2>2, <2>3 DEF IInv, TypeOK
<1> QED BY <1>1, <1>2, InitFresh, Invariance, PTL DEF Spec, PointNeverRegresses

-----------------------------------------------------------------------------
\* The mirror sees the versions of the point rows only.
LEMMA SameOnPoints ==
  ASSUME UNCHANGED <<spine, index>>
  PROVE  UNCHANGED <<OnPoints(spine), OnPoints(index)>>
BY DEF OnPoints

\* A row is owed a refresh exactly while it has an open task.
LEMMA OwedIsOpen == Owed = {r \in PointRows : Open(r) # {}}
BY DEF Owed, Settled, Open

LEMMA CommitDoneMirrors ==
  ASSUME IInv, FreshInv, FreshInv', NEW w \in Workers, CommitDone(w)
  PROVE  [Mirror!Next]_Mirror!vars
<1>a. /\ pc[w] = "commit"
      /\ queue' = [queue EXCEPT ![cur[w]].status = "done"]
      /\ UNCHANGED <<spine, index>>
  BY DEF CommitDone, NextTask, MarkDone, store
<1>1. cur[w] \in TaskIds /\ Row(w) \in Rows /\ cur[w] \in Open(Row(w))
  BY <1>a, CurIsHeld, HeldIsOpen DEF Row
<1>2. \A r \in Rows \ {Row(w)} : Open(r)' = Open(r)
  BY <1>a, <1>1, SMTT(30) DEF Open, TasksOf, Row, IInv, TypeOK
<1>3. PICK x \in Rows : x = Row(w)
  BY <1>1
<1>b. Owed' \ {x} = Owed \ {x} /\ (x \in PointRows => x \in Owed)
  BY <1>1, <1>2, <1>3 DEF Owed, Settled, Open, PointRows
<1>4. CASE Owed' = Owed
  BY <1>a, <1>4, SameOnPoints DEF Mirror!vars
<1>5. CASE Owed' # Owed
  <2>1. x \in PointRows
    BY <1>b, <1>5 DEF Owed
  <2>2. x \notin Owed' /\ x \in Owed /\ Owed' = Owed \ {x}
    BY <1>b, <1>5, <2>1
  <2>3. index[x] = spine[x]
    BY <2>2, <1>a DEF FreshInv, NotLost, PointRows, Owed, Settled, Open
  <2>4. OnPoints(index)[x] = OnPoints(spine)[x]
    BY <2>1, <2>3 DEF OnPoints
  <2>5. Mirror!Settle(x)
    BY <2>2, <2>4, <1>a, SameOnPoints DEF Mirror!Settle
  <2> QED BY <2>1, <2>5 DEF Mirror!Next
<1> QED BY <1>4, <1>5

LEMMA ChangeRowMirrors ==
  ASSUME IInv, NEW r \in Rows, NEW t \in TaskIds, ChangeRow(r, t)
  PROVE  [Mirror!Next]_Mirror!vars
<1>1. /\ queue[t].status = "absent"
      /\ queue' = [queue EXCEPT ![t] = [status |-> "pending", row |-> r, attempts |-> 0]]
      /\ spine[r] < MaxVersion
      /\ spine' = [spine EXCEPT ![r] = @ + 1]
      /\ UNCHANGED index
  BY DEF ChangeRow, Enqueue, Absent
<1>2. Owed' = IF r \in PointRows THEN Owed \union {r} ELSE Owed
  BY <1>1 DEF Owed, Settled, TasksOf, IInv, TypeOK, PointRows
<1>3. UNCHANGED OnPoints(index)
  BY <1>1 DEF OnPoints
<1>4. CASE r \in PointRows
  <2>1. OnPoints(spine)' = [OnPoints(spine) EXCEPT ![r] = @ + 1]
    BY <1>1, <1>4 DEF OnPoints, IInv, TypeOK, PointRows
  <2>2. OnPoints(spine)[r] < MaxVersion
    BY <1>1, <1>4 DEF OnPoints
  <2> QED BY <1>2, <1>3, <1>4, <2>1, <2>2 DEF Mirror!Change, Mirror!Next
<1>5. CASE r \notin PointRows
  <2>1. UNCHANGED OnPoints(spine)
    BY <1>1, <1>5 DEF OnPoints, IInv, TypeOK, PointRows
  <2> QED BY <1>2, <1>3, <1>5, <2>1 DEF Mirror!vars
<1> QED BY <1>4, <1>5

LEMMA WriteMirrors ==
  ASSUME IInv, FreshInv, NEW w \in Workers, Write(w)
  PROVE  [Mirror!Next]_Mirror!vars
<1>1. PICK x \in Rows : x = Row(w) /\ cur[w] \in Open(x)
  BY CurIsHeld, HeldIsOpen DEF Write, Row
<1>2. UNCHANGED <<queue, spine>>
  BY DEF Write
<1>3. UNCHANGED Owed
  BY <1>2 DEF Owed, Settled, TasksOf
<1>4. UNCHANGED OnPoints(spine)
  BY <1>2 DEF OnPoints
<1>5. CASE x \in PointRows
  <2>1. index' = [index EXCEPT ![x] = snap[w]]
    BY <1>1, <1>5 DEF Write, PointRows, PointKinds, EventKinds, NoopKinds
  <2>2. OnPoints(index)' = [OnPoints(index) EXCEPT ![x] = snap[w]]
    BY <1>5, <2>1 DEF OnPoints, IInv, TypeOK, PointRows
  <2>3. snap[w] \in index[x]..spine[x]
    BY <1>1 DEF Write, FreshInv, InOrder, IInv, TypeOK
  <2>4. snap[w] \in OnPoints(index)[x]..OnPoints(spine)[x]
    BY <1>5, <2>3 DEF OnPoints
  <2>5. x \in Owed
    BY <1>1, <1>5 DEF Owed, Settled, Open
  <2> QED BY <1>3, <1>4, <1>5, <2>2, <2>4, <2>5 DEF Mirror!Next, Mirror!Refresh
<1>6. CASE x \notin PointRows
  <2>1. \A y \in PointRows : index'[y] = index[y]
    BY <1>1, <1>6 DEF Write, IInv, TypeOK, PointRows
  <2>2. UNCHANGED OnPoints(index)
    BY <2>1 DEF OnPoints
  <2> QED BY <1>3, <1>4, <2>2 DEF Mirror!vars
<1> QED BY <1>5, <1>6

\* A step that settles no task and leaves both copies alone is invisible.
LEMMA QuietMirrors ==
  ASSUME UNCHANGED <<spine, index>>,
         \A t \in TaskIds :
            /\ queue'[t].row = queue[t].row
            /\ queue'[t].status = "done" <=> queue[t].status = "done"
            /\ queue'[t].status = "absent" <=> queue[t].status = "absent"
  PROVE  UNCHANGED Mirror!vars
<1>1. Owed' = Owed
  BY DEF Owed, Settled, TasksOf
<1> QED BY <1>1, SameOnPoints DEF Mirror!vars

LEMMA SkipUnknownMirrors ==
  ASSUME IInv, NEW w \in Workers, SkipUnknown(w)
  PROVE  UNCHANGED Mirror!vars
<1>1. PICK t \in Held(w) :
        /\ KindOf[queue[t].row] \notin HandledKinds
        /\ queue' = [queue EXCEPT ![t].status = "done"]
        /\ UNCHANGED <<spine, index>>
  BY DEF SkipUnknown, MarkDone, Held, store, IInv, ClaimExclusive, TypeOK
<1>2. t \in TaskIds /\ queue[t].row \in Rows \ PointRows
  BY <1>1, HeldIsOpen DEF HandledKinds, PointRows
<1>3. /\ queue'[t].row = queue[t].row
      /\ \A u \in TaskIds \ {t} : queue'[u] = queue[u]
  BY <1>1, <1>2 DEF IInv, TypeOK, Task
<1>4. ASSUME NEW r \in PointRows
      PROVE  \A u \in TaskIds : queue'[u].row = r => u # t /\ queue'[u] = queue[u]
  BY <1>2, <1>3
<1>5. ASSUME NEW r \in PointRows
      PROVE  \A u \in TaskIds : queue[u].row = r => u # t /\ queue'[u] = queue[u]
  BY <1>2, <1>3
<1>6. ASSUME NEW r \in PointRows
      PROVE  TasksOf(r)' = TasksOf(r) /\ \A u \in TasksOf(r) : queue'[u] = queue[u]
  BY <1>4, <1>5 DEF TasksOf
<1>7. \A r \in PointRows : Settled(r)' = Settled(r)
  BY <1>6 DEF Settled
<1>8. UNCHANGED Owed
  BY <1>7 DEF Owed
<1> QED BY <1>1, <1>8, SameOnPoints DEF Mirror!vars

LEMMA OtherMirrors ==
  ASSUME IInv, NEW w \in Workers,
         Work(w) \/ Failure(w), ~Write(w), ~CommitDone(w)
  PROVE  UNCHANGED Mirror!vars
<1> USE DEF IInv, TypeOK
<1>1. CASE Dequeue(w)
  BY <1>1, QuietMirrors DEF Dequeue, Claim, Claimable, store
<1>2. CASE CommitRetry(w)
  <2>1. cur[w] \in TaskIds /\ queue[cur[w]] \in Task /\ queue[cur[w]].status = "running"
    BY <1>2, CurIsHeld DEF CommitRetry, HeldIsRunning
  <2>2. PICK s \in {"failed", "pending"} :
          queue' = [queue EXCEPT ![cur[w]].status = s]
    BY <1>2 DEF CommitRetry, MarkFailedRetry
  <2>3. queue'[cur[w]].row = queue[cur[w]].row /\ queue'[cur[w]].status = s
    BY <2>1, <2>2 DEF Task
  <2>4. \A t \in TaskIds \ {cur[w]} : queue'[t] = queue[t]
    BY <2>2
  <2>5. UNCHANGED <<spine, index>>
    BY <1>2 DEF CommitRetry, NextTask, store
  <2> QED BY <2>1, <2>3, <2>4, <2>5, QuietMirrors
<1>3. CASE SkipUnknown(w)
  BY <1>3, SkipUnknownMirrors
<1>4. CASE Hydrate(w) \/ EndBatch(w) \/ Restart(w)
  BY <1>4, QuietMirrors DEF Hydrate, EndBatch, Restart, store
<1>5. CASE Failure(w)
  BY <1>5, QuietMirrors DEF Failure, WriteSwallowed, HandlerRaises, LoseRetry, Crash,
     NextTask, store
<1> QED BY <1>1, <1>2, <1>3, <1>4, <1>5 DEF Work

\* With one worker and no swallowed upsert, what the queue and the worker do to
\* the points implements the abstract mirror.
THEOREM Refinement == OneLoudWorker => (Spec => MirrorSpec)
<1> SUFFICES ASSUME OneLoudWorker PROVE Spec => MirrorSpec
  OBVIOUS
<1>1. Init => Mirror!Init
  BY DEF Init, EmptyQueue, Mirror!Init, Owed, Settled, TasksOf, OnPoints, PointRows
<1>2. IInv /\ FreshInv /\ [Next]_vars => FreshInv'
  BY NextFresh
<1>3. IInv /\ FreshInv /\ FreshInv' /\ [Next]_vars => [Mirror!Next]_Mirror!vars
  <2> SUFFICES ASSUME IInv, FreshInv, FreshInv', [Next]_vars
               PROVE  [Mirror!Next]_Mirror!vars
    OBVIOUS
  <2>1. ASSUME NEW r \in Rows, NEW t \in TaskIds, ChangeRow(r, t)
        PROVE  [Mirror!Next]_Mirror!vars
    BY <2>1, ChangeRowMirrors
  <2>2. ASSUME NEW w \in Workers, Work(w) \/ Failure(w)
        PROVE  [Mirror!Next]_Mirror!vars
    BY <2>2, WriteMirrors, CommitDoneMirrors, OtherMirrors
  <2>3. CASE UNCHANGED vars
    BY <2>3, QuietMirrors DEF vars, store
  <2> QED BY <2>1, <2>2, <2>3 DEF Next
<1> QED BY <1>1, <1>2, <1>3, InitFresh, Invariance, PTL DEF Spec, MirrorSpec, Mirror!Spec
=============================================================================
