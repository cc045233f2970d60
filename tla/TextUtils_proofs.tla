--------------------------- MODULE TextUtils_proofs ---------------------------
(* Facts about the text rules that hold for texts of every length.          *)
EXTENDS TextUtils, FiniteSetTheorems, TLAPS

\* A rank among the positions 1 .. m is never outside 0 .. m.
LEMMA NthBound ==
  ASSUME NEW P, NEW n \in Int, NEW m \in Nat
  PROVE  Nth(P, n, m) \in 0 .. m
<1> DEFINE D == {i \in 1 .. m : Cardinality(P \cap (1 .. (i - 1))) < n}
<1>1. IsFiniteSet(1 .. m) /\ Cardinality(1 .. m) = m
  BY FS_Interval
<1>2. IsFiniteSet(D) /\ Cardinality(D) <= m
  BY <1>1, FS_Subset
<1>3. Cardinality(D) \in Nat
  BY <1>2, FS_CardinalityType
<1> QED
  BY <1>2, <1>3 DEF Nth

\* The first, second, ... member has a position, if there are positions at all.
LEMMA NthPositive ==
  ASSUME NEW P, NEW n \in Nat \ {0}, NEW m \in Nat \ {0}
  PROVE  Nth(P, n, m) \in 1 .. m
<1> DEFINE D == {i \in 1 .. m : Cardinality(P \cap (1 .. (i - 1))) < n}
<1>1. P \cap (1 .. (1 - 1)) = {}
  OBVIOUS
<1>2. 1 \in D
  BY <1>1, FS_EmptySet
<1>0. IsFiniteSet(1 .. m)
  BY FS_Interval
<1>3. IsFiniteSet(D)
  BY <1>0, FS_Subset
<1>4. Cardinality(D) # 0
  BY <1>2, <1>3, FS_EmptySet
<1>5. Nth(P, n, m) \in 0 .. m
  BY NthBound
<1>6. Nth(P, n, m) = Cardinality(D)
  BY DEF Nth
<1> QED
  BY <1>4, <1>5, <1>6

\* Picking positions of a sequence gives a sequence over the same elements.
LEMMA PickType ==
  ASSUME NEW S, NEW s \in Seq(S), NEW P \in SUBSET (1 .. Len(s))
  PROVE  Pick(s, P) \in Seq(S) /\ Len(Pick(s, P)) = Cardinality(P)
<1>0. IsFiniteSet(1 .. Len(s))
  BY FS_Interval
<1>1. IsFiniteSet(P)
  BY <1>0, FS_Subset
<1>2. Cardinality(P) \in Nat
  BY <1>1, FS_CardinalityType
<1>3. \A n \in 1 .. Cardinality(P) : s[Nth(P, n, Len(s))] \in S
  <2> SUFFICES ASSUME NEW n \in 1 .. Cardinality(P)
               PROVE  s[Nth(P, n, Len(s))] \in S
    OBVIOUS
  <2>1. P # {}
    BY <1>1, <1>2, FS_EmptySet
  <2>2. PICK p \in P : p \in 1 .. Len(s)
    BY <2>1
  <2>3. Nth(P, n, Len(s)) \in 1 .. Len(s)
    <3>1. n \in Nat \ {0}
      BY <1>2
    <3>2. Len(s) \in Nat \ {0}
      BY <2>2
    <3> QED
      BY <3>1, <3>2, NthPositive
  <2> QED
    BY <2>3
<1> QED
  BY <1>2, <1>3 DEF Pick

\* Splitting a text gives texts: a list of sentences and a tail.
LEMMA SplitType ==
  ASSUME NEW S, NEW text \in Seq(S)
  PROVE  /\ CompleteSentences(text) \in Seq(Seq(S))
         /\ Remainder(text) \in Seq(S)
<1>1. Cardinality(Marks(text)) \in Nat
  <2>1. IsFiniteSet(1 .. Len(text))
    BY FS_Interval
  <2>2. IsFiniteSet(Marks(text))
    BY <2>1, FS_Subset DEF Marks
  <2> QED
    BY <2>2, FS_CardinalityType
<1>2. \A n \in Int : SentenceEnd(text, n) \in 0 .. Len(text)
  BY NthBound DEF SentenceEnd
<1>3. \A a, b \in 0 .. Len(text) : SubSeq(text, a + 1, b) \in Seq(S)
  OBVIOUS
<1>4. \A n \in 1 .. Cardinality(Marks(text)) :
        SubSeq(text, SentenceEnd(text, n - 1) + 1, SentenceEnd(text, n)) \in Seq(S)
  <2> SUFFICES ASSUME NEW n \in 1 .. Cardinality(Marks(text))
               PROVE  SubSeq(text, SentenceEnd(text, n - 1) + 1, SentenceEnd(text, n)) \in Seq(S)
    OBVIOUS
  <2>1. n \in Int /\ n - 1 \in Int
    BY <1>1
  <2> QED
    BY <2>1, <1>2, <1>3
<1>5. CompleteSentences(text) \in Seq(Seq(S))
  <2> DEFINE n == Cardinality(Marks(text))
  <2>1. CompleteSentences(text) \in [1 .. n -> Seq(S)]
    BY <1>4 DEF CompleteSentences
  <2>2. n \in Nat
    BY <1>1
  <2> HIDE DEF n
  <2>3. \A T : \A f \in [1 .. n -> T] : f \in Seq(T)
    BY <2>2
  <2> QED
    BY <2>1, <2>3
<1>6. Remainder(text) \in Seq(S)
  <2>1. Cardinality(Marks(text)) \in Int
    BY <1>1
  <2>2. SentenceEnd(text, Cardinality(Marks(text))) \in 0 .. Len(text)
    BY <1>2, <2>1
  <2>3. Len(text) \in 0 .. Len(text)
    OBVIOUS
  <2> QED
    BY <2>2, <2>3, <1>3 DEF Remainder
<1> QED
  BY <1>5, <1>6

\* The sentences that pass the last guard are among the sentences given.
LEMMA TranslatableType ==
  ASSUME NEW S, NEW sentences \in Seq(S)
  PROVE  Translatable(sentences) \in Seq(S)
BY PickType DEF Translatable
\* What stays in the buffer after a split is unfinished: the tail holds no
\* sentence-ending mark, so a complete sentence never waits for the next
\* fragment (split_complete_sentences, used by SentenceBuffer._drain).
THEOREM RemainderIsUnfinished ==
  ASSUME NEW S, NEW text \in Seq(S)
  PROVE  \A k \in 1 .. Len(Remainder(text)) : ~IsMark(Remainder(text)[k])
<1> DEFINE N == Len(text)
           M == Marks(text)
           c == Cardinality(M)
           Before(i) == M \cap (1 .. (i - 1))
           D == {i \in 1 .. N : Cardinality(Before(i)) < c}
           e == SentenceEnd(text, c)
<1>1. N \in Nat /\ M \subseteq 1 .. N
  BY DEF Marks
<1>2. IsFiniteSet(1 .. N)
  BY <1>1, FS_Interval
<1>3. IsFiniteSet(M) /\ c \in Nat
  BY <1>1, <1>2, FS_Subset, FS_CardinalityType
<1>4. IsFiniteSet(D)
  BY <1>2, FS_Subset
<1>5. e = Cardinality(D)
  BY DEF SentenceEnd, Nth
<1>6. e \in 0 .. N
  BY <1>1, <1>3, NthBound DEF SentenceEnd
<1>7. ASSUME NEW i \in 1 .. N
      PROVE  /\ IsFiniteSet(Before(i)) /\ Cardinality(Before(i)) \in Nat
             /\ Cardinality(Before(i)) <= c
             /\ Cardinality(Before(i)) = c => Before(i) = M
  <2>1. Before(i) \in SUBSET M
    OBVIOUS
  <2>2. IsFiniteSet(Before(i))
    BY <1>3, <2>1, FS_Subset
  <2> HIDE DEF M, Before
  <2>3. Cardinality(Before(i)) <= Cardinality(M) /\ (Cardinality(M) = Cardinality(Before(i)) => M = Before(i))
    BY <1>3, <2>1, FS_Subset
  <2> QED
    BY <2>2, <2>3, FS_CardinalityType
<1>8. ASSUME NEW i \in D
      PROVE  i <= e
  <2>1. ASSUME NEW j \in 1 .. i
        PROVE  j \in D
    <3>1. i \in 1 .. N /\ j \in 1 .. N
      BY <1>1
    <3>2. Before(j) \in SUBSET Before(i)
      BY <3>1
    <3>3. Cardinality(Before(j)) <= Cardinality(Before(i))
      BY <1>7, <3>1, <3>2, FS_Subset
    <3>4. Cardinality(Before(i)) < c
      OBVIOUS
    <3>5. Cardinality(Before(j)) \in Nat /\ Cardinality(Before(i)) \in Nat
      BY <1>7, <3>1
    <3> HIDE DEF Before, c
    <3>6. Cardinality(Before(j)) < c
      BY <1>3, <3>3, <3>4, <3>5
    <3> QED
      BY <3>1, <3>6
  <2>2. 1 .. i \in SUBSET D
    BY <2>1
  <2>3. i \in Nat /\ i >= 1
    BY <1>1
  <2>4. Cardinality(1 .. i) = i
    BY <2>3, FS_Interval
  <2>5. Cardinality(1 .. i) <= Cardinality(D)
    BY <1>4, <2>2, FS_Subset
  <2> QED
    BY <1>5, <2>4, <2>5
<1>9. ASSUME NEW i \in 1 .. N, i > e
      PROVE  ~IsMark(text[i])
  <2>1. i \notin D
    BY <1>6, <1>8, <1>9
  <2>2. Before(i) = M
    <3>1. ~(Cardinality(Before(i)) < c)
      BY <2>1
    <3>2. Cardinality(Before(i)) \in Nat /\ Cardinality(Before(i)) <= c
      BY <1>7
    <3>3. Cardinality(Before(i)) = c => Before(i) = M
      BY <1>7
    <3> HIDE DEF Before, c, M
    <3> QED
      BY <1>3, <3>1, <3>2, <3>3
  <2>3. i \notin M
    BY <1>1, <2>2
  <2> QED
    BY <2>3 DEF Marks
<1> HIDE DEF e, D, c, M, N, Before
<1>10. Remainder(text) = SubSeq(text, e + 1, N)
  BY DEF Remainder, e, c, M, N
<1>11. \A k \in 1 .. Len(Remainder(text)) :
         e + k \in 1 .. N /\ e + k > e /\ Remainder(text)[k] = text[e + k]
  BY <1>1, <1>6, <1>10 DEF N
<1> QED
  BY <1>9, <1>11
-----------------------------------------------------------------------------
(***************************************************************************)
(* Nothing is lost and nothing is doubled when a text is split, nor when   *)
(* the sentences worth translating are picked out.  Both rest on the rank  *)
(* of a position: how many of the chosen positions come before it.         *)
(***************************************************************************)
Rank(P, i) == Cardinality(P \cap (1 .. (i - 1)))

LEMMA RankFacts ==
  ASSUME NEW m \in Nat, NEW P \in SUBSET (1 .. m)
  PROVE  /\ IsFiniteSet(P) /\ Cardinality(P) \in Nat
         /\ \A i \in 1 .. m + 1 : Rank(P, i) \in Nat
         /\ \A i, j \in 1 .. m + 1 : i <= j => Rank(P, i) <= Rank(P, j)
         /\ \A i \in 1 .. m : Rank(P, i + 1) = IF i \in P THEN Rank(P, i) + 1 ELSE Rank(P, i)
         /\ Rank(P, m + 1) = Cardinality(P)
<1>1. IsFiniteSet(1 .. m)
  BY FS_Interval
<1>2. IsFiniteSet(P) /\ Cardinality(P) \in Nat
  BY <1>1, FS_Subset, FS_CardinalityType
<1>3. \A Q : IsFiniteSet(P \cap Q) /\ Cardinality(P \cap Q) \in Nat
  <2> SUFFICES ASSUME NEW Q PROVE IsFiniteSet(P \cap Q) /\ Cardinality(P \cap Q) \in Nat
    OBVIOUS
  <2>1. P \cap Q \in SUBSET P
    OBVIOUS
  <2>2. IsFiniteSet(P \cap Q)
    BY <1>2, <2>1, FS_Subset
  <2> QED
    BY <2>2, FS_CardinalityType
<1>4. ASSUME NEW i \in 1 .. m + 1, NEW j \in 1 .. m + 1, i <= j
      PROVE  Rank(P, i) <= Rank(P, j)
  <2> DEFINE A == P \cap (1 .. (i - 1))
             B == P \cap (1 .. (j - 1))
  <2>1. A \in SUBSET B
    BY <1>4
  <2>2. IsFiniteSet(B)
    BY <1>3
  <2> HIDE DEF A, B
  <2>3. Cardinality(A) <= Cardinality(B)
    BY <2>1, <2>2, FS_Subset
  <2> QED
    BY <2>3 DEF Rank, A, B
<1>5. ASSUME NEW i \in 1 .. m
      PROVE  Rank(P, i + 1) = IF i \in P THEN Rank(P, i) + 1 ELSE Rank(P, i)
  <2> DEFINE A == P \cap (1 .. (i - 1))
             B == P \cap (1 .. ((i + 1) - 1))
  <2>1. i \notin A /\ (i \in P => B = A \cup {i}) /\ (i \notin P => B = A)
    OBVIOUS
  <2>2. IsFiniteSet(A)
    BY <1>3
  <2> HIDE DEF A, B
  <2>3. Cardinality(A \cup {i}) = Cardinality(A) + 1
    BY <2>1, <2>2, FS_AddElement
  <2>4. Cardinality(B) = IF i \in P THEN Cardinality(A) + 1 ELSE Cardinality(A)
    BY <2>1, <2>3
  <2> QED
    BY <2>4 DEF Rank, A, B
<1>6. Rank(P, m + 1) = Cardinality(P)
  <2>0. (m + 1) - 1 = m
    OBVIOUS
  <2>1. P \cap (1 .. ((m + 1) - 1)) = P
    BY <2>0, Zenon
  <2> QED
    BY <2>1 DEF Rank
<1>7. \A i \in 1 .. m + 1 : Rank(P, i) \in Nat
  BY <1>3 DEF Rank
<1> QED
  BY <1>2, <1>4, <1>5, <1>6, <1>7

\* A position is at or before the n-th chosen one when fewer than n come before it.
LEMMA NthRank ==
  ASSUME NEW m \in Nat, NEW P \in SUBSET (1 .. m), NEW n \in Int, NEW i \in 1 .. m
  PROVE  i <= Nth(P, n, m) <=> Rank(P, i) < n
<1> DEFINE D == {j \in 1 .. m : Rank(P, j) < n}
           e == Cardinality(D)
<1>1. IsFiniteSet(1 .. m)
  BY FS_Interval
<1>2. IsFiniteSet(D) /\ e \in Nat
  BY <1>1, FS_Subset, FS_CardinalityType
<1>3. Nth(P, n, m) = e
  BY DEF Nth, Rank
<1>a. \A j \in 1 .. m : j \in 1 .. m + 1
  OBVIOUS
<1>4. \A j \in 1 .. m : Rank(P, j) \in Nat
  BY <1>a, RankFacts
<1>5. \A j, k \in 1 .. m : j <= k => Rank(P, j) <= Rank(P, k)
  BY <1>a, RankFacts
<1>6. ASSUME NEW k \in D
      PROVE  k <= e
  <2>1. 1 .. k \in SUBSET D
    <3> SUFFICES ASSUME NEW j \in 1 .. k PROVE j \in D
      OBVIOUS
    <3>1. j \in 1 .. m /\ k \in 1 .. m /\ j <= k /\ Rank(P, k) < n
      OBVIOUS
    <3>2. Rank(P, j) <= Rank(P, k)
      BY <1>5, <3>1
    <3>3. Rank(P, j) \in Nat /\ Rank(P, k) \in Nat
      BY <1>4, <3>1
    <3>4. Rank(P, j) < n
      BY <3>1, <3>2, <3>3
    <3> QED
      BY <3>1, <3>4
  <2>2. k \in Nat /\ k >= 1
    OBVIOUS
  <2> HIDE DEF D
  <2>3. Cardinality(1 .. k) = k
    BY <2>2, FS_Interval
  <2>4. Cardinality(1 .. k) <= Cardinality(D)
    BY <1>2, <2>1, FS_Subset
  <2> QED
    BY <2>3, <2>4
<1>7. D = 1 .. e
  <2>1. D \in SUBSET (1 .. e)
    BY <1>2, <1>6
  <2>2. IsFiniteSet(1 .. e) /\ Cardinality(1 .. e) = e
    BY <1>2, FS_Interval
  <2>3. Cardinality(1 .. e) = Cardinality(D)
    BY <2>2
  <2> HIDE DEF D, e
  <2> QED
    BY <2>1, <2>2, <2>3, FS_Subset
<1>8. i \in D <=> i <= e
  BY <1>2, <1>7
<1> QED
  BY <1>3, <1>8

\* The n-th chosen position is a chosen one, and n - 1 come before it.
LEMMA NthMember ==
  ASSUME NEW m \in Nat, NEW P \in SUBSET (1 .. m), NEW n \in 1 .. Cardinality(P)
  PROVE  Nth(P, n, m) \in P /\ Rank(P, Nth(P, n, m)) = n - 1
<1> DEFINE q == Nth(P, n, m)
<1>0. Cardinality(P) \in Nat /\ n \in Nat \ {0} /\ n <= Cardinality(P) /\ n \in Int
  BY RankFacts
<1>1. m \in Nat \ {0}
  <2>1. P # {}
    BY <1>0, FS_EmptySet
  <2>2. PICK p : p \in P
    BY <2>1
  <2>3. p \in 1 .. m
    BY <2>2
  <2> QED
    BY <2>3
<1>2. q \in 1 .. m
  BY <1>0, <1>1, NthPositive
<1>3. Rank(P, q) < n
  BY <1>0, <1>2, NthRank
<1>4. Rank(P, q + 1) >= n
  <2>1. CASE q = m
    BY <1>0, <2>1, RankFacts
  <2>2. CASE q < m
    <3>1. q + 1 \in 1 .. m /\ ~(q + 1 <= q)
      BY <1>2, <2>2
    <3>2. ~(Rank(P, q + 1) < n)
      BY <1>0, <3>1, NthRank
    <3>3. Rank(P, q + 1) \in Nat
      BY <3>1, RankFacts
    <3> HIDE DEF q
    <3> QED
      BY <1>0, <3>2, <3>3
  <2> QED
    BY <1>2, <2>1, <2>2
<1>5. Rank(P, q + 1) = IF q \in P THEN Rank(P, q) + 1 ELSE Rank(P, q)
  BY <1>2, RankFacts
<1>6. Rank(P, q) \in Nat
  BY <1>2, RankFacts
<1> HIDE DEF q
<1>7. q \in P /\ Rank(P, q) = n - 1
  BY <1>0, <1>3, <1>4, <1>5, <1>6
<1> QED
  BY <1>7 DEF q

\* And every chosen position is the n-th for the n that its rank tells.
LEMMA MemberNth ==
  ASSUME NEW m \in Nat, NEW P \in SUBSET (1 .. m), NEW p \in P
  PROVE  Rank(P, p) + 1 \in 1 .. Cardinality(P) /\ Nth(P, Rank(P, p) + 1, m) = p
<1> DEFINE n == Rank(P, p) + 1
           q == Nth(P, n, m)
<1>1. p \in 1 .. m /\ m \in Nat \ {0}
  OBVIOUS
<1>2. Rank(P, p) \in Nat /\ Rank(P, p + 1) = n /\ Rank(P, p + 1) <= Rank(P, m + 1)
        /\ Rank(P, m + 1) = Cardinality(P) /\ Cardinality(P) \in Nat
  <2>1. p + 1 \in 1 .. m + 1 /\ m + 1 \in 1 .. m + 1 /\ p + 1 <= m + 1 /\ p \in 1 .. m + 1
    BY <1>1
  <2> QED
    BY <1>1, <2>1, RankFacts
<1>3. n \in 1 .. Cardinality(P)
  BY <1>2
<1>4. q \in P /\ Rank(P, q) = n - 1
  BY <1>3, NthMember
<1>5. p <= q
  <2>1. Rank(P, p) < n /\ n \in Int
    BY <1>2
  <2> QED
    BY <1>1, <2>1, NthRank
<1>6. ~(p < q)
  <2> SUFFICES ASSUME p < q PROVE FALSE
    OBVIOUS
  <2>0. q \in 1 .. m
    BY <1>4
  <2>1. p + 1 \in 1 .. m + 1 /\ q \in 1 .. m + 1 /\ p + 1 <= q
    <3> HIDE DEF q
    <3> QED
      BY <1>1, <2>0
  <2>2. Rank(P, p + 1) <= Rank(P, q)
    BY <2>1, RankFacts
  <2> HIDE DEF q
  <2> QED
    BY <1>2, <1>4, <2>2
<1>7. q = p
  <2>1. q \in 1 .. m
    BY <1>4
  <2> HIDE DEF q, n
  <2> QED
    BY <1>1, <1>5, <1>6, <2>1
<1> QED
  BY <1>3, <1>7

-----------------------------------------------------------------------------
\* The tokens of the sentences of a list.
AllTokens(l) == UNION {ToSet(l[n]) : n \in 1 .. Len(l)}

\* No sentence of the list shares a token with another one.
Apart(l) == \A m, n \in 1 .. Len(l) : m # n => ToSet(l[m]) \cap ToSet(l[n]) = {}

\* No token comes twice in the text.
Distinct(t) == \A i, j \in 1 .. Len(t) : t[i] = t[j] => i = j

\* The sentence a position of the text belongs to is told by the marks before
\* it: as many sentences are complete there.
PositionsOf(text, n) == {p \in 1 .. Len(text) : Rank(Marks(text), p) = n}

LEMMA PieceTokens ==
  ASSUME NEW S, NEW text \in Seq(S)
  PROVE  /\ Cardinality(Marks(text)) \in Nat
         /\ Len(CompleteSentences(text)) = Cardinality(Marks(text))
         /\ \A n \in 1 .. Cardinality(Marks(text)) :
              ToSet(CompleteSentences(text)[n]) = {text[p] : p \in PositionsOf(text, n - 1)}
         /\ ToSet(Remainder(text)) = {text[p] : p \in PositionsOf(text, Cardinality(Marks(text)))}
<1> DEFINE N == Len(text)
           M == Marks(text)
           c == Cardinality(M)
<1>1. N \in Nat /\ M \in SUBSET (1 .. N)
  BY DEF Marks
<1>2. c \in Nat
  BY <1>1, RankFacts
<1>3. \A p \in 1 .. N : Rank(M, p) \in Nat /\ Rank(M, p) <= c
  <2> SUFFICES ASSUME NEW p \in 1 .. N PROVE Rank(M, p) \in Nat /\ Rank(M, p) <= c
    OBVIOUS
  <2>1. p \in 1 .. N + 1 /\ N + 1 \in 1 .. N + 1 /\ p <= N + 1
    BY <1>1
  <2> HIDE DEF M, N
  <2> QED
    BY <1>1, <2>1, RankFacts
<1>4. ASSUME NEW k \in Int
      PROVE  /\ SentenceEnd(text, k) \in 0 .. N
             /\ \A p \in 1 .. N : p <= SentenceEnd(text, k) <=> Rank(M, p) < k
  BY <1>1, NthBound, NthRank DEF SentenceEnd
<1>5. ASSUME NEW a \in 0 .. N, NEW b \in 0 .. N
      PROVE  ToSet(SubSeq(text, a + 1, b)) = {text[p] : p \in {q \in 1 .. N : a < q /\ q <= b}}
  <2> DEFINE u == SubSeq(text, a + 1, b)
  <2>1. \A i \in 1 .. Len(u) : u[i] = text[a + i] /\ a + i \in 1 .. N /\ a < a + i /\ a + i <= b
    BY <1>1
  <2>2. \A q \in 1 .. N : a < q /\ q <= b => q - a \in 1 .. Len(u) /\ u[q - a] = text[q]
    BY <1>1
  <2>3. ToSet(u) = {u[i] : i \in 1 .. Len(u)}
    BY DEF ToSet
  <2> HIDE DEF u
  <2>4. ToSet(u) \subseteq {text[p] : p \in {q \in 1 .. N : a < q /\ q <= b}}
    BY <2>1, <2>3
  <2>5. {text[p] : p \in {q \in 1 .. N : a < q /\ q <= b}} \subseteq ToSet(u)
    BY <2>2, <2>3
  <2> QED
    BY <2>4, <2>5 DEF u
<1>6. ASSUME NEW n \in 1 .. c
      PROVE  ToSet(CompleteSentences(text)[n]) = {text[p] : p \in PositionsOf(text, n - 1)}
  <2> DEFINE a == SentenceEnd(text, n - 1)
             b == SentenceEnd(text, n)
  <2>1. n \in Int /\ n - 1 \in Int
    BY <1>2
  <2>2. a \in 0 .. N /\ b \in 0 .. N
    BY <1>4, <2>1
  <2>3. \A q \in 1 .. N : (a < q /\ q <= b) <=> Rank(M, q) = n - 1
    <3> SUFFICES ASSUME NEW q \in 1 .. N PROVE (a < q /\ q <= b) <=> Rank(M, q) = n - 1
      OBVIOUS
    <3>1. (q <= a <=> Rank(M, q) < n - 1) /\ (q <= b <=> Rank(M, q) < n)
      BY <1>4, <2>1
    <3>2. Rank(M, q) \in Nat /\ q \in Int /\ a \in Int
      BY <1>1, <1>3, <2>2
    <3> HIDE DEF a, b, M, N
    <3> QED
      BY <2>1, <3>1, <3>2
  <2>4. {q \in 1 .. N : a < q /\ q <= b} = PositionsOf(text, n - 1)
    BY <2>3 DEF PositionsOf
  <2>5. CompleteSentences(text)[n] = SubSeq(text, a + 1, b)
    BY DEF CompleteSentences
  <2>6. ToSet(SubSeq(text, a + 1, b)) = {text[p] : p \in {q \in 1 .. N : a < q /\ q <= b}}
    BY <1>5, <2>2
  <2> HIDE DEF a, b, N
  <2> QED
    BY <2>4, <2>5, <2>6
<1>7. ToSet(Remainder(text)) = {text[p] : p \in PositionsOf(text, c)}
  <2> DEFINE a == SentenceEnd(text, c)
  <2>1. c \in Int
    BY <1>2
  <2>2. a \in 0 .. N /\ N \in 0 .. N
    BY <1>1, <1>4, <2>1
  <2>3. \A q \in 1 .. N : (a < q /\ q <= N) <=> Rank(M, q) = c
    <3> SUFFICES ASSUME NEW q \in 1 .. N PROVE (a < q /\ q <= N) <=> Rank(M, q) = c
      OBVIOUS
    <3>1. q <= a <=> Rank(M, q) < c
      BY <1>4, <2>1
    <3>2. Rank(M, q) \in Nat /\ Rank(M, q) <= c /\ q \in Int /\ a \in Int /\ q <= N
      BY <1>1, <1>3, <2>2
    <3> HIDE DEF a, M, N, c
    <3> QED
      BY <2>1, <3>1, <3>2
  <2>4. {q \in 1 .. N : a < q /\ q <= N} = PositionsOf(text, c)
    BY <2>3 DEF PositionsOf
  <2>5. Remainder(text) = SubSeq(text, a + 1, N)
    BY DEF Remainder
  <2>6. ToSet(SubSeq(text, a + 1, N)) = {text[p] : p \in {q \in 1 .. N : a < q /\ q <= N}}
    BY <1>5, <2>2
  <2> HIDE DEF a, N, c
  <2> QED
    BY <2>4, <2>5, <2>6
<1>8. Len(CompleteSentences(text)) = c
  BY <1>2 DEF CompleteSentences
<1> QED
  BY <1>2, <1>6, <1>7, <1>8

\* Splitting a text loses no token and doubles none (split_complete_sentences).
THEOREM SplitKeepsTokens ==
  ASSUME NEW S, NEW text \in Seq(S)
  PROVE  /\ ToSet(text) = AllTokens(CompleteSentences(text)) \cup ToSet(Remainder(text))
         /\ Distinct(text) =>
              /\ Apart(CompleteSentences(text))
              /\ AllTokens(CompleteSentences(text)) \cap ToSet(Remainder(text)) = {}
<1> DEFINE N == Len(text)
           M == Marks(text)
           c == Cardinality(M)
           l == CompleteSentences(text)
           r == Remainder(text)
<1>1. /\ c \in Nat /\ Len(l) = c
      /\ \A n \in 1 .. c : ToSet(l[n]) = {text[p] : p \in PositionsOf(text, n - 1)}
      /\ ToSet(r) = {text[p] : p \in PositionsOf(text, c)}
  BY PieceTokens
<1>2. ToSet(text) = {text[p] : p \in 1 .. N}
  BY DEF ToSet
<1>3. \A p \in 1 .. N : Rank(M, p) \in Nat /\ Rank(M, p) <= c
  <2> SUFFICES ASSUME NEW p \in 1 .. N PROVE Rank(M, p) \in Nat /\ Rank(M, p) <= c
    OBVIOUS
  <2>1. N \in Nat /\ M \in SUBSET (1 .. N)
    BY DEF Marks
  <2>2. p \in 1 .. N + 1 /\ N + 1 \in 1 .. N + 1 /\ p <= N + 1
    BY <2>1
  <2> HIDE DEF M, N
  <2> QED
    BY <2>1, <2>2, RankFacts
<1>4. AllTokens(l) = UNION {ToSet(l[n]) : n \in 1 .. c}
  BY <1>1 DEF AllTokens
<1>5. \A k : PositionsOf(text, k) = {p \in 1 .. N : Rank(M, p) = k}
  BY DEF PositionsOf
<1> HIDE DEF N, M, c, l, r
<1>6. ASSUME NEW p \in 1 .. N
      PROVE  text[p] \in AllTokens(l) \cup ToSet(r)
  <2>1. CASE Rank(M, p) = c
    BY <1>1, <1>5, <2>1
  <2>2. CASE Rank(M, p) # c
    <3> DEFINE n == Rank(M, p) + 1
    <3>1. n \in 1 .. c /\ n - 1 = Rank(M, p)
      BY <1>1, <1>3, <2>2
    <3>2. p \in PositionsOf(text, n - 1)
      BY <1>5, <3>1
    <3> HIDE DEF n
    <3>3. text[p] \in ToSet(l[n])
      BY <1>1, <3>1, <3>2
    <3> QED
      BY <1>4, <3>1, <3>3
  <2> QED
    BY <2>1, <2>2
<1>7. AllTokens(l) \cup ToSet(r) \subseteq ToSet(text)
  BY <1>1, <1>2, <1>4, <1>5
<1>8. ToSet(text) = AllTokens(l) \cup ToSet(r)
  BY <1>2, <1>6, <1>7
<1>9. ASSUME Distinct(text), NEW a \in Int, NEW b \in Int, a # b
      PROVE  {text[p] : p \in PositionsOf(text, a)} \cap {text[p] : p \in PositionsOf(text, b)} = {}
  BY <1>5, <1>9 DEF Distinct, N
<1>10. ASSUME Distinct(text)
       PROVE  Apart(l)
  <2> SUFFICES ASSUME NEW m \in 1 .. c, NEW n \in 1 .. c, m # n
               PROVE  ToSet(l[m]) \cap ToSet(l[n]) = {}
    BY <1>1 DEF Apart
  <2>1. m - 1 \in Int /\ n - 1 \in Int /\ m - 1 # n - 1
    BY <1>1
  <2>2. {text[p] : p \in PositionsOf(text, m - 1)} \cap {text[p] : p \in PositionsOf(text, n - 1)} = {}
    BY <1>9, <1>10, <2>1
  <2> QED
    BY <1>1, <2>2
<1>11. ASSUME Distinct(text)
       PROVE  AllTokens(l) \cap ToSet(r) = {}
  <2> SUFFICES ASSUME NEW n \in 1 .. c PROVE ToSet(l[n]) \cap ToSet(r) = {}
    BY <1>4
  <2>1. n - 1 \in Int /\ c \in Int /\ n - 1 # c
    BY <1>1
  <2>2. {text[p] : p \in PositionsOf(text, n - 1)} \cap {text[p] : p \in PositionsOf(text, c)} = {}
    BY <1>9, <1>11, <2>1
  <2> QED
    BY <1>1, <2>2
<1> QED
  BY <1>8, <1>10, <1>11 DEF l, r

\* The sentences that pass the last guard and the tokens of those that do not
\* are together what was given: none is in both, none in neither.
THEOREM TranslatableKeepsTokens ==
  ASSUME NEW S, NEW l \in Seq(Seq(S))
  PROVE  LET kept   == Translatable(l)
             refused == UNION {ToSet(s) : s \in {c \in ToSet(l) : ~ShouldTranslate(c)}}
         IN  /\ AllTokens(l) = AllTokens(kept) \cup refused
             /\ Apart(l) => Apart(kept) /\ AllTokens(kept) \cap refused = {}
<1> DEFINE P == {k \in 1 .. Len(l) : ShouldTranslate(l[k])}
           m == Len(l)
           kept == Translatable(l)
           refused == UNION {ToSet(s) : s \in {c \in ToSet(l) : ~ShouldTranslate(c)}}
           size == Cardinality(P)
<1>1. m \in Nat /\ P \in SUBSET (1 .. m)
  OBVIOUS
<1>2. size \in Nat
  BY <1>1, RankFacts
<1>3. kept = [n \in 1 .. size |-> l[Nth(P, n, m)]] /\ Len(kept) = size
  BY <1>2 DEF Translatable, Pick
<1>4. ToSet(l) = {l[k] : k \in 1 .. m}
  <2>1. DOMAIN l = 1 .. m
    OBVIOUS
  <2> QED
    BY <2>1, Zenon DEF ToSet
<1>5. refused = UNION {ToSet(l[k]) : k \in (1 .. m) \ P}
  BY <1>4
<1>6. \A n \in 1 .. size : Nth(P, n, m) \in P /\ Rank(P, Nth(P, n, m)) = n - 1
  BY <1>1, NthMember
<1>7. \A p \in P : \E n \in 1 .. size : Nth(P, n, m) = p
  BY <1>1, MemberNth
<1>8. AllTokens(kept) = UNION {ToSet(kept[n]) : n \in 1 .. size}
  BY <1>3 DEF AllTokens
<1>9. AllTokens(l) = UNION {ToSet(l[k]) : k \in 1 .. m}
  BY DEF AllTokens
<1>10. Apart(l) <=> \A j, k \in 1 .. m : j # k => ToSet(l[j]) \cap ToSet(l[k]) = {}
  BY DEF Apart
<1>11. Apart(kept) <=> \A j, k \in 1 .. size : j # k => ToSet(kept[j]) \cap ToSet(kept[k]) = {}
  BY <1>3 DEF Apart
<1>12. \A n \in 1 .. size : kept[n] = l[Nth(P, n, m)]
  BY <1>3
<1> HIDE DEF kept, refused, size, m, P
<1>13. AllTokens(kept) = UNION {ToSet(l[k]) : k \in P}
  <2>1. ASSUME NEW n \in 1 .. size
        PROVE  \E k \in P : kept[n] = l[k]
    BY <1>6, <1>12
  <2>2. ASSUME NEW k \in P
        PROVE  \E n \in 1 .. size : kept[n] = l[k]
    BY <1>7, <1>12
  <2> QED
    BY <1>8, <2>1, <2>2
<1>14. AllTokens(l) = AllTokens(kept) \cup refused
  BY <1>1, <1>5, <1>9, <1>13
<1>15. ASSUME Apart(l)
       PROVE  Apart(kept)
  <2> SUFFICES ASSUME NEW j \in 1 .. size, NEW k \in 1 .. size, j # k
               PROVE  ToSet(kept[j]) \cap ToSet(kept[k]) = {}
    BY <1>11
  <2>1. j \in Int /\ k \in Int /\ j - 1 # k - 1
    BY <1>2
  <2>2. Nth(P, j, m) # Nth(P, k, m)
    BY <1>6, <2>1
  <2>3. Nth(P, j, m) \in 1 .. m /\ Nth(P, k, m) \in 1 .. m
    BY <1>1, <1>6
  <2> QED
    BY <1>10, <1>12, <1>15, <2>2, <2>3
<1>16. ASSUME Apart(l)
       PROVE  AllTokens(kept) \cap refused = {}
  <2>1. ASSUME NEW j \in P, NEW k \in (1 .. m) \ P
        PROVE  ToSet(l[j]) \cap ToSet(l[k]) = {}
    <3>1. j \in 1 .. m /\ k \in 1 .. m /\ j # k
      BY <1>1
    <3> QED
      BY <1>10, <1>16, <3>1
  <2>2. ASSUME NEW x \in AllTokens(kept), x \in refused
        PROVE  FALSE
    <3>1. PICK j \in P : x \in ToSet(l[j])
      BY <1>13, Zenon
    <3>2. PICK k \in (1 .. m) \ P : x \in ToSet(l[k])
      BY <1>5, <2>2, Zenon
    <3> QED
      BY <2>1, <3>1, <3>2, Zenon
  <2> QED
    BY <2>2, Zenon
<1>17. /\ AllTokens(l) = AllTokens(kept) \cup refused
       /\ Apart(l) => Apart(kept) /\ AllTokens(kept) \cap refused = {}
  BY <1>14, <1>15, <1>16
<1> QED
  BY <1>17 DEF kept, refused
-----------------------------------------------------------------------------
(* The tokens of lists of sentences. *)

LEMMA SingleTokens ==
  /\ AllTokens(<<>>) = {} /\ Apart(<<>>)
  /\ \A s : AllTokens(<<s>>) = ToSet(s) /\ Apart(<<s>>)
BY DEF AllTokens, Apart

LEMMA JoinedTokens ==
  ASSUME NEW S, NEW s \in Seq(S), NEW t \in Seq(S)
  PROVE  ToSet(s \o t) = ToSet(s) \cup ToSet(t)
<1> DEFINE u == s \o t
<1>1. /\ ToSet(s) = {s[i] : i \in 1 .. Len(s)} /\ ToSet(t) = {t[i] : i \in 1 .. Len(t)}
      /\ ToSet(u) = {u[i] : i \in 1 .. Len(u)}
  BY DEF ToSet
<1>2. \A i \in 1 .. Len(u) :
        \/ i \in 1 .. Len(s) /\ u[i] = s[i]
        \/ i - Len(s) \in 1 .. Len(t) /\ u[i] = t[i - Len(s)]
  OBVIOUS
<1>3. \A i \in 1 .. Len(s) : i \in 1 .. Len(u) /\ u[i] = s[i]
  OBVIOUS
<1>4. \A i \in 1 .. Len(t) : Len(s) + i \in 1 .. Len(u) /\ u[Len(s) + i] = t[i]
  OBVIOUS
<1> HIDE DEF u
<1>5. ToSet(u) \subseteq ToSet(s) \cup ToSet(t)
  BY <1>1, <1>2
<1>6. ToSet(s) \subseteq ToSet(u)
  BY <1>1, <1>3
<1>7. ToSet(t) \subseteq ToSet(u)
  BY <1>1, <1>4
<1> QED
  BY <1>5, <1>6, <1>7 DEF u

\* Two lists put together hold the tokens of both; nothing comes twice if the
\* lists have nothing in common.
LEMMA ListsTokens ==
  ASSUME NEW S, NEW l \in Seq(S), NEW k \in Seq(S)
  PROVE  /\ AllTokens(l \o k) = AllTokens(l) \cup AllTokens(k)
         /\ (Apart(l) /\ Apart(k) /\ AllTokens(l) \cap AllTokens(k) = {}) => Apart(l \o k)
<1> DEFINE u == l \o k
<1>2. \A i \in 1 .. Len(u) :
        \/ i \in 1 .. Len(l) /\ u[i] = l[i]
        \/ i > Len(l) /\ i - Len(l) \in 1 .. Len(k) /\ u[i] = k[i - Len(l)]
  OBVIOUS
<1>3. \A i \in 1 .. Len(l) : i \in 1 .. Len(u) /\ u[i] = l[i]
  OBVIOUS
<1>4. \A i \in 1 .. Len(k) : Len(l) + i \in 1 .. Len(u) /\ u[Len(l) + i] = k[i]
  OBVIOUS
<1> HIDE DEF u
<1>5. AllTokens(u) \subseteq AllTokens(l) \cup AllTokens(k)
  BY <1>2 DEF AllTokens
<1>6. AllTokens(l) \subseteq AllTokens(u)
  BY <1>3 DEF AllTokens
<1>7. AllTokens(k) \subseteq AllTokens(u)
  BY <1>4 DEF AllTokens
<1>8. ASSUME Apart(l), Apart(k), AllTokens(l) \cap AllTokens(k) = {}
      PROVE  Apart(u)
  <2> SUFFICES ASSUME NEW m \in 1 .. Len(u), NEW n \in 1 .. Len(u), m # n
               PROVE  ToSet(u[m]) \cap ToSet(u[n]) = {}
    BY DEF Apart
  <2>0. \A i \in 1 .. Len(l), j \in 1 .. Len(k) : ToSet(l[i]) \cap ToSet(k[j]) = {}
    BY <1>8 DEF AllTokens
  <2>1. CASE m \in 1 .. Len(l) /\ u[m] = l[m]
    <3>1. CASE n \in 1 .. Len(l) /\ u[n] = l[n]
      BY <1>8, <2>1, <3>1 DEF Apart
    <3>2. CASE n - Len(l) \in 1 .. Len(k) /\ u[n] = k[n - Len(l)]
      BY <2>0, <2>1, <3>2
    <3> QED
      BY <1>2, <3>1, <3>2
  <2>2. CASE m > Len(l) /\ m - Len(l) \in 1 .. Len(k) /\ u[m] = k[m - Len(l)]
    <3>1. CASE n \in 1 .. Len(l) /\ u[n] = l[n]
      <4>1. ToSet(l[n]) \cap ToSet(k[m - Len(l)]) = {}
        BY <2>0, <2>2, <3>1
      <4> QED
        BY <2>2, <3>1, <4>1
    <3>2. CASE n > Len(l) /\ n - Len(l) \in 1 .. Len(k) /\ u[n] = k[n - Len(l)]
      <4>1. m - Len(l) # n - Len(l)
        OBVIOUS
      <4>2. ToSet(k[m - Len(l)]) \cap ToSet(k[n - Len(l)]) = {}
        BY <1>8, <2>2, <3>2, <4>1, Zenon DEF Apart
      <4> QED
        BY <2>2, <3>2, <4>2, Zenon
    <3> QED
      BY <1>2, <3>1, <3>2
  <2> QED
    BY <1>2, <2>1, <2>2
<1> QED
  BY <1>5, <1>6, <1>7, <1>8 DEF u

LEMMA AppendedTokens ==
  ASSUME NEW S, NEW l \in Seq(S), NEW s \in S
  PROVE  /\ AllTokens(Append(l, s)) = AllTokens(l) \cup ToSet(s)
         /\ (Apart(l) /\ AllTokens(l) \cap ToSet(s) = {}) => Apart(Append(l, s))
<1>1. Append(l, s) = l \o <<s>> /\ <<s>> \in Seq(S)
  OBVIOUS
<1>2. AllTokens(<<s>>) = ToSet(s) /\ Apart(<<s>>)
  BY SingleTokens, Zenon
<1>3. /\ AllTokens(l \o <<s>>) = AllTokens(l) \cup AllTokens(<<s>>)
      /\ (Apart(l) /\ Apart(<<s>>) /\ AllTokens(l) \cap AllTokens(<<s>>) = {}) => Apart(l \o <<s>>)
  BY <1>1, ListsTokens
<1> QED
  BY <1>1, <1>2, <1>3, Zenon

LEMMA HeadTokens ==
  ASSUME NEW S, NEW l \in Seq(S), l # <<>>
  PROVE  /\ AllTokens(l) = ToSet(Head(l)) \cup AllTokens(Tail(l))
         /\ Apart(l) => Apart(Tail(l)) /\ ToSet(Head(l)) \cap AllTokens(Tail(l)) = {}
<1> DEFINE t == Tail(l)
<1>0. Len(l) \in Nat \ {0} /\ Len(t) = Len(l) - 1 /\ Head(l) = l[1]
  OBVIOUS
<1>1. \A i \in 1 .. Len(t) : t[i] = l[i + 1] /\ i + 1 \in 1 .. Len(l) /\ i + 1 # 1
  OBVIOUS
<1>2. \A i \in 1 .. Len(l) : i = 1 \/ (i - 1 \in 1 .. Len(t) /\ l[i] = t[i - 1])
  OBVIOUS
<1> HIDE DEF t
<1>3. AllTokens(l) \subseteq ToSet(l[1]) \cup AllTokens(t)
  BY <1>2 DEF AllTokens
<1>4. ToSet(l[1]) \subseteq AllTokens(l)
  BY <1>0 DEF AllTokens
<1>5. AllTokens(t) \subseteq AllTokens(l)
  BY <1>1 DEF AllTokens
<1>6. ASSUME Apart(l)
      PROVE  ToSet(l[1]) \cap AllTokens(t) = {}
  <2>0. 1 \in 1 .. Len(l)
    BY <1>0
  <2>1. \A i \in 1 .. Len(t) : ToSet(l[1]) \cap ToSet(l[i + 1]) = {}
    BY <1>1, <1>6, <2>0, Zenon DEF Apart
  <2> QED
    BY <1>1, <2>1 DEF AllTokens
<1>7. ASSUME Apart(l)
      PROVE  Apart(t)
  <2> SUFFICES ASSUME NEW m \in 1 .. Len(t), NEW n \in 1 .. Len(t), m # n
               PROVE  ToSet(t[m]) \cap ToSet(t[n]) = {}
    BY DEF Apart
  <2>1. m + 1 # n + 1
    OBVIOUS
  <2> QED
    BY <1>1, <1>7, <2>1, Zenon DEF Apart
<1> QED
  BY <1>0, <1>3, <1>4, <1>5, <1>6, <1>7 DEF t
=============================================================================
