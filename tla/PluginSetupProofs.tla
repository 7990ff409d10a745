------------------------- MODULE PluginSetupProofs -------------------------
(***************************************************************************)
(* What PluginSetup guarantees for every set of texts its owner may write: *)
(* type correctness, that the owner's lines stay and are backed up, and,   *)
(* for texts that name glyph as an item only or on the line of             *)
(* plugins.enabled only, that an exit status of 0 is the truth.            *)
(*                                                                         *)
(* Most of it is about texts: the numbers of a set in ascending order, the *)
(* lines that stay when others are taken out or put in, where a line       *)
(* stands once lines that are nobody's parent are gone, and that the data  *)
(* of a valid text are dumped to a valid text.  Inductions over the lines  *)
(* go by the least number for which a claim fails (LeastNat).              *)
(***************************************************************************)
EXTENDS PluginSetup, FiniteSetTheorems, FunctionTheorems, SequenceTheorems,
        WellFoundedInduction, TLAPS

----------------------------------------------------------------------------
(* Numbers and places.                                                     *)

\* Induction for a set of numbers.
LEMMA LeastNat ==
  ASSUME NEW S, S \subseteq Nat, S # {}
  PROVE  \E i \in S : \A j \in S : i <= j
<1> DEFINE R == {ss \in Nat \X Nat : ss[1] < ss[2]}
<1>1. IsWellFoundedOn(R, Nat)
  BY NatLessThanWellFounded DEF OpToRel
<1> HIDE DEF R
<1>2. PICK i \in S : \A j \in S : <<j, i>> \notin R
  BY <1>1, WFMin
<1>3. ASSUME NEW j \in S
      PROVE  i <= j
  <2>1. i \in Nat /\ j \in Nat
    OBVIOUS
  <2>2. j < i => <<j, i>> \in R
    BY <2>1 DEF R
  <2> QED
    BY <1>2, <2>1, <2>2
<1> QED
  BY <1>3

LEMMA MinIn ==
  ASSUME NEW S, S \subseteq Nat, S # {}
  PROVE  Min(S) \in S /\ \A j \in S : Min(S) <= j
<1>1. \E i \in S : \A j \in S : i <= j
  BY LeastNat
<1> QED
  BY <1>1 DEF Min

LEMMA MaxIn ==
  ASSUME NEW n \in Nat, NEW S, S \subseteq 0..n, S # {}
  PROVE  Max(S) \in S /\ \A j \in S : j <= Max(S)
<1> DEFINE T == {k \in Nat : \E i \in S : k = n - i}
<1>1. T \subseteq Nat /\ T # {}
  <2>1. PICK i \in S : TRUE
    OBVIOUS
  <2>2. n - i \in T
    OBVIOUS
  <2> QED
    BY <2>2
<1>2. PICK k \in T : \A l \in T : k <= l
  BY <1>1, LeastNat
<1>3. PICK i \in S : k = n - i
  OBVIOUS
<1>4. \A j \in S : n - j \in T
  OBVIOUS
<1>5. i \in S /\ \A j \in S : i >= j
  BY <1>2, <1>3, <1>4
<1>6. PICK m \in S : m = Max(S) /\ \A j \in S : m >= j
  BY <1>5 DEF Max
<1> QED
  BY <1>6

\* The rank of a number among those of a set.
Rank(I, i) == Cardinality({j \in I : j <= i})

LEMMA RankType ==
  ASSUME NEW n \in Nat, NEW I, I \subseteq 1..n
  PROVE  /\ IsFiniteSet(I) /\ Cardinality(I) \in Nat
         /\ \A i \in I : Rank(I, i) \in 1..Cardinality(I)
         /\ \A i, h \in I : i < h => Rank(I, i) < Rank(I, h)
<1>1. IsFiniteSet(1..n)
  BY FS_Interval
<1>2. IsFiniteSet(I)
  BY <1>1, FS_Subset
<1>3. Cardinality(I) \in Nat
  BY <1>2, FS_CardinalityType
<1>4. ASSUME NEW i \in I
      PROVE  /\ IsFiniteSet({j \in I : j <= i})
             /\ Rank(I, i) \in 1..Cardinality(I)
  <2>1. IsFiniteSet({j \in I : j <= i}) /\ Cardinality({j \in I : j <= i}) <= Cardinality(I)
    BY <1>2, FS_Subset
  <2>2. Cardinality({j \in I : j <= i}) \in Nat
    BY <2>1, FS_CardinalityType
  <2>3. i \in {j \in I : j <= i}
    OBVIOUS
  <2>4. Cardinality({j \in I : j <= i}) # 0
    BY <2>1, <2>3, FS_EmptySet
  <2> QED
    BY <1>3, <2>1, <2>2, <2>4 DEF Rank
<1>5. ASSUME NEW i \in I, NEW h \in I, i < h
      PROVE  Rank(I, i) < Rank(I, h)
  <2>1. PICK A, B : A = {j \in I : j <= i} /\ B = {j \in I : j <= h}
    OBVIOUS
  <2>2. IsFiniteSet(B) /\ Cardinality(A) \in Nat /\ Cardinality(B) \in Nat
    BY <1>3, <1>4, <2>1 DEF Rank
  <2>3. \A j \in I : j \in Int
    OBVIOUS
  <2>4. \A j \in A : j \in B
    BY <1>5, <2>1, <2>3
  <2>5. h \in B /\ h \notin A
    BY <1>5, <2>1, <2>3
  <2>6. A \in SUBSET B
    BY <2>4
  <2>7. Cardinality(A) <= Cardinality(B) /\ (Cardinality(B) = Cardinality(A) => B = A)
    BY <2>2, <2>6, FS_Subset
  <2>8. Cardinality(A) < Cardinality(B)
    BY <2>2, <2>5, <2>7
  <2> QED
    BY <2>1, <2>8 DEF Rank
<1> QED
  BY <1>2, <1>3, <1>4, <1>5

\* Ascending enumerates the set, in order: it finds the number of each rank.
LEMMA AscendingFacts ==
  ASSUME NEW n \in Nat, NEW I, I \subseteq 1..n
  PROVE  /\ Cardinality(I) \in Nat
         /\ Ascending(I) \in [1..Cardinality(I) -> I]
         /\ \A k \in 1..Cardinality(I) : Rank(I, Ascending(I)[k]) = k
         /\ \A i \in I : Rank(I, i) \in 1..Cardinality(I) /\ Ascending(I)[Rank(I, i)] = i
         /\ \A k, l \in 1..Cardinality(I) : k < l <=> Ascending(I)[k] < Ascending(I)[l]
<1>1. /\ IsFiniteSet(I) /\ Cardinality(I) \in Nat
      /\ \A i \in I : Rank(I, i) \in 1..Cardinality(I)
      /\ \A i, h \in I : i < h => Rank(I, i) < Rank(I, h)
  BY RankType
<1>2. PICK m \in Nat : m = Cardinality(I)
  BY <1>1
<1>3. PICK rank : rank = [i \in I |-> Rank(I, i)]
  OBVIOUS
<1>4. rank \in Injection(I, 1..m)
  <2>1. rank \in [I -> 1..m]
    BY <1>1, <1>2, <1>3
  <2>2. ASSUME NEW i \in I, NEW h \in I, rank[i] = rank[h]
        PROVE  i = h
    <3>1. i \in Int /\ h \in Int
      OBVIOUS
    <3>2. ~(rank[i] < rank[h]) /\ ~(rank[h] < rank[i])
      BY <1>1, <1>2, <1>3, <2>2
    <3> QED
      BY <1>1, <1>3, <3>1, <3>2
  <2> QED
    BY <2>1, <2>2 DEF Injection, IsInjective
<1>5. IsFiniteSet(1..m) /\ Cardinality(1..m) = m
  BY FS_Interval
<1>6. rank \in Surjection(I, 1..m)
  BY <1>2, <1>4, <1>5, FS_Injection
<1>7. ASSUME NEW k \in 1..m
      PROVE  Ascending(I)[k] \in I /\ Rank(I, Ascending(I)[k]) = k
  <2>1. PICK i \in I : rank[i] = k
    BY <1>6 DEF Surjection
  <2>2. \E j \in I : Cardinality({h \in I : h <= j}) = k
    BY <1>3, <2>1 DEF Rank
  <2>3. Ascending(I)[k] = CHOOSE j \in I : Cardinality({h \in I : h <= j}) = k
    BY <1>2 DEF Ascending
  <2> QED
    BY <2>2, <2>3 DEF Rank
<1>8. Ascending(I) \in [1..m -> I]
  <2>1. Ascending(I) = [k \in 1..m |-> Ascending(I)[k]]
    BY <1>2 DEF Ascending
  <2> QED
    BY <1>7, <2>1
<1>9. ASSUME NEW i \in I
      PROVE  Ascending(I)[Rank(I, i)] = i
  <2>1. Rank(I, i) \in 1..m
    BY <1>1, <1>2
  <2>2. PICK h \in I : h = Ascending(I)[Rank(I, i)]
    BY <1>7, <2>1
  <2>3. rank[h] = rank[i]
    BY <1>3, <1>7, <2>1, <2>2
  <2> QED
    BY <1>4, <2>2, <2>3 DEF Injection, IsInjective
<1>10. ASSUME NEW k \in 1..m, NEW l \in 1..m
       PROVE  k < l <=> Ascending(I)[k] < Ascending(I)[l]
  <2>1. PICK a \in I, b \in I : a = Ascending(I)[k] /\ b = Ascending(I)[l]
    BY <1>7
  <2>2. Rank(I, a) = k /\ Rank(I, b) = l
    BY <1>7, <2>1
  <2>3. a \in Int /\ b \in Int
    OBVIOUS
  <2>4. a < b => k < l
    BY <1>1, <2>2
  <2>5. b < a => l < k
    BY <1>1, <2>2
  <2>6. a = b => k = l
    BY <2>2
  <2> QED
    BY <2>1, <2>3, <2>4, <2>5, <2>6
<1> QED
  BY <1>1, <1>2, <1>7, <1>8, <1>9, <1>10

\* The first m members of s are those of t, renumbered by g.
Follows(s, t, g, m) == \A k \in 1..m : s[k] = g[t[k]]

Increasing(g, J) == \A a, b \in J : a < b => g[a] < g[b]

\* Sets whose members correspond in order are enumerated alike.
LEMMA Renumbered ==
  ASSUME NEW n \in Nat, NEW I, I \subseteq 1..n,
         NEW p \in Nat, NEW J, J \subseteq 1..p,
         NEW g \in Bijection(J, I), Increasing(g, J)
  PROVE  /\ Cardinality(J) = Cardinality(I)
         /\ Follows(Ascending(I), Ascending(J), g, Cardinality(J))
<1>1. IsFiniteSet(I) /\ IsFiniteSet(J)
  BY RankType
<1>2. /\ g \in [J -> I]
      /\ \A a, b \in J : g[a] = g[b] => a = b
      /\ \A i \in I : \E a \in J : g[a] = i
  BY DEF Bijection, Injection, Surjection, IsInjective
<1>3. Cardinality(J) = Cardinality(I)
  <2>1. ExistsBijection(J, I)
    BY DEF ExistsBijection
  <2> QED
    BY <1>1, <2>1, FS_Bijection
<1>4. \A a, b \in J : a <= b <=> g[a] <= g[b]
  <2> SUFFICES ASSUME NEW a \in J, NEW b \in J PROVE a <= b <=> g[a] <= g[b]
    OBVIOUS
  <2>1. a \in 1..p /\ b \in 1..p /\ g[a] \in 1..n /\ g[b] \in 1..n
    BY <1>2
  <2> QED
    BY <2>1 DEF Increasing
<1>5. ASSUME NEW j \in J
      PROVE  Rank(I, g[j]) = Rank(J, j)
  <2>1. PICK A, B : A = {h \in J : h <= j} /\ B = {h \in I : h <= g[j]}
    OBVIOUS
  <2>2. PICK f : f = [h \in A |-> g[h]]
    OBVIOUS
  <2>3. f \in [A -> B]
    BY <1>2, <1>4, <2>1, <2>2
  <2>4. \A a, b \in A : f[a] = f[b] => a = b
    BY <1>2, <2>1, <2>2
  <2>5. \A i \in B : \E a \in A : f[a] = i
    BY <1>2, <1>4, <2>1, <2>2
  <2>6. f \in Bijection(A, B)
    BY <2>3, <2>4, <2>5 DEF Bijection, Injection, Surjection, IsInjective
  <2>7. IsFiniteSet(A)
    BY <1>1, <2>1, FS_Subset
  <2>8. Cardinality(B) = Cardinality(A)
    BY <2>6, <2>7, FS_Bijection DEF ExistsBijection
  <2> QED
    BY <2>1, <2>8 DEF Rank
<1>6. ASSUME NEW k \in 1..Cardinality(J)
      PROVE  Ascending(I)[k] = g[Ascending(J)[k]]
  <2>1. PICK j \in J : j = Ascending(J)[k] /\ Rank(J, j) = k
    BY AscendingFacts
  <2>2. Rank(I, g[j]) = k /\ g[j] \in I
    BY <1>2, <1>5, <2>1
  <2>3. Ascending(I)[Rank(I, g[j])] = g[j]
    BY <2>2, AscendingFacts
  <2> QED
    BY <2>1, <2>2, <2>3
<1> QED
  BY <1>3, <1>6 DEF Follows

\* Two functions agree up to a number.
Agree(s, t, m) == \A k \in 1..m : s[k] = t[k]

\* The least members of a set are enumerated first.
LEMMA Leading ==
  ASSUME NEW n \in Nat, NEW p \in Nat, n <= p,
         NEW J, J \subseteq 1..p, NEW I, I = J \intersect 1..n
  PROVE  /\ Cardinality(I) <= Cardinality(J)
         /\ Agree(Ascending(I), Ascending(J), Cardinality(I))
<1>1. I = J \intersect 1..n /\ I \subseteq 1..n
  OBVIOUS
<1>2. Cardinality(I) <= Cardinality(J)
  <2>1. IsFiniteSet(J)
    BY RankType
  <2>2. I \in SUBSET J
    BY <1>1
  <2> QED
    BY <2>1, <2>2, FS_Subset
<1>3. ASSUME NEW k \in 1..Cardinality(I)
      PROVE  Ascending(I)[k] = Ascending(J)[k]
  <2>1. PICK i \in I : i = Ascending(I)[k] /\ Rank(I, i) = k
    BY <1>1, AscendingFacts
  <2>2. {j \in I : j <= i} = {j \in J : j <= i}
    <3>1. i \in 1..n /\ \A j \in J : j \in 1..p
      BY <1>1
    <3>2. \A j \in J : j <= i => j \in 1..n
      BY <3>1
    <3> QED
      BY <1>1, <3>2
  <2>3. Rank(J, i) = k /\ i \in J
    BY <1>1, <2>1, <2>2 DEF Rank
  <2>4. Ascending(J)[Rank(J, i)] = i
    BY <2>3, AscendingFacts
  <2> QED
    BY <2>1, <2>3, <2>4
<1> QED
  BY <1>1, <1>2, <1>3 DEF Agree

\* All numbers up to n are enumerated as they are.
LEMMA AscendingAll ==
  ASSUME NEW n \in Nat
  PROVE  Cardinality(1..n) = n /\ \A k \in 1..n : Ascending(1..n)[k] = k
<1>1. Cardinality(1..n) = n
  BY FS_Interval
<1>2. ASSUME NEW k \in 1..n
      PROVE  Ascending(1..n)[k] = k
  <2>1. {j \in 1..n : j <= k} = 1..k
    OBVIOUS
  <2>2. Rank(1..n, k) = k
    <3>1. Cardinality(1..k) = k
      BY FS_Interval
    <3> QED
      BY <2>1, <3>1 DEF Rank
  <2>3. Ascending(1..n)[Rank(1..n, k)] = k
    BY AscendingFacts
  <2> QED
    BY <2>2, <2>3
<1> QED
  BY <1>1, <1>2

\* Prefixes, place by place.
LEMMA PrefixIntro ==
  ASSUME NEW S, NEW s \in Seq(S), NEW t \in Seq(S), Len(s) <= Len(t),
         \A k \in 1..Len(s) : s[k] = t[k]
  PROVE  IsPrefix(s, t)
<1>1. PICK n \in Nat, p \in Nat : n = Len(s) /\ p = Len(t) /\ n <= p
  BY LenProperties
<1>2. PICK a, b : a = SubSeq(s, 1, n) /\ b = SubSeq(t, 1, n)
  OBVIOUS
<1>3. /\ \A k \in 1..n : s[k] \in S /\ t[k] \in S /\ s[k] = t[k]
  BY <1>1, ElementOfSeq
<1>4. n - 1 + 1 = n /\ (IF 1 <= n THEN n - 1 + 1 ELSE 0) = n
  OBVIOUS
<1>5. a \in Seq(S) /\ Len(a) = n /\ \A k \in 1..n : a[k] = s[k]
  BY <1>2, <1>3, <1>4, SubSeqProperties
<1>6. b \in Seq(S) /\ Len(b) = n /\ \A k \in 1..n : b[k] = t[k]
  BY <1>2, <1>3, <1>4, SubSeqProperties
<1>7. a = b
  BY <1>3, <1>5, <1>6, SeqEqual
<1> QED
  BY <1>1, <1>2, <1>7 DEF IsPrefix

LEMMA PrefixElim ==
  ASSUME NEW S, NEW s \in Seq(S), NEW t \in Seq(S), IsPrefix(s, t)
  PROVE  Len(s) <= Len(t) /\ \A k \in 1..Len(s) : s[k] = t[k]
<1>1. PICK n \in Nat, p \in Nat : n = Len(s) /\ p = Len(t)
  BY LenProperties
<1>2. n <= p /\ SubSeq(s, 1, n) = SubSeq(t, 1, n)
  BY <1>1 DEF IsPrefix
<1>3. \A k \in 1..n : s[k] \in S /\ t[k] \in S
  BY <1>1, <1>2, ElementOfSeq
<1>4. n - 1 + 1 = n
  OBVIOUS
<1>5. \A k \in 1..n : SubSeq(s, 1, n)[k] = s[k]
  BY <1>3, <1>4, SubSeqProperties
<1>6. \A k \in 1..n : SubSeq(t, 1, n)[k] = t[k]
  BY <1>3, <1>4, SubSeqProperties
<1> QED
  BY <1>1, <1>2, <1>5, <1>6

LEMMA PrefixTransitive ==
  ASSUME NEW S, NEW s \in Seq(S), NEW t \in Seq(S), NEW u \in Seq(S),
         IsPrefix(s, t), IsPrefix(t, u)
  PROVE  IsPrefix(s, u)
<1>1. PICK n \in Nat, p \in Nat, q \in Nat : n = Len(s) /\ p = Len(t) /\ q = Len(u)
  BY LenProperties
<1>2. /\ n <= p /\ \A k \in 1..n : s[k] = t[k]
      /\ p <= q /\ \A k \in 1..p : t[k] = u[k]
  BY <1>1, PrefixElim
<1>3. n <= q /\ \A k \in 1..n : s[k] = u[k]
  BY <1>2
<1> QED
  BY <1>1, <1>3, PrefixIntro

\* A concatenation, place by place.
LEMMA ConcatFacts ==
  ASSUME NEW S, NEW s \in Seq(S), NEW t \in Seq(S),
         NEW p \in Nat, p = Len(s), NEW q \in Nat, q = Len(t)
  PROVE  /\ s \o t \in Seq(S) /\ Len(s \o t) = p + q /\ DOMAIN (s \o t) = 1..p + q
         /\ \A k \in 1..p : (s \o t)[k] = s[k]
         /\ \A k \in 1..q : (s \o t)[p + k] = t[k]
<1>1. PICK u : u = s \o t
  OBVIOUS
<1>2. /\ u \in Seq(S) /\ Len(u) = p + q
      /\ \A k \in 1..p + q : u[k] = IF k <= p THEN s[k] ELSE t[k - p]
  BY <1>1, ConcatProperties
<1>3. DOMAIN u = 1..p + q
  BY <1>2, LenProperties
<1>4. \A k \in 1..p : u[k] = s[k]
  BY <1>2
<1>5. \A k \in 1..q : u[p + k] = t[k]
  <2> SUFFICES ASSUME NEW k \in 1..q PROVE u[p + k] = t[k]
    OBVIOUS
  <2>1. p + k \in 1..p + q /\ ~(p + k <= p) /\ (p + k) - p = k
    OBVIOUS
  <2> QED
    BY <1>2, <2>1
<1> QED
  BY <1>1, <1>2, <1>3, <1>4, <1>5

\* What InsertAt does, place by place.
Inserted(t, s, at, l, n) ==
  /\ t[at] = l
  /\ \A k \in 1..at - 1 : t[k] = s[k]
  /\ \A k \in at..n : t[k + 1] = s[k]

LEMMA InsertAtFacts ==
  ASSUME NEW S, NEW s \in Seq(S), NEW l \in S, NEW n \in Nat, n = Len(s),
         NEW p \in Nat, p = n + 1, NEW at \in 1..p
  PROVE  /\ InsertAt(s, at, l) \in Seq(S)
         /\ Len(InsertAt(s, at, l)) = p
         /\ DOMAIN InsertAt(s, at, l) = 1..p
         /\ Inserted(InsertAt(s, at, l), s, at, l, n)
<1>1. PICK m \in Nat, q \in Nat : at = m + 1 /\ n = m + q /\ m = at - 1 /\ q = n - m
  <2>1. PICK m \in Nat : m = at - 1
    OBVIOUS
  <2>2. PICK q \in Nat : q = n - m
    BY <2>1
  <2>3. at = m + 1 /\ n = m + q
    BY <2>1, <2>2
  <2> QED
    BY <2>1, <2>2, <2>3
<1>2. PICK a, b, c : a = SubSeq(s, 1, m) /\ b = <<l>> /\ c = SubSeq(s, m + 1, n)
  OBVIOUS
<1>3. \A k \in 1..n : s[k] \in S
  BY ElementOfSeq
<1>4. a \in Seq(S) /\ m = Len(a) /\ \A k \in 1..m : a[k] = s[k]
  <2>1. \A k \in 1..m : s[k] \in S
    BY <1>1, <1>3
  <2>2. m - 1 + 1 = m /\ (IF 1 <= m THEN m - 1 + 1 ELSE 0) = m
    OBVIOUS
  <2>3. \A k \in 1..m : 1 + k - 1 = k
    OBVIOUS
  <2> QED
    BY <1>2, <2>1, <2>2, <2>3, SubSeqProperties
<1>5. b \in Seq(S) /\ 1 = Len(b) /\ b[1] = l
  BY <1>2
<1>6. c \in Seq(S) /\ q = Len(c) /\ \A k \in 1..q : c[k] = s[m + k]
  <2>1. \A k \in m + 1..n : s[k] \in S
    BY <1>1, <1>3
  <2>2. n - (m + 1) + 1 = q /\ (IF m + 1 <= n THEN n - (m + 1) + 1 ELSE 0) = q
    BY <1>1
  <2>3. \A k \in 1..q : m + 1 + k - 1 = m + k
    OBVIOUS
  <2>4. /\ c \in Seq(S)
        /\ Len(c) = IF m + 1 <= n THEN n - (m + 1) + 1 ELSE 0
        /\ \A k \in 1..n - (m + 1) + 1 : c[k] = s[m + 1 + k - 1]
    BY <1>1, <1>2, <2>1, SubSeqProperties
  <2> QED
    BY <2>2, <2>3, <2>4
<1>7. PICK ab : ab = a \o b
  OBVIOUS
<1>8. /\ ab \in Seq(S) /\ m + 1 = Len(ab) /\ ab[m + 1] = l
      /\ \A k \in 1..m : ab[k] = s[k]
  <2>1. /\ ab \in Seq(S) /\ Len(ab) = m + 1
        /\ \A k \in 1..m : ab[k] = a[k]
        /\ \A k \in 1..1 : ab[m + k] = b[k]
    <3>1. PICK one \in Nat : one = 1
      OBVIOUS
    <3>2. a \in Seq(S) /\ m = Len(a) /\ b \in Seq(S) /\ one = Len(b)
      BY <1>4, <1>5, <3>1
    <3>3. /\ a \o b \in Seq(S) /\ Len(a \o b) = m + one
          /\ \A k \in 1..m : (a \o b)[k] = a[k]
          /\ \A k \in 1..one : (a \o b)[m + k] = b[k]
      BY <3>2, ConcatFacts
    <3> QED
      BY <1>7, <3>1, <3>3
  <2>2. 1 \in 1..1
    OBVIOUS
  <2> QED
    BY <1>4, <1>5, <2>1, <2>2
<1>9. PICK t : t = ab \o c
  OBVIOUS
<1>10. /\ t \in Seq(S) /\ Len(t) = m + 1 + q /\ DOMAIN t = 1..m + 1 + q
       /\ \A k \in 1..m + 1 : t[k] = ab[k]
       /\ \A k \in 1..q : t[m + 1 + k] = c[k]
  <2>1. PICK o \in Nat : o = m + 1
    OBVIOUS
  <2>2. ab \in Seq(S) /\ o = Len(ab) /\ c \in Seq(S) /\ q = Len(c)
    BY <1>6, <1>8, <2>1
  <2>3. /\ ab \o c \in Seq(S) /\ Len(ab \o c) = o + q /\ DOMAIN (ab \o c) = 1..o + q
        /\ \A k \in 1..o : (ab \o c)[k] = ab[k]
        /\ \A k \in 1..q : (ab \o c)[o + k] = c[k]
    BY <2>2, ConcatFacts
  <2> QED
    BY <1>9, <2>1, <2>3
<1>11. InsertAt(s, at, l) = t
  <2>1. InsertAt(s, at, l) = (SubSeq(s, 1, at - 1) \o <<l>>) \o SubSeq(s, at, Len(s))
    BY DEF InsertAt
  <2> QED
    BY <1>1, <1>2, <1>7, <1>9, <2>1
<1>12. m + 1 + q = n + 1 /\ m + 1 \in 1..m + 1
  BY <1>1
<1>13. \A k \in 1..m : t[k] = s[k]
  <2>1. \A k \in 1..m : k \in 1..m + 1
    OBVIOUS
  <2> QED
    BY <1>8, <1>10, <2>1
<1>14. ASSUME NEW k \in at..n
       PROVE  t[k + 1] = s[k]
  <2>1. PICK j \in 1..q : j = k - m
    BY <1>1
  <2>2. m + 1 + j = k + 1 /\ m + j = k
    BY <1>1, <2>1
  <2>3. t[m + 1 + j] = s[m + j]
    BY <1>6, <1>10
  <2> QED
    BY <2>2, <2>3
<1> QED
  BY <1>1, <1>8, <1>10, <1>11, <1>12, <1>13, <1>14 DEF Inserted

\* What is left of a sequence is one, of elements of it.
LEMMA OnlyFacts ==
  ASSUME NEW S, NEW s \in Seq(S), NEW I, I \subseteq DOMAIN s
  PROVE  /\ Only(s, I) \in Seq(S)
         /\ Cardinality(I) \in Nat
         /\ Len(Only(s, I)) = Cardinality(I)
         /\ DOMAIN Only(s, I) = 1..Cardinality(I)
         /\ Ascending(I) \in [1..Cardinality(I) -> I]
         /\ \A k \in 1..Cardinality(I) : Only(s, I)[k] = s[Ascending(I)[k]]
<1>1. PICK n \in Nat : n = Len(s) /\ DOMAIN s = 1..n /\ s \in [1..n -> S]
  BY LenProperties
<1>2. PICK m : m = Cardinality(I)
  OBVIOUS
<1>3. PICK at : at = Ascending(I)
  OBVIOUS
<1>4. m \in Nat /\ at \in [1..m -> I]
  BY <1>1, <1>2, <1>3, AscendingFacts
<1>5. PICK t : t = [k \in 1..m |-> s[at[k]]]
  OBVIOUS
<1>6. t = Only(s, I)
  <2>1. DOMAIN at = 1..m
    BY <1>4
  <2> QED
    BY <1>3, <1>5, <2>1 DEF Only
<1>7. t \in [1..m -> S]
  BY <1>1, <1>4, <1>5
<1>8. t \in Seq(S)
  BY <1>4, <1>7, SeqDef
<1>9. Len(t) = m
  BY <1>4, <1>7, <1>8, LenProperties
<1> QED
  BY <1>2, <1>3, <1>4, <1>5, <1>6, <1>8, <1>9

----------------------------------------------------------------------------
(* The lines without glyph.                                                *)

Unlisting(doc) == {i \in DOMAIN doc : ~IsGlyphLine(doc[i])}

LEMMA NoGlyphType ==
  ASSUME NEW doc \in Seq(Line)
  PROVE  NoGlyph(doc) \in Seq(Line)
BY OnlyFacts DEF NoGlyph

\* Removing glyph's lines from a text that has none changes nothing.
LEMMA NoGlyphTwice ==
  ASSUME NEW doc \in Seq(Line)
  PROVE  NoGlyph(NoGlyph(doc)) = NoGlyph(doc)
<1>1. PICK I : I = Unlisting(doc)
  OBVIOUS
<1>2. PICK t : t = NoGlyph(doc)
  OBVIOUS
<1>3. t = Only(doc, I) /\ I \subseteq DOMAIN doc
  BY <1>1, <1>2 DEF NoGlyph, Unlisting
<1>4. PICK n \in Nat : n = Cardinality(I)
  BY <1>3, OnlyFacts
<1>5. PICK at \in [1..n -> I] : at = Ascending(I)
  BY <1>3, <1>4, OnlyFacts
<1>6. /\ t \in Seq(Line) /\ Len(t) = n /\ DOMAIN t = 1..n
      /\ \A k \in 1..n : t[k] = doc[at[k]]
  BY <1>3, <1>4, <1>5, OnlyFacts
<1>7. \A k \in 1..n : ~IsGlyphLine(t[k])
  <2> SUFFICES ASSUME NEW k \in 1..n PROVE ~IsGlyphLine(t[k])
    OBVIOUS
  <2>1. at[k] \in I
    OBVIOUS
  <2>2. ~IsGlyphLine(doc[at[k]])
    BY <1>1, <2>1 DEF Unlisting
  <2> QED
    BY <1>6, <2>2
<1>8. Unlisting(t) = 1..n
  BY <1>6, <1>7 DEF Unlisting
<1>9. PICK u : u = NoGlyph(t)
  OBVIOUS
<1>10. u = Only(t, 1..n)
  BY <1>8, <1>9 DEF NoGlyph, Unlisting
<1>11. Cardinality(1..n) = n /\ \A k \in 1..n : Ascending(1..n)[k] = k
  BY AscendingAll
<1>12. u \in Seq(Line) /\ Len(u) = n /\ \A k \in 1..n : u[k] = t[k]
  BY <1>6, <1>10, <1>11, OnlyFacts
<1>13. u = t
  BY <1>6, <1>12, SeqEqual
<1> QED
  BY <1>2, <1>9, <1>13

\* An item for glyph, wherever it is put, is all that is added to a text.
LEMMA NoGlyphInserted ==
  ASSUME NEW doc \in Seq(Line), NEW l \in Line, IsGlyphLine(l),
         NEW n \in Nat, n = Len(doc), NEW p \in Nat, p = n + 1, NEW at \in 1..p
  PROVE  /\ InsertAt(doc, at, l) \in Seq(Line)
         /\ NoGlyph(InsertAt(doc, at, l)) = NoGlyph(doc)
<1>1. p = n + 1
  OBVIOUS
<1>2. PICK t : t = InsertAt(doc, at, l)
  OBVIOUS
<1>3. /\ t \in Seq(Line) /\ Len(t) = p /\ DOMAIN t = 1..p /\ DOMAIN doc = 1..n
      /\ t[at] = l
      /\ \A k \in 1..at - 1 : t[k] = doc[k]
      /\ \A k \in at..n : t[k + 1] = doc[k]
  <2>1. /\ InsertAt(doc, at, l) \in Seq(Line)
        /\ Len(InsertAt(doc, at, l)) = p
        /\ DOMAIN InsertAt(doc, at, l) = 1..p
        /\ Inserted(InsertAt(doc, at, l), doc, at, l, n)
    BY InsertAtFacts
  <2>2. DOMAIN doc = 1..n
    BY LenProperties
  <2> QED
    BY <1>1, <1>2, <2>1, <2>2 DEF Inserted
<1>4. PICK I, J : I = Unlisting(doc) /\ J = Unlisting(t)
  OBVIOUS
<1>5. /\ I \subseteq 1..n /\ J \subseteq 1..p
      /\ I \subseteq DOMAIN doc /\ J \subseteq DOMAIN t
      /\ \A i \in 1..n : i \in I <=> ~IsGlyphLine(doc[i])
      /\ \A j \in 1..p : j \in J <=> ~IsGlyphLine(t[j])
  BY <1>3, <1>4 DEF Unlisting
<1>6. PICK g : g = [j \in J |-> IF j < at THEN j ELSE j - 1]
  OBVIOUS
<1>7. ASSUME NEW j \in J
      PROVE  /\ j \in 1..p /\ j # at /\ g[j] \in I /\ t[j] = doc[g[j]]
             /\ g[j] = IF j < at THEN j ELSE j - 1
  <2>1. j \in 1..p /\ ~IsGlyphLine(t[j])
    BY <1>5
  <2>2. j # at
    BY <1>3, <2>1
  <2>3. g[j] = IF j < at THEN j ELSE j - 1
    BY <1>6
  <2>4. g[j] \in 1..n /\ t[j] = doc[g[j]]
    <3>1. CASE j < at
      <4>1. j \in 1..at - 1 /\ j \in 1..n
        BY <2>1, <3>1
      <4> QED
        BY <1>3, <2>3, <3>1, <4>1
    <3>2. CASE ~(j < at)
      <4>1. PICK k : k = j - 1
        OBVIOUS
      <4>2. k \in at..n /\ k + 1 = j /\ k \in 1..n
        BY <1>1, <2>1, <2>2, <3>2, <4>1
      <4>3. t[k + 1] = doc[k]
        BY <1>3, <4>2
      <4>4. g[j] = k
        BY <2>3, <3>2, <4>1
      <4> QED
        BY <4>2, <4>3, <4>4
    <3> QED
      BY <3>1, <3>2
  <2>5. g[j] \in I
    BY <1>5, <2>1, <2>4
  <2> QED
    BY <2>1, <2>2, <2>3, <2>4, <2>5
<1>8. Increasing(g, J)
  <2> SUFFICES ASSUME NEW a \in J, NEW b \in J, a < b PROVE g[a] < g[b]
    BY DEF Increasing
  <2>1. /\ a \in 1..p /\ a # at /\ g[a] = IF a < at THEN a ELSE a - 1
        /\ b \in 1..p /\ b # at /\ g[b] = IF b < at THEN b ELSE b - 1
    BY <1>7
  <2> QED
    BY <1>1, <2>1
<1>9. \A a, b \in J : g[a] = g[b] => a = b
  <2> SUFFICES ASSUME NEW a \in J, NEW b \in J, g[a] = g[b] PROVE a = b
    OBVIOUS
  <2>1. a \in Int /\ b \in Int /\ g[a] \in Int /\ g[b] \in Int
    BY <1>5, <1>7
  <2>2. ~(g[a] < g[b]) /\ ~(g[b] < g[a])
    BY <2>1
  <2> QED
    BY <1>8, <2>1, <2>2 DEF Increasing
<1>10. ASSUME NEW i \in I
       PROVE  \E j \in J : g[j] = i
  <2>1. i \in 1..n /\ ~IsGlyphLine(doc[i])
    BY <1>5
  <2>2. CASE i < at
    <3>1. i \in 1..at - 1 /\ i \in 1..p
      BY <1>1, <2>1, <2>2
    <3>2. t[i] = doc[i]
      BY <1>3, <3>1
    <3>3. i \in J
      BY <1>5, <2>1, <3>1, <3>2
    <3>4. g[i] = i
      BY <1>6, <2>2, <3>3
    <3> QED
      BY <3>3, <3>4
  <2>3. CASE ~(i < at)
    <3>1. PICK j : j = i + 1
      OBVIOUS
    <3>2. i \in at..n /\ j \in 1..p /\ ~(j < at) /\ j - 1 = i
      BY <1>1, <2>1, <2>3, <3>1
    <3>3. t[j] = doc[i]
      BY <1>3, <3>1, <3>2
    <3>4. j \in J
      BY <1>5, <2>1, <3>2, <3>3
    <3>5. g[j] = i
      BY <1>6, <3>2, <3>4
    <3> QED
      BY <3>4, <3>5
  <2> QED
    BY <2>2, <2>3
<1>11. g \in Bijection(J, I)
  <2>1. g \in [J -> I]
    BY <1>6, <1>7
  <2> QED
    BY <1>9, <1>10, <2>1 DEF Bijection, Injection, Surjection, IsInjective
<1>12. /\ Cardinality(J) = Cardinality(I)
       /\ \A k \in 1..Cardinality(J) : Ascending(I)[k] = g[Ascending(J)[k]]
  <2>1. I \subseteq 1..n /\ J \subseteq 1..p
    BY <1>5
  <2>2. /\ Cardinality(J) = Cardinality(I)
        /\ Follows(Ascending(I), Ascending(J), g, Cardinality(J))
    BY <1>8, <1>11, <2>1, Renumbered
  <2> QED
    BY <2>2 DEF Follows
<1>13. PICK r, q : r = Only(doc, I) /\ q = Only(t, J)
  OBVIOUS
<1>14. /\ r \in Seq(Line) /\ Cardinality(I) \in Nat /\ Len(r) = Cardinality(I)
       /\ \A k \in 1..Cardinality(I) : r[k] = doc[Ascending(I)[k]]
  <2>1. I \subseteq DOMAIN doc
    BY <1>5
  <2> QED
    BY <1>13, <2>1, OnlyFacts
<1>15. /\ q \in Seq(Line) /\ Len(q) = Cardinality(J)
       /\ Ascending(J) \in [1..Cardinality(J) -> J]
       /\ \A k \in 1..Cardinality(J) : q[k] = t[Ascending(J)[k]]
  <2>1. t \in Seq(Line) /\ J \subseteq DOMAIN t
    BY <1>3, <1>5
  <2> QED
    BY <1>13, <2>1, OnlyFacts
<1>16. ASSUME NEW k \in 1..Cardinality(I)
       PROVE  r[k] = q[k]
  <2>1. PICK j \in J : j = Ascending(J)[k]
    BY <1>12, <1>15
  <2>2. r[k] = doc[g[j]] /\ q[k] = t[j]
    BY <1>12, <1>14, <1>15, <2>1
  <2> QED
    BY <1>7, <2>2
<1>17. r = q
  BY <1>12, <1>14, <1>15, <1>16, SeqEqual
<1>18. r = NoGlyph(doc) /\ q = NoGlyph(t)
  BY <1>4, <1>13 DEF NoGlyph, Unlisting
<1> QED
  BY <1>2, <1>3, <1>17, <1>18

\* What is written after a text leaves what is kept of it where it was.
LEMMA NoGlyphAppended ==
  ASSUME NEW doc \in Seq(Line), NEW more \in Seq(Line)
  PROVE  doc \o more \in Seq(Line) /\ IsPrefix(NoGlyph(doc), NoGlyph(doc \o more))
<1>1. PICK n \in Nat, m \in Nat : n = Len(doc) /\ m = Len(more) /\ DOMAIN doc = 1..n
  BY LenProperties
<1>2. PICK t : t = doc \o more
  OBVIOUS
<1>3. PICK p \in Nat : p = n + m /\ n <= p
  OBVIOUS
<1>4. /\ t \in Seq(Line) /\ Len(t) = p /\ DOMAIN t = 1..p
      /\ \A k \in 1..n : t[k] = doc[k]
  BY <1>1, <1>2, <1>3, ConcatFacts
<1>5. PICK I, J : I = Unlisting(doc) /\ J = Unlisting(t)
  OBVIOUS
<1>6. /\ I \subseteq 1..n /\ J \subseteq 1..p
      /\ I \subseteq DOMAIN doc /\ J \subseteq DOMAIN t
      /\ \A i \in 1..n : i \in I <=> ~IsGlyphLine(doc[i])
      /\ \A j \in 1..p : j \in J <=> ~IsGlyphLine(t[j])
  BY <1>1, <1>4, <1>5 DEF Unlisting
<1>7. I = J \intersect 1..n
  <2>1. \A i \in 1..n : i \in 1..p
    BY <1>3
  <2> QED
    BY <1>4, <1>6, <2>1
<1>8. /\ Cardinality(I) <= Cardinality(J)
      /\ \A k \in 1..Cardinality(I) : Ascending(I)[k] = Ascending(J)[k]
  <2>1. J \subseteq 1..p
    BY <1>6
  <2>2. /\ Cardinality(I) <= Cardinality(J)
        /\ Agree(Ascending(I), Ascending(J), Cardinality(I))
    BY <1>3, <1>7, <2>1, Leading
  <2> QED
    BY <2>2 DEF Agree
<1>9. PICK r, q : r = Only(doc, I) /\ q = Only(t, J)
  OBVIOUS
<1>10. /\ r \in Seq(Line) /\ Cardinality(I) \in Nat /\ Len(r) = Cardinality(I)
       /\ Ascending(I) \in [1..Cardinality(I) -> I]
       /\ \A k \in 1..Cardinality(I) : r[k] = doc[Ascending(I)[k]]
  <2>1. I \subseteq DOMAIN doc
    BY <1>6
  <2> QED
    BY <1>9, <2>1, OnlyFacts
<1>11. /\ q \in Seq(Line) /\ Cardinality(J) \in Nat /\ Len(q) = Cardinality(J)
       /\ \A k \in 1..Cardinality(J) : q[k] = t[Ascending(J)[k]]
  <2>1. t \in Seq(Line) /\ J \subseteq DOMAIN t
    BY <1>4, <1>6
  <2> QED
    BY <1>9, <2>1, OnlyFacts
<1>12. ASSUME NEW k \in 1..Cardinality(I)
       PROVE  r[k] = q[k]
  <2>1. PICK i \in I : i = Ascending(I)[k]
    BY <1>10
  <2>2. i \in 1..n /\ i = Ascending(J)[k]
    BY <1>6, <1>8, <2>1
  <2>3. k \in 1..Cardinality(J)
    BY <1>8, <1>10, <1>11
  <2> QED
    BY <1>4, <1>10, <1>11, <2>1, <2>2, <2>3
<1>13. IsPrefix(r, q)
  BY <1>8, <1>10, <1>11, <1>12, PrefixIntro
<1>14. r = NoGlyph(doc) /\ q = NoGlyph(t)
  BY <1>5, <1>9 DEF NoGlyph, Unlisting
<1> QED
  BY <1>2, <1>4, <1>13, <1>14

----------------------------------------------------------------------------
(* FlattenSeq.                                                             *)

\* f[i] is the concatenation of the first i sequences of ss.
Flattens(f, ss, m) ==
  f = [i \in 1..m |-> IF i = 1 THEN ss[i] ELSE f[i - 1] \o ss[i]]

LEMMA FlattenPrefixes ==
  ASSUME NEW S, NEW ss \in Seq(Seq(S)), NEW n \in Nat, n = Len(ss), n # 0
  PROVE  \E f : /\ Flattens(f, ss, n) /\ FlattenSeq(ss) = f[n]
               /\ \A m \in 1..n : f[m] \in Seq(S)
<1>1. \A i \in 1..n : ss[i] \in Seq(S)
  BY LenProperties, ElementOfSeq
<1>2. \A m \in 1..n : \E f : Flattens(f, ss, m)
  <2>1. PICK Bad : Bad = {m \in 1..n : ~ \E f : Flattens(f, ss, m)}
    OBVIOUS
  <2>2. CASE Bad = {}
    BY <2>1, <2>2
  <2>3. CASE Bad # {}
    <3>1. PICK m \in Bad : \A j \in Bad : m <= j
      <4>1. Bad \subseteq Nat
        BY <2>1
      <4> QED
        BY <2>3, <4>1, LeastNat
    <3>2. m \in 1..n /\ ~ \E f : Flattens(f, ss, m)
      BY <2>1
    <3>3. CASE m = 1
      <4>1. PICK f : f = [i \in 1..1 |-> ss[i]]
        OBVIOUS
      <4>2. \A i \in 1..1 : i = 1
        OBVIOUS
      <4>3. f = [i \in 1..1 |-> IF i = 1 THEN ss[i] ELSE f[i - 1] \o ss[i]]
        BY <4>1, <4>2
      <4> QED
        BY <3>2, <3>3, <4>3 DEF Flattens
    <3>4. CASE m # 1
      <4>1. PICK k : k = m - 1
        OBVIOUS
      <4>2. k \in 1..n /\ k < m /\ 1..k \subseteq 1..m /\ k \in 1..k
        BY <3>2, <3>4, <4>1
      <4>3. k \notin Bad
        BY <3>1, <3>2, <4>2
      <4>4. PICK f : Flattens(f, ss, k)
        BY <2>1, <4>2, <4>3
      <4>5. PICK g : g = [i \in 1..m |-> IF i = m THEN f[k] \o ss[i] ELSE f[i]]
        OBVIOUS
      <4>6. ASSUME NEW i \in 1..m
            PROVE  g[i] = IF i = 1 THEN ss[i] ELSE g[i - 1] \o ss[i]
        <5>1. CASE i = m
          <6>1. g[i] = f[k] \o ss[i]
            BY <4>5, <5>1
          <6>2. i - 1 = k /\ k \in 1..m /\ k # m
            BY <3>2, <4>1, <4>2, <5>1
          <6>3. g[k] = f[k]
            BY <4>5, <6>2
          <6> QED
            BY <3>4, <5>1, <6>1, <6>2, <6>3
        <5>2. CASE i # m
          <6>1. i \in 1..k
            BY <3>2, <4>1, <5>2
          <6>2. g[i] = f[i]
            BY <4>5, <5>2
          <6>3. f[i] = IF i = 1 THEN ss[i] ELSE f[i - 1] \o ss[i]
            BY <4>4, <6>1 DEF Flattens
          <6>4. ASSUME i # 1
                PROVE  g[i - 1] = f[i - 1]
            <7>1. i - 1 \in 1..m /\ i - 1 # m
              BY <3>2, <4>1, <6>1, <6>4
            <7> QED
              BY <4>5, <7>1
          <6> QED
            BY <6>2, <6>3, <6>4
        <5> QED
          BY <5>1, <5>2
      <4>7. Flattens(g, ss, m)
        <5>1. g = [i \in 1..m |-> g[i]]
          BY <4>5
        <5> QED
          BY <4>6, <5>1 DEF Flattens
      <4> QED
        BY <3>2, <4>7
    <3> QED
      BY <3>3, <3>4
  <2> QED
    BY <2>2, <2>3
<1>3. PICK f : f = CHOOSE g : Flattens(g, ss, n)
  OBVIOUS
<1>4. Flattens(f, ss, n)
  <2>1. \E g : Flattens(g, ss, n)
    <3>1. n \in 1..n
      OBVIOUS
    <3> QED
      BY <1>2, <3>1
  <2> QED
    BY <1>3, <2>1
<1>5. FlattenSeq(ss) = f[n]
  BY <1>1, <1>3 DEF FlattenSeq, Flattens
<1>6. \A m \in 1..n : f[m] \in Seq(S)
  <2>1. PICK Bad : Bad = {m \in 1..n : f[m] \notin Seq(S)}
    OBVIOUS
  <2>2. CASE Bad = {}
    BY <2>1, <2>2
  <2>3. CASE Bad # {}
    <3>1. PICK m \in Bad : \A j \in Bad : m <= j
      <4>1. Bad \subseteq Nat
        BY <2>1
      <4> QED
        BY <2>3, <4>1, LeastNat
    <3>2. m \in 1..n /\ f[m] \notin Seq(S)
      BY <2>1
    <3>3. f[m] = IF m = 1 THEN ss[m] ELSE f[m - 1] \o ss[m]
      BY <1>4, <3>2 DEF Flattens
    <3>4. ss[m] \in Seq(S)
      BY <1>1, <3>2
    <3>5. m # 1
      BY <3>2, <3>3, <3>4
    <3>6. PICK k : k = m - 1
      OBVIOUS
    <3>7. k \in 1..n /\ k < m
      BY <3>2, <3>5, <3>6
    <3>8. f[k] \in Seq(S)
      BY <2>1, <3>1, <3>2, <3>7
    <3>9. f[k] \o ss[m] \in Seq(S)
      BY <3>4, <3>8, ConcatProperties
    <3> QED
      BY <3>2, <3>3, <3>5, <3>6, <3>9
  <2> QED
    BY <2>2, <2>3
<1> QED
  BY <1>4, <1>5, <1>6

LEMMA FlattenType ==
  ASSUME NEW S, NEW ss \in Seq(Seq(S))
  PROVE  FlattenSeq(ss) \in Seq(S)
<1>1. PICK n \in Nat : n = Len(ss)
  BY LenProperties
<1>2. CASE n = 0
  <2>1. ss = <<>> /\ FlattenSeq(ss) = ss
    BY <1>1, <1>2, EmptySeq DEF FlattenSeq
  <2> QED
    BY <2>1, EmptySeq
<1>3. CASE n # 0
  <2>1. n \in 1..n
    BY <1>3
  <2> QED
    BY <1>1, <1>3, <2>1, FlattenPrefixes
<1> QED
  BY <1>2, <1>3

----------------------------------------------------------------------------
(* The types of the data.                                                  *)

Value == LineValue \union {Map}
Entry == [path : Seq(Name) \ {<<>>}, value : Value]

\* A line that names glyph, if it does, as an item: not `enabled: [glyph]'.
BlockLine == {l \in Line : ~Contains(l.value.items, Glyph)}

LEMMA ValueTypes ==
  /\ {Block, Null, Scalar} \subseteq LineValue /\ Map \in Value
  /\ \A s \in Seq(Name) : List(s) \in LineValue
  /\ \A v \in Value : v.items \in Seq(Name)
  /\ \A v \in Value : v.type # "list" => v.items = <<>>
<1>1. <<>> \in Seq(Name)
  BY EmptySeq
<1>2. {Block, Null, Scalar} \subseteq LineValue /\ Map \in Value
  BY DEF LineValue, Value
<1>3. \A s \in Seq(Name) : List(s) \in LineValue
  BY DEF List, LineValue
<1>4. /\ Block.items = <<>> /\ Null.items = <<>> /\ Scalar.items = <<>> /\ Map.items = <<>>
  BY DEF Block, Null, Scalar, Map
<1>5. \A v \in [type : {"list"}, items : Seq(Name)] : v.items \in Seq(Name) /\ v.type = "list"
  OBVIOUS
<1> QED
  BY <1>1, <1>2, <1>3, <1>4, <1>5 DEF Value, LineValue

LEMMA LineTypes ==
  /\ \A ind \in Nat, name \in Name, value \in LineValue :
       /\ Key(ind, name, value) \in Line
       /\ value.items = <<>> => Key(ind, name, value) \in BlockLine
  /\ \A ind \in Nat, name \in Name : Item(ind, name) \in BlockLine
  /\ \A ind \in Nat : Item(ind, Glyph) \in BlockLine /\ IsGlyphLine(Item(ind, Glyph))
<1>1. Scalar \in LineValue /\ Glyph \in Name /\ Scalar.items = <<>>
  BY ValueTypes, PluginSetupAssumption DEF Scalar
<1>2. ~Contains(<<>>, Glyph)
  BY EmptySeq DEF Contains
<1>3. \A ind \in Nat, name \in Name, value \in LineValue :
        Key(ind, name, value) \in Line /\ Key(ind, name, value).value = value
  BY DEF Key, Line
<1>4. \A ind \in Nat, name \in Name :
        Item(ind, name) \in Line /\ Item(ind, name).value = Scalar
  BY <1>1 DEF Item, Line
<1>5. \A ind \in Nat : IsGlyphLine(Item(ind, Glyph))
  BY DEF IsGlyphLine, IsItem, Item
<1> QED
  BY <1>1, <1>2, <1>3, <1>4, <1>5 DEF BlockLine

LEMMA BlockLines ==
  /\ BlockLine \subseteq Line
  /\ \A doc \in Seq(BlockLine) : doc \in Seq(Line)
<1>1. BlockLine \subseteq Line
  BY DEF BlockLine
<1>2. ASSUME NEW doc \in Seq(BlockLine)
      PROVE  doc \in Seq(Line)
  <2>1. PICK n \in Nat : doc \in [1..n -> BlockLine]
    BY LenProperties
  <2>2. doc \in [1..n -> Line]
    BY <1>1, <2>1
  <2> QED
    BY <2>2, SeqDef
<1> QED
  BY <1>1, <1>2

LEMMA NamesType ==
  ASSUME NEW L \in Seq(Line), NEW I, I \subseteq DOMAIN L
  PROVE  /\ Names(L, I) \in Seq(Name) /\ Cardinality(I) \in Nat
         /\ Len(Names(L, I)) = Cardinality(I)
<1>1. PICK n \in Nat : n = Len(L) /\ DOMAIN L = 1..n /\ L \in [1..n -> Line]
  BY LenProperties
<1>2. PICK m, at : m = Cardinality(I) /\ at = Ascending(I)
  OBVIOUS
<1>3. m \in Nat /\ at \in [1..m -> I]
  BY <1>1, <1>2, AscendingFacts
<1>4. PICK t : t = [k \in 1..m |-> L[at[k]].name]
  OBVIOUS
<1>5. t = Names(L, I)
  <2>1. DOMAIN at = 1..m
    BY <1>3
  <2> QED
    BY <1>2, <1>4, <2>1 DEF Names
<1>6. t \in [1..m -> Name]
  <2>1. \A k \in 1..m : L[at[k]] \in Line
    BY <1>1, <1>3
  <2>2. \A l \in Line : l.name \in Name
    BY DEF Line
  <2> QED
    BY <1>4, <2>1, <2>2
<1>7. t \in Seq(Name)
  BY <1>3, <1>6, SeqDef
<1> QED
  BY <1>2, <1>3, <1>5, <1>6, <1>7, LenProperties

LEMMA LoadType ==
  ASSUME NEW doc \in Seq(Line)
  PROVE  Load(doc) \in Seq(Entry)
<1>1. PICK L : L = Significant(doc)
  OBVIOUS
<1>2. L \in Seq(Line)
  <2>1. {i \in DOMAIN doc : ~IsNote(doc[i])} \subseteq DOMAIN doc
    OBVIOUS
  <2> QED
    BY <1>1, <2>1, OnlyFacts DEF Significant
<1>3. PICK n \in Nat : n = Len(L) /\ DOMAIN L = 1..n /\ L \in [1..n -> Line]
  BY <1>2, LenProperties
<1>4. PICK K : K = {i \in DOMAIN L : IsKey(L[i])}
  OBVIOUS
<1>5. PICK m, keys : m = Cardinality(K) /\ keys = Ascending(K)
  OBVIOUS
<1>6. m \in Nat /\ keys \in [1..m -> K] /\ K \subseteq 1..n
  BY <1>3, <1>4, <1>5, AscendingFacts
<1>7. ASSUME NEW i \in 1..n
      PROVE  /\ Names(L, Ancestors(L, i)) \in Seq(Name) \ {<<>>}
             /\ (IF L[i].value = Block THEN Below(L, i) ELSE L[i].value) \in Value
  <2>1. PICK A : A = Ancestors(L, i)
    OBVIOUS
  <2>2. A \subseteq DOMAIN L /\ i \in A
    BY <1>3, <2>1 DEF Ancestors
  <2>3. Names(L, A) \in Seq(Name) /\ Len(Names(L, A)) = Cardinality(A) /\ Cardinality(A) \in Nat
    BY <1>2, <2>2, NamesType
  <2>4. Names(L, A) # <<>>
    <3>1. IsFiniteSet(A)
      BY <1>3, <2>2, RankType
    <3>2. Cardinality(A) # 0
      BY <2>2, <3>1, FS_EmptySet
    <3> QED
      BY <2>3, <3>2, EmptySeq
  <2>5. Below(L, i) \in Value
    <3>1. PICK items : items = {j \in Children(L, i) : IsItem(L[j])}
      OBVIOUS
    <3>2. items \subseteq DOMAIN L
      BY <3>1 DEF Children
    <3>3. Names(L, items) \in Seq(Name)
      BY <1>2, <3>2, NamesType
    <3>4. Null \in Value /\ Map \in Value /\ List(Names(L, items)) \in Value
      BY <3>3, ValueTypes DEF Value
    <3> QED
      BY <3>1, <3>4 DEF Below
  <2>6. L[i].value \in Value
    BY <1>3 DEF Line, Value
  <2> QED
    BY <2>1, <2>3, <2>4, <2>5, <2>6
<1>8. PICK t : t = [k \in 1..m |->
         [path |-> Names(L, Ancestors(L, keys[k])),
          value |-> IF L[keys[k]].value = Block THEN Below(L, keys[k])
                    ELSE L[keys[k]].value]]
  OBVIOUS
<1>9. t = Load(doc)
  <2>1. DOMAIN keys = 1..m
    BY <1>6
  <2> QED
    BY <1>1, <1>4, <1>5, <1>8, <2>1 DEF Load
<1>10. t \in [1..m -> Entry]
  <2>1. ASSUME NEW k \in 1..m
        PROVE  t[k] \in Entry
    <3>1. PICK i \in 1..n : i = keys[k]
      BY <1>6
    <3>2. t[k] = [path |-> Names(L, Ancestors(L, i)),
                  value |-> IF L[i].value = Block THEN Below(L, i) ELSE L[i].value]
      BY <1>8, <3>1
    <3> QED
      BY <1>7, <3>2 DEF Entry
  <2> QED
    BY <1>8, <2>1
<1> QED
  BY <1>6, <1>9, <1>10, SeqDef

LEMMA SetType ==
  ASSUME NEW data \in Seq(Entry), NEW path \in Seq(Name) \ {<<>>}, NEW value \in Value
  PROVE  Set(data, path, value) \in Seq(Entry)
<1>1. PICK n \in Nat : n = Len(data) /\ DOMAIN data = 1..n /\ data \in [1..n -> Entry]
  BY LenProperties
<1>2. PICK e \in Entry : e = [path |-> path, value |-> value]
  BY DEF Entry
<1>3. PICK t : t = [k \in 1..n |-> IF data[k].path = path THEN e ELSE data[k]]
  OBVIOUS
<1>4. t = Set(data, path, value)
  BY <1>1, <1>2, <1>3 DEF Set
<1>5. t \in [1..n -> Entry]
  BY <1>1, <1>3
<1> QED
  BY <1>4, <1>5, SeqDef

LEMMA PathTypes ==
  /\ Plugins \in Seq(Name) \ {<<>>} /\ Enabled \in Seq(Name) \ {<<>>}
  /\ IsPrefix(Plugins, Plugins)
<1>1. Plugins \in Seq(Name) \ {<<>>} /\ Enabled \in Seq(Name) \ {<<>>}
  <2>1. PICK a \in Name, b \in Name : a = "plugins" /\ b = "enabled"
    BY PluginSetupAssumption
  <2>2. <<a>> \in Seq(Name) /\ <<a>> # <<>> /\ <<a, b>> \in Seq(Name) /\ <<a, b>> # <<>>
    OBVIOUS
  <2> QED
    BY <2>1, <2>2 DEF Plugins, Enabled
<1>2. Len(Plugins) <= Len(Plugins)
  BY <1>1, LenProperties
<1> QED
  BY <1>1, <1>2, PrefixIntro

LEMMA EnabledListType ==
  ASSUME NEW data \in Seq(Entry)
  PROVE  EnabledList(data) \in Seq(Name)
<1>1. CASE Has(data, Enabled)
  <2>1. PICK n : n = CHOOSE k \in DOMAIN data : data[k].path = Enabled
    OBVIOUS
  <2>2. n \in DOMAIN data
    BY <1>1, <2>1 DEF Has
  <2>3. data[n] \in Entry
    BY <2>2, LenProperties
  <2>4. data[n].value \in Value
    BY <2>3 DEF Entry
  <2> QED
    BY <1>1, <2>1, <2>4, ValueTypes DEF EnabledList, At
<1>2. CASE ~Has(data, Enabled)
  BY <1>2, EmptySeq DEF EnabledList
<1> QED
  BY <1>1, <1>2

LEMMA WithoutGlyphType ==
  ASSUME NEW data \in Seq(Entry)
  PROVE  WithoutGlyph(data) \in Seq(Entry)
<1>1. PICK s : s = EnabledList(data) /\ s \in Seq(Name)
  BY EnabledListType
<1>2. PICK I : I = {i \in DOMAIN s : s[i] # Glyph} /\ I \subseteq DOMAIN s
  OBVIOUS
<1>3. Only(s, I) \in Seq(Name)
  BY <1>1, <1>2, OnlyFacts
<1>4. Unlisted(s) \in Seq(Name)
  BY <1>2, <1>3 DEF Unlisted
<1>5. List(Unlisted(s)) \in Value
  BY <1>4, ValueTypes DEF Value
<1> QED
  BY <1>1, <1>5, PathTypes, SetType DEF WithoutGlyph

\* The entry plugins.enabled goes behind the last one below plugins.
LEMMA WithGlyphType ==
  ASSUME NEW data \in Seq(Entry), Has(data, Plugins)
  PROVE  WithGlyph(data) \in Seq(Entry)
<1>1. PICK n \in Nat : n = Len(data) /\ DOMAIN data = 1..n
  BY LenProperties
<1>2. PICK list : list = List(Append(EnabledList(data), Glyph))
  OBVIOUS
<1>3. list \in Value
  <2>1. Append(EnabledList(data), Glyph) \in Seq(Name)
    BY EnabledListType, AppendProperties, PluginSetupAssumption
  <2> QED
    BY <1>2, <2>1, ValueTypes DEF Value
<1>4. PICK others : others = Only(data, {k \in DOMAIN data : data[k].path = Enabled
                                                   \/ ~IsPrefix(Enabled, data[k].path)})
  OBVIOUS
<1>5. others \in Seq(Entry)
  <2>1. PICK I : I = {k \in DOMAIN data : data[k].path = Enabled
                                            \/ ~IsPrefix(Enabled, data[k].path)}
    OBVIOUS
  <2>2. I \subseteq DOMAIN data
    BY <2>1
  <2> QED
    BY <1>4, <2>1, <2>2, OnlyFacts
<1>6. Set(others, Enabled, list) \in Seq(Entry)
  BY <1>3, <1>5, PathTypes, SetType
<1>7. PICK B, end : B = {k \in DOMAIN data : IsPrefix(Plugins, data[k].path)} /\ end = Max(B)
  OBVIOUS
<1>8. end \in 1..n
  <2>1. B \subseteq 0..n /\ B \subseteq 1..n
    BY <1>1, <1>7
  <2>2. B # {}
    BY <1>7, PathTypes DEF Has
  <2> QED
    BY <1>7, <2>1, <2>2, MaxIn
<1>9. PICK e \in Entry : e = [path |-> Enabled, value |-> list]
  BY <1>3, PathTypes DEF Entry
<1>10. InsertAt(data, end + 1, e) \in Seq(Entry)
  <2>1. PICK p \in Nat, at \in Nat : p = n + 1 /\ at = end + 1 /\ at \in 1..p
    BY <1>8
  <2>2. InsertAt(data, at, e) \in Seq(Entry)
    BY <1>1, <2>1, InsertAtFacts
  <2> QED
    BY <2>1, <2>2
<1>11. PICK x : x = IF Has(data, Enabled) THEN Set(others, Enabled, list)
                    ELSE InsertAt(data, end + 1, e)
  OBVIOUS
<1>12. x \in Seq(Entry)
  BY <1>6, <1>10, <1>11
<1>13. WithGlyph(data) = Set(x, Plugins, Map)
  BY <1>2, <1>4, <1>7, <1>9, <1>11 DEF WithGlyph
<1> QED
  BY <1>12, <1>13, PathTypes, ValueTypes, SetType

\* The lines for one key: the key and, if it has any, the items of its list.
Spelled(v) == v.type = "list" /\ v.items # <<>>
Ind(e) == 2 * (Len(e.path) - 1)
KeyLine(e) ==
  Key(Ind(e), Last(e.path), IF Spelled(e.value) \/ e.value = Map THEN Block ELSE e.value)
EntryLines(e) ==
  <<KeyLine(e)>> \o IF Spelled(e.value)
                  THEN [k \in DOMAIN e.value.items |-> Item(Ind(e), e.value.items[k])]
                  ELSE <<>>

\* What is re-serialized has its lists, but for empty ones, on lines of their own.
LEMMA EntryLinesType ==
  ASSUME NEW e \in Entry
  PROVE  EntryLines(e) \in Seq(BlockLine)
<1>1. PICK path, v : path = e.path /\ v = e.value
  OBVIOUS
<1>2. path \in Seq(Name) /\ path # <<>> /\ v \in Value
  BY <1>1 DEF Entry
<1>3. PICK m \in Nat : m = Len(path) /\ m # 0
  BY <1>2, EmptySeq, LenProperties
<1>4. PICK ind \in Nat : ind = 2 * (Len(path) - 1)
  BY <1>3
<1>5. Last(path) \in Name
  <2>1. m \in 1..Len(path)
    BY <1>3
  <2> QED
    BY <1>2, <1>3, <2>1, ElementOfSeq DEF Last
<1>6. PICK listed : listed = Spelled(v)
  OBVIOUS
<1>7. PICK w : w = IF listed \/ v = Map THEN Block ELSE v
  OBVIOUS
<1>8. w \in LineValue /\ w.items = <<>>
  <2>1. CASE listed \/ v = Map
    BY <1>7, <2>1, ValueTypes DEF Block
  <2>2. CASE ~(listed \/ v = Map)
    <3>1. w = v /\ v \in LineValue
      BY <1>2, <1>7, <2>2 DEF Value
    <3>2. v.items = <<>>
      BY <1>2, <1>6, <2>2, ValueTypes DEF Spelled
    <3> QED
      BY <3>1, <3>2
  <2> QED
    BY <2>1, <2>2
<1>9. Key(ind, Last(path), w) \in BlockLine
  BY <1>5, <1>8, LineTypes
<1>10. PICK one : one = <<Key(ind, Last(path), w)>> /\ one \in Seq(BlockLine)
  <2>1. PICK l \in BlockLine : l = Key(ind, Last(path), w)
    BY <1>9
  <2>2. <<l>> \in Seq(BlockLine)
    OBVIOUS
  <2> QED
    BY <2>1, <2>2
<1>11. PICK items : items = [k \in DOMAIN v.items |-> Item(ind, v.items[k])]
  OBVIOUS
<1>12. items \in Seq(BlockLine)
  <2>1. PICK s : s = v.items /\ s \in Seq(Name)
    BY <1>2, ValueTypes
  <2>2. PICK q \in Nat : q = Len(s) /\ DOMAIN s = 1..q /\ s \in [1..q -> Name]
    BY <2>1, LenProperties
  <2>3. \A k \in 1..q : Item(ind, s[k]) \in BlockLine
    BY <2>2, LineTypes
  <2>4. items \in [1..q -> BlockLine]
    BY <1>11, <2>1, <2>2, <2>3
  <2> QED
    BY <2>4, SeqDef
<1>13. PICK rest : rest = (IF listed THEN items ELSE <<>>) /\ rest \in Seq(BlockLine)
  BY <1>12, EmptySeq
<1>14. one \o rest \in Seq(BlockLine)
  BY <1>10, <1>13, ConcatProperties
<1>15. EntryLines(e) = one \o rest
  BY <1>1, <1>4, <1>6, <1>7, <1>10, <1>11, <1>13 DEF EntryLines, KeyLine, Ind, Spelled
<1> QED
  BY <1>14, <1>15

LEMMA DumpFlattens ==
  ASSUME NEW data \in Seq(Entry), NEW n \in Nat, n = Len(data)
  PROVE  \E ss \in Seq(Seq(BlockLine)) :
           /\ Dump(data) = FlattenSeq(ss) /\ Len(ss) = n
           /\ \A k \in 1..n : ss[k] = EntryLines(data[k])
<1>1. DOMAIN data = 1..n /\ data \in [1..n -> Entry]
  BY LenProperties
<1>2. PICK ss : ss = [k \in 1..n |-> EntryLines(data[k])]
  OBVIOUS
<1>3. Dump(data) = FlattenSeq(ss)
  BY <1>1, <1>2 DEF Dump, EntryLines, KeyLine, Ind, Spelled
<1>4. ss \in [1..n -> Seq(BlockLine)]
  BY <1>1, <1>2, EntryLinesType
<1>5. ss \in Seq(Seq(BlockLine))
  BY <1>4, SeqDef
<1>6. Len(ss) = n
  BY <1>4, <1>5, LenProperties
<1> QED
  BY <1>2, <1>3, <1>5, <1>6

LEMMA DumpType ==
  ASSUME NEW data \in Seq(Entry)
  PROVE  Dump(data) \in Seq(BlockLine)
<1>1. PICK n \in Nat : n = Len(data)
  BY LenProperties
<1> QED
  BY <1>1, DumpFlattens, FlattenType

----------------------------------------------------------------------------
(* The edits.                                                              *)

LEMMA BlockType ==
  <<Key(0, "plugins", Block), Key(2, "enabled", Block), Item(4, Glyph)>> \in Seq(BlockLine)
<1>1. Key(0, "plugins", Block) \in BlockLine /\ Key(2, "enabled", Block) \in BlockLine
  BY LineTypes, ValueTypes, PluginSetupAssumption DEF Block
<1>2. Item(4, Glyph) \in BlockLine
  BY LineTypes
<1> QED
  BY <1>1, <1>2

LEMMA AppendKeeps ==
  ASSUME NEW doc \in Seq(Line)
  PROVE  /\ AppendPluginsBlock(doc) \in Seq(Line)
         /\ IsPrefix(NoGlyph(doc), NoGlyph(AppendPluginsBlock(doc)))
BY BlockType, BlockLines, NoGlyphAppended DEF AppendPluginsBlock

\* An insertion puts a line for glyph somewhere into the text.
LEMMA InsertPlace ==
  ASSUME NEW doc \in Seq(Line), InsertIntoEnabled(doc) # NoEdit
  PROVE  \E n, p, at, ind \in Nat :
           /\ n = Len(doc) /\ p = n + 1 /\ at \in 1..p
           /\ InsertIntoEnabled(doc) = InsertAt(doc, at, Item(ind, Glyph))
<1>1. PICK n \in Nat : n = Len(doc) /\ DOMAIN doc = 1..n /\ doc \in [1..n -> Line]
  BY LenProperties
<1>2. PICK plugins : plugins = {i \in DOMAIN doc : IsKey(doc[i]) /\ doc[i].ind = 0
                                 /\ doc[i].name = "plugins" /\ doc[i].value = Block}
  OBVIOUS
<1>3. PICK enabled : enabled = {i \in Region(doc, Min(plugins), 0) :
                                  IsKey(doc[i]) /\ doc[i].name = "enabled"}
  OBVIOUS
<1>4. PICK e, body : e = Min(enabled) /\ body = Region(doc, e, doc[e].ind)
  OBVIOUS
<1>5. PICK ind, at : /\ ind = IF body = {} THEN doc[e].ind + 2 ELSE doc[Min(body)].ind
                     /\ at = Max(body \union {e}) + 1
  OBVIOUS
<1>6. InsertIntoEnabled(doc) =
        IF plugins = {} \/ enabled = {} THEN NoEdit
        ELSE IF doc[e].value # Block \/ \E i \in body : ~IsItem(doc[i]) THEN NoEdit
        ELSE InsertAt(doc, at, Item(ind, Glyph))
  BY <1>2, <1>3, <1>4, <1>5 DEF InsertIntoEnabled
<1>7. /\ plugins # {} /\ enabled # {}
      /\ InsertIntoEnabled(doc) = InsertAt(doc, at, Item(ind, Glyph))
  BY <1>6
<1>8. PICK i \in 1..n : i = Min(plugins)
  <2>1. plugins \subseteq 1..n /\ plugins \subseteq Nat
    BY <1>1, <1>2
  <2> QED
    BY <1>7, <2>1, MinIn
<1>9. enabled \subseteq 1..n /\ enabled \subseteq Nat
  BY <1>1, <1>3, <1>8 DEF Region
<1>10. e \in 1..n
  BY <1>4, <1>7, <1>9, MinIn
<1>11. body \subseteq 1..n /\ body \subseteq Nat
  BY <1>1, <1>4, <1>10 DEF Region
<1>12. at - 1 \in 1..n /\ at = (at - 1) + 1
  <2>1. body \union {e} \subseteq 0..n /\ body \union {e} # {}
    BY <1>10, <1>11
  <2>2. Max(body \union {e}) \in body \union {e}
    BY <2>1, MaxIn
  <2>3. Max(body \union {e}) \in 1..n
    BY <1>10, <1>11, <2>2
  <2> QED
    BY <1>5, <2>3
<1>13. ind \in Nat
  <2>1. \A l \in Line : l.ind \in Nat
    BY DEF Line
  <2>2. body # {} => Min(body) \in 1..n
    BY <1>11, MinIn
  <2>3. doc[e].ind \in Nat /\ (body # {} => doc[Min(body)].ind \in Nat)
    BY <1>1, <1>10, <2>1, <2>2
  <2> QED
    BY <1>5, <2>3
<1>14. PICK p \in Nat : p = n + 1 /\ at \in 1..p
  BY <1>12
<1>15. at \in Nat
  BY <1>14
<1> QED
  BY <1>1, <1>7, <1>13, <1>14, <1>15

LEMMA InsertKeeps ==
  ASSUME NEW doc \in Seq(Line), InsertIntoEnabled(doc) # NoEdit
  PROVE  /\ InsertIntoEnabled(doc) \in Seq(Line)
         /\ NoGlyph(InsertIntoEnabled(doc)) = NoGlyph(doc)
<1>1. PICK n, p, at, ind \in Nat :
        /\ n = Len(doc) /\ p = n + 1 /\ at \in 1..p
        /\ InsertIntoEnabled(doc) = InsertAt(doc, at, Item(ind, Glyph))
  BY InsertPlace
<1>2. PICK l \in Line : l = Item(ind, Glyph) /\ IsGlyphLine(l)
  BY LineTypes, BlockLines
<1>3. /\ InsertAt(doc, at, l) \in Seq(Line)
      /\ NoGlyph(InsertAt(doc, at, l)) = NoGlyph(doc)
  BY <1>1, <1>2, NoGlyphInserted
<1> QED
  BY <1>1, <1>2, <1>3

\* Every edit makes a text of a text ...
LEMMA EditedType ==
  ASSUME NEW doc \in Seq(Line), NEW op \in {"enable", "disable"}
  PROVE  Edited(op, doc) \in Seq(Line)
<1>1. PICK data : data = Load(doc) /\ data \in Seq(Entry)
  BY LoadType
<1>2. NoGlyph(doc) \in Seq(Line) /\ Dump(WithoutGlyph(data)) \in Seq(Line)
  BY <1>1, NoGlyphType, WithoutGlyphType, DumpType, BlockLines
<1>3. RemoveGlyphLine(doc) # NoEdit => RemoveGlyphLine(doc) \in Seq(Line)
  BY <1>2 DEF RemoveGlyphLine
<1>4. AppendPluginsBlock(doc) \in Seq(Line)
  BY AppendKeeps
<1>5. InsertIntoEnabled(doc) # NoEdit => InsertIntoEnabled(doc) \in Seq(Line)
  BY InsertKeeps
<1>6. Has(data, Plugins) => Dump(WithGlyph(data)) \in Seq(Line)
  BY <1>1, WithGlyphType, DumpType, BlockLines
<1> QED
  BY <1>1, <1>2, <1>3, <1>4, <1>5, <1>6 DEF Edited

\* ... and, unless it re-serializes, keeps its lines.
LEMMA EditedKeeps ==
  ASSUME NEW doc \in Seq(Line), NEW op \in {"enable", "disable"}, ~Reserializes(op, doc)
  PROVE  IsPrefix(NoGlyph(doc), NoGlyph(Edited(op, doc)))
<1>1. NoGlyph(doc) \in Seq(Line)
  BY NoGlyphType
<1>2. IsPrefix(NoGlyph(doc), NoGlyph(doc))
  <2>1. Len(NoGlyph(doc)) <= Len(NoGlyph(doc))
    BY <1>1, LenProperties
  <2> QED
    BY <1>1, <2>1, PrefixIntro
<1>3. CASE op = "disable"
  <2>1. Edited(op, doc) = NoGlyph(doc)
    BY <1>3 DEF Edited, Reserializes, RemoveGlyphLine
  <2>2. NoGlyph(NoGlyph(doc)) = NoGlyph(doc)
    BY NoGlyphTwice
  <2> QED
    BY <1>2, <2>1, <2>2
<1>4. CASE op = "enable" /\ ~Has(Load(doc), Plugins)
  <2>1. Edited(op, doc) = AppendPluginsBlock(doc)
    BY <1>4 DEF Edited
  <2> QED
    BY <2>1, AppendKeeps
<1>5. CASE op = "enable" /\ Has(Load(doc), Plugins)
  <2>1. InsertIntoEnabled(doc) # NoEdit
    BY <1>5 DEF Reserializes
  <2>2. Edited(op, doc) = InsertIntoEnabled(doc)
    BY <1>5, <2>1 DEF Edited
  <2> QED
    BY <1>2, <2>1, <2>2, InsertKeeps
<1> QED
  BY <1>3, <1>4, <1>5

----------------------------------------------------------------------------
(* The invariant.                                                          *)

\* A command writes the edit of the text it read.
CommandInv ==
  /\ cmd \in [pc : {"idle", "backup", "write", "check"}, op : {"none", "enable", "disable"},
              text : Seq(Line) \union {NoFile}, new : Seq(Line) \union {NoEdit}]
  /\ cmd.pc \in {"backup", "check"} => cmd.text # NoFile
  /\ cmd.pc \in {"backup", "write", "check"} => cmd.op \in {"enable", "disable"}
  /\ cmd.pc = "write" /\ cmd.text = NoFile => cmd.op = "enable"
  /\ cmd.pc = "write" =>
       cmd.new = IF cmd.text = NoFile THEN AppendPluginsBlock(<<>>)
                 ELSE Edited(cmd.op, cmd.text)

\* Unless the owner edits meanwhile, the text read is the text of the file, and
\* it is the owner's or was backed up.
OwnerInv ==
  /\ user # NoFile \/ cmd.pc = "check" => file # NoFile
  /\ clean =>
       /\ cmd.pc \in {"backup", "write"} => cmd.text = file
       /\ cmd.pc = "write" /\ cmd.text # NoFile => backups > 0
       /\ user # NoFile /\ backups = 0 => file = user

SetupInv == TypeOK /\ CommandInv /\ OwnerInv /\ OwnersTextSurvives

LEMMA Absent == NoFile \notin Seq(Line) /\ NoEdit \notin Seq(Line)
BY PluginSetupAssumption

LEMMA OwnersLinesType ==
  ASSUME NEW doc \in Seq(Line) \union {NoFile}
  PROVE  OwnersLines(doc) \in Seq(Line)
BY NoGlyphType, EmptySeq DEF OwnersLines

LEMMA PrefixReflexive ==
  ASSUME NEW doc \in Seq(Line) \union {NoFile}
  PROVE  IsPrefix(OwnersLines(doc), OwnersLines(doc))
<1>1. PICK s : s = OwnersLines(doc) /\ s \in Seq(Line)
  BY OwnersLinesType
<1>2. Len(s) <= Len(s)
  BY <1>1, LenProperties
<1> QED
  BY <1>1, <1>2, PrefixIntro

LEMMA NothingIsPrefix ==
  ASSUME NEW doc \in Seq(Line)
  PROVE  IsPrefix(OwnersLines(NoFile), OwnersLines(doc))
<1>1. PICK s : s = OwnersLines(doc) /\ s \in Seq(Line)
  BY OwnersLinesType
<1>2. OwnersLines(NoFile) = <<>>
  BY DEF OwnersLines
<1>3. PICK z \in Seq(Line) : z = <<>> /\ Len(z) = 0
  BY EmptySeq
<1>4. Len(z) <= Len(s) /\ \A k \in 1..Len(z) : z[k] = s[k]
  BY <1>1, <1>3, LenProperties
<1>5. IsPrefix(z, s)
  BY <1>1, <1>4, PrefixIntro
<1> QED
  BY <1>1, <1>2, <1>3, <1>5

LEMMA InitSetup == Init => SetupInv
<1> SUFFICES ASSUME Init PROVE SetupInv
  OBVIOUS
<1>1. file \in Seq(Line) \union {NoFile} /\ user = file
  BY PluginSetupAssumption DEF Init
<1>2. TypeOK
  <2>1. {file, bak} \subseteq Seq(Line) \union {NoFile} /\ user \in Documents \union {NoFile}
    BY <1>1 DEF Init
  <2>2. cmd.pc = "idle" /\ cmd.op = "none" /\ said.op = "none" /\ said.status = 0
    BY DEF Init, Idle, Nothing
  <2>3. clean \in BOOLEAN /\ dumped \in BOOLEAN
    BY DEF Init
  <2>4. backups \in 0..MaxBackups
    BY DEF Init, MaxBackups
  <2> QED
    BY <2>1, <2>2, <2>3, <2>4 DEF TypeOK
<1>3. CommandInv
  BY DEF Init, CommandInv, Idle
<1>4. OwnerInv
  BY DEF Init, OwnerInv, Idle
<1>5. OwnersTextSurvives
  BY <1>1, PrefixReflexive DEF Init, OwnersTextSurvives
<1> QED
  BY <1>2, <1>3, <1>4, <1>5 DEF SetupInv

\* The steps of a command before it writes.
LEMMA StartKeeps ==
  ASSUME SetupInv, Create \/ Enable \/ Disable
  PROVE  SetupInv'
<1>1. UNCHANGED <<file, bak, user, clean, dumped, backups>> /\ said' = Nothing
  BY DEF Create, Enable, Disable
<1>2. PICK f : f = file /\ f \in Seq(Line) \union {NoFile}
  BY DEF SetupInv, TypeOK
<1>3. CASE Create
  <2>1. f = NoFile /\ cmd' = [pc |-> "write", op |-> "enable", text |-> NoFile,
                              new |-> AppendPluginsBlock(<<>>)]
    BY <1>2, <1>3 DEF Create, Idle
  <2>2. AppendPluginsBlock(<<>>) \in Seq(Line)
    BY AppendKeeps, EmptySeq
  <2>3. TypeOK' /\ CommandInv'
    BY <1>1, <2>1, <2>2 DEF SetupInv, TypeOK, CommandInv, Nothing
  <2>4. OwnerInv'
    BY <1>1, <1>2, <2>1 DEF SetupInv, OwnerInv
  <2> QED
    BY <1>1, <2>3, <2>4 DEF SetupInv, OwnersTextSurvives
<1>4. CASE Enable \/ Disable
  <2>1. PICK op \in {"enable", "disable"} :
          cmd' = [pc |-> "backup", op |-> op, text |-> file, new |-> NoEdit]
    BY <1>4 DEF Enable, Disable, Idle
  <2>2. file # NoFile
    BY <1>4 DEF Enable, Disable
  <2>3. TypeOK' /\ CommandInv'
    BY <1>1, <1>2, <2>1, <2>2 DEF SetupInv, TypeOK, CommandInv, Nothing
  <2>4. OwnerInv'
    BY <1>1, <1>2, <2>1 DEF SetupInv, OwnerInv
  <2> QED
    BY <1>1, <2>3, <2>4 DEF SetupInv, OwnersTextSurvives
<1> QED
  BY <1>3, <1>4

LEMMA BackupKeeps ==
  ASSUME SetupInv, Backup
  PROVE  SetupInv'
<1>1. /\ cmd.pc = "backup" /\ bak' = file
      /\ backups' = (IF backups < MaxBackups THEN backups + 1 ELSE backups)
      /\ cmd' = [cmd EXCEPT !.pc = "write", !.new = Edited(cmd.op, cmd.text)]
      /\ UNCHANGED <<file, said, user, clean, dumped>>
  BY DEF Backup
<1>2. PICK op \in {"enable", "disable"}, text \in Seq(Line) : op = cmd.op /\ text = cmd.text
  BY <1>1 DEF SetupInv, CommandInv
<1>3. PICK new \in Seq(Line) : new = Edited(op, text)
  BY EditedType
<1>4. cmd' = [pc |-> "write", op |-> op, text |-> text, new |-> new]
  BY <1>1, <1>2, <1>3 DEF SetupInv, CommandInv
<1>5. text # NoFile
  BY Absent
<1>6. backups \in 0..2 /\ backups' \in 1..2 /\ (backups' = 1 => backups = 0)
  BY <1>1 DEF SetupInv, TypeOK, MaxBackups
<1>7. TypeOK'
  <2>1. {file', bak'} \subseteq Seq(Line) \union {NoFile}
    BY <1>1 DEF SetupInv, TypeOK
  <2>2. cmd'.pc = "write" /\ cmd'.op = op /\ cmd'.new = new
    BY <1>4
  <2> QED
    BY <1>1, <1>6, <2>1, <2>2 DEF SetupInv, TypeOK, MaxBackups
<1>8. CommandInv'
  BY <1>3, <1>4, <1>5 DEF CommandInv
<1>9. OwnerInv'
  <2>1. clean => text = file
    BY <1>1, <1>2 DEF SetupInv, OwnerInv
  <2> QED
    BY <1>1, <1>4, <1>6, <2>1 DEF SetupInv, OwnerInv
<1>10. OwnersTextSurvives'
  <2>1. clean /\ user # NoFile /\ backups = 0 => file = user
    BY DEF SetupInv, OwnerInv
  <2> QED
    BY <1>1, <1>6, <2>1 DEF SetupInv, OwnersTextSurvives
<1> QED
  BY <1>7, <1>8, <1>9, <1>10 DEF SetupInv

LEMMA WriteKeeps ==
  ASSUME SetupInv, Write
  PROVE  SetupInv'
<1>1. /\ cmd.pc = "write" /\ file' = cmd.new
      /\ dumped' = (dumped \/ (cmd.text # NoFile /\ Reserializes(cmd.op, cmd.text)))
      /\ IF cmd.op = "enable" /\ cmd.text # NoFile
         THEN cmd' = [cmd EXCEPT !.pc = "check"] /\ UNCHANGED said
         ELSE cmd' = Idle /\ said' = [op |-> cmd.op, status |-> 0]
      /\ UNCHANGED <<bak, user, clean, backups>>
  BY DEF Write
<1>2. PICK op \in {"enable", "disable"}, text \in Seq(Line) \union {NoFile}, new \in Seq(Line) :
        op = cmd.op /\ text = cmd.text /\ new = cmd.new
  BY <1>1 DEF SetupInv, TypeOK, CommandInv
<1>3. new # NoFile
  BY Absent
<1>4. TypeOK' /\ CommandInv'
  <2>1. CASE op = "enable" /\ text # NoFile
    <3>1. cmd' = [pc |-> "check", op |-> op, text |-> text, new |-> new]
      BY <1>1, <1>2, <2>1 DEF SetupInv, CommandInv
    <3>2. UNCHANGED said /\ dumped' \in BOOLEAN
      BY <1>1, <1>2, <2>1 DEF SetupInv, TypeOK
    <3> QED
      BY <1>1, <1>2, <2>1, <3>1, <3>2 DEF SetupInv, TypeOK, CommandInv
  <2>2. CASE ~(op = "enable" /\ text # NoFile)
    <3>1. cmd' = Idle /\ said' = [op |-> op, status |-> 0] /\ dumped' \in BOOLEAN
      BY <1>1, <1>2, <2>2 DEF SetupInv, TypeOK
    <3> QED
      BY <1>1, <1>2, <3>1 DEF SetupInv, TypeOK, CommandInv, Idle
  <2> QED
    BY <2>1, <2>2
<1>5. cmd'.pc \in {"idle", "check"}
  BY <1>1 DEF SetupInv, CommandInv, Idle
<1>6. clean => text = file /\ (text # NoFile => backups > 0)
  BY <1>1, <1>2 DEF SetupInv, OwnerInv
<1>7. clean /\ user # NoFile => backups > 0
  BY <1>6 DEF SetupInv, OwnerInv
<1>8. OwnerInv'
  <2>1. backups \in Nat
    BY DEF SetupInv, TypeOK
  <2> QED
    BY <1>1, <1>2, <1>3, <1>5, <1>7, <2>1 DEF OwnerInv
<1>9. ASSUME clean, ~dumped'
      PROVE  IsPrefix(OwnersLines(user), OwnersLines(new))
  <2>1. PICK u \in Seq(Line) \union {NoFile} : u = user
    BY PluginSetupAssumption DEF SetupInv, TypeOK
  <2>2. CASE u = NoFile
    BY <2>1, <2>2, NothingIsPrefix
  <2>3. CASE u # NoFile
    <3>1. text # NoFile /\ text = file /\ text \in Seq(Line)
      BY <1>6, <1>9, <2>1, <2>3 DEF SetupInv, OwnerInv
    <3>2. new = Edited(op, text)
      BY <1>1, <1>2, <3>1 DEF SetupInv, CommandInv
    <3>3. ~dumped /\ ~Reserializes(op, text)
      BY <1>1, <1>2, <1>9, <3>1
    <3>4. IsPrefix(NoGlyph(text), NoGlyph(new))
      BY <3>1, <3>2, <3>3, EditedKeeps
    <3>5. IsPrefix(OwnersLines(u), OwnersLines(text))
      BY <1>9, <2>1, <3>1, <3>3 DEF SetupInv, OwnersTextSurvives
    <3>6. OwnersLines(text) = NoGlyph(text) /\ OwnersLines(new) = NoGlyph(new)
      BY <1>3, <3>1 DEF OwnersLines
    <3>7. /\ OwnersLines(u) \in Seq(Line) /\ OwnersLines(text) \in Seq(Line)
          /\ OwnersLines(new) \in Seq(Line)
      BY OwnersLinesType
    <3>8. IsPrefix(OwnersLines(u), OwnersLines(new))
      BY <3>4, <3>5, <3>6, <3>7, PrefixTransitive
    <3> QED
      BY <2>1, <3>8
  <2> QED
    BY <2>2, <2>3
<1>10. OwnersTextSurvives'
  BY <1>1, <1>2, <1>7, <1>9 DEF SetupInv, OwnersTextSurvives
<1> QED
  BY <1>4, <1>8, <1>10 DEF SetupInv

\* The steps that end a command, or answer without one.
LEMMA EndKeeps ==
  ASSUME SetupInv,
         \/ Check \/ Crash
         \/ \E op \in {"enable", "disable"} : Refuse(op) \/ NothingToDo(op)
         \/ UNCHANGED vars
  PROVE  SetupInv'
<1>1. UNCHANGED <<file, bak, user, clean, dumped, backups>> /\ (cmd' = Idle \/ cmd' = cmd)
  BY DEF Check, Crash, Refuse, NothingToDo, vars
<1>2. said'.op \in {"none", "enable", "disable"} /\ said'.status \in 0..2
  BY DEF Check, Crash, Refuse, NothingToDo, vars, Nothing, SetupInv, TypeOK
<1>3. TypeOK'
  BY <1>1, <1>2 DEF SetupInv, TypeOK, Idle
<1>4. CommandInv'
  BY <1>1 DEF SetupInv, CommandInv, Idle
<1>5. OwnerInv'
  BY <1>1 DEF SetupInv, OwnerInv, Idle
<1> QED
  BY <1>1, <1>3, <1>4, <1>5 DEF SetupInv, OwnersTextSurvives

LEMMA OwnerKeeps ==
  ASSUME SetupInv, NEW doc \in Documents, OwnerEdits(doc)
  PROVE  SetupInv'
<1>1. /\ file' = doc /\ user' = doc /\ clean' = (cmd.pc = "idle")
      /\ dumped' = FALSE /\ backups' = 0 /\ said' = Nothing
      /\ UNCHANGED <<bak, cmd>>
  BY DEF OwnerEdits
<1>2. doc \in Seq(Line) /\ doc # NoFile
  BY Absent, PluginSetupAssumption
<1>3. TypeOK'
  <2>1. {file', bak'} \subseteq Seq(Line) \union {NoFile} /\ user' \in Documents \union {NoFile}
    BY <1>1, <1>2 DEF SetupInv, TypeOK
  <2>2. said'.op = "none" /\ said'.status = 0
    BY <1>1 DEF Nothing
  <2>3. clean' \in BOOLEAN /\ dumped' \in BOOLEAN
    BY <1>1
  <2>4. backups' \in 0..MaxBackups
    BY <1>1 DEF MaxBackups
  <2> QED
    BY <1>1, <2>1, <2>2, <2>3, <2>4 DEF SetupInv, TypeOK
<1>4. CommandInv'
  BY <1>1 DEF SetupInv, CommandInv
<1>5. OwnerInv'
  BY <1>1, <1>2 DEF OwnerInv
<1>6. OwnersTextSurvives'
  BY <1>1, <1>2, PrefixReflexive DEF OwnersTextSurvives
<1> QED
  BY <1>3, <1>4, <1>5, <1>6 DEF SetupInv

\* What the command under way has read and written, and what of the owner's text
\* is in the file and in its backup, holds after every step of the commands and
\* every edit of the owner.
THEOREM SetupInvariant == Spec => []SetupInv
<1>1. SetupInv /\ [Next]_vars => SetupInv'
  <2> SUFFICES ASSUME SetupInv, [Next]_vars PROVE SetupInv'
    OBVIOUS
  <2>1. CASE Create \/ Enable \/ Disable
    BY <2>1, StartKeeps
  <2>2. CASE Backup
    BY <2>2, BackupKeeps
  <2>3. CASE Write
    BY <2>3, WriteKeeps
  <2>4. CASE \/ Check \/ Crash
             \/ \E op \in {"enable", "disable"} : Refuse(op) \/ NothingToDo(op)
             \/ UNCHANGED vars
    BY <2>4, EndKeeps
  <2>5. CASE \E doc \in Documents : OwnerEdits(doc)
    BY <2>5, OwnerKeeps
  <2> QED
    BY <2>1, <2>2, <2>3, <2>4, <2>5 DEF Next
<1> QED
  BY <1>1, InitSetup, PTL DEF Spec

\* Whatever the owner's file and edits are, and wherever a command dies, the
\* files hold lines, and a command that is to write has a text to write.
THEOREM SetupTypeCorrect == Spec => []TypeOK
<1>1. SetupInv => TypeOK
  BY DEF SetupInv
<1> QED
  BY <1>1, SetupInvariant, PTL

\* The owner's lines stay in the file, in their order, until a command
\* re-serializes it, and a file that is no longer the owner's was backed up.
THEOREM OwnersTextStays == Spec => []OwnersTextSurvives
<1>1. SetupInv => OwnersTextSurvives
  BY DEF SetupInv
<1> QED
  BY <1>1, SetupInvariant, PTL

\* No command is under way on a text that does not load, unless the owner made
\* the file such a text under it.
RefusedInv ==
  clean /\ user # NoFile /\ ~Valid(user) => cmd.pc = "idle" /\ file = user

LEMMA RefusedNext ==
  ASSUME RefusedInv, [Next]_vars
  PROVE  RefusedInv'
<1>1. CASE Create
  BY <1>1 DEF Create, RefusedInv
<1>2. CASE Enable \/ Disable
  BY <1>2 DEF Enable, Disable, RefusedInv
<1>3. CASE Backup
  BY <1>3 DEF Backup, RefusedInv
<1>4. CASE Write
  BY <1>4 DEF Write, RefusedInv
<1>5. CASE Check
  BY <1>5 DEF Check, RefusedInv
<1>6. CASE Crash
  BY <1>6 DEF Crash, RefusedInv
<1>7. CASE \E op \in {"enable", "disable"} : Refuse(op) \/ NothingToDo(op)
  BY <1>7 DEF Refuse, NothingToDo, RefusedInv
<1>8. CASE \E doc \in Documents : OwnerEdits(doc)
  BY <1>8 DEF OwnerEdits, RefusedInv
<1>9. CASE UNCHANGED vars
  BY <1>9 DEF vars, RefusedInv
<1> QED
  BY <1>1, <1>2, <1>3, <1>4, <1>5, <1>6, <1>7, <1>8, <1>9 DEF Next

\* A file that is not YAML is left as its owner wrote it, whatever commands are
\* run on it (_enable, _disable: "not modifying it").
THEOREM InvalidStaysUntouched ==
  Spec => [](clean /\ user # NoFile /\ ~Valid(user) => file = user)
<1>1. Init => RefusedInv
  BY DEF Init, Idle, RefusedInv
<1>2. RefusedInv => (clean /\ user # NoFile /\ ~Valid(user) => file = user)
  BY DEF RefusedInv
<1> QED
  BY <1>1, <1>2, RefusedNext, PTL DEF Spec

----------------------------------------------------------------------------
(* Texts that name glyph as an item only stay so.                          *)

LEMMA EditedBlocks ==
  ASSUME NEW doc \in Seq(BlockLine), NEW op \in {"enable", "disable"}
  PROVE  Edited(op, doc) \in Seq(BlockLine)
<1>1. doc \in Seq(Line)
  BY BlockLines
<1>2. PICK data : data = Load(doc) /\ data \in Seq(Entry)
  BY <1>1, LoadType
<1>3. NoGlyph(doc) \in Seq(BlockLine) /\ Dump(WithoutGlyph(data)) \in Seq(BlockLine)
  BY <1>2, OnlyFacts, WithoutGlyphType, DumpType DEF NoGlyph
<1>4. RemoveGlyphLine(doc) # NoEdit => RemoveGlyphLine(doc) \in Seq(BlockLine)
  BY <1>3 DEF RemoveGlyphLine
<1>5. AppendPluginsBlock(doc) \in Seq(BlockLine)
  BY BlockType, ConcatProperties DEF AppendPluginsBlock
<1>6. InsertIntoEnabled(doc) # NoEdit => InsertIntoEnabled(doc) \in Seq(BlockLine)
  <2> SUFFICES ASSUME InsertIntoEnabled(doc) # NoEdit
               PROVE  InsertIntoEnabled(doc) \in Seq(BlockLine)
    OBVIOUS
  <2>1. PICK n, p, at, ind \in Nat :
          /\ n = Len(doc) /\ p = n + 1 /\ at \in 1..p
          /\ InsertIntoEnabled(doc) = InsertAt(doc, at, Item(ind, Glyph))
    BY <1>1, InsertPlace
  <2>2. PICK l \in BlockLine : l = Item(ind, Glyph)
    BY LineTypes
  <2>3. InsertAt(doc, at, l) \in Seq(BlockLine)
    BY <2>1, InsertAtFacts
  <2> QED
    BY <2>1, <2>2, <2>3
<1>7. Has(data, Plugins) => Dump(WithGlyph(data)) \in Seq(BlockLine)
  BY <1>2, WithGlyphType, DumpType
<1> QED
  BY <1>2, <1>3, <1>4, <1>5, <1>6, <1>7 DEF Edited

----------------------------------------------------------------------------
(* Taking lines out of a text.                                             *)

\* What J keeps of what I keeps is K.
KeepsOf(s, I, J, K) ==
  /\ I \subseteq DOMAIN s /\ J \subseteq 1..Cardinality(I) /\ K \subseteq I
  /\ \A j \in 1..Cardinality(I) : j \in J <=> Ascending(I)[j] \in K

LEMMA OnlyTwice ==
  ASSUME NEW S, NEW s \in Seq(S), NEW I, NEW J, NEW K, KeepsOf(s, I, J, K)
  PROVE  Only(Only(s, I), J) = Only(s, K)
<1> I \subseteq DOMAIN s /\ J \subseteq 1..Cardinality(I) /\ K \subseteq I
  BY DEF KeepsOf
<1>1. PICK n \in Nat : n = Len(s) /\ DOMAIN s = 1..n
  BY LenProperties
<1>2. PICK m, at : m = Cardinality(I) /\ at = Ascending(I)
  OBVIOUS
<1>3. /\ m \in Nat /\ at \in [1..m -> I]
      /\ \A i \in I : \E k \in 1..m : at[k] = i
      /\ \A k, l \in 1..m : k < l <=> at[k] < at[l]
  BY <1>1, <1>2, AscendingFacts
<1>4. PICK r : r = Only(s, I)
  OBVIOUS
<1>5. r \in Seq(S) /\ DOMAIN r = 1..m /\ \A k \in 1..m : r[k] = s[at[k]]
  BY <1>2, <1>4, OnlyFacts
<1>6. PICK g : g = [j \in J |-> at[j]]
  OBVIOUS
<1>7. \A j \in J : j \in 1..m /\ g[j] = at[j] /\ g[j] \in K
  BY <1>2, <1>6 DEF KeepsOf
<1>8. Increasing(g, J)
  <2> SUFFICES ASSUME NEW a \in J, NEW b \in J, a < b PROVE g[a] < g[b]
    BY DEF Increasing
  <2> QED
    BY <1>3, <1>7
<1>9. \A a, b \in J : g[a] = g[b] => a = b
  <2> SUFFICES ASSUME NEW a \in J, NEW b \in J, g[a] = g[b] PROVE a = b
    OBVIOUS
  <2>1. a \in 1..m /\ b \in 1..m /\ at[a] = at[b] /\ at[a] \in 1..n
    BY <1>1, <1>3, <1>7
  <2>2. ~(at[a] < at[b]) /\ ~(at[b] < at[a])
    BY <2>1
  <2>3. ~(a < b) /\ ~(b < a)
    BY <1>3, <2>1, <2>2
  <2> QED
    BY <2>1, <2>3
<1>10. \A i \in K : \E j \in J : g[j] = i
  <2> SUFFICES ASSUME NEW i \in K PROVE \E j \in J : g[j] = i
    OBVIOUS
  <2>1. PICK k \in 1..m : at[k] = i
    BY <1>3
  <2>2. k \in J
    BY <1>2, <2>1 DEF KeepsOf
  <2> QED
    BY <1>7, <2>1, <2>2
<1>11. g \in Bijection(J, K)
  <2>1. g \in [J -> K]
    BY <1>6, <1>7
  <2> QED
    BY <1>9, <1>10, <2>1 DEF Bijection, Injection, Surjection, IsInjective
<1>12. /\ Cardinality(J) = Cardinality(K)
       /\ Follows(Ascending(K), Ascending(J), g, Cardinality(J))
  <2>1. K \subseteq 1..n /\ J \subseteq 1..m
    BY <1>1, <1>2
  <2> QED
    BY <1>3, <1>8, <1>11, <2>1, Renumbered
<1>13. PICK u, v : u = Only(r, J) /\ v = Only(s, K)
  OBVIOUS
<1>14. /\ u \in Seq(S) /\ Len(u) = Cardinality(J)
       /\ Ascending(J) \in [1..Cardinality(J) -> J]
       /\ \A k \in 1..Cardinality(J) : u[k] = r[Ascending(J)[k]]
  <2>1. r \in Seq(S) /\ J \subseteq DOMAIN r
    BY <1>2, <1>5
  <2> QED
    BY <1>13, <2>1, OnlyFacts
<1>15. /\ v \in Seq(S) /\ Len(v) = Cardinality(K)
       /\ \A k \in 1..Cardinality(K) : v[k] = s[Ascending(K)[k]]
  <2>1. K \subseteq DOMAIN s
    OBVIOUS
  <2> QED
    BY <1>13, <2>1, OnlyFacts
<1>16. ASSUME NEW k \in 1..Cardinality(J)
       PROVE  u[k] = v[k]
  <2>1. PICK j \in J : j = Ascending(J)[k]
    BY <1>14
  <2>2. Ascending(K)[k] = at[j]
    BY <1>7, <1>12, <2>1 DEF Follows
  <2>3. u[k] = r[j] /\ v[k] = s[at[j]]
    BY <1>12, <1>14, <1>15, <2>1, <2>2
  <2> QED
    BY <1>5, <1>7, <2>3
<1>17. u = v
  BY <1>12, <1>14, <1>15, <1>16, SeqEqual
<1> QED
  BY <1>4, <1>13, <1>17

\* Comments and lines for glyph can be taken out in either order.
LEMMA SignificantNoGlyph ==
  ASSUME NEW doc \in Seq(Line)
  PROVE  /\ Significant(doc) \in Seq(Line)
         /\ Significant(NoGlyph(doc)) = NoGlyph(Significant(doc))
<1>1. PICK A, B, K : /\ A = {i \in DOMAIN doc : ~IsNote(doc[i])}
                     /\ B = {i \in DOMAIN doc : ~IsGlyphLine(doc[i])}
                     /\ K = A \intersect B
  OBVIOUS
<1>2. A \subseteq DOMAIN doc /\ B \subseteq DOMAIN doc /\ K \subseteq A /\ K \subseteq B
  BY <1>1
<1>3. PICK L, t : L = Only(doc, A) /\ t = Only(doc, B)
  OBVIOUS
<1>4. /\ L \in Seq(Line) /\ DOMAIN L = 1..Cardinality(A)
      /\ Ascending(A) \in [1..Cardinality(A) -> A]
      /\ \A k \in 1..Cardinality(A) : L[k] = doc[Ascending(A)[k]]
  BY <1>2, <1>3, OnlyFacts
<1>5. /\ t \in Seq(Line) /\ DOMAIN t = 1..Cardinality(B)
      /\ Ascending(B) \in [1..Cardinality(B) -> B]
      /\ \A k \in 1..Cardinality(B) : t[k] = doc[Ascending(B)[k]]
  BY <1>2, <1>3, OnlyFacts
<1>6. PICK J : J = {i \in DOMAIN L : ~IsGlyphLine(L[i])}
  OBVIOUS
<1>7. PICK H : H = {i \in DOMAIN t : ~IsNote(t[i])}
  OBVIOUS
<1>8. Only(L, J) = Only(doc, K)
  <2>1. J \subseteq 1..Cardinality(A)
    BY <1>4, <1>6
  <2>2. KeepsOf(doc, A, J, K)
    <3> SUFFICES ASSUME NEW j \in 1..Cardinality(A)
                 PROVE  j \in J <=> Ascending(A)[j] \in K
      BY <1>2, <2>1 DEF KeepsOf
    <3>1. PICK i \in A : i = Ascending(A)[j] /\ L[j] = doc[i]
      BY <1>4
    <3>2. j \in J <=> ~IsGlyphLine(doc[i])
      BY <1>4, <1>6, <3>1
    <3> QED
      BY <1>1, <3>1, <3>2
  <2> QED
    BY <1>3, <2>2, OnlyTwice
<1>9. Only(t, H) = Only(doc, K)
  <2>1. H \subseteq 1..Cardinality(B)
    BY <1>5, <1>7
  <2>2. KeepsOf(doc, B, H, K)
    <3> SUFFICES ASSUME NEW j \in 1..Cardinality(B)
                 PROVE  j \in H <=> Ascending(B)[j] \in K
      BY <1>2, <2>1 DEF KeepsOf
    <3>1. PICK i \in B : i = Ascending(B)[j] /\ t[j] = doc[i]
      BY <1>5
    <3>2. j \in H <=> ~IsNote(doc[i])
      BY <1>5, <1>7, <3>1
    <3> QED
      BY <1>1, <3>1, <3>2
  <2> QED
    BY <1>3, <2>2, OnlyTwice
<1>10. L = Significant(doc) /\ t = NoGlyph(doc)
  BY <1>1, <1>3 DEF Significant, NoGlyph
<1>11. Only(L, J) = NoGlyph(L) /\ Only(t, H) = Significant(t)
  BY <1>6, <1>7 DEF Significant, NoGlyph
<1> QED
  BY <1>4, <1>8, <1>9, <1>10, <1>11

\* A line may belong under another one.
Above(L, j, i) ==
  \/ L[j].ind < L[i].ind
  \/ L[j].ind = L[i].ind /\ IsKey(L[j]) /\ IsItem(L[i])

\* It belongs under the last one of these, or under none (p = 0).
Nearest(L, i, p) ==
  /\ p \in 0..i - 1
  /\ p # 0 => Above(L, p, i)
  /\ \A j \in 1..i - 1 : Above(L, j, i) => j <= p

LEMMA ParentNearest ==
  ASSUME NEW L, NEW n \in Nat, NEW i \in 1..n
  PROVE  /\ Nearest(L, i, Parent(L, i))
         /\ \A p : Nearest(L, i, p) => p = Parent(L, i)
<1>1. PICK m \in Nat : m = i - 1
  OBVIOUS
<1>2. PICK S : S = {0} \union {j \in 1..m : Above(L, j, i)}
  OBVIOUS
<1>3. Parent(L, i) = Max(S)
  BY <1>1, <1>2 DEF Parent, Above
<1>4. S \subseteq 0..m /\ S # {}
  BY <1>2
<1>5. Max(S) \in S /\ \A j \in S : j <= Max(S)
  BY <1>4, MaxIn
<1>6. Nearest(L, i, Parent(L, i))
  BY <1>1, <1>2, <1>3, <1>4, <1>5 DEF Nearest
<1>7. ASSUME NEW p, Nearest(L, i, p)
      PROVE  p = Parent(L, i)
  <2>1. PICK q : q = Parent(L, i)
    OBVIOUS
  <2>2. p \in 0..m /\ q \in 0..m
    BY <1>1, <1>6, <1>7, <2>1 DEF Nearest
  <2>3. p # 0 => p <= q
    BY <1>1, <1>6, <1>7, <2>1, <2>2 DEF Nearest
  <2>4. q # 0 => q <= p
    BY <1>1, <1>6, <1>7, <2>1, <2>2 DEF Nearest
  <2> QED
    BY <2>1, <2>2, <2>3, <2>4
<1> QED
  BY <1>6, <1>7

\* Lines that no line left belongs under can be taken out: every line keeps its
\* place under the line it belongs under.
ParentsStay(L, I) == \A i \in I : Parent(L, i) \in I \union {0}

LEMMA ParentKept ==
  ASSUME NEW L \in Seq(Line), NEW I, I \subseteq DOMAIN L, ParentsStay(L, I),
         NEW k \in 1..Cardinality(I)
  PROVE  LET p == Parent(Only(L, I), k) IN
         /\ p \in 0..k - 1
         /\ Parent(L, Ascending(I)[k]) = IF p = 0 THEN 0 ELSE Ascending(I)[p]
<1>1. PICK n \in Nat : n = Len(L) /\ DOMAIN L = 1..n
  BY LenProperties
<1>2. PICK m, at : m = Cardinality(I) /\ at = Ascending(I)
  OBVIOUS
<1>3. /\ m \in Nat /\ at \in [1..m -> I]
      /\ \A i \in I : \E l \in 1..m : at[l] = i
      /\ \A l, j \in 1..m : l < j <=> at[l] < at[j]
  BY <1>1, <1>2, AscendingFacts
<1>4. PICK M : M = Only(L, I)
  OBVIOUS
<1>5. \A l \in 1..m : M[l] = L[at[l]]
  BY <1>2, <1>4, OnlyFacts
<1>6. PICK i \in I : i = at[k] /\ i \in 1..n
  BY <1>1, <1>2, <1>3
<1>7. PICK q : q = Parent(L, i) /\ Nearest(L, i, q) /\ q \in I \union {0}
  BY <1>1, <1>6, ParentNearest DEF ParentsStay
<1>8. \A l \in 1..m : Above(M, l, k) <=> Above(L, at[l], i)
  BY <1>2, <1>5, <1>6 DEF Above
<1>9. k \in 1..m /\ k \in Nat
  BY <1>2, <1>3
<1>10. PICK p : p \in 0..m /\ (q = 0 <=> p = 0) /\ (q # 0 => p \in 1..m /\ at[p] = q)
  <2>1. CASE q = 0
    BY <1>3, <2>1
  <2>2. CASE q # 0
    <3>1. PICK l \in 1..m : at[l] = q
      BY <1>3, <1>7, <2>2
    <3> QED
      BY <2>2, <3>1
  <2> QED
    BY <2>1, <2>2
<1>11. q \in 0..i - 1 /\ (q # 0 => Above(L, q, i))
       /\ \A j \in 1..i - 1 : Above(L, j, i) => j <= q
  BY <1>7 DEF Nearest
<1>12. p \in 0..k - 1
  <2>1. CASE p = 0
    BY <1>9, <2>1
  <2>2. CASE p # 0
    <3>1. p \in 1..m /\ at[p] = q /\ q < i
      BY <1>6, <1>10, <1>11, <2>2
    <3>2. p < k
      BY <1>3, <1>6, <1>9, <3>1
    <3> QED
      BY <1>9, <3>1, <3>2
  <2> QED
    BY <2>1, <2>2
<1>13. p # 0 => Above(M, p, k)
  BY <1>8, <1>10, <1>11
<1>14. ASSUME NEW l \in 1..k - 1, Above(M, l, k)
       PROVE  l <= p
  <2>1. l \in 1..m /\ l < k
    <3>1. m \in Int /\ k \in Int /\ l \in Int /\ k <= m /\ 1 <= l /\ l <= k - 1
      BY <1>3, <1>9
    <3> QED
      BY <3>1
  <2>2. at[l] < i /\ at[l] \in 1..n
    BY <1>1, <1>3, <1>6, <1>9, <2>1
  <2>3. at[l] \in 1..i - 1 /\ Above(L, at[l], i)
    BY <1>6, <1>8, <1>14, <2>1, <2>2
  <2>4. at[l] <= q
    BY <1>11, <2>3
  <2>5. q # 0
    BY <2>2, <2>4
  <2>6. p \in 1..m /\ at[p] = q
    BY <1>10, <2>5
  <2>7. ~(at[p] < at[l])
    BY <1>6, <1>11, <2>2, <2>4, <2>6
  <2>8. ~(p < l)
    BY <1>3, <2>1, <2>6, <2>7
  <2> QED
    BY <2>1, <2>6, <2>8
<1>15. Nearest(M, k, p)
  BY <1>12, <1>13, <1>14 DEF Nearest
<1>16. p = Parent(M, k)
  BY <1>3, <1>9, <1>15, ParentNearest
<1>17. q = IF p = 0 THEN 0 ELSE at[p]
  BY <1>10
<1> QED
  BY <1>2, <1>4, <1>6, <1>7, <1>12, <1>16, <1>17

\* A line belongs where it may, beside lines of its kind.
Placed(L, i) ==
  LET p == Parent(L, i) IN
  /\ p = 0 => IsKey(L[i])
  /\ p # 0 => IsKey(L[p]) /\ L[p].value = Block
  /\ \A j \in Children(L, p) : L[j].kind = L[i].kind /\ L[j].ind = L[i].ind

LEMMA ValidPlaced ==
  ASSUME NEW doc
  PROVE  Valid(doc) <=> \A i \in DOMAIN Significant(doc) : Placed(Significant(doc), i)
BY DEF Valid, Placed

\* Nothing belongs under an item, so the items for glyph can be taken out.
LEMMA PlacedKept ==
  ASSUME NEW L \in Seq(Line), \A i \in DOMAIN L : Placed(L, i),
         NEW k \in DOMAIN NoGlyph(L)
  PROVE  Placed(NoGlyph(L), k)
<1>1. PICK n \in Nat : n = Len(L) /\ DOMAIN L = 1..n
  BY LenProperties
<1>2. PICK I : I = {i \in DOMAIN L : ~IsGlyphLine(L[i])}
  OBVIOUS
<1>3. PICK M : M = Only(L, I) /\ M = NoGlyph(L)
  BY <1>2 DEF NoGlyph
<1>4. I \subseteq DOMAIN L
  BY <1>2
<1>5. PICK m, at : m = Cardinality(I) /\ at = Ascending(I)
  OBVIOUS
<1>6. /\ m \in Nat /\ at \in [1..m -> I] /\ DOMAIN M = 1..m
      /\ \A l \in 1..m : M[l] = L[at[l]]
  <2>1. /\ Cardinality(I) \in Nat /\ DOMAIN Only(L, I) = 1..Cardinality(I)
        /\ Ascending(I) \in [1..Cardinality(I) -> I]
        /\ \A l \in 1..Cardinality(I) : Only(L, I)[l] = L[Ascending(I)[l]]
    BY <1>4, OnlyFacts
  <2> QED
    BY <1>3, <1>5, <2>1
<1>7. ParentsStay(L, I)
  <2> SUFFICES ASSUME NEW i \in I PROVE Parent(L, i) \in I \union {0}
    BY DEF ParentsStay
  <2>1. PICK p : p = Parent(L, i) /\ Nearest(L, i, p) /\ i \in 1..n
    BY <1>1, <1>4, ParentNearest
  <2>2. CASE p = 0
    BY <2>1, <2>2
  <2>3. CASE p # 0
    <3>1. p \in 1..n
      BY <2>1, <2>3 DEF Nearest
    <3>2. IsKey(L[p])
      BY <1>1, <2>1, <2>3 DEF Placed
    <3>3. ~IsGlyphLine(L[p])
      BY <3>2 DEF IsKey, IsItem, IsGlyphLine
    <3> QED
      BY <1>1, <1>2, <2>1, <3>1, <3>3
  <2> QED
    BY <2>2, <2>3
<1>8. ASSUME NEW l \in 1..m
      PROVE  /\ Parent(M, l) \in 0..m
             /\ Parent(L, at[l]) = IF Parent(M, l) = 0 THEN 0 ELSE at[Parent(M, l)]
  <2>1. l \in 1..Cardinality(I)
    BY <1>5
  <2>2. /\ Parent(Only(L, I), l) \in 0..l - 1
        /\ Parent(L, Ascending(I)[l]) = IF Parent(Only(L, I), l) = 0 THEN 0
                                        ELSE Ascending(I)[Parent(Only(L, I), l)]
    BY <1>4, <1>7, <2>1, ParentKept
  <2>3. 0..l - 1 \subseteq 0..m
    BY <1>6
  <2> QED
    BY <1>3, <1>5, <2>2, <2>3
<1>9. k \in 1..m
  BY <1>3, <1>6
<1>10. PICK p : p = Parent(M, k) /\ p \in 0..m
  BY <1>8, <1>9
<1>11. PICK i \in I : i = at[k] /\ M[k] = L[i] /\ i \in DOMAIN L
  BY <1>4, <1>6, <1>9
<1>12. PICK q : q = Parent(L, i) /\ q = IF p = 0 THEN 0 ELSE at[p]
  BY <1>8, <1>9, <1>10, <1>11
<1>13. Placed(L, i)
  BY <1>11
<1>14. p # 0 => p \in 1..m /\ q = at[p] /\ q \in I /\ M[p] = L[q] /\ q # 0
  <2>1. p # 0 => p \in 1..m
    BY <1>10
  <2>2. p # 0 => q = at[p] /\ q \in I /\ M[p] = L[q]
    BY <1>6, <1>12, <2>1
  <2>3. \A h \in I : h # 0
    BY <1>1, <1>4
  <2> QED
    BY <2>1, <2>2, <2>3
<1>15. p = 0 => IsKey(M[k])
  BY <1>11, <1>12, <1>13 DEF Placed
<1>16. p # 0 => IsKey(M[p]) /\ M[p].value = Block
  BY <1>12, <1>13, <1>14 DEF Placed
<1>17. ASSUME NEW j \in Children(M, p)
       PROVE  M[j].kind = M[k].kind /\ M[j].ind = M[k].ind
  <2>1. j \in 1..m /\ Parent(M, j) = p
    BY <1>6, <1>17 DEF Children
  <2>2. Parent(L, at[j]) = q /\ at[j] \in DOMAIN L /\ M[j] = L[at[j]]
    BY <1>4, <1>6, <1>8, <1>12, <2>1
  <2>3. at[j] \in Children(L, q)
    BY <2>2 DEF Children
  <2> QED
    BY <1>11, <1>12, <1>13, <2>2, <2>3 DEF Placed
<1> QED
  BY <1>3, <1>10, <1>15, <1>16, <1>17 DEF Placed

LEMMA NoGlyphValid ==
  ASSUME NEW doc \in Seq(Line), Valid(doc)
  PROVE  Valid(NoGlyph(doc))
<1>1. PICK L : L = Significant(doc) /\ L \in Seq(Line)
  BY SignificantNoGlyph
<1>2. \A i \in DOMAIN L : Placed(L, i)
  BY <1>1, ValidPlaced
<1>3. \A k \in DOMAIN NoGlyph(L) : Placed(NoGlyph(L), k)
  BY <1>1, <1>2, PlacedKept
<1>4. Significant(NoGlyph(doc)) = NoGlyph(L)
  BY <1>1, SignificantNoGlyph
<1> QED
  BY <1>3, <1>4, ValidPlaced

----------------------------------------------------------------------------
(* What a text lists.                                                      *)

\* A text whose lines name glyph neither as an item nor in a list of their own
\* does not list it.
LEMMA NotListed ==
  ASSUME NEW doc \in Seq(BlockLine), \A i \in DOMAIN doc : ~IsGlyphLine(doc[i])
  PROVE  ~Listed(doc)
<1>1. PICK L : L = Significant(doc)
  OBVIOUS
<1>2. PICK A : A = {i \in DOMAIN doc : ~IsNote(doc[i])} /\ A \subseteq DOMAIN doc
  OBVIOUS
<1>3. /\ L \in Seq(BlockLine) /\ DOMAIN L = 1..Cardinality(A)
      /\ Ascending(A) \in [1..Cardinality(A) -> A]
      /\ \A k \in 1..Cardinality(A) : L[k] = doc[Ascending(A)[k]]
  <2>1. L = Only(doc, A)
    BY <1>1, <1>2 DEF Significant
  <2>2. A \subseteq DOMAIN doc
    BY <1>2
  <2>3. /\ Only(doc, A) \in Seq(BlockLine) /\ DOMAIN Only(doc, A) = 1..Cardinality(A)
        /\ Ascending(A) \in [1..Cardinality(A) -> A]
        /\ \A k \in 1..Cardinality(A) : Only(doc, A)[k] = doc[Ascending(A)[k]]
    BY <2>2, OnlyFacts
  <2> QED
    BY <2>1, <2>3
<1>4. \A k \in DOMAIN L : L[k] \in BlockLine /\ ~IsGlyphLine(L[k])
  BY <1>2, <1>3, LenProperties
<1>5. L \in Seq(Line)
  BY <1>3, BlockLines
<1>6. ~Contains(<<>>, Glyph)
  BY EmptySeq DEF Contains
<1>7. ASSUME NEW i \in DOMAIN L
      PROVE  ~Contains(Below(L, i).items, Glyph)
  <2>1. PICK items : items = {j \in Children(L, i) : IsItem(L[j])}
    OBVIOUS
  <2>2. items \subseteq DOMAIN L
    BY <2>1 DEF Children
  <2>3. \A j \in items : L[j].name # Glyph
    BY <1>4, <2>1, <2>2 DEF IsGlyphLine
  <2>4. PICK s : s = Names(L, items)
    OBVIOUS
  <2>5. ~Contains(s, Glyph)
    <3>1. s \in Seq(Name) /\ Cardinality(items) \in Nat /\ Len(s) = Cardinality(items)
      BY <1>5, <2>2, <2>4, NamesType
    <3>2. PICK n \in Nat : DOMAIN L = 1..n
      BY <1>5, LenProperties
    <3>3. Ascending(items) \in [1..Cardinality(items) -> items]
      BY <2>2, <3>2, AscendingFacts
    <3>4. ASSUME NEW k \in 1..Len(s)
          PROVE  s[k] # Glyph
      <4>1. PICK j \in items : j = Ascending(items)[k]
        BY <3>1, <3>3
      <4>2. s[k] = L[j].name
        BY <2>4, <3>1, <3>3, <4>1 DEF Names
      <4> QED
        BY <2>3, <4>2
    <3> QED
      BY <3>4 DEF Contains
  <2>6. Null.items = <<>> /\ Map.items = <<>> /\ List(s).items = s
    BY DEF Null, Map, List
  <2> QED
    BY <1>6, <2>1, <2>4, <2>5, <2>6 DEF Below
<1>8. PICK data : data = Load(doc) /\ data \in Seq(Entry)
  BY LoadType, BlockLines
<1>9. ASSUME NEW k \in DOMAIN data
      PROVE  ~Contains(data[k].value.items, Glyph)
  <2>1. PICK K : K = {i \in DOMAIN L : IsKey(L[i])} /\ K \subseteq DOMAIN L
    OBVIOUS
  <2>2. PICK keys : keys = Ascending(K)
    OBVIOUS
  <2>3. PICK n \in Nat : DOMAIN L = 1..n
    BY <1>5, LenProperties
  <2>4. keys \in [1..Cardinality(K) -> K]
    BY <2>1, <2>2, <2>3, AscendingFacts
  <2>5. data = [h \in DOMAIN keys |->
                  [path |-> Names(L, Ancestors(L, keys[h])),
                   value |-> IF L[keys[h]].value = Block THEN Below(L, keys[h])
                             ELSE L[keys[h]].value]]
    BY <1>1, <1>8, <2>1, <2>2 DEF Load
  <2>6. k \in DOMAIN keys
    BY <2>5
  <2>7. PICK i \in DOMAIN L : i = keys[k]
    BY <2>1, <2>4, <2>6
  <2>8. data[k].value = IF L[i].value = Block THEN Below(L, i) ELSE L[i].value
    BY <2>5, <2>6, <2>7
  <2>9. ~Contains(L[i].value.items, Glyph)
    BY <1>4 DEF BlockLine
  <2> QED
    BY <1>7, <2>8, <2>9
<1>10. ~Contains(EnabledList(data), Glyph)
  <2>1. CASE Has(data, Enabled)
    <3>1. PICK n : n = CHOOSE k \in DOMAIN data : data[k].path = Enabled
      OBVIOUS
    <3>2. n \in DOMAIN data
      BY <2>1, <3>1 DEF Has
    <3> QED
      BY <1>9, <2>1, <3>1, <3>2 DEF EnabledList, At
  <2>2. CASE ~Has(data, Enabled)
    BY <1>6, <2>2 DEF EnabledList
  <2> QED
    BY <2>1, <2>2
<1> QED
  BY <1>8, <1>10 DEF Listed

\* Disable, of a text it has glyph's line in, leaves one that does not list it.
LEMMA DisabledText ==
  ASSUME NEW doc \in Seq(BlockLine), Valid(doc), Listed(doc)
  PROVE  Valid(Edited("disable", doc)) /\ ~Listed(Edited("disable", doc))
<1>1. doc \in Seq(Line)
  BY BlockLines
<1>2. \E i \in DOMAIN doc : IsGlyphLine(doc[i])
  BY NotListed
<1>3. RemoveGlyphLine(doc) = NoGlyph(doc) /\ NoGlyph(doc) # NoEdit
  BY <1>1, <1>2, NoGlyphType, PluginSetupAssumption DEF RemoveGlyphLine
<1>4. Edited("disable", doc) = NoGlyph(doc)
  BY <1>3 DEF Edited
<1>5. Valid(NoGlyph(doc))
  BY <1>1, NoGlyphValid
<1>6. PICK B : B = {i \in DOMAIN doc : ~IsGlyphLine(doc[i])} /\ B \subseteq DOMAIN doc
  OBVIOUS
<1>7. PICK t : t = NoGlyph(doc) /\ t = Only(doc, B)
  BY <1>6 DEF NoGlyph
<1>8. /\ t \in Seq(BlockLine) /\ DOMAIN t = 1..Cardinality(B)
      /\ Ascending(B) \in [1..Cardinality(B) -> B]
      /\ \A k \in 1..Cardinality(B) : t[k] = doc[Ascending(B)[k]]
  BY <1>6, <1>7, OnlyFacts
<1>9. \A k \in DOMAIN t : ~IsGlyphLine(t[k])
  BY <1>6, <1>8
<1>10. ~Listed(t)
  BY <1>8, <1>9, NotListed
<1> QED
  BY <1>4, <1>5, <1>7, <1>10

\* The text enable writes where there was none is valid and lists glyph.
LEMMA CreatedText ==
  /\ AppendPluginsBlock(<<>>) \in Seq(BlockLine)
  /\ Valid(AppendPluginsBlock(<<>>)) /\ Listed(AppendPluginsBlock(<<>>))
<1>1. PICK a, b, c : /\ a = Key(0, "plugins", Block) /\ b = Key(2, "enabled", Block)
                     /\ c = Item(4, Glyph)
  OBVIOUS
<1>2. /\ IsKey(a) /\ a.kind = "key" /\ a.ind = 0 /\ a.name = "plugins" /\ a.value = Block
      /\ IsKey(b) /\ b.kind = "key" /\ b.ind = 2 /\ b.name = "enabled" /\ b.value = Block
      /\ IsItem(c) /\ c.kind = "item" /\ c.ind = 4 /\ c.name = Glyph
      /\ ~IsNote(a) /\ ~IsNote(b) /\ ~IsNote(c)
  BY <1>1 DEF Key, Item, IsKey, IsItem, IsNote
<1>3. PICK d : d = <<a, b, c>> /\ d \in Seq(BlockLine)
  BY <1>1, BlockType
<1>4. d \in Seq(Line)
  BY <1>3, BlockLines
<1>5. d = AppendPluginsBlock(<<>>)
  BY <1>1, <1>3, ConcatEmptySeq DEF AppendPluginsBlock
<1>6. Len(d) = 3 /\ DOMAIN d = 1..3 /\ d[1] = a /\ d[2] = b /\ d[3] = c
  BY <1>3
<1>7. Significant(d) = d
  <2>1. {i \in DOMAIN d : ~IsNote(d[i])} = 1..3
    BY <1>2, <1>6
  <2>2. Cardinality(1..3) = 3 /\ \A k \in 1..3 : Ascending(1..3)[k] = k
    BY AscendingAll
  <2>3. PICK t : t = Only(d, 1..3)
    OBVIOUS
  <2>4. /\ t \in Seq(Line) /\ Len(t) = Cardinality(1..3)
        /\ \A k \in 1..Cardinality(1..3) : t[k] = d[Ascending(1..3)[k]]
    <3>1. 1..3 \subseteq DOMAIN d
      BY <1>6
    <3> QED
      BY <1>4, <2>3, <3>1, OnlyFacts
  <2>5. t = d
    BY <1>4, <1>6, <2>2, <2>4, SeqEqual
  <2> QED
    BY <2>1, <2>3, <2>5 DEF Significant
<1>8. Parent(d, 1) = 0 /\ Parent(d, 2) = 1 /\ Parent(d, 3) = 2
  <2>1. Above(d, 1, 2) /\ Above(d, 2, 3)
    BY <1>2, <1>6 DEF Above
  <2>2. Nearest(d, 1, 0) /\ Nearest(d, 2, 1) /\ Nearest(d, 3, 2)
    BY <2>1 DEF Nearest
  <2>3. 1 \in 1..3 /\ 2 \in 1..3 /\ 3 \in 1..3 /\ 3 \in Nat
    OBVIOUS
  <2> QED
    BY <2>2, <2>3, ParentNearest
<1>9. Children(d, 0) = {1} /\ Children(d, 1) = {2} /\ Children(d, 2) = {3}
  <2>1. \A i \in 1..3 : i = 1 \/ i = 2 \/ i = 3
    OBVIOUS
  <2> QED
    BY <1>6, <1>8, <2>1 DEF Children
<1>10. Valid(d)
  <2>1. Placed(d, 1)
    BY <1>2, <1>6, <1>8, <1>9 DEF Placed
  <2>2. Placed(d, 2)
    BY <1>2, <1>6, <1>8, <1>9 DEF Placed
  <2>3. Placed(d, 3)
    BY <1>2, <1>6, <1>8, <1>9 DEF Placed
  <2>4. \A i \in 1..3 : i = 1 \/ i = 2 \/ i = 3
    OBVIOUS
  <2> QED
    BY <1>6, <1>7, <2>1, <2>2, <2>3, <2>4, ValidPlaced
<1>11. PICK data : data = Load(d) /\ data \in Seq(Entry)
  BY <1>4, LoadType
<1>12. Cardinality(1..2) = 2 /\ \A k \in 1..2 : Ascending(1..2)[k] = k
  BY AscendingAll
<1>13. DOMAIN Ascending(1..2) = 1..2
  BY <1>12 DEF Ascending
<1>14. {i \in DOMAIN d : IsKey(d[i])} = 1..2
  <2>1. \A i \in 1..3 : i = 1 \/ i = 2 \/ i = 3
    OBVIOUS
  <2>2. ~IsKey(c)
    BY <1>2 DEF IsKey
  <2>3. \A i \in 1..3 : IsKey(d[i]) <=> i \in 1..2
    BY <1>2, <1>6, <2>1, <2>2
  <2>4. 1..2 \subseteq 1..3
    OBVIOUS
  <2> QED
    BY <1>6, <2>3, <2>4
<1>15. data = [h \in 1..2 |->
                 [path |-> Names(d, Ancestors(d, Ascending(1..2)[h])),
                  value |-> IF d[Ascending(1..2)[h]].value = Block
                            THEN Below(d, Ascending(1..2)[h])
                            ELSE d[Ascending(1..2)[h]].value]]
  BY <1>7, <1>11, <1>13, <1>14 DEF Load
<1>16. /\ data[1].path = Names(d, Ancestors(d, 1))
       /\ data[2].path = Names(d, Ancestors(d, 2)) /\ data[2].value = Below(d, 2)
  <2>1. Ascending(1..2)[1] = 1 /\ Ascending(1..2)[2] = 2
    BY <1>12
  <2> QED
    BY <1>2, <1>6, <1>15, <2>1
<1>17. Ancestors(d, 1) = 1..1 /\ Ancestors(d, 2) = 1..2
  <2>1. \A j \in 1..1 : \A k \in j + 1..1 : d[k].ind > d[j].ind
    OBVIOUS
  <2>2. \A j \in 1..2 : \A k \in j + 1..2 : d[k].ind > d[j].ind
    <3> SUFFICES ASSUME NEW j \in 1..2, NEW k \in j + 1..2 PROVE d[k].ind > d[j].ind
      OBVIOUS
    <3>1. j = 1 /\ k = 2
      OBVIOUS
    <3> QED
      BY <1>2, <1>6, <3>1
  <2> QED
    BY <2>1, <2>2 DEF Ancestors
<1>18. data[1].path # Enabled
  <2>1. 1..1 \subseteq DOMAIN d
    BY <1>6
  <2>2. Len(Names(d, 1..1)) = Cardinality(1..1)
    BY <1>4, <2>1, NamesType
  <2>3. Cardinality(1..1) = 1
    BY AscendingAll
  <2>4. Len(Enabled) = 2
    BY DEF Enabled
  <2> QED
    BY <1>16, <1>17, <2>2, <2>3, <2>4
<1>19. data[2].path = Enabled
  <2>1. PICK s : s = Names(d, 1..2)
    OBVIOUS
  <2>2. 1..2 \subseteq DOMAIN d
    BY <1>6
  <2>3. s \in Seq(Name) /\ Len(s) = 2
    BY <1>4, <1>12, <2>1, <2>2, NamesType
  <2>4. s[1] = "plugins" /\ s[2] = "enabled"
    <3>1. s = [k \in 1..2 |-> d[Ascending(1..2)[k]].name]
      BY <1>13, <2>1 DEF Names
    <3>2. Ascending(1..2)[1] = 1 /\ Ascending(1..2)[2] = 2
      BY <1>12
    <3> QED
      BY <1>2, <1>6, <3>1, <3>2
  <2>5. Enabled \in Seq(Name) /\ Len(Enabled) = 2 /\ Enabled[1] = "plugins" /\ Enabled[2] = "enabled"
    BY PathTypes DEF Enabled
  <2>6. \A k \in 1..2 : s[k] = Enabled[k]
    <3>1. \A k \in 1..2 : k = 1 \/ k = 2
      OBVIOUS
    <3> QED
      BY <2>4, <2>5, <3>1
  <2>7. s = Enabled
    BY <2>3, <2>5, <2>6, SeqEqual
  <2> QED
    BY <1>16, <1>17, <2>1, <2>7
<1>20. EnabledList(data) = Below(d, 2).items
  <2>1. DOMAIN data = 1..2
    BY <1>15
  <2>2. \A n \in DOMAIN data : data[n].path = Enabled <=> n = 2
    <3>1. \A n \in 1..2 : n = 1 \/ n = 2
      OBVIOUS
    <3> QED
      BY <1>18, <1>19, <2>1, <3>1
  <2>3. 2 \in DOMAIN data
    BY <2>1
  <2>4. Has(data, Enabled)
    BY <2>2, <2>3 DEF Has
  <2>5. (CHOOSE n \in DOMAIN data : data[n].path = Enabled) = 2
    BY <2>2, <2>3
  <2> QED
    BY <1>16, <2>4, <2>5 DEF EnabledList, At
<1>21. Below(d, 2) = List(Names(d, {3}))
  <2>1. {j \in Children(d, 2) : IsItem(d[j])} = {3}
    BY <1>2, <1>6, <1>9
  <2> QED
    BY <1>9, <2>1 DEF Below
<1>22. Contains(Names(d, {3}), Glyph)
  <2>1. {3} \subseteq 1..3 /\ {3} \subseteq DOMAIN d /\ 3 \in Nat
    BY <1>6
  <2>2. Cardinality({3}) = 1
    BY FS_Singleton
  <2>3. Ascending({3}) \in [1..1 -> {3}]
    BY <2>1, <2>2, AscendingFacts
  <2>4. Len(Names(d, {3})) = 1
    BY <1>4, <2>1, <2>2, NamesType
  <2>5. 1 \in 1..1
    OBVIOUS
  <2>6. Names(d, {3})[1] = Glyph
    BY <1>2, <1>6, <2>3, <2>5 DEF Names
  <2> QED
    BY <2>4, <2>5, <2>6 DEF Contains
<1>23. Listed(d)
  BY <1>11, <1>20, <1>21, <1>22 DEF Listed, List
<1> QED
  BY <1>3, <1>5, <1>10, <1>23

----------------------------------------------------------------------------
(* Where FlattenSeq puts what it flattens.                                 *)

\* Sequence i of ss stands in s behind place f[i - 1].
Stands(s, ss, f, i) ==
  /\ f[i] = f[i - 1] + Len(ss[i])
  /\ \A k \in 1..Len(ss[i]) : s[f[i - 1] + k] = ss[i][k]

LEMMA StandsLonger ==
  ASSUME NEW S, NEW ss, NEW f, NEW i, NEW s \in Seq(S), NEW t \in Seq(S),
         Stands(s, ss, f, i), f[i - 1] \in Nat, f[i] \in Nat, Len(ss[i]) \in Nat,
         f[i] <= Len(s)
  PROVE  Stands(s \o t, ss, f, i)
<1>1. PICK a \in Nat, b \in Nat, l \in Nat : a = f[i - 1] /\ b = f[i] /\ l = Len(ss[i])
  OBVIOUS
<1>2. b = a + l /\ \A k \in 1..l : s[a + k] = ss[i][k]
  BY <1>1 DEF Stands
<1>3. PICK m \in Nat : m = Len(s) /\ b <= m
  BY <1>1, LenProperties
<1>4. ASSUME NEW k \in 1..l
      PROVE  (s \o t)[a + k] = ss[i][k]
  <2>1. PICK h : h = a + k
    OBVIOUS
  <2>2. h \in 1..m
    BY <1>2, <1>3, <2>1
  <2>3. (s \o t)[h] = s[h]
    BY <1>3, <2>2, ConcatFacts
  <2> QED
    BY <1>2, <2>1, <2>3
<1> QED
  BY <1>1, <1>2, <1>4 DEF Stands

AllStand(s, ss, f, m) == \A i \in 1..m : f[i] <= f[m] /\ Stands(s, ss, f, i)

LEMMA FlattenPlaces ==
  ASSUME NEW S, NEW ss \in Seq(Seq(S)), NEW n \in Nat, n = Len(ss), n # 0
  PROVE  \E f \in [0..n -> Nat] :
           /\ f[0] = 0 /\ f[n] = Len(FlattenSeq(ss))
           /\ \A i \in 1..n : Stands(FlattenSeq(ss), ss, f, i)
<1>1. \A i \in 1..n : ss[i] \in Seq(S) /\ Len(ss[i]) \in Nat
  BY LenProperties, ElementOfSeq
<1>2. PICK g : /\ Flattens(g, ss, n) /\ FlattenSeq(ss) = g[n]
               /\ \A m \in 1..n : g[m] \in Seq(S)
  BY FlattenPrefixes
<1>3. \A m \in 1..n : g[m] = IF m = 1 THEN ss[m] ELSE g[m - 1] \o ss[m]
  BY <1>2 DEF Flattens
<1>4. PICK f : f = [i \in 0..n |-> IF i = 0 THEN 0 ELSE Len(g[i])]
  OBVIOUS
<1>5. f \in [0..n -> Nat] /\ f[0] = 0 /\ \A i \in 1..n : f[i] = Len(g[i])
  BY <1>2, <1>4, LenProperties
<1>6. ASSUME NEW m \in 1..n
      PROVE  f[m] = f[m - 1] + Len(ss[m]) /\ Stands(g[m], ss, f, m)
  <2>1. PICK l \in Nat : l = Len(ss[m]) /\ ss[m] \in Seq(S)
    BY <1>1
  <2>2. CASE m = 1
    <3>1. g[m] = ss[m] /\ m - 1 = 0 /\ f[m] = l
      BY <1>3, <1>5, <2>1, <2>2
    <3>2. \A k \in 1..l : 0 + k = k
      OBVIOUS
    <3> QED
      BY <1>5, <2>1, <3>1, <3>2 DEF Stands
  <2>3. CASE m # 1
    <3>1. PICK p \in 1..n : p = m - 1
      BY <2>3
    <3>2. g[m] = g[p] \o ss[m] /\ g[p] \in Seq(S)
      BY <1>2, <1>3, <2>3, <3>1
    <3>3. PICK a \in Nat : a = f[p] /\ a = Len(g[p])
      BY <1>5, <3>1, <3>2, LenProperties
    <3>4. PICK u \in Seq(S), w \in Seq(S) :
            u = g[p] /\ w = ss[m] /\ a = Len(u) /\ l = Len(w)
      BY <2>1, <3>2, <3>3
    <3>5. Len(u \o w) = a + l /\ \A k \in 1..l : (u \o w)[a + k] = w[k]
      <4>1. Len(u \o w) = a + l
        BY <3>4, ConcatFacts
      <4>2. ASSUME NEW k \in 1..l
            PROVE  (u \o w)[a + k] = w[k]
        <5>1. a + k \in 1..a + l /\ ~(a + k <= a) /\ (a + k) - a = k
          OBVIOUS
        <5>2. Len(u) + Len(w) = a + l
          BY <3>4
        <5> QED
          BY <3>4, <5>1, <5>2, ConcatProperties
      <4> QED
        BY <4>1, <4>2
    <3>6. f[m] = a + l /\ \A k \in 1..l : g[m][a + k] = ss[m][k]
      BY <1>5, <3>2, <3>4, <3>5
    <3> QED
      BY <2>1, <3>1, <3>3, <3>6 DEF Stands
  <2> QED
    BY <2>2, <2>3
<1>7. \A m \in 1..n : AllStand(g[m], ss, f, m)
  <2>1. PICK Bad : Bad = {m \in 1..n : ~AllStand(g[m], ss, f, m)}
    OBVIOUS
  <2>2. CASE Bad = {}
    BY <2>1, <2>2
  <2>3. CASE Bad # {}
    <3>1. PICK m \in Bad : \A j \in Bad : m <= j
      <4>1. Bad \subseteq Nat
        BY <2>1
      <4> QED
        BY <2>3, <4>1, LeastNat
    <3>2. m \in 1..n
      BY <2>1
    <3>3. PICK i \in 1..m : ~(f[i] <= f[m] /\ Stands(g[m], ss, f, i))
      <4>1. ~AllStand(g[m], ss, f, m)
        BY <2>1
      <4> QED
        BY <4>1 DEF AllStand
    <3>4. i \in 1..n /\ f[i] \in Nat /\ f[m] \in Nat
      <4>1. i \in 1..n /\ i \in 0..n /\ m \in 0..n
        BY <3>2
      <4> QED
        BY <1>5, <4>1
    <3>5. i # m
      BY <1>6, <3>2, <3>3, <3>4
    <3>6. PICK p \in 1..n : p = m - 1 /\ i \in 1..p /\ p < m /\ m # 1
      BY <3>2, <3>4, <3>5
    <3>7. p \notin Bad
      BY <3>1, <3>2, <3>6
    <3>8. f[i] <= f[p] /\ Stands(g[p], ss, f, i)
      <4>1. AllStand(g[p], ss, f, p)
        BY <2>1, <3>7
      <4> QED
        BY <3>6, <4>1 DEF AllStand
    <3>9. f[p] \in Nat /\ f[m] = f[p] + Len(ss[m]) /\ Len(ss[m]) \in Nat
      <4>1. p \in 0..n
        OBVIOUS
      <4>2. f[m] = f[m - 1] + Len(ss[m])
        BY <1>6, <3>2
      <4> QED
        BY <1>1, <1>5, <3>2, <3>6, <4>1, <4>2
    <3>10. f[i] <= f[m]
      BY <3>4, <3>8, <3>9
    <3>11. g[m] = g[p] \o ss[m] /\ g[p] \in Seq(S) /\ ss[m] \in Seq(S)
      BY <1>1, <1>2, <1>3, <3>2, <3>6
    <3>12. Stands(g[p] \o ss[m], ss, f, i)
      <4>1. i - 1 \in 0..n
        BY <3>4
      <4>2. f[i - 1] \in Nat /\ Len(ss[i]) \in Nat /\ f[i] <= Len(g[p])
        BY <1>1, <1>5, <3>4, <3>6, <3>8, <4>1
      <4> QED
        BY <3>4, <3>8, <3>11, <4>2, StandsLonger
    <3> QED
      BY <3>3, <3>10, <3>11, <3>12
  <2> QED
    BY <2>2, <2>3
<1>8. n \in 1..n
  OBVIOUS
<1>9. f[n] = Len(FlattenSeq(ss)) /\ \A i \in 1..n : Stands(FlattenSeq(ss), ss, f, i)
  BY <1>2, <1>5, <1>7, <1>8 DEF AllStand
<1> QED
  BY <1>5, <1>9

LEMMA Ascends ==
  ASSUME NEW n \in Nat, NEW f \in [0..n -> Nat], \A i \in 1..n : f[i - 1] < f[i],
         NEW a \in 0..n, NEW b \in 0..n, a < b
  PROVE  f[a] < f[b]
<1>1. PICK Bad : Bad = {m \in 0..n : a < m /\ ~(f[a] < f[m])}
  OBVIOUS
<1>2. CASE Bad = {}
  BY <1>1, <1>2
<1>3. CASE Bad # {}
  <2>1. PICK m \in Bad : \A j \in Bad : m <= j
    <3>1. Bad \subseteq Nat
      BY <1>1
    <3> QED
      BY <1>3, <3>1, LeastNat
  <2>2. m \in 1..n /\ a < m /\ ~(f[a] < f[m])
    BY <1>1
  <2>3. PICK p \in 0..n : p = m - 1
    BY <2>2
  <2>4. f[p] < f[m] /\ f[p] \in Nat /\ f[m] \in Nat /\ f[a] \in Nat
    BY <2>2, <2>3
  <2>5. CASE p = a
    BY <2>2, <2>4, <2>5
  <2>6. CASE p # a
    <3>1. a < p /\ p < m
      BY <2>2, <2>3, <2>6
    <3>2. p \notin Bad
      BY <2>1, <2>2, <3>1
    <3>3. f[a] < f[p]
      BY <1>1, <3>1, <3>2
    <3> QED
      BY <2>2, <2>4, <3>3
  <2> QED
    BY <2>5, <2>6
<1> QED
  BY <1>2, <1>3

----------------------------------------------------------------------------
(* The lines of a dump.                                                    *)

\* The lines for entry i are those from f[i - 1] + 1 to f[i].
Written(D, e, a, b) ==
  /\ a < b /\ D[a + 1] = KeyLine(e)
  /\ \A k \in a + 2..b :
       Spelled(e.value) /\ \E x : Contains(e.value.items, x) /\ D[k] = Item(Ind(e), x)

LEMMA EntryWritten ==
  ASSUME NEW e \in Entry, NEW D, NEW a \in Nat, NEW b \in Nat,
         b = a + Len(EntryLines(e)),
         \A k \in 1..Len(EntryLines(e)) : D[a + k] = EntryLines(e)[k]
  PROVE  Written(D, e, a, b)
<1>1. PICK items \in Seq(Name) : items = e.value.items
  <2>1. e.value \in Value
    BY DEF Entry
  <2> QED
    BY <2>1, ValueTypes
<1>2. PICK one : one = <<KeyLine(e)>> /\ one[1] = KeyLine(e) /\ Len(one) = 1
                 /\ \A T : KeyLine(e) \in T => one \in Seq(T)
  <2>1. PICK h : h = KeyLine(e)
    OBVIOUS
  <2>2. <<h>>[1] = h /\ Len(<<h>>) = 1 /\ \A T : h \in T => <<h>> \in Seq(T)
    OBVIOUS
  <2> QED
    BY <2>1, <2>2
<1>3. PICK m \in Nat : m = Len(items) /\ DOMAIN items = 1..m
  BY LenProperties
<1>4. PICK T : T = {KeyLine(e)} \union {Item(Ind(e), x) : x \in Name}
  OBVIOUS
<1>5. PICK rest : rest = IF Spelled(e.value) THEN [k \in 1..m |-> Item(Ind(e), items[k])]
                         ELSE <<>>
  OBVIOUS
<1>6. /\ rest \in Seq(T) /\ Len(rest) = IF Spelled(e.value) THEN m ELSE 0
      /\ \A k \in 1..Len(rest) : Spelled(e.value) /\ rest[k] = Item(Ind(e), items[k])
  <2>1. CASE Spelled(e.value)
    <3>1. \A k \in 1..m : items[k] \in Name
      BY <1>3, ElementOfSeq
    <3>2. rest \in [1..m -> T]
      BY <1>4, <1>5, <2>1, <3>1
    <3>3. rest \in Seq(T) /\ Len(rest) = m
      BY <3>2, SeqDef, LenProperties
    <3> QED
      BY <1>5, <2>1, <3>3
  <2>2. CASE ~Spelled(e.value)
    BY <1>5, <2>2, EmptySeq
  <2> QED
    BY <2>1, <2>2
<1>7. one \in Seq(T)
  BY <1>2, <1>4
<1>8. EntryLines(e) = one \o rest
  BY <1>1, <1>2, <1>3, <1>5 DEF EntryLines
<1>9. PICK q \in Nat : q = Len(rest) /\ Len(one \o rest) = 1 + q
  BY <1>2, <1>6, <1>7, ConcatFacts, LenProperties
<1>10. b = a + (1 + q)
  BY <1>8, <1>9
<1>11. \A k \in 1..1 + q : (one \o rest)[k] = IF k <= 1 THEN one[k] ELSE rest[k - 1]
  BY <1>2, <1>6, <1>7, <1>9, ConcatProperties
<1>12. D[a + 1] = KeyLine(e)
  BY <1>2, <1>8, <1>9, <1>11
<1>13. ASSUME NEW k \in a + 2..b
       PROVE  Spelled(e.value) /\ \E x : Contains(items, x) /\ D[k] = Item(Ind(e), x)
  <2>1. PICK h : h = k - a
    OBVIOUS
  <2>2. h \in 1..1 + q /\ ~(h <= 1) /\ h - 1 \in 1..q /\ k = a + h
    BY <1>10, <2>1
  <2>3. D[k] = rest[h - 1]
    BY <1>8, <1>9, <1>11, <2>2
  <2>4. Spelled(e.value) /\ rest[h - 1] = Item(Ind(e), items[h - 1]) /\ q <= m
    BY <1>6, <1>9, <2>2
  <2>5. Contains(items, items[h - 1])
    <3>1. h - 1 \in 1..Len(items)
      BY <1>3, <2>2, <2>4
    <3> QED
      BY <3>1 DEF Contains
  <2> QED
    BY <2>3, <2>4, <2>5
<1> QED
  BY <1>1, <1>10, <1>12, <1>13 DEF Written

Laid(D, data, n, f) ==
  /\ f \in [0..n -> Nat] /\ f[0] = 0 /\ f[n] = Len(D)
  /\ \A i \in 1..n : Written(D, data[i], f[i - 1], f[i])

LEMMA DumpLaid ==
  ASSUME NEW data \in Seq(Entry), NEW n \in Nat, n = Len(data)
  PROVE  \E f : Laid(Dump(data), data, n, f)
<1>1. PICK ss \in Seq(Seq(BlockLine)) :
        /\ Dump(data) = FlattenSeq(ss) /\ Len(ss) = n
        /\ \A k \in 1..n : ss[k] = EntryLines(data[k])
  BY DumpFlattens
<1>2. CASE n = 0
  <2>1. ss = <<>> /\ FlattenSeq(ss) = ss
    BY <1>1, <1>2, EmptySeq DEF FlattenSeq
  <2>2. PICK f : f = [i \in 0..0 |-> 0]
    OBVIOUS
  <2>3. f \in [0..n -> Nat] /\ f[0] = 0 /\ f[n] = Len(Dump(data))
    BY <1>1, <1>2, <2>1, <2>2, EmptySeq
  <2> QED
    BY <1>2, <2>3 DEF Laid
<1>3. CASE n # 0
  <2>1. PICK f \in [0..n -> Nat] :
          /\ f[0] = 0 /\ f[n] = Len(FlattenSeq(ss))
          /\ \A i \in 1..n : Stands(FlattenSeq(ss), ss, f, i)
    BY <1>1, <1>3, FlattenPlaces
  <2>2. ASSUME NEW i \in 1..n
        PROVE  Written(Dump(data), data[i], f[i - 1], f[i])
    <3>1. data[i] \in Entry
      BY LenProperties
    <3>2. PICK a \in Nat, b \in Nat : a = f[i - 1] /\ b = f[i]
      <4>1. i - 1 \in 0..n /\ i \in 0..n
        OBVIOUS
      <4> QED
        BY <4>1
    <3>3. /\ b = a + Len(EntryLines(data[i]))
          /\ \A k \in 1..Len(EntryLines(data[i])) :
               Dump(data)[a + k] = EntryLines(data[i])[k]
      BY <1>1, <2>1, <3>2 DEF Stands
    <3> QED
      BY <3>1, <3>2, <3>3, EntryWritten
  <2> QED
    BY <1>1, <2>1, <2>2 DEF Laid
<1> QED
  BY <1>2, <1>3

\* Every line is written for some entry, and those of a later one come later.
LEMMA LaidFacts ==
  ASSUME NEW D, NEW data, NEW n \in Nat, NEW f, Laid(D, data, n, f)
  PROVE  /\ \A a, b \in 0..n : a < b => f[a] < f[b]
         /\ \A k \in 1..Len(D) : \E i \in 1..n : f[i - 1] < k /\ k <= f[i]
<1>1. f \in [0..n -> Nat] /\ f[0] = 0 /\ f[n] = Len(D)
  BY DEF Laid
<1>2. \A i \in 1..n : f[i - 1] < f[i]
  BY DEF Laid, Written
<1>3. \A a, b \in 0..n : a < b => f[a] < f[b]
  BY <1>1, <1>2, Ascends
<1>4. ASSUME NEW k \in 1..Len(D)
      PROVE  \E i \in 1..n : f[i - 1] < k /\ k <= f[i]
  <2>1. PICK S : S = {i \in 0..n : k <= f[i]}
    OBVIOUS
  <2>2. n \in S /\ 0 \notin S /\ S \subseteq Nat
    BY <1>1, <2>1
  <2>3. PICK i \in S : \A j \in S : i <= j
    BY <2>2, LeastNat
  <2>4. i \in 1..n /\ k <= f[i]
    BY <2>1, <2>2
  <2>5. PICK p \in 0..n : p = i - 1 /\ p < i
    BY <2>4
  <2>6. p \notin S
    BY <2>3, <2>4, <2>5
  <2>7. f[p] < k
    BY <1>1, <2>1, <2>6
  <2> QED
    BY <2>4, <2>5, <2>7
<1> QED
  BY <1>3, <1>4

LEMMA LineKinds ==
  ASSUME NEW data \in Seq(Entry), NEW n \in Nat, n = Len(data), NEW D, NEW f,
         Laid(D, data, n, f), NEW i \in 1..n, NEW k \in Nat, f[i - 1] < k, k <= f[i]
  PROVE  /\ Ind(data[i]) \in Nat /\ Ind(data[i]) = 2 * (Len(data[i].path) - 1)
         /\ D[k].ind = Ind(data[i])
         /\ k = f[i - 1] + 1 => IsKey(D[k]) /\ ~IsItem(D[k]) /\ D[k] = KeyLine(data[i])
         /\ k # f[i - 1] + 1 =>
              /\ IsItem(D[k]) /\ ~IsKey(D[k]) /\ Spelled(data[i].value)
              /\ \E x : Contains(data[i].value.items, x) /\ D[k].name = x
         /\ ~IsNote(D[k])
<1>1. PICK e \in Entry : e = data[i]
  BY LenProperties
<1>2. PICK m \in Nat : m = Len(e.path) /\ m # 0
  BY EmptySeq, LenProperties DEF Entry
<1>3. Ind(e) = 2 * (m - 1) /\ Ind(e) \in Nat
  BY <1>2 DEF Ind
<1>4. PICK a \in Nat, b \in Nat : a = f[i - 1] /\ b = f[i]
  <2>1. i - 1 \in 0..n /\ i \in 0..n
    OBVIOUS
  <2> QED
    BY <2>1 DEF Laid
<1>5. Written(D, e, a, b)
  BY <1>1, <1>4 DEF Laid
<1>6. CASE k = a + 1
  <2>1. D[k] = KeyLine(e)
    BY <1>5, <1>6 DEF Written
  <2>2. KeyLine(e).kind = "key" /\ KeyLine(e).ind = Ind(e)
    BY DEF KeyLine, Key
  <2> QED
    BY <1>1, <1>2, <1>3, <1>4, <1>6, <2>1, <2>2 DEF IsKey, IsItem, IsNote
<1>7. CASE k # a + 1
  <2>1. k \in a + 2..b
    BY <1>4, <1>7
  <2>2. Spelled(e.value) /\ \E x : Contains(e.value.items, x) /\ D[k] = Item(Ind(e), x)
    BY <1>5, <2>1 DEF Written
  <2>3. PICK x : Contains(e.value.items, x) /\ D[k] = Item(Ind(e), x)
    BY <2>2
  <2>4. D[k].kind = "item" /\ D[k].ind = Ind(e) /\ D[k].name = x
    BY <2>3 DEF Item
  <2> QED
    BY <1>1, <1>2, <1>3, <1>4, <1>7, <2>2, <2>3, <2>4 DEF IsKey, IsItem, IsNote
<1> QED
  BY <1>6, <1>7

\* A key stands no deeper than below the one before it, if that one is a mapping.
Nested(data, n) ==
  \A i \in 1..n :
    Len(data[i].path) <= IF i = 1 THEN 1
                         ELSE Len(data[i - 1].path) + IF data[i - 1].value = Map THEN 1 ELSE 0

\* The last key before i that is less deep holds it.
LEMMA Holder ==
  ASSUME NEW data \in Seq(Entry), NEW n \in Nat, n = Len(data), Nested(data, n),
         NEW i \in 1..n, Len(data[i].path) # 1
  PROVE  \E q \in 1..i - 1 :
           /\ data[q].value = Map /\ Len(data[i].path) = Len(data[q].path) + 1
           /\ \A r \in q + 1..i - 1 : Len(data[r].path) >= Len(data[i].path)
<1>1. PICK d : d = [j \in 1..n |-> Len(data[j].path)]
  OBVIOUS
<1>2. d \in [1..n -> Nat \ {0}]
  <2>1. ASSUME NEW j \in 1..n PROVE Len(data[j].path) \in Nat \ {0}
    <3>1. data[j] \in Entry
      BY LenProperties
    <3>2. data[j].path \in Seq(Name) /\ data[j].path # <<>>
      BY <3>1 DEF Entry
    <3> QED
      BY <3>2, EmptySeq, LenProperties
  <2> QED
    BY <1>1, <2>1
<1>3. \A j \in 1..n : d[j] <= IF j = 1 THEN 1
                             ELSE d[j - 1] + IF data[j - 1].value = Map THEN 1 ELSE 0
  <2> SUFFICES ASSUME NEW j \in 1..n
               PROVE  d[j] <= IF j = 1 THEN 1
                              ELSE d[j - 1] + IF data[j - 1].value = Map THEN 1 ELSE 0
    OBVIOUS
  <2>1. j # 1 => j - 1 \in 1..n
    OBVIOUS
  <2> QED
    BY <1>1, <2>1 DEF Nested
<1>4. d[i] > 1 /\ d[i] \in Nat /\ i # 1 /\ 1 \in 1..n /\ d[1] = 1
  <2>1. d[i] # 1 /\ d[i] \in Nat \ {0}
    BY <1>1, <1>2
  <2>2. 1 \in 1..n
    OBVIOUS
  <2>3. d[1] <= 1 /\ d[1] \in Nat \ {0}
    BY <1>2, <1>3, <2>2
  <2> QED
    BY <2>1, <2>2, <2>3
<1>5. PICK S : S = {j \in 1..i - 1 : d[j] < d[i]}
  OBVIOUS
<1>6. PICK q \in S : \A j \in S : j <= q
  <2>1. 1 \in 1..i - 1
    BY <1>4
  <2>2. 1 \in S
    BY <1>4, <1>5, <2>1
  <2>3. S \subseteq 0..i - 1 /\ i - 1 \in Nat
    BY <1>5
  <2> QED
    BY <2>2, <2>3, MaxIn
<1>7. q \in 1..i - 1 /\ q \in 1..n /\ d[q] < d[i]
  BY <1>5
<1>8. ASSUME NEW r \in q + 1..i - 1
      PROVE  d[r] >= d[i]
  <2>1. r \in 1..i - 1 /\ r \in 1..n /\ ~(r <= q)
    BY <1>7
  <2>2. r \notin S
    BY <1>6, <2>1
  <2> QED
    BY <1>2, <1>4, <1>5, <2>1, <2>2
<1>9. PICK s \in 1..n : s = q + 1
  BY <1>7
<1>10. d[s] >= d[i]
  <2>1. CASE s = i
    BY <1>4, <2>1
  <2>2. CASE s # i
    <3>1. s \in q + 1..i - 1
      BY <1>7, <1>9, <2>2
    <3> QED
      BY <1>8, <3>1
  <2> QED
    BY <2>1, <2>2
<1>11. s # 1 /\ s - 1 = q
  BY <1>7, <1>9
<1>12. d[s] <= d[q] + IF data[q].value = Map THEN 1 ELSE 0
  BY <1>3, <1>11
<1>13. d[q] \in Nat /\ d[s] \in Nat
  BY <1>2, <1>7
<1>14. data[q].value = Map /\ d[i] = d[q] + 1
  BY <1>4, <1>7, <1>10, <1>12, <1>13
<1>15. \A j \in 1..n : d[j] = Len(data[j].path)
  BY <1>1
<1>16. \A r \in q + 1..i - 1 : r \in 1..n
  BY <1>7
<1> QED
  BY <1>7, <1>8, <1>14, <1>15, <1>16

Rooted(D, data, n, f, k) ==
  \/ Parent(D, k) = 0 /\ IsKey(D[k]) /\ D[k].ind = 0
  \/ \E q \in 1..n :
       /\ Parent(D, k) = f[q - 1] + 1
       /\ \/ data[q].value = Map /\ IsKey(D[k]) /\ D[k].ind = Ind(data[q]) + 2
          \/ Spelled(data[q].value) /\ IsItem(D[k]) /\ D[k].ind = Ind(data[q])

LEMMA LineRooted ==
  ASSUME NEW data \in Seq(Entry), NEW n \in Nat, n = Len(data), Nested(data, n),
         NEW D, NEW N \in Nat, N = Len(D), NEW f, Laid(D, data, n, f), NEW k \in 1..N
  PROVE  Rooted(D, data, n, f, k)
<1>1. /\ f \in [0..n -> Nat]
      /\ \A a, b \in 0..n : a < b => f[a] < f[b]
      /\ \A l \in 1..N : \E i \in 1..n : f[i - 1] < l /\ l <= f[i]
  BY LaidFacts DEF Laid
<1>2. PICK i \in 1..n : f[i - 1] < k /\ k <= f[i]
  BY <1>1
<1>f. \A a \in 0..n : f[a] \in Nat
  BY <1>1
<1>m. \A a, b \in 0..n : a < b => f[a] < f[b]
  BY <1>1
<1>3. PICK h \in Nat : /\ h = f[i - 1] + 1 /\ h <= k /\ h \in 1..N
                       /\ f[i - 1] < h /\ h <= f[i] /\ f[i - 1] \in Nat
  <2>1. i - 1 \in 0..n /\ i \in 0..n
    OBVIOUS
  <2>2. f[i - 1] \in Nat /\ f[i] \in Nat
    BY <1>f, <2>1
  <2> QED
    BY <1>2, <2>2
<1>4. /\ Ind(data[i]) \in Nat /\ Ind(data[i]) = 2 * (Len(data[i].path) - 1)
      /\ D[k].ind = Ind(data[i])
      /\ k = h => IsKey(D[k]) /\ ~IsItem(D[k])
      /\ k # h => IsItem(D[k]) /\ ~IsKey(D[k]) /\ Spelled(data[i].value)
  BY <1>2, <1>3, LineKinds
<1>5. PICK p : p = Parent(D, k) /\ Nearest(D, k, p)
  BY ParentNearest
<1>6. CASE k # h
  <2>1. D[h].ind = Ind(data[i]) /\ IsKey(D[h])
    BY <1>3, LineKinds
  <2>2. Above(D, h, k)
    BY <1>4, <1>6, <2>1 DEF Above
  <2>3. ASSUME NEW j \in 1..k - 1, Above(D, j, k)
        PROVE  j <= h
    <3>1. CASE j <= h
      BY <3>1
    <3>2. CASE ~(j <= h)
      <4>1. j \in Nat /\ f[i - 1] < j /\ j <= f[i] /\ j # h
        <5>1. i \in 0..n
          OBVIOUS
        <5>2. f[i] \in Nat
          BY <1>f, <5>1
        <5> QED
          BY <1>2, <1>3, <3>2, <5>2
      <4>2. D[j].ind = Ind(data[i]) /\ ~IsKey(D[j])
        BY <1>3, <4>1, LineKinds
      <4> QED
        BY <1>4, <2>3, <4>2 DEF Above
    <3> QED
      BY <3>1, <3>2
  <2>4. h \in 0..k - 1
    BY <1>3, <1>6
  <2>5. Nearest(D, k, h)
    BY <2>2, <2>3, <2>4 DEF Nearest
  <2>6. p = h
    BY <1>5, <2>5, ParentNearest
  <2> QED
    BY <1>3, <1>4, <1>5, <1>6, <2>6 DEF Rooted
<1>7. CASE k = h /\ Len(data[i].path) = 1
  <2>1. D[k].ind = 0 /\ IsKey(D[k]) /\ ~IsItem(D[k])
    BY <1>4, <1>7
  <2>2. \A j \in 1..N : D[j].ind \in Nat
    <3> SUFFICES ASSUME NEW j \in 1..N PROVE D[j].ind \in Nat
      OBVIOUS
    <3>1. PICK r \in 1..n : f[r - 1] < j /\ j <= f[r]
      BY <1>1
    <3> QED
      BY <3>1, LineKinds
  <2>3. p = 0
    <3>1. p # 0 => p \in 1..N /\ Above(D, p, k)
      BY <1>5 DEF Nearest
    <3> QED
      BY <2>1, <2>2, <3>1 DEF Above
  <2> QED
    BY <1>5, <2>1, <2>3 DEF Rooted
<1>8. CASE k = h /\ Len(data[i].path) # 1
  <2>1. PICK q \in 1..i - 1 :
          /\ data[q].value = Map /\ Len(data[i].path) = Len(data[q].path) + 1
          /\ \A r \in q + 1..i - 1 : Len(data[r].path) >= Len(data[i].path)
    BY <1>8, Holder
  <2>2. q \in 1..n /\ q - 1 \in 0..n /\ q \in 0..n /\ i - 1 \in 0..n
    OBVIOUS
  <2>t. f[q - 1] \in Nat /\ f[q] \in Nat /\ f[i - 1] \in Nat
    BY <1>f, <2>2
  <2>3. PICK g \in Nat : g = f[q - 1] + 1 /\ f[q - 1] < g /\ g <= f[q] /\ f[q] < k
    <3>1. f[q - 1] < f[q]
      <4>1. q - 1 < q
        OBVIOUS
      <4> QED
        BY <1>m, <2>2, <4>1
    <3>2. f[q] <= f[i - 1]
      <4>1. q = i - 1 \/ q < i - 1
        OBVIOUS
      <4>2. q < i - 1 => f[q] < f[i - 1]
        BY <1>m, <2>2
      <4> QED
        BY <2>t, <4>1, <4>2
    <3> QED
      BY <1>2, <2>t, <3>1, <3>2
  <2>4. Ind(data[q]) \in Nat /\ Ind(data[q]) = 2 * (Len(data[q].path) - 1)
        /\ D[g].ind = Ind(data[q])
    <3>1. q \in 1..n
      BY <2>2
    <3> QED
      BY <2>3, <3>1, LineKinds
  <2>5. \A j \in 1..n : Len(data[j].path) \in Nat
    <3> SUFFICES ASSUME NEW j \in 1..n PROVE Len(data[j].path) \in Nat
      OBVIOUS
    <3>1. data[j] \in Entry
      BY LenProperties
    <3>2. data[j].path \in Seq(Name)
      BY <3>1 DEF Entry
    <3> QED
      BY <3>2, LenProperties
  <2>6. Ind(data[i]) = Ind(data[q]) + 2
    BY <1>4, <2>1, <2>2, <2>4, <2>5
  <2>7. Above(D, g, k)
    BY <1>4, <2>4, <2>6 DEF Above
  <2>8. ASSUME NEW j \in 1..k - 1, Above(D, j, k)
        PROVE  j <= g
    <3>1. j \in 1..N /\ j \in Nat
      BY <1>3
    <3>2. PICK r \in 1..n : f[r - 1] < j /\ j <= f[r]
      BY <1>1, <3>1
    <3>3. r - 1 \in 0..n /\ r \in 0..n
      OBVIOUS
    <3>t. f[r - 1] \in Nat /\ f[r] \in Nat
      BY <1>f, <3>3
    <3>4. r <= i - 1
      <4>1. ~(i <= r - 1)
        <5>1. f[i - 1] \in Nat /\ f[r - 1] \in Nat /\ k = f[i - 1] + 1
          BY <1>3, <1>8, <3>t
        <5>2. f[r - 1] < f[i - 1]
          BY <3>2, <5>1
        <5>3. i - 1 < r - 1 => f[i - 1] < f[r - 1]
          BY <1>m, <2>2, <3>3
        <5> QED
          BY <5>1, <5>2, <5>3
      <4>2. r # i
        <5>1. f[i - 1] \in Nat /\ k = f[i - 1] + 1
          BY <1>3, <1>8
        <5> QED
          BY <3>2, <5>1
      <4> QED
        BY <4>1, <4>2
    <3>5. /\ D[j].ind = Ind(data[r]) /\ Ind(data[r]) \in Nat
          /\ Ind(data[r]) = 2 * (Len(data[r].path) - 1)
          /\ j # f[r - 1] + 1 => Spelled(data[r].value)
      BY <3>1, <3>2, LineKinds
    <3>6. Ind(data[r]) < Ind(data[i])
      BY <1>4, <1>8, <2>8, <3>5 DEF Above
    <3>7. r \notin q + 1..i - 1
      BY <1>4, <2>1, <2>5, <3>5, <3>6
    <3>8. r <= q
      BY <3>4, <3>7
    <3>9. CASE r = q
      <4>1. ~Spelled(data[q].value)
        BY <2>1 DEF Spelled, Map
      <4> QED
        BY <2>3, <3>5, <3>9, <4>1
    <3>10. CASE r # q
      <4>1. f[r] <= f[q - 1]
        <5>1. r = q - 1 \/ r < q - 1
          BY <3>8, <3>10
        <5>2. r < q - 1 => f[r] < f[q - 1]
          BY <1>m, <2>2, <3>3
        <5> QED
          BY <2>t, <3>t, <5>1, <5>2
      <4> QED
        BY <2>t, <2>3, <3>2, <3>t, <4>1
    <3> QED
      BY <3>9, <3>10
  <2>9. g \in 0..k - 1
    BY <2>t, <2>3
  <2>10. Nearest(D, k, g)
    BY <2>7, <2>8, <2>9 DEF Nearest
  <2>11. p = g
    BY <1>5, <2>10, ParentNearest
  <2> QED
    BY <1>4, <1>5, <1>8, <2>1, <2>2, <2>3, <2>6, <2>11 DEF Rooted
<1> QED
  BY <1>6, <1>7, <1>8

LEMMA DumpValid ==
  ASSUME NEW data \in Seq(Entry), NEW n \in Nat, n = Len(data), Nested(data, n)
  PROVE  Valid(Dump(data))
<1>1. PICK D, f : D = Dump(data) /\ Laid(D, data, n, f)
  BY DumpLaid
<1>2. D \in Seq(BlockLine) /\ D \in Seq(Line)
  BY <1>1, DumpType, BlockLines
<1>3. PICK N \in Nat : N = Len(D) /\ DOMAIN D = 1..N
  BY <1>2, LenProperties
<1>4. /\ \A a \in 0..n : f[a] \in Nat
      /\ \A a, b \in 0..n : a < b => f[a] < f[b]
      /\ \A k \in 1..N : \E i \in 1..n : f[i - 1] < k /\ k <= f[i]
  BY <1>1, <1>3, LaidFacts DEF Laid
<1>5. \A k \in 1..N : ~IsNote(D[k])
  <2> SUFFICES ASSUME NEW k \in 1..N PROVE ~IsNote(D[k])
    OBVIOUS
  <2>1. PICK i \in 1..n : f[i - 1] < k /\ k <= f[i]
    BY <1>4
  <2> QED
    BY <1>1, <2>1, LineKinds
<1>6. Significant(D) = D
  <2>1. {k \in DOMAIN D : ~IsNote(D[k])} = 1..N
    BY <1>3, <1>5
  <2>2. Cardinality(1..N) = N /\ \A k \in 1..N : Ascending(1..N)[k] = k
    BY AscendingAll
  <2>3. PICK t : t = Only(D, 1..N)
    OBVIOUS
  <2>4. /\ t \in Seq(Line) /\ Len(t) = N /\ \A k \in 1..N : t[k] = D[k]
    <3>1. 1..N \subseteq DOMAIN D
      BY <1>3
    <3>2. /\ Only(D, 1..N) \in Seq(Line) /\ Len(Only(D, 1..N)) = Cardinality(1..N)
          /\ \A k \in 1..Cardinality(1..N) : Only(D, 1..N)[k] = D[Ascending(1..N)[k]]
      BY <1>2, <3>1, OnlyFacts
    <3> QED
      BY <2>2, <2>3, <3>2
  <2>5. t = D
    BY <1>2, <1>3, <2>4, SeqEqual
  <2> QED
    BY <2>1, <2>3, <2>5 DEF Significant
<1>7. \A k \in 1..N : Rooted(D, data, n, f, k)
  BY <1>1, <1>3, LineRooted
<1>8. \A q \in 1..n : q - 1 \in 0..n /\ q \in 0..n /\ f[q - 1] \in Nat /\ f[q - 1] < f[q]
  <2> SUFFICES ASSUME NEW q \in 1..n
               PROVE  q - 1 \in 0..n /\ q \in 0..n /\ f[q - 1] \in Nat /\ f[q - 1] < f[q]
    OBVIOUS
  <2>1. q - 1 \in 0..n /\ q \in 0..n /\ q - 1 < q
    OBVIOUS
  <2> QED
    BY <1>4, <2>1
<1>9. ASSUME NEW q \in 1..n, NEW r \in 1..n, f[q - 1] + 1 = f[r - 1] + 1
      PROVE  q = r
  <2>1. f[q - 1] = f[r - 1] /\ q - 1 \in 0..n /\ r - 1 \in 0..n /\ f[q - 1] \in Nat
    BY <1>8, <1>9
  <2>2. ~(q - 1 < r - 1) /\ ~(r - 1 < q - 1)
    BY <1>4, <2>1
  <2> QED
    BY <2>2
<1>10. ~Spelled(Map)
  BY DEF Spelled, Map
<1>11. ASSUME NEW k \in 1..N
       PROVE  Placed(D, k)
  <2>1. PICK p : p = Parent(D, k)
    OBVIOUS
  <2>2. CASE p = 0 /\ IsKey(D[k]) /\ D[k].ind = 0
    <3>1. ASSUME NEW j \in Children(D, p)
          PROVE  D[j].kind = D[k].kind /\ D[j].ind = D[k].ind
      <4>1. j \in 1..N /\ Parent(D, j) = 0
        BY <1>3, <2>2 DEF Children
      <4>2. IsKey(D[j]) /\ D[j].ind = 0
        BY <1>7, <1>8, <4>1 DEF Rooted
      <4> QED
        BY <2>2, <4>2 DEF IsKey
    <3> QED
      BY <2>1, <2>2, <3>1 DEF Placed
  <2>3. CASE \E q \in 1..n :
               /\ p = f[q - 1] + 1
               /\ \/ data[q].value = Map /\ IsKey(D[k]) /\ D[k].ind = Ind(data[q]) + 2
                  \/ Spelled(data[q].value) /\ IsItem(D[k]) /\ D[k].ind = Ind(data[q])
    <3>1. PICK q \in 1..n :
               /\ p = f[q - 1] + 1
               /\ \/ data[q].value = Map /\ IsKey(D[k]) /\ D[k].ind = Ind(data[q]) + 2
                  \/ Spelled(data[q].value) /\ IsItem(D[k]) /\ D[k].ind = Ind(data[q])
      BY <2>3
    <3>2. p \in Nat /\ p # 0 /\ f[q - 1] < p /\ p <= f[q]
      <4>1. f[q] \in Nat
        BY <1>4, <1>8
      <4> QED
        BY <1>8, <3>1, <4>1
    <3>3. IsKey(D[p]) /\ D[p] = KeyLine(data[q])
      BY <1>1, <3>1, <3>2, LineKinds
    <3>4. D[p].value = Block
      BY <3>1, <3>3 DEF KeyLine, Key
    <3>5. ASSUME NEW j \in Children(D, p)
          PROVE  D[j].kind = D[k].kind /\ D[j].ind = D[k].ind
      <4>1. j \in 1..N /\ Parent(D, j) = p
        BY <1>3 DEF Children
      <4>2. PICK r \in 1..n :
              /\ p = f[r - 1] + 1
              /\ \/ data[r].value = Map /\ IsKey(D[j]) /\ D[j].ind = Ind(data[r]) + 2
                 \/ Spelled(data[r].value) /\ IsItem(D[j]) /\ D[j].ind = Ind(data[r])
        BY <1>7, <3>2, <4>1 DEF Rooted
      <4>3. r = q
        BY <1>9, <3>1, <4>2
      <4> QED
        BY <1>10, <3>1, <4>2, <4>3 DEF IsKey, IsItem
    <3> QED
      BY <2>1, <3>2, <3>3, <3>4, <3>5 DEF Placed
  <2> QED
    BY <1>7, <2>1, <2>2, <2>3 DEF Rooted
<1> QED
  BY <1>1, <1>3, <1>6, <1>11, ValidPlaced

LEMMA DumpNoGlyph ==
  ASSUME NEW data \in Seq(Entry), \A i \in DOMAIN data : ~Contains(data[i].value.items, Glyph)
  PROVE  \A k \in DOMAIN Dump(data) : ~IsGlyphLine(Dump(data)[k])
<1>1. PICK n \in Nat : n = Len(data) /\ DOMAIN data = 1..n
  BY LenProperties
<1>2. PICK D, f : D = Dump(data) /\ Laid(D, data, n, f)
  BY <1>1, DumpLaid
<1>3. PICK N \in Nat : N = Len(D) /\ DOMAIN D = 1..N
  BY <1>2, DumpType, LenProperties
<1>4. ASSUME NEW k \in 1..N
      PROVE  ~IsGlyphLine(D[k])
  <2>1. PICK i \in 1..n : f[i - 1] < k /\ k <= f[i]
    BY <1>2, <1>3, LaidFacts
  <2>2. /\ k = f[i - 1] + 1 => ~IsItem(D[k])
        /\ k # f[i - 1] + 1 => \E x : Contains(data[i].value.items, x) /\ D[k].name = x
    BY <1>1, <1>2, <2>1, LineKinds
  <2>3. ~Contains(data[i].value.items, Glyph)
    BY <1>1
  <2> QED
    BY <2>2, <2>3 DEF IsGlyphLine
<1> QED
  BY <1>2, <1>3, <1>4

----------------------------------------------------------------------------
(* How deep the keys of a valid text are.                                  *)

\* The lines after p are all deeper, up to m.
Under(L, p, m) == \A k \in p + 1..m : L[k].ind > L[p].ind

\* They stand under what p stands under, and under p.
LEMMA UnderAncestors ==
  ASSUME NEW L \in Seq(Line), NEW n \in Nat, n = Len(L),
         NEW p \in 1..n, NEW m \in 1..n, p < m, Under(L, p, m)
  PROVE  Ancestors(L, p) \union {m} \subseteq Ancestors(L, m)
<1>1. \A k \in 1..n : L[k].ind \in Nat
  <2> SUFFICES ASSUME NEW k \in 1..n PROVE L[k].ind \in Nat
    OBVIOUS
  <2>1. L[k] \in Line
    BY LenProperties, ElementOfSeq
  <2> QED
    BY <2>1 DEF Line
<1>2. m \in Ancestors(L, m)
  BY DEF Ancestors
<1>3. ASSUME NEW j \in Ancestors(L, p)
      PROVE  j \in Ancestors(L, m)
  <2>1. j \in 1..p /\ j \in 1..n /\ \A k \in j + 1..p : L[k].ind > L[j].ind
    BY <1>3 DEF Ancestors
  <2>2. L[p].ind >= L[j].ind
    <3>1. CASE j = p
      BY <1>1, <3>1
    <3>2. CASE j # p
      <4>1. p \in j + 1..p
        BY <2>1, <3>2
      <4> QED
        BY <1>1, <2>1, <4>1
    <3> QED
      BY <3>1, <3>2
  <2>3. ASSUME NEW k \in j + 1..m
        PROVE  L[k].ind > L[j].ind
    <3>1. CASE k <= p
      <4>1. k \in j + 1..p
        BY <2>1, <3>1
      <4> QED
        BY <2>1, <4>1
    <3>2. CASE ~(k <= p)
      <4>1. k \in p + 1..m /\ k \in 1..n
        BY <2>1, <3>2
      <4>2. L[k].ind > L[p].ind
        BY <4>1 DEF Under
      <4> QED
        BY <1>1, <2>1, <2>2, <4>1, <4>2
    <3> QED
      BY <3>1, <3>2
  <2>4. j \in 1..m
    BY <2>1
  <2> QED
    BY <2>3, <2>4 DEF Ancestors
<1> QED
  BY <1>2, <1>3

\* The lines between a key and the one it belongs under.
LEMMA KeyAbove ==
  ASSUME NEW L \in Seq(Line), NEW n \in Nat, n = Len(L), NEW i \in 1..n, IsKey(L[i]),
         NEW p, p = Parent(L, i)
  PROVE  /\ p \in 0..i - 1
         /\ p # 0 => Under(L, p, i)
         /\ Ancestors(L, i) \subseteq (IF p = 0 THEN {} ELSE Ancestors(L, p)) \union {i}
<1>1. \A k \in 1..n : L[k].ind \in Nat
  <2> SUFFICES ASSUME NEW k \in 1..n PROVE L[k].ind \in Nat
    OBVIOUS
  <2>1. L[k] \in Line
    BY LenProperties, ElementOfSeq
  <2> QED
    BY <2>1 DEF Line
<1>2. \A j \in 1..n : Above(L, j, i) <=> L[j].ind < L[i].ind
  BY DEF Above, IsKey, IsItem
<1>3. Nearest(L, i, p)
  BY ParentNearest
<1>4. p \in 0..i - 1 /\ \A j \in 1..i - 1 : L[j].ind < L[i].ind => j <= p
  <2>1. \A j \in 1..i - 1 : j \in 1..n
    OBVIOUS
  <2> QED
    BY <1>2, <1>3, <2>1 DEF Nearest
<1>5. p # 0 => p \in 1..n /\ L[p].ind < L[i].ind
  <2>1. p # 0 => p \in 1..n
    BY <1>4
  <2> QED
    BY <1>2, <1>3, <2>1 DEF Nearest
<1>6. ASSUME p # 0, NEW k \in p + 1..i
      PROVE  L[k].ind > L[p].ind
  <2>1. k \in 1..n
    BY <1>4
  <2>2. L[k].ind >= L[i].ind
    <3>1. CASE k = i
      BY <1>1, <3>1
    <3>2. CASE k # i
      <4>1. k \in 1..i - 1 /\ ~(k <= p)
        BY <1>4, <3>2
      <4> QED
        BY <1>1, <1>4, <2>1, <4>1
    <3> QED
      BY <3>1, <3>2
  <2> QED
    BY <1>1, <1>5, <1>6, <2>1, <2>2
<1>7. ASSUME NEW j \in Ancestors(L, i), j # i
      PROVE  p # 0 /\ j \in Ancestors(L, p)
  <2>1. j \in 1..i - 1 /\ j \in 1..n /\ \A k \in j + 1..i : L[k].ind > L[j].ind
    BY <1>7 DEF Ancestors
  <2>2. i \in j + 1..i
    BY <2>1
  <2>3. j <= p
    BY <1>1, <1>4, <2>1, <2>2
  <2>4. p # 0 /\ j \in 1..p
    BY <1>4, <2>1, <2>3
  <2>5. \A k \in j + 1..p : k \in j + 1..i
    BY <1>4, <2>1
  <2> QED
    BY <2>1, <2>4, <2>5 DEF Ancestors
<1> QED
  BY <1>4, <1>6, <1>7 DEF Under

\* The keys a key stands under are one more than those of the one it belongs under.
LEMMA Deeper ==
  ASSUME NEW L \in Seq(Line), NEW n \in Nat, n = Len(L), NEW p \in 1..n, NEW m \in 1..n,
         p < m
  PROVE  /\ Cardinality(Ancestors(L, m)) \in Nat /\ Cardinality(Ancestors(L, p)) \in Nat
         /\ Under(L, p, m) => Cardinality(Ancestors(L, p)) + 1 <= Cardinality(Ancestors(L, m))
         /\ Ancestors(L, m) \subseteq Ancestors(L, p) \union {m} =>
              Cardinality(Ancestors(L, m)) <= Cardinality(Ancestors(L, p)) + 1
<1>1. PICK A, B : A = Ancestors(L, p) /\ B = Ancestors(L, m)
  OBVIOUS
<1>2. A \subseteq 1..n /\ B \subseteq 1..n /\ m \notin A
  BY <1>1 DEF Ancestors
<1>3. IsFiniteSet(1..n)
  BY FS_Interval
<1>4. IsFiniteSet(A) /\ IsFiniteSet(B)
  BY <1>2, <1>3, FS_Subset
<1>5. IsFiniteSet(A \union {m}) /\ Cardinality(A \union {m}) = Cardinality(A) + 1
  BY <1>2, <1>4, FS_AddElement
<1>6. Cardinality(A) \in Nat /\ Cardinality(B) \in Nat
  BY <1>4, FS_CardinalityType
<1>7. Under(L, p, m) => Cardinality(A) + 1 <= Cardinality(B)
  <2>1. Under(L, p, m) => A \union {m} \subseteq B
    BY <1>1, UnderAncestors
  <2> QED
    BY <1>4, <1>5, <2>1, FS_Subset
<1>8. B \subseteq A \union {m} => Cardinality(B) <= Cardinality(A) + 1
  BY <1>5, FS_Subset
<1> QED
  BY <1>1, <1>6, <1>7, <1>8

LEMMA LoadNested ==
  ASSUME NEW doc \in Seq(Line), Valid(doc), NEW q \in Nat, q = Len(Load(doc))
  PROVE  Nested(Load(doc), q)
<1>1. PICK L : L = Significant(doc) /\ L \in Seq(Line)
  BY SignificantNoGlyph
<1>2. PICK n \in Nat : n = Len(L) /\ DOMAIN L = 1..n
  BY <1>1, LenProperties
<1>3. \A i \in 1..n : Placed(L, i)
  BY <1>1, <1>2, ValidPlaced
<1>4. PICK K, keys : K = {i \in DOMAIN L : IsKey(L[i])} /\ keys = Ascending(K)
  OBVIOUS
<1>5. /\ keys \in [1..Cardinality(K) -> K] /\ Cardinality(K) \in Nat
      /\ \A i \in K : \E l \in 1..Cardinality(K) : keys[l] = i
      /\ \A k, l \in 1..Cardinality(K) : k < l <=> keys[k] < keys[l]
  <2>1. K \subseteq 1..n
    BY <1>2, <1>4
  <2>2. /\ Ascending(K) \in [1..Cardinality(K) -> K] /\ Cardinality(K) \in Nat
        /\ \A i \in K : Rank(K, i) \in 1..Cardinality(K) /\ Ascending(K)[Rank(K, i)] = i
        /\ \A k, l \in 1..Cardinality(K) : k < l <=> Ascending(K)[k] < Ascending(K)[l]
    BY <2>1, AscendingFacts
  <2>3. ASSUME NEW i \in K
        PROVE  \E l \in 1..Cardinality(K) : keys[l] = i
    BY <1>4, <2>2
  <2> QED
    BY <1>4, <2>2, <2>3
<1>6. PICK data : data = Load(doc) /\ data \in Seq(Entry) /\ DOMAIN data = 1..q
  BY LoadType, LenProperties
<1>7. data = [h \in DOMAIN keys |->
                [path |-> Names(L, Ancestors(L, keys[h])),
                 value |-> IF L[keys[h]].value = Block THEN Below(L, keys[h])
                           ELSE L[keys[h]].value]]
  BY <1>1, <1>4, <1>6 DEF Load
<1>8. Cardinality(K) = q
  <2>1. 1..Cardinality(K) = 1..q
    BY <1>5, <1>6, <1>7
  <2>2. Len(data) = Cardinality(K)
    BY <1>5, <1>6, <2>1, LenProperties
  <2> QED
    BY <1>6, <2>2
<1>9. \A i \in 1..n : Ancestors(L, i) \subseteq DOMAIN L
  BY <1>2 DEF Ancestors
<1>10. ASSUME NEW h \in 1..q
       PROVE  /\ keys[h] \in 1..n /\ IsKey(L[keys[h]])
              /\ Len(data[h].path) = Cardinality(Ancestors(L, keys[h]))
              /\ L[keys[h]].value = Block => data[h].value = Below(L, keys[h])
  <2>1. keys[h] \in K
    BY <1>5, <1>8
  <2>2. keys[h] \in 1..n /\ IsKey(L[keys[h]])
    BY <1>2, <1>4, <2>1
  <2>3. Len(Names(L, Ancestors(L, keys[h]))) = Cardinality(Ancestors(L, keys[h]))
    BY <1>1, <1>9, <2>2, NamesType
  <2> QED
    BY <1>5, <1>7, <1>8, <2>2, <2>3
<1>11. ASSUME NEW h \in 1..q
       PROVE  Len(data[h].path) <=
                IF h = 1 THEN 1
                ELSE Len(data[h - 1].path) + IF data[h - 1].value = Map THEN 1 ELSE 0
  <2>1. PICK i \in 1..n : i = keys[h] /\ IsKey(L[i])
                           /\ Len(data[h].path) = Cardinality(Ancestors(L, i))
    BY <1>10
  <2>2. PICK p : p = Parent(L, i)
    OBVIOUS
  <2>3. /\ p \in 0..i - 1
        /\ p # 0 => Under(L, p, i)
        /\ Ancestors(L, i) \subseteq (IF p = 0 THEN {} ELSE Ancestors(L, p)) \union {i}
    BY <1>1, <1>2, <2>1, <2>2, KeyAbove
  <2>4. PICK c \in Nat : c = Len(data[h].path)
    <3>1. data[h] \in Entry
      BY <1>6, ElementOfSeq
    <3> QED
      BY <3>1, LenProperties DEF Entry
  <2>5. CASE p = 0
    <3>1. c <= 1
      <4>1. Ancestors(L, i) \subseteq {i} /\ IsFiniteSet({i}) /\ Cardinality({i}) = 1
        BY <2>3, <2>5, FS_Singleton
      <4>2. Cardinality(Ancestors(L, i)) <= 1
        BY <4>1, FS_Subset
      <4> QED
        BY <2>1, <2>4, <4>2
    <3>2. CASE h = 1
      BY <2>4, <3>1, <3>2
    <3>3. CASE h # 1
      <4>1. h - 1 \in 1..q
        BY <3>3
      <4>2. data[h - 1] \in Entry
        BY <1>6, <4>1, ElementOfSeq
      <4>3. PICK s : s = data[h - 1].path /\ s \in Seq(Name) /\ s # <<>>
        BY <4>2 DEF Entry
      <4>4. PICK d \in Nat : d = Len(s) /\ d # 0
        BY <4>3, EmptySeq, LenProperties
      <4>5. c <= d + IF data[h - 1].value = Map THEN 1 ELSE 0
        BY <3>1, <4>4
      <4> QED
        BY <2>4, <3>3, <4>3, <4>4, <4>5
    <3> QED
      BY <3>2, <3>3
  <2>6. CASE p # 0
    <3>1. p \in 1..n /\ p < i /\ IsKey(L[p]) /\ L[p].value = Block
      <4>1. p \in 1..n /\ p < i
        BY <2>3, <2>6
      <4>2. Placed(L, i)
        BY <1>3
      <4> QED
        BY <2>2, <2>6, <4>1, <4>2 DEF Placed
    <3>2. PICK l \in 1..q : keys[l] = p
      <4>1. p \in K
        BY <1>2, <1>4, <3>1
      <4> QED
        BY <1>5, <1>8, <4>1
    <3>3. l < h
      BY <1>5, <1>8, <2>1, <3>1, <3>2
    <3>4. PICK g \in 1..q : g = h - 1 /\ h # 1 /\ g < h /\ l <= g
      BY <3>3
    <3>5. PICK e \in 1..n : e = keys[g] /\ IsKey(L[e])
                             /\ Len(data[g].path) = Cardinality(Ancestors(L, e))
                             /\ (L[e].value = Block => data[g].value = Below(L, e))
      BY <1>10
    <3>6. e < i
      BY <1>5, <1>8, <2>1, <3>4, <3>5
    <3>7. /\ Cardinality(Ancestors(L, p)) \in Nat
          /\ c <= Cardinality(Ancestors(L, p)) + 1
      BY <1>1, <1>2, <2>1, <2>3, <2>4, <2>6, <3>1, Deeper
    <3>8. CASE l = g
      <4>1. e = p
        BY <3>2, <3>5, <3>8
      <4>2. i \in Children(L, p)
        BY <1>2, <2>2 DEF Children
      <4>3. {j \in Children(L, p) : IsItem(L[j])} = {}
        <5>1. Placed(L, i)
          BY <1>3
        <5>2. \A j \in Children(L, p) : L[j].kind = L[i].kind
          BY <2>2, <5>1 DEF Placed
        <5> QED
          BY <2>1, <5>2 DEF IsItem, IsKey
      <4>4. Below(L, p) = Map
        BY <4>2, <4>3 DEF Below
      <4>5. data[h - 1].value = Map /\ Len(data[h - 1].path) = Cardinality(Ancestors(L, p))
        BY <3>1, <3>4, <3>5, <4>1, <4>4
      <4> QED
        BY <2>4, <3>4, <3>7, <4>5
    <3>9. CASE l # g
      <4>1. p < e
        BY <1>5, <1>8, <3>2, <3>4, <3>5, <3>9
      <4>2. Under(L, p, e)
        <5>1. \A k \in p + 1..e : k \in p + 1..i
          BY <3>1, <3>6
        <5> QED
          BY <2>3, <2>6, <5>1 DEF Under
      <4>3. /\ Cardinality(Ancestors(L, e)) \in Nat
            /\ Cardinality(Ancestors(L, p)) + 1 <= Cardinality(Ancestors(L, e))
        BY <1>1, <1>2, <3>1, <4>1, <4>2, Deeper
      <4> QED
        BY <2>4, <3>4, <3>5, <3>7, <4>3
    <3> QED
      BY <3>8, <3>9
  <2> QED
    BY <2>5, <2>6
<1> QED
  BY <1>6, <1>11 DEF Nested

----------------------------------------------------------------------------
(* The texts that list glyph on the line of a key.                         *)

\* The lists that name glyph are those at plugins.enabled.
OnlyEnabled(data) ==
  \A k \in DOMAIN data : Contains(data[k].value.items, Glyph) <=> data[k].path = Enabled

LEMMA WithoutGlyphNested ==
  ASSUME NEW data \in Seq(Entry), NEW n \in Nat, n = Len(data), Nested(data, n),
         OnlyEnabled(data)
  PROVE  /\ WithoutGlyph(data) \in Seq(Entry) /\ Len(WithoutGlyph(data)) = n
         /\ Nested(WithoutGlyph(data), n)
         /\ \A k \in DOMAIN WithoutGlyph(data) :
              ~Contains(WithoutGlyph(data)[k].value.items, Glyph)
<1>1. DOMAIN data = 1..n
  BY LenProperties
<1>2. PICK s : s = EnabledList(data) /\ s \in Seq(Name)
  BY EnabledListType
<1>3. PICK u : u = Unlisted(s)
  OBVIOUS
<1>4. ~Contains(u, Glyph)
  <2>1. PICK I : I = {i \in DOMAIN s : s[i] # Glyph} /\ I \subseteq DOMAIN s
    OBVIOUS
  <2>2. u = Only(s, I)
    BY <1>3, <2>1 DEF Unlisted
  <2>3. I \subseteq DOMAIN s
    BY <2>1
  <2>4. /\ Len(Only(s, I)) = Cardinality(I) /\ Ascending(I) \in [1..Cardinality(I) -> I]
        /\ \A k \in 1..Cardinality(I) : Only(s, I)[k] = s[Ascending(I)[k]]
    BY <1>2, <2>3, OnlyFacts
  <2>5. \A k \in 1..Len(u) : u[k] # Glyph
    BY <2>1, <2>2, <2>4
  <2> QED
    BY <2>5 DEF Contains
<1>5. PICK t : t = WithoutGlyph(data)
  OBVIOUS
<1>6. t = [k \in 1..n |-> IF data[k].path = Enabled
                          THEN [path |-> Enabled, value |-> List(u)] ELSE data[k]]
  BY <1>1, <1>2, <1>3, <1>5 DEF WithoutGlyph, Set
<1>7. t \in Seq(Entry) /\ DOMAIN t = 1..n
  BY <1>5, <1>6, WithoutGlyphType
<1>8. Len(t) = n
  BY <1>7, LenProperties
<1>9. ASSUME NEW k \in 1..n
      PROVE  /\ t[k].path = data[k].path
             /\ data[k].value = Map => t[k].value = Map
             /\ ~Contains(t[k].value.items, Glyph)
  <2>1. Contains(data[k].value.items, Glyph) <=> data[k].path = Enabled
    BY <1>1 DEF OnlyEnabled
  <2>2. CASE data[k].path = Enabled
    <3>1. t[k] = [path |-> Enabled, value |-> List(u)] /\ List(u).items = u
      BY <1>6, <2>2 DEF List
    <3>2. data[k].value # Map
      <4>1. ~Contains(Map.items, Glyph)
        BY EmptySeq DEF Map, Contains
      <4> QED
        BY <2>1, <2>2, <4>1
    <3> QED
      BY <1>4, <2>2, <3>1, <3>2
  <2>3. CASE data[k].path # Enabled
    BY <1>6, <2>1, <2>3
  <2> QED
    BY <2>2, <2>3
<1>10. ASSUME NEW k \in 1..n
       PROVE  Len(t[k].path) <=
                IF k = 1 THEN 1
                ELSE Len(t[k - 1].path) + IF t[k - 1].value = Map THEN 1 ELSE 0
  <2>1. PICK c \in Nat : c = Len(data[k].path) /\ t[k].path = data[k].path
    <3>1. data[k] \in Entry
      BY <1>1, ElementOfSeq
    <3> QED
      BY <1>9, <3>1, LenProperties DEF Entry
  <2>2. c <= IF k = 1 THEN 1
             ELSE Len(data[k - 1].path) + IF data[k - 1].value = Map THEN 1 ELSE 0
    BY <2>1 DEF Nested
  <2>3. CASE k = 1
    BY <2>1, <2>2, <2>3
  <2>4. CASE k # 1
    <3>1. PICK j \in 1..n : j = k - 1
      BY <2>4
    <3>2. PICK d \in Nat : d = Len(data[j].path)
      <4>1. data[j] \in Entry
        BY <1>1, ElementOfSeq
      <4> QED
        BY <4>1, LenProperties DEF Entry
    <3>3. Len(t[j].path) = d /\ (data[j].value = Map => t[j].value = Map)
      BY <1>9, <3>2
    <3>4. c <= d + IF data[j].value = Map THEN 1 ELSE 0
      BY <2>2, <2>4, <3>1, <3>2
    <3>5. c <= d + IF t[j].value = Map THEN 1 ELSE 0
      BY <3>3, <3>4
    <3> QED
      BY <2>1, <2>4, <3>1, <3>3, <3>5
  <2> QED
    BY <2>3, <2>4
<1>11. Nested(t, n)
  BY <1>10 DEF Nested
<1> QED
  BY <1>5, <1>7, <1>8, <1>9, <1>11

\* The text lists glyph, on the line of plugins.enabled only.
Inline(doc) ==
  /\ Valid(doc) /\ Listed(doc)
  /\ \A i \in DOMAIN doc : ~IsGlyphLine(doc[i])
  /\ OnlyEnabled(Load(doc))

\* Disable re-serializes it without glyph.
LEMMA DisabledInline ==
  ASSUME NEW doc \in Seq(Line), Inline(doc)
  PROVE  /\ Edited("disable", doc) \in Seq(BlockLine)
         /\ Valid(Edited("disable", doc)) /\ ~Listed(Edited("disable", doc))
<1>1. PICK data : data = Load(doc) /\ data \in Seq(Entry)
  BY LoadType
<1>2. PICK n \in Nat : n = Len(data)
  BY <1>1, LenProperties
<1>3. Nested(data, n) /\ OnlyEnabled(data)
  BY <1>1, <1>2, LoadNested DEF Inline
<1>4. PICK less : less = WithoutGlyph(data)
  OBVIOUS
<1>5. /\ less \in Seq(Entry) /\ Len(less) = n /\ Nested(less, n)
      /\ \A k \in DOMAIN less : ~Contains(less[k].value.items, Glyph)
  BY <1>1, <1>2, <1>3, <1>4, WithoutGlyphNested
<1>6. RemoveGlyphLine(doc) = NoEdit
  BY DEF Inline, RemoveGlyphLine
<1>7. Edited("disable", doc) = Dump(less)
  BY <1>1, <1>4, <1>6 DEF Edited
<1>8. Dump(less) \in Seq(BlockLine)
  BY <1>5, DumpType
<1>9. Valid(Dump(less))
  BY <1>5, DumpValid
<1>10. \A k \in DOMAIN Dump(less) : ~IsGlyphLine(Dump(less)[k])
  BY <1>5, DumpNoGlyph
<1>11. ~Listed(Dump(less))
  BY <1>8, <1>10, NotListed
<1> QED
  BY <1>7, <1>8, <1>9, <1>11

----------------------------------------------------------------------------
(* Exit statuses.                                                          *)

\* A text is refused, or names glyph as an item only, or on the line of
\* plugins.enabled only.
Plain(doc) == ~Valid(doc) \/ doc \in Seq(BlockLine) \/ Inline(doc)

\* An answer is given when a command ends, and says what the file then is.  The
\* file stays plain, and a command under way read a valid text, a disable one
\* that lists glyph and an enable one that does not.
AnswerInv ==
  /\ file # NoFile => Plain(file)
  /\ cmd.pc # "idle" => said = Nothing
  /\ cmd.pc \in {"backup", "write"} /\ cmd.text # NoFile =>
       /\ Valid(cmd.text) /\ Plain(cmd.text)
       /\ Listed(cmd.text) <=> cmd.op = "disable"
  /\ said.op # "none" /\ said.status = 0 =>
       IF file = NoFile THEN said.op = "disable"
       ELSE Valid(file) /\ (Listed(file) <=> said.op = "enable")

\* The owner does not name glyph both ways, nor in other lists on one line.
OwnersPlain == \A doc \in Documents : Plain(doc)

LEMMA AnswerInit == OwnersPlain /\ Init => AnswerInv
BY DEF OwnersPlain, Init, AnswerInv, Idle, Nothing

LEMMA WriteAnswers ==
  ASSUME SetupInv, AnswerInv, Write
  PROVE  AnswerInv'
<1>1. /\ cmd.pc = "write" /\ file' = cmd.new
      /\ IF cmd.op = "enable" /\ cmd.text # NoFile
         THEN cmd' = [cmd EXCEPT !.pc = "check"] /\ UNCHANGED said
         ELSE cmd' = Idle /\ said' = [op |-> cmd.op, status |-> 0]
  BY DEF Write
<1>2. PICK op \in {"enable", "disable"}, text \in Seq(Line) \union {NoFile}, new \in Seq(Line) :
        op = cmd.op /\ text = cmd.text /\ new = cmd.new
  BY <1>1 DEF SetupInv, TypeOK, CommandInv
<1>3. new = IF text = NoFile THEN AppendPluginsBlock(<<>>) ELSE Edited(op, text)
  BY <1>1, <1>2 DEF SetupInv, CommandInv
<1>4. text = NoFile => op = "enable"
  BY <1>1, <1>2 DEF SetupInv, CommandInv
<1>5. text # NoFile => Valid(text) /\ Plain(text) /\ (Listed(text) <=> op = "disable")
  BY <1>1, <1>2 DEF AnswerInv
<1>6. /\ new \in Seq(BlockLine) /\ new # NoFile
      /\ text # NoFile /\ op = "disable" => Valid(new) /\ ~Listed(new)
  <2>1. CASE text = NoFile
    BY <1>3, <2>1, Absent, CreatedText
  <2>2. CASE text # NoFile /\ Inline(text)
    <3>1. op = "disable" /\ new = Edited("disable", text) /\ text \in Seq(Line)
      BY <1>2, <1>3, <1>5, <2>2 DEF Inline
    <3> QED
      BY <1>2, <2>2, <3>1, Absent, DisabledInline
  <2>3. CASE text # NoFile /\ ~Inline(text)
    <3>1. text \in Seq(BlockLine) /\ new = Edited(op, text)
      BY <1>3, <1>5, <2>3 DEF Plain
    <3>2. new \in Seq(BlockLine)
      BY <3>1, EditedBlocks
    <3>3. op = "disable" => Valid(new) /\ ~Listed(new)
      BY <1>5, <2>3, <3>1, DisabledText
    <3> QED
      BY <1>2, <3>2, <3>3, Absent
  <2> QED
    BY <2>1, <2>2, <2>3
<1>7. Plain(new)
  BY <1>6 DEF Plain
<1>8. CASE op = "enable" /\ text # NoFile
  <2>1. cmd' = [cmd EXCEPT !.pc = "check"] /\ said' = said /\ said = Nothing
    BY <1>1, <1>2, <1>8 DEF AnswerInv
  <2>2. cmd'.pc = "check"
    BY <2>1 DEF SetupInv, CommandInv
  <2> QED
    BY <1>1, <1>2, <1>6, <1>7, <2>1, <2>2 DEF AnswerInv, Nothing
<1>9. CASE ~(op = "enable" /\ text # NoFile)
  <2>1. cmd' = Idle /\ said' = [op |-> op, status |-> 0]
    BY <1>1, <1>2, <1>9
  <2>2. Valid(new) /\ (Listed(new) <=> op = "enable")
    <3>1. CASE text = NoFile
      BY <1>3, <1>4, <3>1, CreatedText
    <3>2. CASE text # NoFile
      <4>1. op = "disable"
        BY <1>9, <3>2
      <4> QED
        BY <1>6, <3>2, <4>1
    <3> QED
      BY <3>1, <3>2
  <2> QED
    BY <1>1, <1>2, <1>6, <1>7, <2>1, <2>2 DEF AnswerInv, Idle
<1> QED
  BY <1>8, <1>9

LEMMA AnswerNext ==
  ASSUME OwnersPlain, SetupInv, AnswerInv, [Next]_vars
  PROVE  AnswerInv'
<1>1. CASE Create
  <2>1. /\ UNCHANGED file /\ said' = Nothing
        /\ cmd' = [pc |-> "write", op |-> "enable", text |-> NoFile,
                   new |-> AppendPluginsBlock(<<>>)]
    BY <1>1 DEF Create, Idle
  <2> QED
    BY <2>1 DEF AnswerInv, Nothing
<1>2. CASE Enable
  <2>1. /\ UNCHANGED file /\ said' = Nothing /\ file # NoFile /\ Valid(file) /\ ~Listed(file)
        /\ cmd' = [pc |-> "backup", op |-> "enable", text |-> file, new |-> NoEdit]
    BY <1>2 DEF Enable, Idle
  <2> QED
    BY <2>1 DEF AnswerInv, Nothing
<1>3. CASE Disable
  <2>1. /\ UNCHANGED file /\ said' = Nothing /\ file # NoFile /\ Valid(file) /\ Listed(file)
        /\ cmd' = [pc |-> "backup", op |-> "disable", text |-> file, new |-> NoEdit]
    BY <1>3 DEF Disable, Idle
  <2> QED
    BY <2>1 DEF AnswerInv, Nothing
<1>4. CASE Backup
  <2>1. /\ UNCHANGED <<file, said>> /\ cmd.pc = "backup"
        /\ cmd'.pc = "write" /\ cmd'.op = cmd.op /\ cmd'.text = cmd.text
    BY <1>4 DEF Backup, SetupInv, CommandInv
  <2> QED
    BY <2>1 DEF AnswerInv
<1>5. CASE Write
  BY <1>5, WriteAnswers
<1>6. CASE Check
  <2>1. /\ UNCHANGED file /\ cmd' = Idle /\ cmd.pc = "check"
        /\ said' = IF Valid(file)
                   THEN [op |-> "enable", status |-> IF Listed(file) THEN 0 ELSE 1]
                   ELSE Nothing
    BY <1>6 DEF Check
  <2>2. file # NoFile
    BY <2>1 DEF SetupInv, OwnerInv
  <2> QED
    BY <2>1, <2>2 DEF AnswerInv, Idle, Nothing
<1>7. CASE Crash
  BY <1>7 DEF Crash, AnswerInv, Idle
<1>8. CASE \E op \in {"enable", "disable"} : Refuse(op)
  BY <1>8 DEF Refuse, AnswerInv
<1>9. ASSUME NEW op \in {"enable", "disable"}, NothingToDo(op)
      PROVE  AnswerInv'
  <2>1. /\ cmd.pc = "idle" /\ UNCHANGED <<file, cmd>> /\ said' = [op |-> op, status |-> 0]
        /\ IF file = NoFile THEN op = "disable"
           ELSE Valid(file) /\ (Listed(file) <=> op = "enable")
    BY <1>9 DEF NothingToDo
  <2> QED
    BY <2>1 DEF AnswerInv
<1>10. ASSUME NEW doc \in Documents, OwnerEdits(doc)
       PROVE  AnswerInv'
  <2>1. file' = doc /\ said' = Nothing /\ UNCHANGED cmd /\ Plain(doc)
    BY <1>10 DEF OwnerEdits, OwnersPlain
  <2> QED
    BY <2>1 DEF AnswerInv, Nothing
<1>11. CASE UNCHANGED vars
  BY <1>11 DEF vars, AnswerInv
<1> QED
  BY <1>1, <1>2, <1>3, <1>4, <1>5, <1>6, <1>7, <1>8, <1>9, <1>10, <1>11 DEF Next

\* An exit status of 0 is the truth about the file, whatever else the owner
\* writes into it, if no text he writes names glyph in a list on one line, except
\* as plugins.enabled and nowhere else.
THEOREM AnswersStayTrue ==
  ASSUME OwnersPlain
  PROVE  Spec => []AnswersTrue
<1>1. Init => AnswerInv
  BY AnswerInit
<1>2. SetupInv /\ AnswerInv /\ [Next]_vars => AnswerInv'
  BY AnswerNext
<1>3. AnswerInv => AnswersTrue
  BY DEF AnswerInv, AnswersTrue
<1> QED
  BY <1>1, <1>2, <1>3, SetupInvariant, PTL DEF Spec
=============================================================================
