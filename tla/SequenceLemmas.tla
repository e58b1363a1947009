--------------------------- MODULE SequenceLemmas ---------------------------
(***************************************************************************)
(* Facts about natural numbers and sequences that the proofs of the        *)
(* components share.  Induction is stated over sets, S for the property    *)
(* "n \in S", so that it can be cited without an operator parameter; from  *)
(* it follows what FlattenSeq, a recursive function, computes.             *)
(***************************************************************************)
EXTENDS Integers, Sequences, SequencesExt, SequenceTheorems, FiniteSetTheorems,
        WellFoundedInduction, TLAPS

\* Induction over the naturals: a set that has 0 and, with each n, n + 1, has
\* all of them, because a least one missing would have a predecessor.
LEMMA SetInduction ==
    ASSUME NEW S, 0 \in S, \A n \in Nat : n \in S => n + 1 \in S
    PROVE  \A n \in Nat : n \in S
<1> DEFINE T == Nat \ S
           Less == {ss \in Nat \X Nat : ss[1] < ss[2]}
<1>1. SUFFICES ASSUME T # {} PROVE FALSE
  OBVIOUS
<1>2. IsWellFoundedOn(Less, Nat)
  BY NatLessThanWellFounded DEF OpToRel
<1>3. PICK x \in T : \A y \in T : ~(<<y, x>> \in Less)
  <2>1. T \subseteq Nat OBVIOUS
  <2> HIDE DEF T, Less
  <2> QED BY <1>1, <1>2, <2>1, WFMin
<1>4. x \in Nat /\ x \notin S /\ x # 0 OBVIOUS
<1>5. x - 1 \in Nat /\ x - 1 + 1 = x BY <1>4
<1>6. x - 1 \notin S BY <1>4, <1>5
<1>7. <<x - 1, x>> \in Less BY <1>4, <1>5
<1> QED BY <1>3, <1>5, <1>6, <1>7

-----------------------------------------------------------------------------
(* Finite sets of numbers in order.                                        *)

\* A nonempty finite set of integers has a greatest one (induction on its size).
LEMMA MaximumExists ==
    ASSUME NEW S \in SUBSET Int, IsFiniteSet(S), S # {}
    PROVE  \E x \in S : \A y \in S : y <= x
<1> DEFINE P(n) == \A T \in SUBSET Int :
                       IsFiniteSet(T) /\ Cardinality(T) = n /\ T # {} =>
                           \E x \in T : \A y \in T : y <= x
           N == {n \in Nat : P(n)}
<1>1. 0 \in N
  <2>1. \A T \in SUBSET Int : IsFiniteSet(T) /\ Cardinality(T) = 0 => T = {} BY FS_EmptySet
  <2> QED BY <2>1
<1>2. ASSUME NEW n \in Nat, n \in N PROVE n + 1 \in N
  <2>1. SUFFICES ASSUME NEW T \in SUBSET Int, IsFiniteSet(T), Cardinality(T) = n + 1, T # {}
                 PROVE  \E x \in T : \A y \in T : y <= x
    OBVIOUS
  <2>2. PICK e \in T : TRUE BY <2>1
  <2> DEFINE R == T \ {e}
  <2>3. R \in SUBSET Int /\ IsFiniteSet(R) /\ Cardinality(R) = n
    <3>1. IsFiniteSet(T) BY <2>1
    <3>2. IsFiniteSet(R) /\ Cardinality(R) = Cardinality(T) - 1 BY <3>1, FS_RemoveElement
    <3>3. (n + 1) - 1 = n OBVIOUS
    <3> QED BY <2>1, <3>2, <3>3
  <2>4. CASE R = {}
    <3>1. \A y \in T : y = e BY <2>4
    <3> QED BY <3>1
  <2>5. CASE R # {}
    <3>1. P(n) BY <1>2
    <3>2. PICK x \in R : \A y \in R : y <= x
      <4> HIDE DEF R
      <4> QED BY <2>3, <2>5, <3>1
    <3>3. \A y \in T : y = e \/ y <= x BY <3>2
    <3>4. CASE e <= x BY <3>2, <3>3, <3>4
    <3>5. CASE x <= e
      <4>1. \A y \in T : y <= e BY <3>3, <3>5
      <4> QED BY <4>1
    <3> QED BY <3>4, <3>5
  <2> QED BY <2>4, <2>5
<1>3. \A n \in Nat : n \in N
  <2> HIDE DEF N
  <2> QED BY <1>1, <1>2, SetInduction
<1>4. Cardinality(S) \in Nat BY FS_CardinalityType
<1>5. P(Cardinality(S)) BY <1>3, <1>4
<1> QED BY <1>5

\* f lists n elements of S in ascending order.
Ascending(f, S, n) ==
    f \in [1..n -> S] /\ \A a, b \in 1..n : a < b => f[a] < f[b]

\* A finite set of integers can be listed in order (induction on its size).
LEMMA SortExists ==
    ASSUME NEW S \in SUBSET Int, IsFiniteSet(S)
    PROVE  \E f : Ascending(f, S, Cardinality(S))
<1> DEFINE P(n) == \A T \in SUBSET Int :
                       IsFiniteSet(T) /\ Cardinality(T) = n => \E f : Ascending(f, T, n)
           N == {n \in Nat : P(n)}
<1>1. 0 \in N
  <2>1. ASSUME NEW T \in SUBSET Int, IsFiniteSet(T), Cardinality(T) = 0 PROVE \E f : Ascending(f, T, 0)
    <3>1. Ascending([i \in 1..0 |-> 0], T, 0) BY DEF Ascending
    <3> QED BY <3>1
  <2> QED BY <2>1
<1>2. ASSUME NEW n \in Nat, n \in N PROVE n + 1 \in N
  <2>1. SUFFICES ASSUME NEW T \in SUBSET Int, IsFiniteSet(T), Cardinality(T) = n + 1
                 PROVE  \E f : Ascending(f, T, n + 1)
    OBVIOUS
  <2>2. T # {} BY <2>1, FS_EmptySet
  <2>3. PICK x \in T : \A y \in T : y <= x
    <3>1. IsFiniteSet(T) BY <2>1
    <3> QED BY <2>2, <3>1, MaximumExists
  <2> DEFINE R == T \ {x}
  <2>4. R \in SUBSET Int /\ IsFiniteSet(R) /\ Cardinality(R) = n
    <3>1. IsFiniteSet(T) BY <2>1
    <3>2. IsFiniteSet(R) /\ Cardinality(R) = Cardinality(T) - 1 BY <3>1, FS_RemoveElement
    <3>3. (n + 1) - 1 = n OBVIOUS
    <3> QED BY <2>1, <3>2, <3>3
  <2>5. PICK g : Ascending(g, R, n)
    <3>1. P(n) BY <1>2
    <3> HIDE DEF R
    <3> QED BY <2>4, <3>1
  <2> DEFINE f == [i \in 1..(n + 1) |-> IF i <= n THEN g[i] ELSE x]
  <2>6. \A i \in 1..n : g[i] \in T /\ g[i] < x
    <3>1. \A i \in 1..n : g[i] \in R BY <2>5 DEF Ascending
    <3>2. \A y \in R : y \in T /\ y < x
      <4>1. \A y \in R : y \in T /\ y \in Int /\ x \in Int /\ y # x OBVIOUS
      <4> QED BY <2>3, <4>1
    <3> QED BY <3>1, <3>2
  <2>7. f \in [1..(n + 1) -> T] BY <2>6
  <2>8. ASSUME NEW a \in 1..(n + 1), NEW b \in 1..(n + 1), a < b PROVE f[a] < f[b]
    <3>1. a \in 1..n /\ f[a] = g[a] BY <2>8
    <3>2. CASE b <= n
      <4>1. b \in 1..n /\ f[b] = g[b] BY <3>2
      <4> QED BY <2>5, <2>8, <3>1, <4>1 DEF Ascending
    <3>3. CASE b = n + 1
      <4>1. f[b] = x BY <3>3
      <4> QED BY <2>6, <3>1, <4>1
    <3> QED BY <3>2, <3>3
  <2>9. Ascending(f, T, n + 1)
    <3> HIDE DEF f
    <3> QED BY <2>7, <2>8 DEF Ascending
  <2> QED BY <2>9
<1>3. \A n \in Nat : n \in N
  <2> HIDE DEF N
  <2> QED BY <1>1, <1>2, SetInduction
<1>4. Cardinality(S) \in Nat BY FS_CardinalityType
<1>5. P(Cardinality(S)) BY <1>3, <1>4
<1> QED BY <1>5

\* A list of as many elements as a set has contains all of them (pigeons).
LEMMA AscendingOnto ==
    ASSUME NEW S \in SUBSET Int, IsFiniteSet(S), NEW f, Ascending(f, S, Cardinality(S))
    PROVE  \A x \in S : \E k \in 1..Cardinality(S) : f[k] = x
<1> DEFINE n == Cardinality(S)
<1>1. n \in Nat BY FS_CardinalityType
<1>2. f \in [1..n -> S] BY DEF Ascending
<1>3. \A a, b \in 1..n : f[a] = f[b] => a = b
  <2> SUFFICES ASSUME NEW a \in 1..n, NEW b \in 1..n, f[a] = f[b], a # b PROVE FALSE
    OBVIOUS
  <2>1. f[a] \in Int /\ f[b] \in Int BY <1>2
  <2>2. a < b \/ b < a BY <1>1
  <2>3. f[a] < f[b] \/ f[b] < f[a] BY <2>2 DEF Ascending
  <2> QED BY <2>1, <2>3
<1>4. f \in Injection(1..n, S) BY <1>2, <1>3 DEF Injection, IsInjective
<1>5. Cardinality(1..n) = n
  <2> HIDE DEF n
  <2>1. Cardinality(1..n) = IF 1 > n THEN 0 ELSE n - 1 + 1 BY <1>1, FS_Interval
  <2> QED BY <1>1, <2>1
<1>6. f \in Surjection(1..n, S) BY <1>4, <1>5, FS_Injection
<1> QED BY <1>6 DEF Surjection

\* If the elements of S come before all others of T, the list of S begins that of T.
LEMMA AscendingBegins ==
    ASSUME NEW S \in SUBSET Int, IsFiniteSet(S), NEW f, Ascending(f, S, Cardinality(S)),
           NEW T \in SUBSET Int, IsFiniteSet(T), NEW g, Ascending(g, T, Cardinality(T)),
           S \subseteq T, \A x \in S, y \in T \ S : x < y
    PROVE  Cardinality(S) <= Cardinality(T) /\ \A k \in 1..Cardinality(S) : f[k] = g[k]
<1> DEFINE m == Cardinality(S)
           n == Cardinality(T)
<1>1. m \in Nat /\ n \in Nat /\ m <= n BY FS_CardinalityType, FS_Subset
<1>2. /\ f \in [1..m -> S] /\ \A a, b \in 1..m : a < b => f[a] < f[b]
      /\ g \in [1..n -> T] /\ \A a, b \in 1..n : a < b => g[a] < g[b]
  BY DEF Ascending
<1>3. (\A x \in S : \E k \in 1..m : f[k] = x) /\ (\A x \in T : \E k \in 1..n : g[k] = x)
  BY AscendingOnto
<1> HIDE DEF m, n
<1> DEFINE P(k) == \A i \in 1..m : i <= k => f[i] = g[i]
           N == {k \in Nat : P(k)}
<1>4. 0 \in N OBVIOUS
<1>5. ASSUME NEW k \in Nat, k \in N PROVE k + 1 \in N
  <2>1. SUFFICES ASSUME k + 1 \in 1..m PROVE f[k + 1] = g[k + 1]
    BY <1>5
  <2>2. k + 1 \in 1..n /\ f[k + 1] \in S /\ g[k + 1] \in T BY <1>1, <1>2, <2>1
  <2>3. PICK j \in 1..n : g[j] = f[k + 1] BY <1>3, <2>2
  <2>4. ~(j < k + 1)
    <3> SUFFICES ASSUME j < k + 1 PROVE FALSE OBVIOUS
    <3>1. j \in 1..m /\ j <= k BY <1>1, <2>1
    <3>2. f[j] = f[k + 1] BY <1>5, <2>3, <3>1
    <3>3. f[j] < f[k + 1] /\ f[j] \in Int BY <1>2, <2>1, <3>1
    <3> QED BY <3>2, <3>3
  <2>5. g[k + 1] <= f[k + 1]
    <3>1. j = k + 1 \/ k + 1 < j BY <2>4
    <3>2. g[k + 1] \in Int /\ g[j] \in Int BY <1>2, <2>2
    <3> QED BY <1>2, <2>2, <2>3, <3>1, <3>2
  <2>6. g[k + 1] \in S
    <3>1. g[k + 1] \in Int /\ f[k + 1] \in Int BY <2>2
    <3> QED BY <2>2, <2>5, <3>1
  <2>7. PICK i \in 1..m : f[i] = g[k + 1] BY <1>3, <2>6
  <2>8. ~(i < k + 1)
    <3> SUFFICES ASSUME i < k + 1 PROVE FALSE OBVIOUS
    <3>1. i \in 1..n /\ i <= k BY <1>1
    <3>2. g[i] = g[k + 1] BY <1>5, <2>7, <3>1
    <3>3. g[i] < g[k + 1] /\ g[i] \in Int BY <1>2, <2>2, <3>1
    <3> QED BY <3>2, <3>3
  <2>9. f[k + 1] <= g[k + 1]
    <3>1. i = k + 1 \/ k + 1 < i BY <2>8
    <3>2. f[k + 1] \in Int /\ f[i] \in Int BY <1>2, <2>1
    <3> QED BY <1>2, <2>1, <2>7, <3>1, <3>2
  <2>10. g[k + 1] \in Int /\ f[k + 1] \in Int BY <2>2
  <2> QED BY <2>5, <2>9, <2>10
<1>6. \A k \in Nat : k \in N
  <2> HIDE DEF N
  <2> QED BY <1>4, <1>5, SetInduction
<1>7. \A k \in 1..m : f[k] = g[k] BY <1>1, <1>6
<1> QED BY <1>1, <1>7 DEF m, n

-----------------------------------------------------------------------------
(* Parts of a sequence.                                                    *)

\* Three sequences in a row: it does not matter which two are put together first.
LEMMA ConcatThree ==
    ASSUME NEW S, NEW a \in Seq(S), NEW b \in Seq(S), NEW c \in Seq(S)
    PROVE  (a \o b) \o c = a \o (b \o c)
<1> DEFINE x == a \o b
           y == b \o c
           l == x \o c
           r == a \o y
<1>1. /\ x \in Seq(S) /\ Len(x) = Len(a) + Len(b)
      /\ \A i \in 1..Len(a) + Len(b) : x[i] = IF i <= Len(a) THEN a[i] ELSE b[i - Len(a)]
  BY ConcatProperties
<1>2. /\ y \in Seq(S) /\ Len(y) = Len(b) + Len(c)
      /\ \A i \in 1..Len(b) + Len(c) : y[i] = IF i <= Len(b) THEN b[i] ELSE c[i - Len(b)]
  BY ConcatProperties
<1> HIDE DEF x, y
<1>3. /\ l \in Seq(S) /\ Len(l) = Len(x) + Len(c)
      /\ \A i \in 1..Len(x) + Len(c) : l[i] = IF i <= Len(x) THEN x[i] ELSE c[i - Len(x)]
  <2>1. x \in Seq(S) BY ONLY <1>1
  <2> QED BY ONLY <2>1, c \in Seq(S), ConcatProperties
<1>4. /\ r \in Seq(S) /\ Len(r) = Len(a) + Len(y)
      /\ \A i \in 1..Len(a) + Len(y) : r[i] = IF i <= Len(a) THEN a[i] ELSE y[i - Len(a)]
  <2>1. y \in Seq(S) BY ONLY <1>2
  <2> QED BY ONLY <2>1, a \in Seq(S), ConcatProperties
<1> HIDE DEF l, r
<1>5. Len(a) \in Nat /\ Len(b) \in Nat /\ Len(c) \in Nat OBVIOUS
<1>6. Len(l) = Len(r) BY <1>1, <1>2, <1>3, <1>4, <1>5
<1>7. ASSUME NEW i \in 1..Len(l) PROVE l[i] = r[i]
  <2>1. i \in 1..Len(x) + Len(c) /\ i \in 1..Len(a) + Len(y) BY <1>1, <1>2, <1>3, <1>5
  <2>2. CASE i <= Len(a)
    <3>1. i \in 1..Len(a) + Len(b) /\ i <= Len(x) BY <1>1, <1>5, <2>1, <2>2
    <3> QED BY <1>1, <1>3, <1>4, <2>1, <2>2, <3>1
  <2>3. CASE ~(i <= Len(a)) /\ i <= Len(a) + Len(b)
    <3>1. i \in 1..Len(a) + Len(b) /\ i <= Len(x) /\ i - Len(a) \in 1..Len(b) + Len(c) /\ i - Len(a) <= Len(b)
      BY <1>1, <1>5, <2>1, <2>3
    <3>2. l[i] = b[i - Len(a)] BY <1>1, <1>3, <2>1, <2>3, <3>1
    <3>3. r[i] = b[i - Len(a)] BY <1>2, <1>4, <2>1, <2>3, <3>1
    <3> QED BY <3>2, <3>3
  <2>4. CASE ~(i <= Len(a) + Len(b))
    <3>1. /\ ~(i <= Len(a)) /\ ~(i <= Len(x)) /\ i - Len(a) \in 1..Len(b) + Len(c) /\ ~(i - Len(a) <= Len(b))
          /\ (i - Len(a)) - Len(b) = i - Len(x)
      BY <1>1, <1>2, <1>5, <2>1, <2>4
    <3>2. l[i] = c[i - Len(x)] BY <1>3, <2>1, <3>1
    <3>3. r[i] = c[i - Len(x)] BY <1>2, <1>4, <2>1, <3>1
    <3> QED BY <3>2, <3>3
  <2> QED BY <2>2, <2>3, <2>4
<1>8. l = r BY <1>3, <1>4, <1>6, <1>7, SeqEqual
<1> QED BY ONLY <1>8, Zenon DEF l, r, x, y

\* A sequence is its first k elements followed by the others.
LEMMA SplitSeq ==
    ASSUME NEW X, NEW s \in Seq(X), NEW k \in 0..Len(s)
    PROVE  /\ SubSeq(s, 1, k) \in Seq(X) /\ SubSeq(s, k + 1, Len(s)) \in Seq(X)
           /\ Len(SubSeq(s, 1, k)) = k /\ Len(SubSeq(s, k + 1, Len(s))) = Len(s) - k
           /\ s = SubSeq(s, 1, k) \o SubSeq(s, k + 1, Len(s))
<1>1. SubSeq(s, 1, k) \in Seq(X) /\ Len(SubSeq(s, 1, k)) = k OBVIOUS
<1>2. SubSeq(s, k + 1, Len(s)) \in Seq(X) /\ Len(SubSeq(s, k + 1, Len(s))) = Len(s) - k
  OBVIOUS
<1>3. SubSeq(s, 1, k) \o SubSeq(s, k + 1, Len(s)) = SubSeq(s, 1, Len(s))
  <2>1. 1 \in 1..(Len(s) + 1) /\ k \in (1 - 1)..Len(s) /\ Len(s) \in k..Len(s) OBVIOUS
  <2> QED BY <2>1, ConcatAdjacentSubSeq
<1>4. SubSeq(s, 1, Len(s)) = s BY SubSeqFull
<1> QED BY <1>1, <1>2, <1>3, <1>4

\* The two parts when all elements are in the first.
LEMMA WholeSeq ==
    ASSUME NEW X, NEW s \in Seq(X)
    PROVE  SubSeq(s, 1, Len(s)) = s /\ SubSeq(s, Len(s) + 1, Len(s)) = <<>>
<1>1. SubSeq(s, 1, Len(s)) = s BY SubSeqFull
<1>2. Len(s) \in Nat OBVIOUS
<1>3. SubSeq(s, Len(s) + 1, Len(s)) = <<>> BY <1>2, SubSeqEmpty
<1> QED BY <1>1, <1>3

-----------------------------------------------------------------------------
(* FlattenSeq.                                                             *)

\* The recursive function inside FlattenSeq, as the choice it stands for.
Flat(seqs) == CHOOSE f : f = [i \in 1..Len(seqs) |-> IF i = 1 THEN seqs[i] ELSE f[i - 1] \o seqs[i]]

\* f satisfies the recursion on its first n arguments.
IsFlat(f, seqs, n) ==
    \A i \in 1..n : f[i] = IF i = 1 THEN seqs[i] ELSE f[i - 1] \o seqs[i]

\* FlattenSeq in terms of that function.
LEMMA FlattenSeqIsFlat ==
    ASSUME NEW seqs
    PROVE  FlattenSeq(seqs) = IF Len(seqs) = 0 THEN seqs ELSE Flat(seqs)[Len(seqs)]
BY DEF FlattenSeq, Flat

\* There is a solution of the recursion for every length: by induction, each
\* extends the one before.
LEMMA FlatExists ==
    ASSUME NEW X, NEW seqs \in Seq(Seq(X))
    PROVE  \A n \in Nat : n <= Len(seqs) =>
             \E f \in [1..n -> Seq(X)] : IsFlat(f, seqs, n)
<1> DEFINE P(n) == n <= Len(seqs) => \E f \in [1..n -> Seq(X)] : IsFlat(f, seqs, n)
           S == {n \in Nat : P(n)}
<1>1. 0 \in S
  <2> DEFINE e == [i \in 1..0 |-> <<>>]
  <2>1. IsFlat(e, seqs, 0) BY DEF IsFlat
  <2>2. e \in [1..0 -> Seq(X)] OBVIOUS
  <2>3. P(0) BY <2>1, <2>2
  <2> QED BY <2>3
<1>2. ASSUME NEW n \in Nat, n \in S PROVE n + 1 \in S
  <2>1. SUFFICES ASSUME n + 1 <= Len(seqs)
                 PROVE  \E f \in [1..(n + 1) -> Seq(X)] : IsFlat(f, seqs, n + 1)
    OBVIOUS
  <2>2. PICK f \in [1..n -> Seq(X)] : IsFlat(f, seqs, n) BY <1>2, <2>1
  <2> DEFINE g == [i \in 1..(n + 1) |-> IF i <= n THEN f[i]
                     ELSE IF n = 0 THEN seqs[1] ELSE f[n] \o seqs[n + 1]]
  <2>3. g \in [1..(n + 1) -> Seq(X)]
    <3>1. seqs[n + 1] \in Seq(X) /\ seqs[1] \in Seq(X) BY <2>1
    <3>2. n # 0 => f[n] \o seqs[n + 1] \in Seq(X)
      <4>1. n # 0 => f[n] \in Seq(X) OBVIOUS
      <4> QED BY <3>1, <4>1, ConcatProperties
    <3> QED BY <3>1, <3>2
  <2>4. IsFlat(g, seqs, n + 1)
    <3>1. ASSUME NEW i \in 1..(n + 1)
          PROVE g[i] = IF i = 1 THEN seqs[i] ELSE g[i - 1] \o seqs[i]
      <4>1. CASE i <= n
        <5>1. g[i] = f[i] /\ (i # 1 => g[i - 1] = f[i - 1]) BY <4>1
        <5>2. i \in 1..n BY <4>1
        <5>3. f[i] = IF i = 1 THEN seqs[i] ELSE f[i - 1] \o seqs[i] BY <2>2, <5>2 DEF IsFlat
        <5> HIDE DEF g
        <5> QED BY <5>1, <5>3
      <4>2. CASE i = n + 1
        <5>1. i # 1 => g[i - 1] = f[n] BY <4>2
        <5>2. g[i] = IF n = 0 THEN seqs[1] ELSE f[n] \o seqs[n + 1] BY <4>2
        <5> QED BY <4>2, <5>1, <5>2
      <4> QED BY <4>1, <4>2
    <3> QED BY <3>1 DEF IsFlat
  <2> QED BY <2>3, <2>4
<1> HIDE DEF S
<1>3. \A n \in Nat : n \in S BY <1>1, <1>2, SetInduction
<1> QED BY <1>3 DEF S

\* Two solutions agree.
LEMMA FlatUnique ==
    ASSUME NEW s, NEW m \in Nat, NEW f, NEW g, IsFlat(f, s, m), IsFlat(g, s, m)
    PROVE  \A k \in 1..m : f[k] = g[k]
<1> DEFINE S == {k \in Nat : k \in 1..m => f[k] = g[k]}
<1>1. 0 \in S OBVIOUS
<1>2. ASSUME NEW k \in Nat, k \in S PROVE k + 1 \in S
  <2>1. SUFFICES ASSUME k + 1 \in 1..m PROVE f[k + 1] = g[k + 1] OBVIOUS
  <2>0. (k + 1) - 1 = k OBVIOUS
  <2>2. f[k + 1] = IF k + 1 = 1 THEN s[k + 1] ELSE f[k] \o s[k + 1] BY <2>0, <2>1 DEF IsFlat
  <2>3. g[k + 1] = IF k + 1 = 1 THEN s[k + 1] ELSE g[k] \o s[k + 1] BY <2>0, <2>1 DEF IsFlat
  <2>4. k # 0 => f[k] = g[k] BY <1>2, <2>1
  <2> QED BY <2>2, <2>3, <2>4
<1> HIDE DEF S
<1>3. \A k \in Nat : k \in S BY <1>1, <1>2, SetInduction
<1> QED BY <1>3 DEF S

\* The chosen function is a solution, with sequences as values.
LEMMA FlatIsFlat ==
    ASSUME NEW X, NEW seqs \in Seq(Seq(X))
    PROVE  /\ IsFlat(Flat(seqs), seqs, Len(seqs))
           /\ Flat(seqs) \in [1..Len(seqs) -> Seq(X)]
<1> DEFINE N == Len(seqs)
<1>0. N \in Nat OBVIOUS
<1>1. PICK f \in [1..N -> Seq(X)] : IsFlat(f, seqs, N) BY FlatExists, <1>0
<1>2. f = [i \in 1..N |-> IF i = 1 THEN seqs[i] ELSE f[i - 1] \o seqs[i]]
  BY <1>1 DEF IsFlat
<1> DEFINE h == Flat(seqs)
<1>3. h = [i \in 1..N |-> IF i = 1 THEN seqs[i] ELSE h[i - 1] \o seqs[i]]
  BY <1>2 DEF Flat
<1> HIDE DEF h
<1>4. IsFlat(h, seqs, N) BY <1>3 DEF IsFlat
<1>5. \A k \in 1..N : h[k] = f[k] BY <1>0, <1>1, <1>4, FlatUnique
<1>6. h = f
  <2>1. h = [i \in 1..N |-> h[i]] /\ f = [i \in 1..N |-> f[i]] BY <1>1, <1>3
  <2> QED BY <1>5, <2>1
<1> QED BY <1>1, <1>4, <1>6 DEF h

\* FlattenSeq of no sequences.
LEMMA FlattenSeqEmpty == FlattenSeq(<<>>) = <<>>
BY DEF FlattenSeq

\* FlattenSeq of sequences over X is one.
LEMMA FlattenSeqType ==
    ASSUME NEW X, NEW seqs \in Seq(Seq(X))
    PROVE  FlattenSeq(seqs) \in Seq(X)
<1>1. CASE Len(seqs) = 0
  BY <1>1, FlattenSeqIsFlat, EmptySeq
<1>2. CASE Len(seqs) # 0
  <2>1. Len(seqs) \in 1..Len(seqs) BY <1>2
  <2> QED BY <1>2, <2>1, FlattenSeqIsFlat, FlatIsFlat
<1> QED BY <1>1, <1>2

\* One more sequence is appended at the end.
LEMMA FlattenSeqStep ==
    ASSUME NEW X, NEW s \in Seq(Seq(X)), NEW t \in Seq(Seq(X)),
           Len(t) = Len(s) + 1, \A i \in 1..Len(s) : s[i] = t[i]
    PROVE  FlattenSeq(t) = FlattenSeq(s) \o t[Len(t)]
<1> DEFINE n == Len(s)
<1>1. n \in Nat /\ Len(t) = n + 1 /\ (n + 1) - 1 = n /\ n + 1 \in 1..(n + 1) OBVIOUS
<1>2. t[n + 1] \in Seq(X) BY <1>1
<1>3. IsFlat(Flat(t), t, n + 1) BY <1>1, FlatIsFlat
<1>4. FlattenSeq(t) = Flat(t)[n + 1] BY <1>1, FlattenSeqIsFlat
<1>5. Flat(t)[n + 1] = IF n + 1 = 1 THEN t[n + 1] ELSE Flat(t)[n] \o t[n + 1]
  BY <1>1, <1>3 DEF IsFlat
<1>6. CASE n = 0
  <2>1. FlattenSeq(s) = <<>> BY <1>6, FlattenSeqIsFlat, EmptySeq
  <2>2. <<>> \o t[n + 1] = t[n + 1] BY <1>2, ConcatEmptySeq
  <2> QED BY <1>1, <1>4, <1>5, <1>6, <2>1, <2>2
<1>7. CASE n # 0
  <2>0. Flat(t)[n + 1] = Flat(t)[n] \o t[n + 1]
    <3>1. n + 1 # 1 BY <1>1, <1>7
    <3> HIDE DEF n
    <3> QED BY <1>5, <3>1
  <2>1. FlattenSeq(s) = Flat(s)[n] BY <1>7, FlattenSeqIsFlat
  <2>2. IsFlat(Flat(s), s, n) BY FlatIsFlat
  <2>3. \A k \in 1..n : Flat(s)[k] = Flat(t)[k]
    <3> DEFINE g == Flat(t)
    <3>1. IsFlat(g, s, n) BY <1>1, <1>3 DEF IsFlat
    <3> HIDE DEF g
    <3> QED BY <1>1, <2>2, <3>1, FlatUnique DEF g
  <2>4. Flat(s)[n] = Flat(t)[n]
    <3> HIDE DEF n
    <3>1. n \in 1..n BY <1>1, <1>7
    <3> QED BY <2>3, <3>1
  <2> HIDE DEF n
  <2> QED BY <1>1, <1>4, <2>0, <2>1, <2>4
<1> QED BY <1>6, <1>7

=============================================================================
