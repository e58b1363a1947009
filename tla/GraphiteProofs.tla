--------------------------- MODULE GraphiteProofs ---------------------------
(***************************************************************************)
(* Proofs about Graphite: for every set of lines, every set of targets and *)
(* all globs in them, matecarbon selects the series of the paths that the  *)
(* globs match, or pass for one that matches, names them as they were      *)
(* sent, and finds the nodes below a prefix; targets with one of $ ' < >   *)
(* in a node select nothing.                                               *)
(*                                                                         *)
(* The loops over the characters of a glob and over the pieces of a        *)
(* regular expression are composed of the loops over the parts of the text *)
(* (GlobLoopConcat, RegexLoopConcat).  So what a glob means (Means: what   *)
(* it adds to any pattern, and what that adds to any words read so far)    *)
(* follows from the globs it is made of, and every glob has its meaning by *)
(* induction over the list Globs.                                          *)
(***************************************************************************)
EXTENDS Graphite, SequenceLemmas

-----------------------------------------------------------------------------
(* Numbers in order.                                                       *)

\* InOrder, a CHOOSE, lists the set.
LEMMA InOrderAscends ==
    ASSUME NEW S \in SUBSET Int, IsFiniteSet(S)
    PROVE  Ascending(InOrder(S), S, Cardinality(S))
<1>1. PICK f : Ascending(f, S, Cardinality(S)) BY SortExists
<1> QED BY <1>1 DEF InOrder, Ascending

\* The list has exactly the elements of the set.
LEMMA InOrderElements ==
    ASSUME NEW S \in SUBSET Int, IsFiniteSet(S)
    PROVE  /\ InOrder(S) \in [1..Cardinality(S) -> S] /\ Cardinality(S) \in Nat
           /\ \A x \in S : \E k \in 1..Cardinality(S) : InOrder(S)[k] = x
<1>1. Ascending(InOrder(S), S, Cardinality(S)) BY InOrderAscends
<1>2. \A x \in S : \E k \in 1..Cardinality(S) : InOrder(S)[k] = x BY <1>1, AscendingOnto
<1>3. Cardinality(S) \in Nat BY FS_CardinalityType
<1> QED BY <1>1, <1>2, <1>3 DEF Ascending

-----------------------------------------------------------------------------
(* The loops.                                                              *)

\* Appending to the second of two texts.
LEMMA AppendConcat ==
    ASSUME NEW X, NEW s \in Seq(X), NEW t \in Seq(X), NEW ch \in X
    PROVE  s \o Append(t, ch) = Append(s \o t, ch)
<1>1. s \o t \in Seq(X) /\ <<ch>> \in Seq(X) BY ConcatProperties
<1>2. Append(t, ch) = t \o <<ch>> BY AppendIsConcat
<1>3. Append(s \o t, ch) = (s \o t) \o <<ch>>
  <2> DEFINE u == s \o t
  <2> HIDE DEF u
  <2>1. u \in Seq(X) BY <1>1 DEF u
  <2>2. Append(u, ch) = u \o <<ch>> BY <2>1, AppendIsConcat
  <2> QED BY ONLY <2>2, Zenon DEF u
<1>4. (s \o t) \o <<ch>> = s \o (t \o <<ch>>) BY <1>1, ConcatThree, SMTT(20)
<1> QED BY ONLY <1>2, <1>3, <1>4, Zenon

\* The function inside globLoop, as the choice it stands for.
GlobAfter(g, text) ==
    CHOOSE f : f = [i \in 0..Len(text) |-> IF i = 0 THEN g ELSE globStep(f[i - 1], text[i])]

\* f satisfies the recursion up to n.
GlobSteps(f, g, text, n) ==
    \A i \in 0..n : f[i] = IF i = 0 THEN g ELSE globStep(f[i - 1], text[i])

\* A loop of any length has its states (induction on the length) ...
LEMMA GlobStepsExist ==
    ASSUME NEW g, NEW text, NEW n \in Nat
    PROVE  \E f : GlobSteps(f, g, text, n)
<1> DEFINE N == {k \in Nat : \E f : GlobSteps(f, g, text, k)}
<1>1. 0 \in N
  <2>1. GlobSteps([i \in 0..0 |-> g], g, text, 0) BY DEF GlobSteps
  <2> QED BY <2>1
<1>2. ASSUME NEW k \in Nat, k \in N PROVE k + 1 \in N
  <2>1. PICK f : GlobSteps(f, g, text, k) BY <1>2
  <2> DEFINE h == [i \in 0..(k + 1) |-> IF i <= k THEN f[i] ELSE globStep(f[k], text[k + 1])]
  <2>2. ASSUME NEW i \in 0..(k + 1)
        PROVE  h[i] = IF i = 0 THEN g ELSE globStep(h[i - 1], text[i])
    <3>1. CASE i <= k
      <4>1. i \in 0..k /\ h[i] = f[i] BY <3>1
      <4>2. i # 0 => h[i - 1] = f[i - 1] BY <3>1
      <4>3. f[i] = IF i = 0 THEN g ELSE globStep(f[i - 1], text[i]) BY <2>1, <4>1 DEF GlobSteps
      <4> HIDE DEF h
      <4> QED BY <4>1, <4>2, <4>3
    <3>2. CASE i = k + 1
      <4>1. h[i - 1] = f[k] /\ i # 0 /\ h[i] = globStep(f[k], text[k + 1]) BY <3>2
      <4> HIDE DEF h
      <4> QED BY <3>2, <4>1
    <3> QED BY <3>1, <3>2
  <2>3. GlobSteps(h, g, text, k + 1)
    <3> HIDE DEF h
    <3> QED BY <2>2 DEF GlobSteps
  <2> QED BY <2>3
<1> HIDE DEF N
<1>3. \A k \in Nat : k \in N BY <1>1, <1>2, SetInduction
<1> QED BY <1>3 DEF N

\* ... and only these.
LEMMA GlobStepsAgree ==
    ASSUME NEW g, NEW n \in Nat, NEW t, NEW f, GlobSteps(f, g, t, n), NEW h, GlobSteps(h, g, t, n)
    PROVE  \A i \in 0..n : f[i] = h[i]
<1> DEFINE N == {k \in Nat : k <= n => f[k] = h[k]}
<1>1. 0 \in N BY DEF GlobSteps
<1>2. ASSUME NEW k \in Nat, k \in N PROVE k + 1 \in N
  <2>1. SUFFICES ASSUME k + 1 <= n PROVE f[k + 1] = h[k + 1] OBVIOUS
  <2>2. k + 1 \in 0..n /\ k + 1 # 0 /\ (k + 1) - 1 = k BY <2>1
  <2>3. f[k + 1] = globStep(f[k], t[k + 1]) BY <2>2 DEF GlobSteps
  <2>4. h[k + 1] = globStep(h[k], t[k + 1]) BY <2>2 DEF GlobSteps
  <2>5. f[k] = h[k] BY <1>2, <2>1
  <2> QED BY <2>2, <2>3, <2>4, <2>5
<1> HIDE DEF N
<1>3. \A k \in Nat : k \in N BY <1>1, <1>2, SetInduction
<1> QED BY <1>3 DEF N

\* The states that globLoop goes through.
LEMMA GlobLoopSteps ==
    ASSUME NEW X, NEW g, NEW text \in Seq(X)
    PROVE  /\ GlobSteps(GlobAfter(g, text), g, text, Len(text))
           /\ globLoop(g, text) = GlobAfter(g, text)[Len(text)]
<1> DEFINE n == Len(text)
<1>1. n \in Nat OBVIOUS
<1>2. PICK f : GlobSteps(f, g, text, n) BY <1>1, GlobStepsExist
<1> DEFINE h == [i \in 0..n |-> f[i]]
<1>3. h = [i \in 0..n |-> IF i = 0 THEN g ELSE globStep(h[i - 1], text[i])]
  <2>1. ASSUME NEW i \in 0..n
        PROVE  f[i] = IF i = 0 THEN g ELSE globStep(h[i - 1], text[i])
    <3>1. f[i] = IF i = 0 THEN g ELSE globStep(f[i - 1], text[i]) BY <1>2 DEF GlobSteps
    <3>2. i # 0 => h[i - 1] = f[i - 1] BY <1>1
    <3> QED BY <3>1, <3>2
  <2> QED BY <2>1
<1> DEFINE a == GlobAfter(g, text)
<1>4. a = [i \in 0..n |-> IF i = 0 THEN g ELSE globStep(a[i - 1], text[i])]
  <2> HIDE DEF h
  <2> QED BY <1>3 DEF GlobAfter
<1>5. globLoop(g, text) = a[n] BY DEF globLoop, GlobAfter
<1> HIDE DEF a
<1>6. GlobSteps(a, g, text, n) BY <1>4 DEF GlobSteps
<1> QED BY <1>5, <1>6 DEF a

\* globLoop of no text, of one more piece, and of one text after another.
LEMMA GlobLoopEmpty ==
    ASSUME NEW g
    PROVE  globLoop(g, <<>>) = g
<1>1. <<>> \in Seq(STRING) /\ Len(<<>>) = 0 BY EmptySeq
<1>2. GlobSteps(GlobAfter(g, <<>>), g, <<>>, 0) /\ globLoop(g, <<>>) = GlobAfter(g, <<>>)[0]
  BY <1>1, GlobLoopSteps
<1> QED BY <1>2 DEF GlobSteps

\* One character more is one round more.
LEMMA GlobLoopAppend ==
    ASSUME NEW X, NEW g, NEW text \in Seq(X), NEW ch \in X
    PROVE  globLoop(g, Append(text, ch)) = globStep(globLoop(g, text), ch)
<1> DEFINE n == Len(text)
           t == Append(text, ch)
           f == GlobAfter(g, text)
           h == GlobAfter(g, t)
<1>1. /\ n \in Nat /\ t \in Seq(X) /\ Len(t) = n + 1 /\ t[n + 1] = ch
      /\ \A i \in 1..n : text[i] = t[i]
  BY AppendProperties
<1>2. GlobSteps(f, g, text, n) /\ globLoop(g, text) = f[n] BY GlobLoopSteps
<1>3. GlobSteps(h, g, t, n + 1) /\ globLoop(g, t) = h[n + 1]
  <2> HIDE DEF t
  <2>1. GlobSteps(GlobAfter(g, t), g, t, Len(t)) /\ globLoop(g, t) = GlobAfter(g, t)[Len(t)]
    BY <1>1, GlobLoopSteps
  <2> QED BY <1>1, <2>1
<1> HIDE DEF n, t, f, h
<1>4. GlobSteps(h, g, t, n) BY <1>1, <1>3 DEF GlobSteps
<1>5. f[n] = h[n]
  <2>1. GlobSteps(f, g, t, n)
    <3>1. \A i \in 0..n : i # 0 => i \in 1..n BY <1>1
    <3> QED BY <1>1, <1>2, <3>1 DEF GlobSteps
  <2>2. n \in Nat BY <1>1
  <2>3. \A i \in 0..n : f[i] = h[i] BY <1>4, <2>1, <2>2, GlobStepsAgree
  <2> QED BY <1>1, <2>3
<1>6. h[n + 1] = globStep(h[n], t[n + 1])
  <2>1. n + 1 \in 0..(n + 1) /\ n + 1 # 0 /\ (n + 1) - 1 = n BY <1>1
  <2> QED BY <1>3, <2>1 DEF GlobSteps
<1> QED BY <1>1, <1>2, <1>3, <1>5, <1>6 DEF t

\* The loop over two texts is the loop over the second after that over the first.
LEMMA GlobLoopConcat ==
    ASSUME NEW X, NEW g, NEW s \in Seq(X), NEW t \in Seq(X)
    PROVE  globLoop(g, s \o t) = globLoop(globLoop(g, s), t)
<1> DEFINE P(u) == globLoop(g, s \o u) = globLoop(globLoop(g, s), u)
           N == {k \in Nat : \A u \in Seq(X) : Len(u) = k => P(u)}
<1>1. 0 \in N
  <2>1. ASSUME NEW u \in Seq(X), Len(u) = 0 PROVE P(u)
    <3>1. u = <<>> BY <2>1, EmptySeq
    <3>2. s \o <<>> = s BY ConcatEmptySeq
    <3> QED BY <3>1, <3>2, GlobLoopEmpty
  <2> HIDE DEF P
  <2> QED BY <2>1
<1>2. ASSUME NEW k \in Nat, k \in N PROVE k + 1 \in N
  <2>1. ASSUME NEW u \in Seq(X), Len(u) = k + 1 PROVE P(u)
    <3>1. u # <<>> BY <2>1
    <3>2. PICK v \in Seq(X), ch \in X : u = Append(v, ch) BY <3>1, SequenceEmptyOrAppend
    <3>3. Len(v) = k
      <4>1. Len(u) = Len(v) + 1 /\ Len(v) \in Nat BY <3>2, AppendProperties
      <4> QED BY <2>1, <4>1
    <3>4. P(v) BY <1>2, <3>3
    <3>5. s \o v \in Seq(X) BY ConcatProperties
    <3>6. s \o u = Append(s \o v, ch)
      <4>1. s \o Append(v, ch) = Append(s \o v, ch) BY AppendConcat
      <4> QED BY ONLY <3>2, <4>1, Zenon
    <3>7. globLoop(g, Append(s \o v, ch)) = globStep(globLoop(g, s \o v), ch)
      <4> DEFINE sv == s \o v
      <4> HIDE DEF sv
      <4>1. sv \in Seq(X) BY <3>5 DEF sv
      <4>2. globLoop(g, Append(sv, ch)) = globStep(globLoop(g, sv), ch)
        BY <4>1, GlobLoopAppend
      <4> QED BY ONLY <4>2, Zenon DEF sv
    <3>8. globLoop(globLoop(g, s), u) = globStep(globLoop(globLoop(g, s), v), ch)
      BY <3>2, GlobLoopAppend
    <3> QED BY ONLY <3>4, <3>6, <3>7, <3>8, Zenon
  <2> HIDE DEF P
  <2> QED BY <2>1
<1> HIDE DEF N
<1>3. \A k \in Nat : k \in N BY <1>1, <1>2, SetInduction
<1>4. Len(t) \in Nat BY LenProperties
<1> QED BY <1>3, <1>4 DEF N

\* The function inside regexLoop, as the choice it stands for.
RegexAfter(m, pattern) ==
    CHOOSE f : f = [i \in 0..Len(pattern) |-> IF i = 0 THEN m ELSE regexStep(f[i - 1], pattern[i])]

\* f satisfies the recursion up to n.
RegexSteps(f, m, pattern, n) ==
    \A i \in 0..n : f[i] = IF i = 0 THEN m ELSE regexStep(f[i - 1], pattern[i])

\* A loop of any length has its states (induction on the length) ...
LEMMA RegexStepsExist ==
    ASSUME NEW m, NEW pattern, NEW n \in Nat
    PROVE  \E f : RegexSteps(f, m, pattern, n)
<1> DEFINE N == {k \in Nat : \E f : RegexSteps(f, m, pattern, k)}
<1>1. 0 \in N
  <2>1. RegexSteps([i \in 0..0 |-> m], m, pattern, 0) BY DEF RegexSteps
  <2> QED BY <2>1
<1>2. ASSUME NEW k \in Nat, k \in N PROVE k + 1 \in N
  <2>1. PICK f : RegexSteps(f, m, pattern, k) BY <1>2
  <2> DEFINE h == [i \in 0..(k + 1) |-> IF i <= k THEN f[i] ELSE regexStep(f[k], pattern[k + 1])]
  <2>2. ASSUME NEW i \in 0..(k + 1)
        PROVE  h[i] = IF i = 0 THEN m ELSE regexStep(h[i - 1], pattern[i])
    <3>1. CASE i <= k
      <4>1. i \in 0..k /\ h[i] = f[i] BY <3>1
      <4>2. i # 0 => h[i - 1] = f[i - 1] BY <3>1
      <4>3. f[i] = IF i = 0 THEN m ELSE regexStep(f[i - 1], pattern[i]) BY <2>1, <4>1 DEF RegexSteps
      <4> HIDE DEF h
      <4> QED BY <4>1, <4>2, <4>3
    <3>2. CASE i = k + 1
      <4>1. h[i - 1] = f[k] /\ i # 0 /\ h[i] = regexStep(f[k], pattern[k + 1]) BY <3>2
      <4> HIDE DEF h
      <4> QED BY <3>2, <4>1
    <3> QED BY <3>1, <3>2
  <2>3. RegexSteps(h, m, pattern, k + 1)
    <3> HIDE DEF h
    <3> QED BY <2>2 DEF RegexSteps
  <2> QED BY <2>3
<1> HIDE DEF N
<1>3. \A k \in Nat : k \in N BY <1>1, <1>2, SetInduction
<1> QED BY <1>3 DEF N

\* ... and only these.
LEMMA RegexStepsAgree ==
    ASSUME NEW m, NEW n \in Nat, NEW t, NEW f, RegexSteps(f, m, t, n), NEW h, RegexSteps(h, m, t, n)
    PROVE  \A i \in 0..n : f[i] = h[i]
<1> DEFINE N == {k \in Nat : k <= n => f[k] = h[k]}
<1>1. 0 \in N BY DEF RegexSteps
<1>2. ASSUME NEW k \in Nat, k \in N PROVE k + 1 \in N
  <2>1. SUFFICES ASSUME k + 1 <= n PROVE f[k + 1] = h[k + 1] OBVIOUS
  <2>2. k + 1 \in 0..n /\ k + 1 # 0 /\ (k + 1) - 1 = k BY <2>1
  <2>3. f[k + 1] = regexStep(f[k], t[k + 1]) BY <2>2 DEF RegexSteps
  <2>4. h[k + 1] = regexStep(h[k], t[k + 1]) BY <2>2 DEF RegexSteps
  <2>5. f[k] = h[k] BY <1>2, <2>1
  <2> QED BY <2>2, <2>3, <2>4, <2>5
<1> HIDE DEF N
<1>3. \A k \in Nat : k \in N BY <1>1, <1>2, SetInduction
<1> QED BY <1>3 DEF N

\* The states that regexLoop goes through.
LEMMA RegexLoopSteps ==
    ASSUME NEW X, NEW m, NEW pattern \in Seq(X)
    PROVE  /\ RegexSteps(RegexAfter(m, pattern), m, pattern, Len(pattern))
           /\ regexLoop(m, pattern) = RegexAfter(m, pattern)[Len(pattern)]
<1> DEFINE n == Len(pattern)
<1>1. n \in Nat OBVIOUS
<1>2. PICK f : RegexSteps(f, m, pattern, n) BY <1>1, RegexStepsExist
<1> DEFINE h == [i \in 0..n |-> f[i]]
<1>3. h = [i \in 0..n |-> IF i = 0 THEN m ELSE regexStep(h[i - 1], pattern[i])]
  <2>1. ASSUME NEW i \in 0..n
        PROVE  f[i] = IF i = 0 THEN m ELSE regexStep(h[i - 1], pattern[i])
    <3>1. f[i] = IF i = 0 THEN m ELSE regexStep(f[i - 1], pattern[i]) BY <1>2 DEF RegexSteps
    <3>2. i # 0 => h[i - 1] = f[i - 1] BY <1>1
    <3> QED BY <3>1, <3>2
  <2> QED BY <2>1
<1> DEFINE a == RegexAfter(m, pattern)
<1>4. a = [i \in 0..n |-> IF i = 0 THEN m ELSE regexStep(a[i - 1], pattern[i])]
  <2> HIDE DEF h
  <2> QED BY <1>3 DEF RegexAfter
<1>5. regexLoop(m, pattern) = a[n] BY DEF regexLoop, RegexAfter
<1> HIDE DEF a
<1>6. RegexSteps(a, m, pattern, n) BY <1>4 DEF RegexSteps
<1> QED BY <1>5, <1>6 DEF a

\* regexLoop of no text, of one more piece, and of one text after another.
LEMMA RegexLoopEmpty ==
    ASSUME NEW m
    PROVE  regexLoop(m, <<>>) = m
<1>1. <<>> \in Seq(STRING) /\ Len(<<>>) = 0 BY EmptySeq
<1>2. RegexSteps(RegexAfter(m, <<>>), m, <<>>, 0) /\ regexLoop(m, <<>>) = RegexAfter(m, <<>>)[0]
  BY <1>1, RegexLoopSteps
<1> QED BY <1>2 DEF RegexSteps

\* One piece more is one round more.
LEMMA RegexLoopAppend ==
    ASSUME NEW X, NEW m, NEW pattern \in Seq(X), NEW ch \in X
    PROVE  regexLoop(m, Append(pattern, ch)) = regexStep(regexLoop(m, pattern), ch)
<1> DEFINE n == Len(pattern)
           t == Append(pattern, ch)
           f == RegexAfter(m, pattern)
           h == RegexAfter(m, t)
<1>1. /\ n \in Nat /\ t \in Seq(X) /\ Len(t) = n + 1 /\ t[n + 1] = ch
      /\ \A i \in 1..n : pattern[i] = t[i]
  BY AppendProperties
<1>2. RegexSteps(f, m, pattern, n) /\ regexLoop(m, pattern) = f[n] BY RegexLoopSteps
<1>3. RegexSteps(h, m, t, n + 1) /\ regexLoop(m, t) = h[n + 1]
  <2> HIDE DEF t
  <2>1. RegexSteps(RegexAfter(m, t), m, t, Len(t)) /\ regexLoop(m, t) = RegexAfter(m, t)[Len(t)]
    BY <1>1, RegexLoopSteps
  <2> QED BY <1>1, <2>1
<1> HIDE DEF n, t, f, h
<1>4. RegexSteps(h, m, t, n) BY <1>1, <1>3 DEF RegexSteps
<1>5. f[n] = h[n]
  <2>1. RegexSteps(f, m, t, n)
    <3>1. \A i \in 0..n : i # 0 => i \in 1..n BY <1>1
    <3> QED BY <1>1, <1>2, <3>1 DEF RegexSteps
  <2>2. n \in Nat BY <1>1
  <2>3. \A i \in 0..n : f[i] = h[i] BY <1>4, <2>1, <2>2, RegexStepsAgree
  <2> QED BY <1>1, <2>3
<1>6. h[n + 1] = regexStep(h[n], t[n + 1])
  <2>1. n + 1 \in 0..(n + 1) /\ n + 1 # 0 /\ (n + 1) - 1 = n BY <1>1
  <2> QED BY <1>3, <2>1 DEF RegexSteps
<1> QED BY <1>1, <1>2, <1>3, <1>5, <1>6 DEF t

\* Reading two patterns is reading the second after the first.
LEMMA RegexLoopConcat ==
    ASSUME NEW X, NEW m, NEW s \in Seq(X), NEW t \in Seq(X)
    PROVE  regexLoop(m, s \o t) = regexLoop(regexLoop(m, s), t)
<1> DEFINE P(u) == regexLoop(m, s \o u) = regexLoop(regexLoop(m, s), u)
           N == {k \in Nat : \A u \in Seq(X) : Len(u) = k => P(u)}
<1>1. 0 \in N
  <2>1. ASSUME NEW u \in Seq(X), Len(u) = 0 PROVE P(u)
    <3>1. u = <<>> BY <2>1, EmptySeq
    <3>2. s \o <<>> = s BY ConcatEmptySeq
    <3> QED BY <3>1, <3>2, RegexLoopEmpty
  <2> HIDE DEF P
  <2> QED BY <2>1
<1>2. ASSUME NEW k \in Nat, k \in N PROVE k + 1 \in N
  <2>1. ASSUME NEW u \in Seq(X), Len(u) = k + 1 PROVE P(u)
    <3>1. u # <<>> BY <2>1
    <3>2. PICK v \in Seq(X), ch \in X : u = Append(v, ch) BY <3>1, SequenceEmptyOrAppend
    <3>3. Len(v) = k
      <4>1. Len(u) = Len(v) + 1 /\ Len(v) \in Nat BY <3>2, AppendProperties
      <4> QED BY <2>1, <4>1
    <3>4. P(v) BY <1>2, <3>3
    <3>5. s \o v \in Seq(X) BY ConcatProperties
    <3>6. s \o u = Append(s \o v, ch)
      <4>1. s \o Append(v, ch) = Append(s \o v, ch) BY AppendConcat
      <4> QED BY ONLY <3>2, <4>1, Zenon
    <3>7. regexLoop(m, Append(s \o v, ch)) = regexStep(regexLoop(m, s \o v), ch)
      <4> DEFINE sv == s \o v
      <4> HIDE DEF sv
      <4>1. sv \in Seq(X) BY <3>5 DEF sv
      <4>2. regexLoop(m, Append(sv, ch)) = regexStep(regexLoop(m, sv), ch)
        BY <4>1, RegexLoopAppend
      <4> QED BY ONLY <4>2, Zenon DEF sv
    <3>8. regexLoop(regexLoop(m, s), u) = regexStep(regexLoop(regexLoop(m, s), v), ch)
      BY <3>2, RegexLoopAppend
    <3> QED BY ONLY <3>4, <3>6, <3>7, <3>8, Zenon
  <2> HIDE DEF P
  <2> QED BY <2>1
<1> HIDE DEF N
<1>3. \A k \in Nat : k \in N BY <1>1, <1>2, SetInduction
<1>4. Len(t) \in Nat BY LenProperties
<1> QED BY <1>3, <1>4 DEF N

-----------------------------------------------------------------------------
(* Steps of the loop over a glob.                                          *)

\* The characters of globs, the pieces of patterns and the marks of groups.
Sign == Plain \cup {"?", "*", "[", "]", "{", "}", ",", "[^.]", "[^.]*", "(", ")", "|", ""}

\* The loop has written p and is in the groups s.
GlobState(p, r, s) ==
    [pattern |-> p, escaping |-> FALSE, regexed |-> r, groupStartStack |-> s, err |-> FALSE]

\* The end of a sequence that an element was appended to.
LEMMA FrontLastAppend ==
    ASSUME NEW X, NEW s \in Seq(X), NEW e \in X
    PROVE  Front(Append(s, e)) = s /\ Last(Append(s, e)) = e
<1> DEFINE t == Append(s, e)
<1>1. t \in Seq(X) /\ Len(t) = Len(s) + 1 /\ Len(s) \in Nat
      /\ t[Len(s) + 1] = e /\ \A i \in 1..Len(s) : t[i] = s[i]
  BY AppendProperties
<1> HIDE DEF t
<1>2. Last(t) = e BY <1>1 DEF Last
<1>3. Front(t) = s
  <2>1. Len(t) - 1 = Len(s) BY <1>1
  <2>2. SubSeq(t, 1, Len(s)) = s
    <3>1. SubSeq(t, 1, Len(s)) = [i \in 1..Len(s) |-> t[i]] BY <1>1
    <3>2. s = [i \in 1..Len(s) |-> s[i]] OBVIOUS
    <3> QED BY <1>1, <3>1, <3>2
  <2> QED BY <2>1, <2>2 DEF Front
<1> QED BY <1>2, <1>3 DEF t

\* A character that means itself.
LEMMA StepPlain ==
    ASSUME NEW p, NEW r, NEW s, NEW ch \in Plain
    PROVE  globStep(GlobState(p, r, s), ch) = GlobState(p \o <<ch>>, r, s)
<1>1. /\ ch \notin {"\\", ".", "?", "*", "|", "{", "[", "}", "]", ",", "<", ">", "'", "$"}
  BY DEF Plain
<1>2. Pieces(ch) = <<ch>> BY <1>1 DEF Pieces, EscapedRunes
<1> QED BY <1>1, <1>2 DEF globStep, GlobState, EscapedRunes

\* One character, and any number of them.
LEMMA StepAny ==
    ASSUME NEW p, NEW r, NEW s
    PROVE  /\ globStep(GlobState(p, r, s), "?") = GlobState(p \o <<"[^.]">>, TRUE, s)
           /\ globStep(GlobState(p, r, s), "*") = GlobState(p \o <<"[^.]*">>, TRUE, s)
<1>1. Pieces("?") = <<"[^.]">> /\ Pieces("*") = <<"[^.]*">> BY DEF Pieces, EscapedRunes
<1> QED BY <1>1 DEF globStep, GlobState, EscapedRunes

\* A group begins.
LEMMA StepOpen ==
    ASSUME NEW p, NEW r, NEW s
    PROVE  /\ globStep(GlobState(p, r, s), "{") = GlobState(p \o <<"(">>, TRUE, Append(s, "{"))
           /\ globStep(GlobState(p, r, s), "[") = GlobState(p \o <<"[">>, TRUE, Append(s, "["))
<1>1. Pieces("{") = <<"(">> /\ Pieces("[") = <<"[">> BY DEF Pieces, EscapedRunes
<1> QED BY <1>1 DEF globStep, GlobState, EscapedRunes

\* The next alternative of a group, and its end.
LEMMA StepClose ==
    ASSUME NEW p, NEW r, NEW s \in Seq(Sign)
    PROVE  /\ globStep(GlobState(p, r, Append(s, "{")), ",") = GlobState(p \o <<"|">>, r, Append(s, "{"))
           /\ globStep(GlobState(p, r, Append(s, "{")), "}") = GlobState(p \o <<")">>, r, s)
           /\ globStep(GlobState(p, r, Append(s, "[")), "]") = GlobState(p \o <<"]">>, r, s)
<1>1. /\ Pieces(",") = <<"|">> /\ Pieces("}") = <<")">> /\ Pieces("]") = <<"]">>
  BY DEF Pieces, EscapedRunes
<1>2. /\ Front(Append(s, "{")) = s /\ Last(Append(s, "{")) = "{"
      /\ Front(Append(s, "[")) = s /\ Last(Append(s, "[")) = "["
  <2>1. "{" \in Sign /\ "[" \in Sign BY DEF Sign
  <2>2. ASSUME NEW e \in Sign PROVE Front(Append(s, e)) = s /\ Last(Append(s, e)) = e
    BY FrontLastAppend
  <2> QED BY ONLY <2>1, <2>2, Zenon
<1> DEFINE b == Append(s, "{")
           c == Append(s, "[")
<1>3. Front(b) = s /\ Last(b) = "{" /\ Front(c) = s /\ Last(c) = "[" BY <1>2
<1> HIDE DEF b, c
<1>4. globStep(GlobState(p, r, b), ",") = GlobState(p \o <<"|">>, r, b)
  BY <1>1, <1>3 DEF globStep, GlobState, EscapedRunes
<1>5. globStep(GlobState(p, r, b), "}") = GlobState(p \o <<")">>, r, s)
  BY <1>1, <1>3 DEF globStep, GlobState, EscapedRunes
<1>6. globStep(GlobState(p, r, c), "]") = GlobState(p \o <<"]">>, r, s)
  BY <1>1, <1>3 DEF globStep, GlobState, EscapedRunes
<1> QED BY <1>4, <1>5, <1>6 DEF b, c

\* The loop over a glob has written p, escapes the next character if e holds, has met
\* what makes a regular expression if r holds, is in the groups s, has failed if x holds.
Round(g, p, e, r, s, x) ==
    g = [pattern |-> p, escaping |-> e, regexed |-> r, groupStartStack |-> s, err |-> x]

\* Its state with one field set anew.
LEMMA RoundSet ==
    ASSUME NEW g, NEW p, NEW e, NEW r, NEW s, NEW x, NEW v, Round(g, p, e, r, s, x)
    PROVE  /\ Round([g EXCEPT !.pattern = v], v, e, r, s, x)
           /\ Round([g EXCEPT !.escaping = v], p, v, r, s, x)
           /\ Round([g EXCEPT !.regexed = v], p, e, v, s, x)
           /\ Round([g EXCEPT !.groupStartStack = v], p, e, r, v, x)
           /\ Round([g EXCEPT !.err = v], p, e, r, s, v)
BY DEF Round

\* The fields of its state.
LEMMA RoundIs ==
    ASSUME NEW g, NEW p, NEW e, NEW r, NEW s, NEW x, Round(g, p, e, r, s, x)
    PROVE  g.pattern = p /\ g.escaping = e /\ g.groupStartStack = s /\ g.err = x
BY DEF Round

\* What one round makes of it.
LEMMA RoundStep ==
    ASSUME NEW g, NEW p, NEW r, NEW s, NEW ch
    PROVE  LET h == globStep(g, ch)
               q == p \o Pieces(ch)
           IN  /\ \A e : Round(g, p, e, r, s, TRUE) => h = g
               /\ Round(g, p, TRUE, r, s, FALSE) => Round(h, Append(p, ch), FALSE, r, s, FALSE)
               /\ Round(g, p, FALSE, r, s, FALSE) =>
                     \/ ch = "\\" /\ Round(h, q, TRUE, r, s, FALSE)
                     \/ ch # "\\" /\ \E u, t : Round(h, q, FALSE, u, t, FALSE)
                     \/ Round(h, p, FALSE, r, s, TRUE)
<1> DEFINE h == globStep(g, ch)
           q == p \o Pieces(ch)
<1>1. ASSUME NEW e, Round(g, p, e, r, s, TRUE) PROVE h = g
  <2>1. g.err = TRUE BY ONLY <1>1, RoundIs, Zenon
  <2> QED BY ONLY <2>1, Zenon DEF globStep
<1>2. ASSUME Round(g, p, TRUE, r, s, FALSE) PROVE Round(h, Append(p, ch), FALSE, r, s, FALSE)
  <2> DEFINE z == Append(p, ch)
             w == [g EXCEPT !.pattern = z]
  <2>1. g.err = FALSE /\ g.escaping = TRUE /\ g.pattern = p BY ONLY <1>2, RoundIs, Zenon
  <2>2. h = [w EXCEPT !.escaping = FALSE] BY ONLY <2>1, Zenon DEF globStep
  <2> HIDE DEF h, z, w
  <2>3. Round(w, z, TRUE, r, s, FALSE) BY ONLY <1>2, RoundSet, Zenon DEF w
  <2>4. Round([w EXCEPT !.escaping = FALSE], z, FALSE, r, s, FALSE) BY ONLY <2>3, RoundSet, Zenon
  <2> QED BY ONLY <2>2, <2>4, Zenon DEF z
<1>3. ASSUME Round(g, p, FALSE, r, s, FALSE)
      PROVE  \/ ch = "\\" /\ Round(h, q, TRUE, r, s, FALSE)
             \/ ch # "\\" /\ \E u, t : Round(h, q, FALSE, u, t, FALSE)
             \/ Round(h, p, FALSE, r, s, TRUE)
  <2> DEFINE write  == [g EXCEPT !.pattern = q]
             esc    == [write EXCEPT !.escaping = TRUE]
             regex  == [write EXCEPT !.regexed = TRUE]
             opened == [regex EXCEPT !.groupStartStack = Append(s, ch)]
             closed == [write EXCEPT !.groupStartStack = Front(s)]
             failed == [g EXCEPT !.err = TRUE]
             group  == Last(s)
             co     == [regex EXCEPT !.groupStartStack = Append(@, ch)]
             cc     == [write EXCEPT !.groupStartStack = Front(@)]
  <2>1. g.err = FALSE /\ g.escaping = FALSE /\ g.pattern = p /\ g.groupStartStack = s
    BY ONLY <1>3, RoundIs, Zenon
  <2>2. Round(write, q, FALSE, r, s, FALSE)
    <3> HIDE DEF q
    <3> QED BY ONLY <1>3, RoundSet, Zenon DEF write
  <2>3. write.groupStartStack = s BY ONLY <2>2, RoundIs, Zenon
  <2>4. write = [g EXCEPT !.pattern = @ \o Pieces(ch)] BY ONLY <2>1, Zenon
  <2> HIDE DEF write
  <2>5. Round(regex, q, FALSE, TRUE, s, FALSE) BY ONLY <2>2, RoundSet, Zenon
  <2>6. regex.groupStartStack = s BY ONLY <2>5, RoundIs, Zenon
  <2>7. h = CASE ch = "\\"                    -> esc
              [] ch \in {".", "?", "*", "|"} -> regex
              [] ch \in {"{", "["}           -> co
              [] ch = "}"                    -> IF group = "{" THEN cc ELSE failed
              [] ch = "]"                    -> IF group = "[" THEN cc ELSE failed
              [] ch = ","                    -> IF group = "{" THEN write ELSE failed
              [] ch \in EscapedRunes         -> write
              [] OTHER                       -> IF ch \in Plain THEN write ELSE failed
    BY ONLY <2>1, <2>4, Zenon DEF globStep
  <2>8. cc = closed BY ONLY <2>3, Zenon
  <2>9. co = opened BY ONLY <2>6, Zenon
  <2>10. Round(esc, q, TRUE, r, s, FALSE) BY ONLY <2>2, RoundSet, Zenon
  <2>11. Round(opened, q, FALSE, TRUE, Append(s, ch), FALSE)
    <3> HIDE DEF regex
    <3> QED BY ONLY <2>5, RoundSet, Zenon
  <2>12. Round(closed, q, FALSE, r, Front(s), FALSE) BY ONLY <2>2, RoundSet, Zenon
  <2>13. Round(failed, p, FALSE, r, s, TRUE) BY ONLY <1>3, RoundSet, Zenon
  <2> HIDE DEF h, q, regex, esc, opened, closed, failed, group, co, cc
  <2>14. \/ ch = "\\" /\ h = esc
         \/ ch # "\\" /\ (h = regex \/ h = co \/ h = cc \/ h = write)
         \/ h = failed
    <3>1. CASE ch = "\\"
      <4>1. h = esc BY ONLY <2>7, <3>1 DEF Plain, EscapedRunes
      <4> QED BY ONLY <3>1, <4>1, Zenon
    <3>2. CASE ch # "\\"
      <4>1. h = regex \/ h = co \/ h = cc \/ h = write \/ h = failed BY ONLY <2>7, <3>2 DEF Plain, EscapedRunes
      <4> QED BY ONLY <3>2, <4>1, Zenon
    <3> QED BY ONLY <3>1, <3>2, Zenon
  <2> QED BY ONLY <2>2, <2>5, <2>8, <2>9, <2>10, <2>11, <2>12, <2>13, <2>14, Zenon
<1> QED BY ONLY <1>1, <1>2, <1>3, Zenon

-----------------------------------------------------------------------------
(* Words of nodes.                                                         *)

\* Nodes are the lists of letters that are not too long.
LEMMA NodesAre ==
    ASSUME NEW s
    PROVE  s \in Nodes <=> s \in Seq(Letters) /\ Len(s) <= MaxNode
<1>0. MaxNode \in Nat BY LettersAssumption DEF LettersAssumption
<1>1. ASSUME s \in Nodes PROVE s \in Seq(Letters) /\ Len(s) <= MaxNode
  <2>1. PICK n \in 0..MaxNode : s \in [1..n -> Letters] BY <1>1 DEF Nodes
  <2>2. s \in Seq(Letters) /\ Len(s) = n BY <1>0, <2>1
  <2> QED BY <1>0, <2>2
<1>2. ASSUME s \in Seq(Letters), Len(s) <= MaxNode PROVE s \in Nodes
  <2>1. Len(s) \in 0..MaxNode /\ s \in [1..Len(s) -> Letters] BY <1>0, <1>2
  <2> QED BY <2>1 DEF Nodes
<1> QED BY <1>1, <1>2

\* The parts of a node are shorter and of letters, too.
LEMMA NodeParts ==
    ASSUME NEW v \in Seq(Letters), NEW w \in Seq(Letters), v \o w \in Nodes
    PROVE  v \in Nodes /\ w \in Nodes
<1>1. Len(v \o w) = Len(v) + Len(w) BY ConcatProperties
<1>2. Len(v \o w) <= MaxNode BY NodesAre
<1>3. Len(v) \in Nat /\ Len(w) \in Nat /\ MaxNode \in Nat
  BY LettersAssumption DEF LettersAssumption
<1>4. Len(v) <= MaxNode /\ Len(w) <= MaxNode BY ONLY <1>1, <1>2, <1>3, SMT
<1> QED BY <1>4, NodesAre

\* What is in Concat.
LEMMA ConcatIs ==
    ASSUME NEW V, NEW W, NEW x
    PROVE  x \in Concat(V, W) <=> x \in Nodes /\ \E v \in V, w \in W : x = v \o w
<1>1. x \in {v \o w : v \in V, w \in W} <=> \E v \in V, w \in W : x = v \o w OBVIOUS
<1> QED BY ONLY <1>1 DEF Concat

\* Words one after another are nodes again.
LEMMA ConcatType ==
    ASSUME NEW V, NEW W
    PROVE  Concat(V, W) \in SUBSET Nodes
BY DEF Concat

\* Concat puts together what is read in two parts.
LEMMA ConcatAssoc ==
    ASSUME NEW U \in SUBSET Nodes, NEW V \in SUBSET Nodes, NEW W \in SUBSET Nodes
    PROVE  Concat(Concat(U, V), W) = Concat(U, Concat(V, W))
<1>1. \A s \in Nodes : s \in Seq(Letters) BY NodesAre
<1>2. ASSUME NEW u \in U, NEW v \in V, NEW w \in W
      PROVE  (u \o v) \o w = u \o (v \o w) /\ u \o v \in Seq(Letters) /\ v \o w \in Seq(Letters)
  <2>1. u \in Seq(Letters) /\ v \in Seq(Letters) /\ w \in Seq(Letters) BY <1>1
  <2>2. (u \o v) \o w = u \o (v \o w) BY <2>1, ConcatThree, SMTT(20)
  <2>3. u \o v \in Seq(Letters) /\ v \o w \in Seq(Letters) BY <2>1, ConcatProperties
  <2> QED BY ONLY <2>2, <2>3, Zenon
<1>3. ASSUME NEW x, x \in Concat(Concat(U, V), W) PROVE x \in Concat(U, Concat(V, W))
  <2>1. x \in Nodes /\ \E y \in Concat(U, V), w \in W : x = y \o w
    <3> DEFINE Y == Concat(U, V)
    <3>1. x \in Concat(Y, W) BY ONLY <1>3
    <3> HIDE DEF Y
    <3>2. x \in Nodes /\ \E y \in Y, w \in W : x = y \o w BY ONLY <3>1, ConcatIs
    <3> QED BY ONLY <3>2, Zenon DEF Y
  <2>2. PICK y \in Concat(U, V), w \in W : x = y \o w BY ONLY <2>1, Zenon
  <2>3. \E u \in U, v \in V : y = u \o v BY ONLY y \in Concat(U, V), ConcatIs
  <2>4. PICK u \in U, v \in V : y = u \o v BY ONLY <2>3, Zenon
  <2>5. x = u \o (v \o w) /\ v \o w \in Seq(Letters)
    <3>1. (u \o v) \o w = u \o (v \o w) /\ v \o w \in Seq(Letters) BY <1>2
    <3> QED BY ONLY <2>2, <2>4, <3>1, Zenon
  <2>6. v \o w \in Nodes
    <3> DEFINE z == v \o w
    <3>1. u \in Seq(Letters) BY <1>1
    <3>2. z \in Seq(Letters) /\ u \o z \in Nodes BY ONLY <2>1, <2>5, Zenon
    <3> HIDE DEF z
    <3>3. z \in Nodes BY ONLY <3>1, <3>2, NodeParts, Zenon
    <3> QED BY ONLY <3>3, Zenon DEF z
  <2>7. v \o w \in Concat(V, W) BY ONLY v \in V, w \in W, <2>6, ConcatIs
  <2> QED BY ONLY <2>1, u \in U, <2>5, <2>7, ConcatIs
<1>4. ASSUME NEW x, x \in Concat(U, Concat(V, W)) PROVE x \in Concat(Concat(U, V), W)
  <2>1. x \in Nodes /\ \E u \in U, y \in Concat(V, W) : x = u \o y BY ONLY <1>4, ConcatIs
  <2>2. PICK u \in U, y \in Concat(V, W) : x = u \o y BY ONLY <2>1, Zenon
  <2>3. \E v \in V, w \in W : y = v \o w BY ONLY y \in Concat(V, W), ConcatIs
  <2>4. PICK v \in V, w \in W : y = v \o w BY ONLY <2>3, Zenon
  <2>5. x = (u \o v) \o w /\ u \o v \in Seq(Letters)
    <3>1. (u \o v) \o w = u \o (v \o w) /\ u \o v \in Seq(Letters) BY <1>2
    <3> QED BY ONLY <2>2, <2>4, <3>1, Zenon
  <2>6. u \o v \in Nodes
    <3> DEFINE z == u \o v
    <3>1. w \in Seq(Letters) BY <1>1
    <3>2. z \in Seq(Letters) /\ z \o w \in Nodes BY ONLY <2>1, <2>5, Zenon
    <3> HIDE DEF z
    <3>3. z \in Nodes BY ONLY <3>1, <3>2, NodeParts, Zenon
    <3> QED BY ONLY <3>3, Zenon DEF z
  <2>7. u \o v \in Concat(U, V) BY ONLY u \in U, v \in V, <2>6, ConcatIs
  <2> QED BY ONLY <2>1, w \in W, <2>5, <2>7, ConcatIs
<1>5. \A x : x \in Concat(Concat(U, V), W) <=> x \in Concat(U, Concat(V, W)) BY ONLY <1>3, <1>4, Zenon
<1> QED BY ONLY <1>5, Zenon

\* Nothing before or after.
LEMMA ConcatUnit ==
    ASSUME NEW W \in SUBSET Nodes
    PROVE  Concat({<<>>}, W) = W /\ Concat(W, {<<>>}) = W /\ <<>> \in Nodes
<1>1. ASSUME NEW w \in W PROVE <<>> \o w = w /\ w \o <<>> = w /\ w \in Nodes
  <2>1. w \in Seq(Letters) BY NodesAre
  <2> QED BY <2>1, ConcatEmptySeq
<1>2. Concat({<<>>}, W) = W
  <2>1. ASSUME NEW x, x \in Concat({<<>>}, W) PROVE x \in W
    <3>1. \E v \in {<<>>}, w \in W : x = v \o w
      <4> DEFINE E == {<<>>}
      <4> HIDE DEF E
      <4>1. x \in Concat(E, W) BY ONLY <2>1, Zenon DEF E
      <4>2. \E v \in E, w \in W : x = v \o w BY ONLY <4>1, ConcatIs
      <4> QED BY ONLY <4>2, Zenon DEF E
    <3> QED BY ONLY <1>1, <3>1, Zenon
  <2>2. ASSUME NEW x \in W PROVE x \in Concat({<<>>}, W)
    <3>1. <<>> \in {<<>>} /\ x = <<>> \o x /\ x \in Nodes BY ONLY <1>1, x \in W, Zenon
    <3> QED BY ONLY <3>1, x \in W, ConcatIs
  <2>3. \A x \in W : x \in Concat({<<>>}, W) BY ONLY <2>2, Zenon
  <2> QED BY ONLY <2>1, <2>3, Zenon
<1>3. Concat(W, {<<>>}) = W
  <2>1. ASSUME NEW x, x \in Concat(W, {<<>>}) PROVE x \in W
    <3>1. \E v \in W, w \in {<<>>} : x = v \o w
      <4> DEFINE E == {<<>>}
      <4> HIDE DEF E
      <4>1. x \in Concat(W, E) BY ONLY <2>1, Zenon DEF E
      <4>2. \E v \in W, w \in E : x = v \o w BY ONLY <4>1, ConcatIs
      <4> QED BY ONLY <4>2, Zenon DEF E
    <3> QED BY ONLY <1>1, <3>1, Zenon
  <2>2. ASSUME NEW x \in W PROVE x \in Concat(W, {<<>>})
    <3>1. <<>> \in {<<>>} /\ x = x \o <<>> /\ x \in Nodes BY ONLY <1>1, x \in W, Zenon
    <3> QED BY ONLY <3>1, x \in W, ConcatIs
  <2>3. \A x \in W : x \in Concat(W, {<<>>}) BY ONLY <2>2, Zenon
  <2> QED BY ONLY <2>1, <2>3, Zenon
<1>4. <<>> \in Nodes
  <2>1. <<>> \in Seq(Letters) /\ Len(<<>>) = 0 BY EmptySeq
  <2>2. 0 <= MaxNode BY LettersAssumption DEF LettersAssumption
  <2> QED BY <2>1, <2>2, NodesAre
<1> QED BY <1>2, <1>3, <1>4

\* A letter is a node.
LEMMA LetterNode ==
    ASSUME NEW ch \in Letters
    PROVE  <<ch>> \in Nodes
<1>1. <<ch>> \in Seq(Letters) /\ Len(<<ch>>) = 1 OBVIOUS
<1>2. 1 <= MaxNode BY LettersAssumption DEF LettersAssumption
<1> QED BY <1>1, <1>2, NodesAre

-----------------------------------------------------------------------------
(* Steps of the loop over a regular expression.                            *)

Frame == [alts : SUBSET Nodes, cur : SUBSET Nodes]

\* The loop is in the groups o, and in one with the alternatives A; it has read the
\* words C of another.
Reading(o, A, C) ==
    [open |-> Append(o, [alts |-> A, cur |-> C]), inclass |-> FALSE, class |-> <<>>]

\* The same, after the start s of a class.
InClass(o, A, C, s) ==
    [open |-> Append(o, [alts |-> A, cur |-> C]), inclass |-> TRUE, class |-> s]

\* The frame that was put on the stack is on top of it.
LEMMA FrameOnTop ==
    ASSUME NEW o \in Seq(Frame), NEW A \in SUBSET Nodes, NEW C \in SUBSET Nodes
    PROVE  LET t == Append(o, [alts |-> A, cur |-> C])
           IN  t \in Seq(Frame) /\ Front(t) = o /\ Last(t) = [alts |-> A, cur |-> C]
<1> DEFINE f == [alts |-> A, cur |-> C]
<1>1. f \in Frame BY DEF Frame
<1> HIDE DEF f
<1>2. Append(o, f) \in Seq(Frame) BY <1>1, AppendProperties
<1>3. Front(Append(o, f)) = o /\ Last(Append(o, f)) = f BY <1>1, FrontLastAppend
<1> QED BY ONLY <1>2, <1>3, Zenon DEF f

\* A piece that stands for words.
LEMMA ReadWords ==
    ASSUME NEW o \in Seq(Frame), NEW A \in SUBSET Nodes, NEW C \in SUBSET Nodes
    PROVE  /\ \A p \in Plain : regexStep(Reading(o, A, C), p) = Reading(o, A, Concat(C, {<<p>>}))
           /\ regexStep(Reading(o, A, C), "[^.]") = Reading(o, A, Concat(C, {<<ch>> : ch \in Letters}))
           /\ regexStep(Reading(o, A, C), "[^.]*") = Reading(o, A, Concat(C, Nodes))
<1> DEFINE f == [alts |-> A, cur |-> C]
           t == Append(o, f)
           m == [open |-> t, inclass |-> FALSE, class |-> <<>>]
<1>1. Front(t) = o /\ Last(t) = f BY FrameOnTop
<1>2. ASSUME NEW p \in Plain PROVE regexStep(Reading(o, A, C), p) = Reading(o, A, Concat(C, {<<p>>}))
  <2>1. p \notin {"[", "]", "(", "|", ")", "[^.]", "[^.]*"} BY DEF Plain
  <2> HIDE DEF t
  <2>2. regexStep(m, p) = [open |-> Append(Front(t), [Last(t) EXCEPT !.cur = Concat(@, {<<p>>})]),
                           inclass |-> FALSE, class |-> <<>>]
    BY <2>1 DEF regexStep
  <2>3. [f EXCEPT !.cur = Concat(@, {<<p>>})] = [alts |-> A, cur |-> Concat(C, {<<p>>})] OBVIOUS
  <2>4. m = Reading(o, A, C) BY Zenon DEF Reading, t
  <2> QED BY ONLY <1>1, <2>2, <2>3, <2>4, Zenon DEF Reading
<1>3. regexStep(Reading(o, A, C), "[^.]") = Reading(o, A, Concat(C, {<<ch>> : ch \in Letters}))
  <2> DEFINE W == {<<ch>> : ch \in Letters}
  <2> HIDE DEF t
  <2>2. regexStep(m, "[^.]") = [open |-> Append(Front(t), [Last(t) EXCEPT !.cur = Concat(@, W)]),
                           inclass |-> FALSE, class |-> <<>>]
    BY DEF regexStep
  <2>4. m = Reading(o, A, C) BY Zenon DEF Reading, t
  <2> HIDE DEF W
  <2>3. [f EXCEPT !.cur = Concat(@, W)] = [alts |-> A, cur |-> Concat(C, W)] OBVIOUS
  <2>5. regexStep(Reading(o, A, C), "[^.]") = Reading(o, A, Concat(C, W))
    BY ONLY <1>1, <2>2, <2>3, <2>4, Zenon DEF Reading
  <2> QED BY ONLY <2>5, Zenon DEF W
<1>4. regexStep(Reading(o, A, C), "[^.]*") = Reading(o, A, Concat(C, Nodes))
  <2> HIDE DEF t
  <2>2. regexStep(m, "[^.]*") = [open |-> Append(Front(t), [Last(t) EXCEPT !.cur = Concat(@, Nodes)]),
                           inclass |-> FALSE, class |-> <<>>]
    BY DEF regexStep
  <2>3. [f EXCEPT !.cur = Concat(@, Nodes)] = [alts |-> A, cur |-> Concat(C, Nodes)] OBVIOUS
  <2>4. m = Reading(o, A, C) BY Zenon DEF Reading, t
  <2> QED BY ONLY <1>1, <2>2, <2>3, <2>4, Zenon DEF Reading
<1> QED BY ONLY <1>2, <1>3, <1>4, Zenon

\* A group begins, and its next alternative.
LEMMA ReadGroup ==
    ASSUME NEW o \in Seq(Frame), NEW A \in SUBSET Nodes, NEW C \in SUBSET Nodes
    PROVE  /\ regexStep(Reading(o, A, C), "(")
                = Reading(Append(o, [alts |-> A, cur |-> C]), {}, {<<>>})
           /\ regexStep(Reading(o, A, C), "|") = Reading(o, A \cup C, {<<>>})
<1> DEFINE f == [alts |-> A, cur |-> C]
           t == Append(o, f)
           m == [open |-> t, inclass |-> FALSE, class |-> <<>>]
<1>1. t \in Seq(Frame) /\ Front(t) = o /\ Last(t) = f BY FrameOnTop
<1>2. m = Reading(o, A, C) BY Zenon DEF Reading
<1>3. regexStep(m, "(") = [open |-> Append(t, [alts |-> {}, cur |-> {<<>>}]),
                           inclass |-> FALSE, class |-> <<>>]
  <2> HIDE DEF t
  <2> QED BY DEF regexStep
<1>4. regexStep(m, "|") = [open |-> Append(Front(t), [alts |-> Last(t).alts \cup Last(t).cur, cur |-> {<<>>}]),
                           inclass |-> FALSE, class |-> <<>>]
  <2> HIDE DEF t
  <2> QED BY DEF regexStep
<1>5. f.alts = A /\ f.cur = C OBVIOUS
<1>6. regexStep(Reading(o, A, C), "(") = Reading(t, {}, {<<>>})
  <2> HIDE DEF m, t, f
  <2> QED BY ONLY <1>2, <1>3, Zenon DEF Reading, m
<1>7. regexStep(Reading(o, A, C), "|") = Reading(o, A \cup C, {<<>>})
  <2> HIDE DEF t, f
  <2> QED BY ONLY <1>1, <1>2, <1>4, <1>5, Zenon DEF Reading
<1> QED BY ONLY <1>6, <1>7, Zenon

\* A group ends.
LEMMA ReadEnd ==
    ASSUME NEW o \in Seq(Frame), NEW A \in SUBSET Nodes, NEW C \in SUBSET Nodes,
           NEW B \in SUBSET Nodes, NEW D \in SUBSET Nodes
    PROVE  regexStep(Reading(Append(o, [alts |-> A, cur |-> C]), B, D), ")")
             = Reading(o, A, Concat(C, B \cup D))
<1> DEFINE f == [alts |-> A, cur |-> C]
           t == Append(o, f)
<1>1. t \in Seq(Frame) /\ Front(t) = o /\ Last(t) = f BY FrameOnTop
<1> DEFINE g == [alts |-> B, cur |-> D]
           u == Append(t, g)
           k == [open |-> u, inclass |-> FALSE, class |-> <<>>]
<1> HIDE DEF t
<1>2. Front(u) = t /\ Last(u) = g BY <1>1, FrameOnTop
<1>3. k = Reading(t, B, D) BY Zenon DEF Reading
<1> HIDE DEF u
<1>4. regexStep(k, ")")
        = [open |-> Append(Front(Front(u)), [Last(Front(u)) EXCEPT
                              !.cur = Concat(@, Last(u).alts \cup Last(u).cur)]),
           inclass |-> FALSE, class |-> <<>>]
  BY DEF regexStep
<1>5. g.alts = B /\ g.cur = D OBVIOUS
<1>6. [f EXCEPT !.cur = Concat(@, B \cup D)] = [alts |-> A, cur |-> Concat(C, B \cup D)] OBVIOUS
<1> HIDE DEF g, f
<1>7. regexStep(k, ")") = [open |-> Append(o, [f EXCEPT !.cur = Concat(@, B \cup D)]),
                           inclass |-> FALSE, class |-> <<>>]
  BY ONLY <1>1, <1>2, <1>4, <1>5, Zenon
<1>8. regexStep(Reading(t, B, D), ")") = Reading(o, A, Concat(C, B \cup D))
  BY ONLY <1>3, <1>6, <1>7, Zenon DEF Reading
<1> QED BY ONLY <1>8, Zenon DEF t, f

\* A class: its start, its characters and its end.
LEMMA ReadClass ==
    ASSUME NEW o \in Seq(Frame), NEW A \in SUBSET Nodes, NEW C \in SUBSET Nodes
    PROVE  /\ regexStep(Reading(o, A, C), "[") = InClass(o, A, C, <<>>)
           /\ \A s : \A p \in Plain :
                regexStep(InClass(o, A, C, s), p) = InClass(o, A, C, Append(s, p))
           /\ \A s : regexStep(InClass(o, A, C, s), "]")
                = Reading(o, A, Concat(C, {<<ch>> : ch \in Chars(s)}))
<1> DEFINE f == [alts |-> A, cur |-> C]
           t == Append(o, f)
<1>1. Front(t) = o /\ Last(t) = f BY FrameOnTop
<1>2. regexStep(Reading(o, A, C), "[") = InClass(o, A, C, <<>>)
  <2> HIDE DEF t, f
  <2>1. regexStep([open |-> t, inclass |-> FALSE, class |-> <<>>], "[")
           = [open |-> t, inclass |-> TRUE, class |-> <<>>]
    BY DEF regexStep
  <2> QED BY ONLY <2>1, Zenon DEF Reading, InClass, t, f
<1>3. ASSUME NEW s, NEW p \in Plain
      PROVE  regexStep(InClass(o, A, C, s), p) = InClass(o, A, C, Append(s, p))
  <2> HIDE DEF t, f
  <2>1. p \notin {"[", "]", "(", "|", ")", "[^.]", "[^.]*"} BY DEF Plain
  <2>2. regexStep([open |-> t, inclass |-> TRUE, class |-> s], p)
           = [open |-> t, inclass |-> TRUE, class |-> Append(s, p)]
    BY <2>1 DEF regexStep
  <2> QED BY ONLY <2>2, Zenon DEF InClass, t, f
<1>4. ASSUME NEW s
      PROVE  regexStep(InClass(o, A, C, s), "]")
                = Reading(o, A, Concat(C, {<<ch>> : ch \in Chars(s)}))
  <2> DEFINE W == {<<ch>> : ch \in Chars(s)}
             m == [open |-> t, inclass |-> TRUE, class |-> s]
  <2>1. m = InClass(o, A, C, s) BY Zenon DEF InClass
  <2> HIDE DEF t, f
  <2>2. regexStep(m, "]") = [open |-> Append(Front(t), [Last(t) EXCEPT !.cur = Concat(@, W)]),
                             inclass |-> FALSE, class |-> <<>>]
    BY DEF regexStep
  <2> HIDE DEF W
  <2>3. [f EXCEPT !.cur = Concat(@, W)] = [alts |-> A, cur |-> Concat(C, W)] BY DEF f
  <2>4. regexStep(m, "]") = Reading(o, A, Concat(C, W))
    BY ONLY <1>1, <2>2, <2>3, Zenon DEF Reading
  <2> QED BY ONLY <2>1, <2>4, Zenon DEF W
<1> QED BY ONLY <1>2, <1>3, <1>4, Zenon

-----------------------------------------------------------------------------
(* What a text adds to a pattern, and a pattern to the words.              *)

\* A text or pattern of one character.
LEMMA LoopOne ==
    ASSUME NEW ch \in Sign
    PROVE  /\ \A g : globLoop(g, <<ch>>) = globStep(g, ch)
           /\ \A m : regexLoop(m, <<ch>>) = regexStep(m, ch)
           /\ <<ch>> \in Seq(Sign)
<1>1. <<>> \in Seq(Sign) BY EmptySeq
<1>2. Append(<<>>, ch) = <<ch>> OBVIOUS
<1>3. ASSUME NEW g PROVE globLoop(g, Append(<<>>, ch)) = globStep(globLoop(g, <<>>), ch)
  <2> DEFINE e == <<>>
  <2>1. e \in Seq(Sign) BY <1>1
  <2> HIDE DEF e
  <2>2. globLoop(g, Append(e, ch)) = globStep(globLoop(g, e), ch) BY <2>1, GlobLoopAppend
  <2> QED BY ONLY <2>2, Zenon DEF e
<1>4. ASSUME NEW m PROVE regexLoop(m, Append(<<>>, ch)) = regexStep(regexLoop(m, <<>>), ch)
  <2> DEFINE e == <<>>
  <2>1. e \in Seq(Sign) BY <1>1
  <2> HIDE DEF e
  <2>2. regexLoop(m, Append(e, ch)) = regexStep(regexLoop(m, e), ch) BY <2>1, RegexLoopAppend
  <2> QED BY ONLY <2>2, Zenon DEF e
<1>5. ASSUME NEW g PROVE globLoop(g, <<>>) = g BY GlobLoopEmpty
<1>6. ASSUME NEW m PROVE regexLoop(m, <<>>) = m BY RegexLoopEmpty
<1>7. <<ch>> \in Seq(Sign) OBVIOUS
<1> QED BY ONLY <1>2, <1>3, <1>4, <1>5, <1>6, <1>7, Zenon

\* Whether the pattern is a regular expression, after a text with the operator R, and
\* the operator of two texts.
Also(R, r) == IF R = "=~" THEN TRUE ELSE r
Both(R, S) == IF R = "=~" THEN R ELSE S
Ops == {"=", "=~"}

\* The text t adds P to a pattern, and P the words W.
Writes(t, P, R) ==
    \A p, s \in Seq(Sign) : \A r : globLoop(GlobState(p, r, s), t) = GlobState(p \o P, Also(R, r), s)
Reads(P, W) ==
    \A o \in Seq(Frame) : \A A, C \in SUBSET Nodes :
        regexLoop(Reading(o, A, C), P) = Reading(o, A, Concat(C, W))

\* The text t opens a group and adds P to a pattern; P reads, in the group, the
\* alternatives B and the words D of one more.
Opens(t, P) ==
    \A p, s \in Seq(Sign) : \A r :
        globLoop(GlobState(p, r, s), t) = GlobState(p \o P, TRUE, Append(s, "{"))
Enters(P, B, D) ==
    \A o \in Seq(Frame) : \A A, C \in SUBSET Nodes :
        regexLoop(Reading(o, A, C), P) = Reading(Append(o, [alts |-> A, cur |-> C]), B, D)

\* One text after another ...
LEMMA WritesThen ==
    ASSUME NEW t \in Seq(Sign), NEW P \in Seq(Sign), NEW R \in Ops, Writes(t, P, R),
           NEW u \in Seq(Sign), NEW Q \in Seq(Sign), NEW S \in Ops, Writes(u, Q, S)
    PROVE  Writes(t \o u, P \o Q, Both(R, S))
<1> SUFFICES ASSUME NEW p \in Seq(Sign), NEW s \in Seq(Sign), NEW r
             PROVE  globLoop(GlobState(p, r, s), t \o u)
                      = GlobState(p \o (P \o Q), Also(Both(R, S), r), s)
  BY Zenon DEF Writes
<1>1. globLoop(GlobState(p, r, s), t \o u) = globLoop(globLoop(GlobState(p, r, s), t), u)
  <2> DEFINE g == GlobState(p, r, s)
  <2> HIDE DEF g
  <2>1. globLoop(g, t \o u) = globLoop(globLoop(g, t), u) BY GlobLoopConcat
  <2> QED BY ONLY <2>1, Zenon DEF g
<1>2. globLoop(GlobState(p, r, s), t) = GlobState(p \o P, Also(R, r), s) BY Zenon DEF Writes
<1>3. p \o P \in Seq(Sign) BY ConcatProperties
<1>4. globLoop(GlobState(p \o P, Also(R, r), s), u) = GlobState((p \o P) \o Q, Also(S, Also(R, r)), s)
  BY <1>3, Zenon DEF Writes
<1>5. (p \o P) \o Q = p \o (P \o Q) BY ONLY p \in Seq(Sign), P \in Seq(Sign), Q \in Seq(Sign), ConcatThree, SMTT(20)
<1>6. Also(S, Also(R, r)) = Also(Both(R, S), r) BY DEF Also, Both, Ops
<1> QED BY ONLY <1>1, <1>2, <1>4, <1>5, <1>6, Zenon

\* The same for what is read: two patterns read in a row.
LEMMA ReadsThen ==
    ASSUME NEW P \in Seq(Sign), NEW V \in SUBSET Nodes, Reads(P, V),
           NEW Q \in Seq(Sign), NEW W \in SUBSET Nodes, Reads(Q, W)
    PROVE  Reads(P \o Q, Concat(V, W))
<1> SUFFICES ASSUME NEW o \in Seq(Frame), NEW A \in SUBSET Nodes, NEW C \in SUBSET Nodes
             PROVE  regexLoop(Reading(o, A, C), P \o Q) = Reading(o, A, Concat(C, Concat(V, W)))
  BY Zenon DEF Reads
<1>1. regexLoop(Reading(o, A, C), P \o Q) = regexLoop(regexLoop(Reading(o, A, C), P), Q)
  <2> DEFINE m == Reading(o, A, C)
  <2> HIDE DEF m
  <2>1. regexLoop(m, P \o Q) = regexLoop(regexLoop(m, P), Q) BY RegexLoopConcat
  <2> QED BY ONLY <2>1, Zenon DEF m
<1>2. regexLoop(Reading(o, A, C), P) = Reading(o, A, Concat(C, V)) BY Zenon DEF Reads
<1>3. Concat(C, V) \in SUBSET Nodes BY ConcatType
<1>4. regexLoop(Reading(o, A, Concat(C, V)), Q) = Reading(o, A, Concat(Concat(C, V), W))
  BY <1>3, Zenon DEF Reads
<1>5. Concat(Concat(C, V), W) = Concat(C, Concat(V, W)) BY ConcatAssoc
<1> QED BY ONLY <1>1, <1>2, <1>4, <1>5, Zenon

\* ... and in a group.
LEMMA OpensThen ==
    ASSUME NEW t \in Seq(Sign), NEW P \in Seq(Sign), Opens(t, P),
           NEW u \in Seq(Sign), NEW Q \in Seq(Sign), NEW S \in Ops, Writes(u, Q, S)
    PROVE  Opens(t \o u, P \o Q)
<1> SUFFICES ASSUME NEW p \in Seq(Sign), NEW s \in Seq(Sign), NEW r
             PROVE  globLoop(GlobState(p, r, s), t \o u)
                      = GlobState(p \o (P \o Q), TRUE, Append(s, "{"))
  BY Zenon DEF Opens
<1>1. globLoop(GlobState(p, r, s), t \o u) = globLoop(globLoop(GlobState(p, r, s), t), u)
  <2> DEFINE g == GlobState(p, r, s)
  <2> HIDE DEF g
  <2>1. globLoop(g, t \o u) = globLoop(globLoop(g, t), u) BY GlobLoopConcat
  <2> QED BY ONLY <2>1, Zenon DEF g
<1>2. globLoop(GlobState(p, r, s), t) = GlobState(p \o P, TRUE, Append(s, "{")) BY Zenon DEF Opens
<1>3. p \o P \in Seq(Sign) BY ConcatProperties
<1>4. Append(s, "{") \in Seq(Sign)
  <2>1. "{" \in Sign BY DEF Sign
  <2> QED BY <2>1, AppendProperties
<1>5. globLoop(GlobState(p \o P, TRUE, Append(s, "{")), u)
        = GlobState((p \o P) \o Q, Also(S, TRUE), Append(s, "{"))
  BY <1>3, <1>4, Zenon DEF Writes
<1>6. (p \o P) \o Q = p \o (P \o Q) BY ONLY p \in Seq(Sign), P \in Seq(Sign), Q \in Seq(Sign), ConcatThree, SMTT(20)
<1>7. Also(S, TRUE) = TRUE BY Zenon DEF Also
<1> QED BY ONLY <1>1, <1>2, <1>5, <1>6, <1>7, Zenon

\* A pattern after one that opens a group is read inside the group.
LEMMA EntersThen ==
    ASSUME NEW P \in Seq(Sign), NEW B \in SUBSET Nodes, NEW D \in SUBSET Nodes, Enters(P, B, D),
           NEW Q \in Seq(Sign), NEW W \in SUBSET Nodes, Reads(Q, W)
    PROVE  Enters(P \o Q, B, Concat(D, W))
<1> SUFFICES ASSUME NEW o \in Seq(Frame), NEW A \in SUBSET Nodes, NEW C \in SUBSET Nodes
             PROVE  regexLoop(Reading(o, A, C), P \o Q)
                      = Reading(Append(o, [alts |-> A, cur |-> C]), B, Concat(D, W))
  BY Zenon DEF Enters
<1>1. regexLoop(Reading(o, A, C), P \o Q) = regexLoop(regexLoop(Reading(o, A, C), P), Q)
  <2> DEFINE m == Reading(o, A, C)
  <2> HIDE DEF m
  <2>1. regexLoop(m, P \o Q) = regexLoop(regexLoop(m, P), Q) BY RegexLoopConcat
  <2> QED BY ONLY <2>1, Zenon DEF m
<1> DEFINE t == Append(o, [alts |-> A, cur |-> C])
<1>2. regexLoop(Reading(o, A, C), P) = Reading(t, B, D) BY Zenon DEF Enters
<1>3. t \in Seq(Frame) BY FrameOnTop
<1> HIDE DEF t
<1>4. regexLoop(Reading(t, B, D), Q) = Reading(t, B, Concat(D, W)) BY <1>3, Zenon DEF Reads
<1> QED BY ONLY <1>1, <1>2, <1>4, Zenon DEF t

-----------------------------------------------------------------------------
(* What globs mean.                                                        *)

\* The text of g becomes a pattern that matches the words of g: a regular expression,
\* or a word.
Means(g) ==
    /\ g.text \in Seq(Sign) /\ g.words \in SUBSET Nodes
    /\ \E P \in Seq(Sign), R \in Ops :
        /\ Writes(g.text, P, R) /\ Reads(P, g.words)
        /\ R = "=" => P \in Seq(Letters) /\ g.words = {P} \cap Nodes

\* The text of g, up to its end, is a group that one more alternative may be added to.
Extends(g) ==
    \E t, P \in Seq(Sign), B, D \in SUBSET Nodes :
        /\ g.text = t \o <<"}">>
        /\ Opens(t, P) /\ Enters(P, B, D) /\ g.words = B \cup D

\* Letters that are written as they are, are letters and characters of globs.
LEMMA SignsOf ==
    /\ Verbatim \subseteq Letters /\ Verbatim \subseteq Plain /\ Plain \subseteq Sign
    /\ Seq(Verbatim) \subseteq Seq(Letters) /\ Seq(Verbatim) \subseteq Seq(Sign)
<1>1. Verbatim \subseteq Letters /\ Verbatim \subseteq Plain BY DEF Verbatim
<1>2. Plain \subseteq Sign BY DEF Sign
<1>3. ASSUME NEW s \in Seq(Verbatim) PROVE s \in Seq(Letters) /\ s \in Seq(Sign)
  <2>1. Len(s) \in Nat /\ s \in [1..Len(s) -> Sign] /\ s \in [1..Len(s) -> Letters] BY <1>1, <1>2
  <2> QED BY ONLY <2>1
<1> QED BY ONLY <1>1, <1>2, <1>3, Zenon

\* Two words.
LEMMA ConcatWords ==
    ASSUME NEW v \in Seq(Letters), NEW w \in Seq(Letters)
    PROVE  Concat({v} \cap Nodes, {w} \cap Nodes) = {v \o w} \cap Nodes
<1> DEFINE V == {v} \cap Nodes
           W == {w} \cap Nodes
<1>1. \A y : y \in V <=> y = v /\ v \in Nodes BY Zenon
<1>2. \A y : y \in W <=> y = w /\ w \in Nodes BY Zenon
<1> HIDE DEF V, W
<1>3. ASSUME NEW y, y \in Concat(V, W) PROVE y = v \o w /\ y \in Nodes
  <2>1. y \in Nodes /\ \E a \in V, b \in W : y = a \o b BY ONLY <1>3, ConcatIs
  <2> QED BY ONLY <1>1, <1>2, <2>1, Zenon
<1>4. ASSUME v \o w \in Nodes PROVE v \o w \in Concat(V, W)
  <2>1. v \in Nodes /\ w \in Nodes BY <1>4, NodeParts
  <2>2. v \in V /\ w \in W BY ONLY <1>1, <1>2, <2>1, Zenon
  <2> QED BY ONLY <1>4, <2>2, ConcatIs
<1>5. \A y : y \in Concat(V, W) <=> y \in {v \o w} \cap Nodes BY ONLY <1>3, <1>4, Zenon
<1> QED BY ONLY <1>5, Zenon DEF V, W

\* Characters that mean themselves (by induction on their number).
LEMMA MeansLetters ==
    ASSUME NEW w \in Seq(Verbatim)
    PROVE  Writes(w, w, "=") /\ Reads(w, {w} \cap Nodes)
<1> DEFINE P(u) == Writes(u, u, "=") /\ Reads(u, {u} \cap Nodes)
           N == {k \in Nat : \A u \in Seq(Verbatim) : Len(u) = k => P(u)}
<1>1. P(<<>>)
  <2>1. Writes(<<>>, <<>>, "=")
    <3>1. ASSUME NEW p \in Seq(Sign), NEW s \in Seq(Sign), NEW r
          PROVE  globLoop(GlobState(p, r, s), <<>>) = GlobState(p \o <<>>, Also("=", r), s)
      <4>1. globLoop(GlobState(p, r, s), <<>>) = GlobState(p, r, s)
        <5> DEFINE g == GlobState(p, r, s)
        <5> HIDE DEF g
        <5>1. globLoop(g, <<>>) = g BY GlobLoopEmpty
        <5> QED BY ONLY <5>1, Zenon DEF g
      <4>2. p \o <<>> = p BY ConcatEmptySeq
      <4>3. Also("=", r) = r BY DEF Also
      <4> QED BY ONLY <4>1, <4>2, <4>3, Zenon
    <3> QED BY ONLY <3>1, Zenon DEF Writes
  <2>2. Reads(<<>>, {<<>>} \cap Nodes)
    <3>1. ASSUME NEW o \in Seq(Frame), NEW A \in SUBSET Nodes, NEW C \in SUBSET Nodes
          PROVE  regexLoop(Reading(o, A, C), <<>>) = Reading(o, A, Concat(C, {<<>>} \cap Nodes))
      <4>1. regexLoop(Reading(o, A, C), <<>>) = Reading(o, A, C)
        <5> DEFINE m == Reading(o, A, C)
        <5> HIDE DEF m
        <5>1. regexLoop(m, <<>>) = m BY RegexLoopEmpty
        <5> QED BY ONLY <5>1, Zenon DEF m
      <4>2. Concat(C, {<<>>}) = C /\ <<>> \in Nodes BY ConcatUnit
      <4>3. {<<>>} \cap Nodes = {<<>>} BY ONLY <4>2, Zenon
      <4> QED BY ONLY <4>1, <4>2, <4>3, Zenon
    <3> QED BY ONLY <3>1, Zenon DEF Reads
  <2> QED BY ONLY <2>1, <2>2, Zenon
<1>2. ASSUME NEW ch \in Verbatim PROVE P(<<ch>>) /\ <<ch>> \in Seq(Verbatim)
  <2>0. ch \in Plain /\ ch \in Sign /\ ch \in Letters BY SignsOf
  <2>1. Writes(<<ch>>, <<ch>>, "=")
    <3>1. ASSUME NEW p \in Seq(Sign), NEW s \in Seq(Sign), NEW r
          PROVE  globLoop(GlobState(p, r, s), <<ch>>) = GlobState(p \o <<ch>>, Also("=", r), s)
      <4>1. globLoop(GlobState(p, r, s), <<ch>>) = globStep(GlobState(p, r, s), ch)
        BY ONLY <2>0, LoopOne, Zenon
      <4>2. globStep(GlobState(p, r, s), ch) = GlobState(p \o <<ch>>, r, s) BY ONLY <2>0, StepPlain, Zenon
      <4>3. Also("=", r) = r BY DEF Also
      <4> QED BY ONLY <4>1, <4>2, <4>3, Zenon
    <3> QED BY ONLY <3>1, Zenon DEF Writes
  <2>2. Reads(<<ch>>, {<<ch>>} \cap Nodes)
    <3>1. <<ch>> \in Nodes BY <2>0, LetterNode
    <3>2. {<<ch>>} \cap Nodes = {<<ch>>} BY ONLY <3>1, Zenon
    <3>3. ASSUME NEW o \in Seq(Frame), NEW A \in SUBSET Nodes, NEW C \in SUBSET Nodes
          PROVE  regexLoop(Reading(o, A, C), <<ch>>) = Reading(o, A, Concat(C, {<<ch>>}))
      <4>1. regexLoop(Reading(o, A, C), <<ch>>) = regexStep(Reading(o, A, C), ch)
        BY ONLY <2>0, LoopOne, Zenon
      <4>2. regexStep(Reading(o, A, C), ch) = Reading(o, A, Concat(C, {<<ch>>})) BY <2>0, ReadWords, Zenon
      <4> QED BY ONLY <4>1, <4>2, Zenon
    <3>4. Reads(<<ch>>, {<<ch>>}) BY ONLY <3>3, Zenon DEF Reads
    <3> QED BY ONLY <3>2, <3>4, Zenon
  <2>3. <<ch>> \in Seq(Verbatim) OBVIOUS
  <2> QED BY ONLY <2>1, <2>2, <2>3, Zenon
<1>3. ASSUME NEW u \in Seq(Verbatim), P(u), NEW v \in Seq(Verbatim), P(v) PROVE P(u \o v)
  <2>1. u \in Seq(Sign) /\ v \in Seq(Sign) BY SignsOf
  <2>2. "=" \in Ops BY DEF Ops
  <2>3. Writes(u \o v, u \o v, Both("=", "=")) BY ONLY <1>3, <2>1, <2>2, WritesThen, Zenon
  <2>4. Both("=", "=") = "=" BY DEF Both
  <2>5. Reads(u \o v, Concat({u} \cap Nodes, {v} \cap Nodes))
    <3> DEFINE U == {u} \cap Nodes
               V == {v} \cap Nodes
    <3>1. U \in SUBSET Nodes /\ V \in SUBSET Nodes OBVIOUS
    <3>2. Reads(u, U) /\ Reads(v, V) BY ONLY <1>3, Zenon
    <3> HIDE DEF U, V
    <3>3. Reads(u \o v, Concat(U, V)) BY ONLY <2>1, <3>1, <3>2, ReadsThen, Zenon
    <3> QED BY ONLY <3>3, Zenon DEF U, V
  <2>6. Concat({u} \cap Nodes, {v} \cap Nodes) = {u \o v} \cap Nodes BY SignsOf, ConcatWords
  <2>7. Reads(u \o v, {u \o v} \cap Nodes) BY ONLY <2>5, <2>6, Zenon
  <2> QED BY ONLY <2>3, <2>4, <2>7, Zenon
<1> HIDE DEF P
<1>4. 0 \in N
  <2>1. \A u \in Seq(Verbatim) : Len(u) = 0 => u = <<>> BY EmptySeq
  <2> QED BY <1>1, <2>1
<1>5. ASSUME NEW k \in Nat, k \in N PROVE k + 1 \in N
  <2>1. ASSUME NEW u \in Seq(Verbatim), Len(u) = k + 1 PROVE P(u)
    <3>1. u # <<>> BY <2>1
    <3>2. PICK v \in Seq(Verbatim), ch \in Verbatim : u = Append(v, ch) BY <3>1, SequenceEmptyOrAppend
    <3>3. Len(v) = k
      <4>1. Len(u) = Len(v) + 1 /\ Len(v) \in Nat BY <3>2, AppendProperties
      <4> QED BY <2>1, <4>1
    <3>4. P(v) BY <1>5, <3>3
    <3>5. P(<<ch>>) /\ <<ch>> \in Seq(Verbatim) BY ONLY ch \in Verbatim, <1>2, Zenon
    <3>6. u = v \o <<ch>> BY <3>2, AppendIsConcat
    <3>7. P(v \o <<ch>>)
      <4> DEFINE c == <<ch>>
      <4> HIDE DEF c
      <4>1. c \in Seq(Verbatim) /\ P(c) BY ONLY <3>5, Zenon DEF c
      <4>2. P(v \o c) BY ONLY <1>3, v \in Seq(Verbatim), <3>4, <4>1, Zenon
      <4> QED BY ONLY <4>2, Zenon DEF c
    <3> QED BY ONLY <3>6, <3>7, Zenon
  <2> QED BY <2>1
<1> HIDE DEF N
<1>6. \A k \in Nat : k \in N BY <1>4, <1>5, SetInduction
<1>7. Len(w) \in Nat BY LenProperties
<1>8. P(w) BY <1>6, <1>7 DEF N
<1> QED BY ONLY <1>8, Zenon DEF P

\* What a glob is known by: the pattern of its text.
LEMMA MeansBy ==
    ASSUME NEW g, NEW P \in Seq(Sign), NEW R \in Ops,
           g.text \in Seq(Sign), g.words \in SUBSET Nodes,
           Writes(g.text, P, R), Reads(P, g.words),
           R = "=" => P \in Seq(Letters) /\ g.words = {P} \cap Nodes
    PROVE  Means(g)
BY Zenon DEF Means

\* A word without an operator means itself.
LEMMA MeansWord ==
    ASSUME NEW w \in Nodes, ToSet(w) \subseteq Plain
    PROVE  Means(Word(w))
<1> DEFINE g == Word(w)
<1>1. g.text = w /\ g.words = {w} BY DEF Word
<1>0. w \in Seq(Verbatim)
  <2>1. w \in Seq(Letters) BY NodesAre
  <2>2. Len(w) \in Nat /\ DOMAIN w = 1..Len(w) /\ w = [i \in 1..Len(w) |-> w[i]] BY <2>1
  <2>3. ASSUME NEW i \in 1..Len(w) PROVE w[i] \in Verbatim
    <3>1. w[i] \in Letters BY <2>1
    <3>2. w[i] \in ToSet(w) BY <2>2 DEF ToSet
    <3> QED BY <3>1, <3>2 DEF Verbatim
  <2> QED BY <2>2, <2>3
<1>2. w \in Seq(Letters) /\ w \in Seq(Sign) BY <1>0, SignsOf
<1>3. {w} \cap Nodes = {w} BY Zenon
<1>4. Writes(w, w, "=") /\ Reads(w, {w}) BY <1>0, <1>3, MeansLetters
<1>5. "=" \in Ops BY DEF Ops
<1>6. {w} \in SUBSET Nodes BY Zenon
<1> HIDE DEF g
<1>7. Means(g)
  <2>1. Writes(g.text, w, "=") /\ Reads(w, g.words) /\ g.text \in Seq(Sign) /\ g.words \in SUBSET Nodes
    BY ONLY <1>1, <1>2, <1>4, <1>6, Zenon
  <2>2. g.words = {w} \cap Nodes BY ONLY <1>1, <1>3, Zenon
  <2> QED BY ONLY <1>2, <1>5, <2>1, <2>2, MeansBy, Zenon
<1> QED BY ONLY <1>7, Zenon DEF g

\* A character that stands for a set of words.
LEMMA MeansSign ==
    ASSUME NEW ch \in Sign, NEW q \in Sign, NEW W \in SUBSET Nodes, NEW g,
           g.text = <<ch>>, g.words = W,
           \A p, s \in Seq(Sign) : \A r : globStep(GlobState(p, r, s), ch) = GlobState(p \o <<q>>, TRUE, s),
           \A o \in Seq(Frame) : \A A, C \in SUBSET Nodes :
               regexStep(Reading(o, A, C), q) = Reading(o, A, Concat(C, W))
    PROVE  Means(g) /\ Writes(<<ch>>, <<q>>, "=~") /\ Reads(<<q>>, W)
<1>1. <<ch>> \in Seq(Sign) /\ <<q>> \in Seq(Sign) BY ONLY ch \in Sign, q \in Sign, LoopOne, Zenon
<1>2. \A x : globLoop(x, <<ch>>) = globStep(x, ch) BY ONLY ch \in Sign, LoopOne, Zenon
<1>3. \A x : regexLoop(x, <<q>>) = regexStep(x, q) BY ONLY q \in Sign, LoopOne, Zenon
<1>4. \A r : Also("=~", r) = TRUE BY Zenon DEF Also
<1>5. Writes(<<ch>>, <<q>>, "=~") BY <1>2, <1>4, Zenon DEF Writes
<1>6. Reads(<<q>>, W) BY <1>3, Zenon DEF Reads
<1>7. "=~" \in Ops /\ "=~" # "=" BY DEF Ops
<1>8. Means(g)
  <2>1. Writes(g.text, <<q>>, "=~") /\ Reads(<<q>>, g.words) /\ g.text \in Seq(Sign) /\ g.words \in SUBSET Nodes
    BY <1>1, <1>5, <1>6, Zenon
  <2> DEFINE P == <<q>>
  <2> HIDE DEF P
  <2>2. Writes(g.text, P, "=~") /\ Reads(P, g.words) /\ P \in Seq(Sign) BY ONLY <1>1, <2>1, Zenon DEF P
  <2> QED BY ONLY <1>7, <2>1, <2>2, MeansBy, Zenon
<1> QED BY ONLY <1>5, <1>6, <1>8, Zenon

\* "?" means any one letter.
LEMMA MeansOne == Means(One)
<1> DEFINE W == {<<ch>> : ch \in Letters}
<1>1. One.text = <<"?">> /\ One.words = W BY DEF One
<1>2. W \in SUBSET Nodes BY LetterNode
<1>3. "?" \in Sign /\ "[^.]" \in Sign BY DEF Sign
<1>4. \A p, s \in Seq(Sign) : \A r :
         globStep(GlobState(p, r, s), "?") = GlobState(p \o <<"[^.]">>, TRUE, s)
  BY ONLY StepAny, Zenon
<1>5. \A o \in Seq(Frame) : \A A, C \in SUBSET Nodes :
         regexStep(Reading(o, A, C), "[^.]") = Reading(o, A, Concat(C, W))
  BY ONLY ReadWords, Zenon
<1> HIDE DEF W
<1> QED BY ONLY <1>1, <1>2, <1>3, <1>4, <1>5, MeansSign, Zenon

\* "*" means any node.
LEMMA MeansStar == Means(Star) /\ Writes(<<"*">>, <<"[^.]*">>, "=~") /\ Reads(<<"[^.]*">>, Nodes)
<1>1. Star.text = <<"*">> /\ Star.words = Nodes BY DEF Star
<1>2. Nodes \in SUBSET Nodes BY Zenon
<1>3. "*" \in Sign /\ "[^.]*" \in Sign BY DEF Sign
<1>4. \A p, s \in Seq(Sign) : \A r :
         globStep(GlobState(p, r, s), "*") = GlobState(p \o <<"[^.]*">>, TRUE, s)
  BY ONLY StepAny, Zenon
<1>5. \A o \in Seq(Frame) : \A A, C \in SUBSET Nodes :
         regexStep(Reading(o, A, C), "[^.]*") = Reading(o, A, Concat(C, Nodes))
  BY ONLY ReadWords, Zenon
<1> QED BY ONLY <1>1, <1>2, <1>3, <1>4, <1>5, MeansSign, Zenon

\* A sequence that is another and one more element.
LEMMA AppendIs ==
    ASSUME NEW X, NEW s \in Seq(X), NEW t \in Seq(X), NEW e \in X,
           Len(t) = Len(s) + 1, t[Len(s) + 1] = e, \A i \in 1..Len(s) : t[i] = s[i]
    PROVE  Append(s, e) = t
<1> DEFINE u == Append(s, e)
<1>1. u \in Seq(X) /\ Len(u) = Len(s) + 1 /\ Len(s) \in Nat
      /\ u[Len(s) + 1] = e /\ \A i \in 1..Len(s) : u[i] = s[i]
  BY AppendProperties
<1> HIDE DEF u
<1>2. \A i \in 1..Len(t) : u[i] = t[i]
  <2>1. \A i \in 1..(Len(s) + 1) : i \in 1..Len(s) \/ i = Len(s) + 1 BY <1>1
  <2> QED BY <1>1, <2>1
<1>3. u = t BY <1>1, <1>2
<1> QED BY <1>3 DEF u

\* Appending an element to a list that is written out.
LEMMA AppendLiteral ==
    /\ \A a, b : Append(<<a>>, b) = <<a, b>>
    /\ \A a, b, c : Append(<<a, b>>, c) = <<a, b, c>>
    /\ \A a, b, c, d : Append(<<a, b, c>>, d) = <<a, b, c, d>>
<1>1. ASSUME NEW a, NEW b PROVE Append(<<a>>, b) = <<a, b>>
  <2> DEFINE X == {a, b}
             s == <<a>>
             t == <<a, b>>
  <2>1. s \in Seq(X) /\ b \in X /\ t \in Seq(X) OBVIOUS
  <2>2. Len(s) = 1 /\ Len(t) = 2 /\ t[2] = b OBVIOUS
  <2>3. t[1] = s[1] OBVIOUS
  <2> HIDE DEF s, t, X
  <2>4. \A i \in 1..1 : t[i] = s[i] BY ONLY <2>3
  <2>5. Len(t) = Len(s) + 1 /\ t[Len(s) + 1] = b /\ \A i \in 1..Len(s) : t[i] = s[i] BY ONLY <2>2, <2>4
  <2>6. Append(s, b) = t BY ONLY <2>1, <2>5, AppendIs, Zenon
  <2> QED BY ONLY <2>6, Zenon DEF s, t
<1>2. ASSUME NEW a, NEW b, NEW c PROVE Append(<<a, b>>, c) = <<a, b, c>>
  <2> DEFINE X == {a, b, c}
             s == <<a, b>>
             t == <<a, b, c>>
  <2>1. s \in Seq(X) /\ c \in X /\ t \in Seq(X) OBVIOUS
  <2>2. Len(s) = 2 /\ Len(t) = 3 /\ t[3] = c OBVIOUS
  <2>3. t[1] = s[1] /\ t[2] = s[2] OBVIOUS
  <2> HIDE DEF s, t, X
  <2>4. \A i \in 1..2 : t[i] = s[i] BY ONLY <2>3
  <2>5. Len(t) = Len(s) + 1 /\ t[Len(s) + 1] = c /\ \A i \in 1..Len(s) : t[i] = s[i] BY ONLY <2>2, <2>4
  <2>6. Append(s, c) = t BY ONLY <2>1, <2>5, AppendIs, Zenon
  <2> QED BY ONLY <2>6, Zenon DEF s, t
<1>3. ASSUME NEW a, NEW b, NEW c, NEW d PROVE Append(<<a, b, c>>, d) = <<a, b, c, d>>
  <2> DEFINE X == {a, b, c, d}
             s == <<a, b, c>>
             t == <<a, b, c, d>>
  <2>1. s \in Seq(X) /\ d \in X /\ t \in Seq(X) OBVIOUS
  <2>2. Len(s) = 3 /\ Len(t) = 4 /\ t[4] = d OBVIOUS
  <2>3. t[1] = s[1] /\ t[2] = s[2] /\ t[3] = s[3] OBVIOUS
  <2> HIDE DEF s, t, X
  <2>4. \A i \in 1..3 : t[i] = s[i] BY ONLY <2>3
  <2>5. Len(t) = Len(s) + 1 /\ t[Len(s) + 1] = d /\ \A i \in 1..Len(s) : t[i] = s[i] BY ONLY <2>2, <2>4
  <2>6. Append(s, d) = t BY ONLY <2>1, <2>5, AppendIs, Zenon
  <2> QED BY ONLY <2>6, Zenon DEF s, t
<1> QED BY ONLY <1>1, <1>2, <1>3, Zenon

\* The same for a list of four.
LEMMA AppendFifth ==
    ASSUME NEW a, NEW b, NEW c, NEW d, NEW e
    PROVE  Append(<<a, b, c, d>>, e) = <<a, b, c, d, e>>
<1> DEFINE X == {a, b, c, d, e}
           s == <<a, b, c, d>>
           t == <<a, b, c, d, e>>
<1>1. s \in Seq(X) /\ e \in X /\ t \in Seq(X) OBVIOUS
<1>2. Len(s) = 4 /\ Len(t) = 5 /\ t[5] = e OBVIOUS
<1>3. t[1] = s[1] /\ t[2] = s[2] /\ t[3] = s[3] /\ t[4] = s[4] OBVIOUS
<1> HIDE DEF s, t, X
<1>4. \A i \in 1..4 : t[i] = s[i] BY ONLY <1>3
<1>5. Len(t) = Len(s) + 1 /\ t[Len(s) + 1] = e /\ \A i \in 1..Len(s) : t[i] = s[i] BY ONLY <1>2, <1>4
<1>6. Append(s, e) = t BY ONLY <1>1, <1>5, AppendIs, Zenon
<1> QED BY ONLY <1>6, Zenon DEF s, t

\* Loops over four and five characters, and what is written for them.
LEMMA LoopFour ==
    \A a, b, c, d :
        /\ \A g : globLoop(g, <<a, b, c, d>>) = globStep(globStep(globStep(globStep(g, a), b), c), d)
        /\ \A m : regexLoop(m, <<a, b, c, d>>) = regexStep(regexStep(regexStep(regexStep(m, a), b), c), d)
<1> SUFFICES ASSUME NEW a, NEW b, NEW c, NEW d
             PROVE  /\ \A g : globLoop(g, <<a, b, c, d>>)
                                = globStep(globStep(globStep(globStep(g, a), b), c), d)
                    /\ \A m : regexLoop(m, <<a, b, c, d>>)
                                = regexStep(regexStep(regexStep(regexStep(m, a), b), c), d)
  OBVIOUS
<1> DEFINE X == {a, b, c, d}
           s0 == <<>>
           s1 == <<a>>
           s2 == <<a, b>>
           s3 == <<a, b, c>>
           s4 == <<a, b, c, d>>
<1>1. s0 \in Seq(X) /\ s1 \in Seq(X) /\ s2 \in Seq(X) /\ s3 \in Seq(X) OBVIOUS
<1>2. s1 = Append(s0, a) OBVIOUS
<1>3. s2 = Append(s1, b) /\ s3 = Append(s2, c) /\ s4 = Append(s3, d) BY ONLY AppendLiteral, Zenon
<1>4. a \in X /\ b \in X /\ c \in X /\ d \in X OBVIOUS
<1>5. (\A g : globLoop(g, s0) = g) /\ \A m : regexLoop(m, s0) = m
  BY ONLY GlobLoopEmpty, RegexLoopEmpty, Zenon
<1> HIDE DEF X, s0, s1, s2, s3, s4
<1>6. ASSUME NEW g PROVE globLoop(g, s4) = globStep(globStep(globStep(globStep(g, a), b), c), d)
  <2>1. globLoop(g, s1) = globStep(globLoop(g, s0), a)
    <3>1. globLoop(g, Append(s0, a)) = globStep(globLoop(g, s0), a) BY ONLY <1>1, <1>4, GlobLoopAppend
    <3> QED BY ONLY <1>2, <3>1, Zenon
  <2>2. globLoop(g, s2) = globStep(globLoop(g, s1), b)
    <3>1. globLoop(g, Append(s1, b)) = globStep(globLoop(g, s1), b) BY ONLY <1>1, <1>4, GlobLoopAppend
    <3> QED BY ONLY <1>3, <3>1, Zenon
  <2>3. globLoop(g, s3) = globStep(globLoop(g, s2), c)
    <3>1. globLoop(g, Append(s2, c)) = globStep(globLoop(g, s2), c) BY ONLY <1>1, <1>4, GlobLoopAppend
    <3> QED BY ONLY <1>3, <3>1, Zenon
  <2>4. globLoop(g, s4) = globStep(globLoop(g, s3), d)
    <3>1. globLoop(g, Append(s3, d)) = globStep(globLoop(g, s3), d) BY ONLY <1>1, <1>4, GlobLoopAppend
    <3> QED BY ONLY <1>3, <3>1, Zenon
  <2> QED BY ONLY <1>5, <2>1, <2>2, <2>3, <2>4, Zenon
<1>7. ASSUME NEW m PROVE regexLoop(m, s4) = regexStep(regexStep(regexStep(regexStep(m, a), b), c), d)
  <2>1. regexLoop(m, s1) = regexStep(regexLoop(m, s0), a)
    <3>1. regexLoop(m, Append(s0, a)) = regexStep(regexLoop(m, s0), a) BY ONLY <1>1, <1>4, RegexLoopAppend
    <3> QED BY ONLY <1>2, <3>1, Zenon
  <2>2. regexLoop(m, s2) = regexStep(regexLoop(m, s1), b)
    <3>1. regexLoop(m, Append(s1, b)) = regexStep(regexLoop(m, s1), b) BY ONLY <1>1, <1>4, RegexLoopAppend
    <3> QED BY ONLY <1>3, <3>1, Zenon
  <2>3. regexLoop(m, s3) = regexStep(regexLoop(m, s2), c)
    <3>1. regexLoop(m, Append(s2, c)) = regexStep(regexLoop(m, s2), c) BY ONLY <1>1, <1>4, RegexLoopAppend
    <3> QED BY ONLY <1>3, <3>1, Zenon
  <2>4. regexLoop(m, s4) = regexStep(regexLoop(m, s3), d)
    <3>1. regexLoop(m, Append(s3, d)) = regexStep(regexLoop(m, s3), d) BY ONLY <1>1, <1>4, RegexLoopAppend
    <3> QED BY ONLY <1>3, <3>1, Zenon
  <2> QED BY ONLY <1>5, <2>1, <2>2, <2>3, <2>4, Zenon
<1> QED BY ONLY <1>6, <1>7, Zenon DEF s4

\* The same for five characters.
LEMMA LoopFive ==
    \A a, b, c, d, e :
        /\ \A g : globLoop(g, <<a, b, c, d, e>>)
                      = globStep(globStep(globStep(globStep(globStep(g, a), b), c), d), e)
        /\ \A m : regexLoop(m, <<a, b, c, d, e>>)
                      = regexStep(regexStep(regexStep(regexStep(regexStep(m, a), b), c), d), e)
<1> SUFFICES ASSUME NEW a, NEW b, NEW c, NEW d, NEW e
             PROVE  /\ \A g : globLoop(g, <<a, b, c, d, e>>)
                                = globStep(globStep(globStep(globStep(globStep(g, a), b), c), d), e)
                    /\ \A m : regexLoop(m, <<a, b, c, d, e>>)
                                = regexStep(regexStep(regexStep(regexStep(regexStep(m, a), b), c), d), e)
  OBVIOUS
<1> DEFINE X == {a, b, c, d, e}
           s == <<a, b, c, d>>
           t == <<a, b, c, d, e>>
<1>1. s \in Seq(X) /\ e \in X OBVIOUS
<1>2. t = Append(s, e) BY ONLY AppendFifth, Zenon
<1>3. /\ \A g : globLoop(g, s) = globStep(globStep(globStep(globStep(g, a), b), c), d)
      /\ \A m : regexLoop(m, s) = regexStep(regexStep(regexStep(regexStep(m, a), b), c), d)
  BY ONLY LoopFour
<1> HIDE DEF X, s, t
<1>4. ASSUME NEW g PROVE globLoop(g, t) = globStep(globLoop(g, s), e) BY ONLY <1>1, <1>2, GlobLoopAppend
<1>5. ASSUME NEW m PROVE regexLoop(m, t) = regexStep(regexLoop(m, s), e) BY ONLY <1>1, <1>2, RegexLoopAppend
<1> QED BY ONLY <1>3, <1>4, <1>5, Zenon DEF t

\* The pieces of a class, one after the other.
LEMMA ConcatFour ==
    ASSUME NEW p \in Seq(Sign), NEW t \in Seq(Sign), Len(t) = 4
    PROVE  (((p \o <<t[1]>>) \o <<t[2]>>) \o <<t[3]>>) \o <<t[4]>> = p \o t
<1>1. ASSUME NEW s \in Seq(Sign), NEW x \in Sign PROVE (p \o s) \o <<x>> = p \o Append(s, x)
  <2>1. <<x>> \in Seq(Sign) OBVIOUS
  <2>2. s \o <<x>> = Append(s, x) BY AppendIsConcat
  <2>3. (p \o s) \o <<x>> = p \o (s \o <<x>>) BY <2>1, ConcatThree, SMTT(20)
  <2> QED BY ONLY <2>2, <2>3, Zenon
<1> DEFINE s1 == <<t[1]>>
           s2 == <<t[1], t[2]>>
           s3 == <<t[1], t[2], t[3]>>
<1>2. t[1] \in Sign /\ t[2] \in Sign /\ t[3] \in Sign /\ t[4] \in Sign
  <2>1. \A i \in 1..Len(t) : t[i] \in Sign BY ElementOfSeq
  <2>2. \A i \in 1..4 : t[i] \in Sign BY <2>1
  <2> QED BY ONLY <2>2
<1>3. s1 \in Seq(Sign) /\ s2 \in Seq(Sign) /\ s3 \in Seq(Sign) BY <1>2
<1>4. Append(s3, t[4]) = t
  <2>1. Len(s3) = 3 OBVIOUS
  <2>2. t[1] = s3[1] /\ t[2] = s3[2] /\ t[3] = s3[3] OBVIOUS
  <2> HIDE DEF s3
  <2>3. \A i \in 1..3 : t[i] = s3[i] BY ONLY <2>2
  <2>4. Len(t) = Len(s3) + 1 /\ t[Len(s3) + 1] = t[4] /\ \A i \in 1..Len(s3) : t[i] = s3[i]
    BY <2>1, <2>3
  <2> DEFINE e == t[4]
  <2>5. e \in Sign /\ t[Len(s3) + 1] = e /\ s3 \in Seq(Sign) BY ONLY <1>2, <1>3, <2>4, Zenon
  <2> HIDE DEF e
  <2>6. s3 \in Seq(Sign) /\ Len(t) = Len(s3) + 1 /\ \A i \in 1..Len(s3) : t[i] = s3[i] BY ONLY <1>3, <2>4, Zenon
  <2>7. Append(s3, e) = t BY ONLY t \in Seq(Sign), <2>5, <2>6, AppendIs
  <2> QED BY ONLY <2>7, Zenon DEF e
<1>5. Append(s1, t[2]) = s2 /\ Append(s2, t[3]) = s3
  BY ONLY AppendLiteral, Zenon
<1> HIDE DEF s1, s2, s3
<1>6. (p \o s1) \o <<t[2]>> = p \o s2 BY ONLY <1>1, <1>2, <1>3, <1>5, Zenon
<1>7. (p \o s2) \o <<t[3]>> = p \o s3 BY ONLY <1>1, <1>2, <1>3, <1>5, Zenon
<1>8. (p \o s3) \o <<t[4]>> = p \o t BY ONLY <1>1, <1>2, <1>3, <1>4, Zenon
<1> QED BY ONLY <1>6, <1>7, <1>8, Zenon DEF s1

\* The same for five.
LEMMA ConcatFive ==
    ASSUME NEW p \in Seq(Sign), NEW t \in Seq(Sign), Len(t) = 5
    PROVE  ((((p \o <<t[1]>>) \o <<t[2]>>) \o <<t[3]>>) \o <<t[4]>>) \o <<t[5]>> = p \o t
<1>1. ASSUME NEW s \in Seq(Sign), NEW x \in Sign PROVE (p \o s) \o <<x>> = p \o Append(s, x)
  <2>1. <<x>> \in Seq(Sign) OBVIOUS
  <2>2. s \o <<x>> = Append(s, x) BY AppendIsConcat
  <2>3. (p \o s) \o <<x>> = p \o (s \o <<x>>) BY <2>1, ConcatThree, SMTT(20)
  <2> QED BY ONLY <2>2, <2>3, Zenon
<1> DEFINE s1 == <<t[1]>>
           s2 == <<t[1], t[2]>>
           s3 == <<t[1], t[2], t[3]>>
           s4 == <<t[1], t[2], t[3], t[4]>>
<1>2. t[1] \in Sign /\ t[2] \in Sign /\ t[3] \in Sign /\ t[4] \in Sign /\ t[5] \in Sign
  <2>1. \A i \in 1..Len(t) : t[i] \in Sign BY ElementOfSeq
  <2>2. \A i \in 1..5 : t[i] \in Sign BY <2>1
  <2> QED BY ONLY <2>2
<1>3. s1 \in Seq(Sign) /\ s2 \in Seq(Sign) /\ s3 \in Seq(Sign) /\ s4 \in Seq(Sign) BY <1>2
<1>4. Append(s4, t[5]) = t
  <2>1. Len(s4) = 4 OBVIOUS
  <2>2. t[1] = s4[1] /\ t[2] = s4[2] /\ t[3] = s4[3] /\ t[4] = s4[4] OBVIOUS
  <2> HIDE DEF s4
  <2>3. \A i \in 1..4 : t[i] = s4[i] BY ONLY <2>2
  <2>4. Len(t) = Len(s4) + 1 /\ t[Len(s4) + 1] = t[5] /\ \A i \in 1..Len(s4) : t[i] = s4[i]
    BY <2>1, <2>3
  <2> DEFINE e == t[5]
  <2>5. e \in Sign /\ t[Len(s4) + 1] = e /\ s4 \in Seq(Sign) BY ONLY <1>2, <1>3, <2>4, Zenon
  <2> HIDE DEF e
  <2>6. s4 \in Seq(Sign) /\ Len(t) = Len(s4) + 1 /\ \A i \in 1..Len(s4) : t[i] = s4[i] BY ONLY <1>3, <2>4, Zenon
  <2>7. Append(s4, e) = t BY ONLY t \in Seq(Sign), <2>5, <2>6, AppendIs
  <2> QED BY ONLY <2>7, Zenon DEF e
<1>5. Append(s1, t[2]) = s2 /\ Append(s2, t[3]) = s3 /\ Append(s3, t[4]) = s4
  BY ONLY AppendLiteral, Zenon
<1> HIDE DEF s1, s2, s3, s4
<1>6. (p \o s1) \o <<t[2]>> = p \o s2 BY ONLY <1>1, <1>2, <1>3, <1>5, Zenon
<1>7. (p \o s2) \o <<t[3]>> = p \o s3 BY ONLY <1>1, <1>2, <1>3, <1>5, Zenon
<1>8. (p \o s3) \o <<t[4]>> = p \o s4 BY ONLY <1>1, <1>2, <1>3, <1>5, Zenon
<1>9. (p \o s4) \o <<t[5]>> = p \o t BY ONLY <1>1, <1>2, <1>3, <1>4, Zenon
<1> QED BY ONLY <1>6, <1>7, <1>8, <1>9, Zenon DEF s1

\* What a class reads, s being what is in it.
LEMMA MeansClassBy ==
    ASSUME NEW g, NEW t \in Seq(Sign), NEW C, C \in SUBSET Letters,
           g.text = t, g.words = {<<ch>> : ch \in C},
           \A p, s \in Seq(Sign) : \A r : globLoop(GlobState(p, r, s), t) = GlobState(p \o t, TRUE, s),
           \A o \in Seq(Frame) : \A A, D \in SUBSET Nodes :
               regexLoop(Reading(o, A, D), t) = Reading(o, A, Concat(D, {<<ch>> : ch \in C}))
    PROVE  Means(g)
<1>1. g.words \in SUBSET Nodes BY LetterNode
<1>2. \A r : Also("=~", r) = TRUE BY Zenon DEF Also
<1>3. Writes(g.text, t, "=~")
  <2>1. \A p, s \in Seq(Sign) : \A r : globLoop(GlobState(p, r, s), g.text) = GlobState(p \o t, Also("=~", r), s)
    <3>1. ASSUME NEW p \in Seq(Sign), NEW s \in Seq(Sign), NEW r
          PROVE  globLoop(GlobState(p, r, s), g.text) = GlobState(p \o t, Also("=~", r), s)
      <4>1. globLoop(GlobState(p, r, s), t) = GlobState(p \o t, TRUE, s) BY Zenon
      <4>2. g.text = t BY Zenon
      <4>3. Also("=~", r) = TRUE BY ONLY <1>2, Zenon
      <4> QED BY ONLY <4>1, <4>2, <4>3, Zenon
    <3> QED BY ONLY <3>1, Zenon
  <2> QED BY ONLY <2>1, Zenon DEF Writes
<1>4. Reads(t, g.words) BY Zenon DEF Reads
<1>5. "=~" \in Ops /\ "=~" # "=" BY DEF Ops
<1>6. g.text \in Seq(Sign) BY Zenon
<1> QED BY ONLY t \in Seq(Sign), <1>1, <1>3, <1>4, <1>5, <1>6, MeansBy, Zenon

\* "[ab]" means one of the two characters.
LEMMA MeansClass ==
    ASSUME NEW a \in Verbatim, NEW b \in Verbatim \ {"-"}
    PROVE  Means(Class(a, b))
<1> DEFINE t == <<"[", a, b, "]">>
<1>1. a \in Plain /\ b \in Plain /\ a \in Sign /\ b \in Sign /\ a \in Letters /\ b \in Letters BY SignsOf
<1>2. "[" \in Sign /\ "]" \in Sign BY DEF Sign
<1>0. t \in Seq(Sign) BY <1>1, <1>2
<1>3. /\ \A g : globLoop(g, t) = globStep(globStep(globStep(globStep(g, "["), a), b), "]")
      /\ \A m : regexLoop(m, t) = regexStep(regexStep(regexStep(regexStep(m, "["), a), b), "]")
  BY ONLY LoopFour
<1>4. ASSUME NEW p \in Seq(Sign), NEW s \in Seq(Sign), NEW r
      PROVE  globLoop(GlobState(p, r, s), t) = GlobState(p \o t, TRUE, s)
  <2> DEFINE u == Append(s, "[")
  <2>1. globStep(GlobState(p, r, s), "[") = GlobState(p \o <<"[">>, TRUE, u) BY ONLY StepOpen, Zenon
  <2>2. \A q : globStep(GlobState(q, TRUE, u), a) = GlobState(q \o <<a>>, TRUE, u) BY ONLY <1>1, StepPlain, Zenon
  <2>3. \A q : globStep(GlobState(q, TRUE, u), b) = GlobState(q \o <<b>>, TRUE, u) BY ONLY <1>1, StepPlain, Zenon
  <2>4. \A q : globStep(GlobState(q, TRUE, u), "]") = GlobState(q \o <<"]">>, TRUE, s)
    BY ONLY s \in Seq(Sign), StepClose, Zenon
  <2>5. (((p \o <<"[">>) \o <<a>>) \o <<b>>) \o <<"]">> = p \o t
    <3>1. t[1] = "[" /\ t[2] = a /\ t[3] = b /\ t[4] = "]" /\ Len(t) = 4 OBVIOUS
    <3> HIDE DEF t
    <3>2. (((p \o <<t[1]>>) \o <<t[2]>>) \o <<t[3]>>) \o <<t[4]>> = p \o t
      BY ONLY p \in Seq(Sign), <1>0, <3>1, ConcatFour, Zenon
    <3> QED BY ONLY <3>1, <3>2, Zenon
  <2> DEFINE q1 == p \o <<"[">>
             q2 == q1 \o <<a>>
             q3 == q2 \o <<b>>
             q4 == q3 \o <<"]">>
  <2>7. globStep(GlobState(q1, TRUE, u), a) = GlobState(q2, TRUE, u) BY ONLY <2>2, Zenon
  <2>8. globStep(GlobState(q2, TRUE, u), b) = GlobState(q3, TRUE, u) BY ONLY <2>3, Zenon
  <2>9. globStep(GlobState(q3, TRUE, u), "]") = GlobState(q4, TRUE, s) BY ONLY <2>4, Zenon
  <2>10. globStep(GlobState(p, r, s), "[") = GlobState(q1, TRUE, u) BY ONLY <2>1, Zenon
  <2>11. q4 = p \o t BY ONLY <2>5, Zenon
  <2> HIDE DEF u, q1, q2, q3, q4, t
  <2> QED BY ONLY <1>3, <2>7, <2>8, <2>9, <2>10, <2>11, Zenon
<1>5. ASSUME NEW o \in Seq(Frame), NEW A \in SUBSET Nodes, NEW D \in SUBSET Nodes
      PROVE  regexLoop(Reading(o, A, D), t) = Reading(o, A, Concat(D, {<<ch>> : ch \in {a, b}}))
  <2> DEFINE s == Append(Append(<<>>, a), b)
  <2>1. regexStep(Reading(o, A, D), "[") = InClass(o, A, D, <<>>) BY ReadClass, Zenon
  <2>0. \A x : \A y \in Plain : regexStep(InClass(o, A, D, x), y) = InClass(o, A, D, Append(x, y))
    BY ReadClass, Zenon
  <2>2. \A x : regexStep(InClass(o, A, D, x), a) = InClass(o, A, D, Append(x, a)) BY ONLY <1>1, <2>0, Zenon
  <2>3. \A x : regexStep(InClass(o, A, D, x), b) = InClass(o, A, D, Append(x, b)) BY ONLY <1>1, <2>0, Zenon
  <2>4. \A x : regexStep(InClass(o, A, D, x), "]") = Reading(o, A, Concat(D, {<<ch>> : ch \in Chars(x)}))
    BY ReadClass, Zenon
  <2>5. Chars(s) = {a, b}
    <3>1. Append(<<>>, a) = <<a>> OBVIOUS
    <3>2. s = <<a, b>> BY ONLY <3>1, AppendLiteral, Zenon
    <3>3. <<a, b>>[2] # "-" OBVIOUS
    <3>4. ToSet(<<a, b>>) = {a, b}
      <4>1. DOMAIN <<a, b>> = {1, 2} OBVIOUS
      <4> QED BY <4>1 DEF ToSet
    <3>5. Chars(<<a, b>>) = {a, b} BY ONLY <3>3, <3>4, Zenon DEF Chars
    <3> QED BY ONLY <3>2, <3>5, Zenon
  <2> DEFINE x1 == Append(<<>>, a)
             x2 == Append(x1, b)
  <2>7. regexStep(InClass(o, A, D, <<>>), a) = InClass(o, A, D, x1) BY ONLY <2>2, Zenon
  <2>8. regexStep(InClass(o, A, D, x1), b) = InClass(o, A, D, x2) BY ONLY <2>3, Zenon
  <2>9. regexStep(InClass(o, A, D, x2), "]") = Reading(o, A, Concat(D, {<<ch>> : ch \in Chars(x2)})) BY ONLY <2>4, Zenon
  <2>10. Chars(x2) = {a, b} BY ONLY <2>5, Zenon
  <2> HIDE DEF x1, x2, t
  <2> QED BY ONLY <1>3, <2>1, <2>7, <2>8, <2>9, <2>10, Zenon
<1> DEFINE g == Class(a, b)
           C == {a, b}
<1>6. g.text = t /\ g.words = {<<ch>> : ch \in C}
  <2>1. {<<ch>> : ch \in C} = {<<a>>, <<b>>} OBVIOUS
  <2>2. g.text = t /\ g.words = {<<a>>, <<b>>} BY DEF Class
  <2> QED BY ONLY <2>1, <2>2, Zenon
<1>7. C \in SUBSET Letters BY <1>1
<1>8. \A o \in Seq(Frame) : \A A, D \in SUBSET Nodes :
          regexLoop(Reading(o, A, D), t) = Reading(o, A, Concat(D, {<<ch>> : ch \in C}))
  BY ONLY <1>5, Zenon
<1> HIDE DEF g, t, C
<1>9. Means(g) BY ONLY <1>0, <1>4, <1>6, <1>7, <1>8, MeansClassBy, Zenon
<1> QED BY ONLY <1>9, Zenon DEF g

\* "[a-b]" means the letters between the two.
LEMMA MeansFromTo ==
    ASSUME NEW a \in Verbatim, NEW b \in Verbatim
    PROVE  Means(FromTo(a, b))
<1> DEFINE t == <<"[", a, "-", b, "]">>
           C == Between(a, b)
<1>1. a \in Plain /\ b \in Plain /\ a \in Sign /\ b \in Sign BY SignsOf
<1>2. "[" \in Sign /\ "]" \in Sign /\ "-" \in Sign /\ "-" \in Plain BY DEF Sign, Plain
<1>0. t \in Seq(Sign) BY <1>1, <1>2
<1>3. /\ \A g : globLoop(g, t) = globStep(globStep(globStep(globStep(globStep(g, "["), a), "-"), b), "]")
      /\ \A m : regexLoop(m, t) = regexStep(regexStep(regexStep(regexStep(regexStep(m, "["), a), "-"), b), "]")
  BY ONLY LoopFive
<1>4. ASSUME NEW p \in Seq(Sign), NEW s \in Seq(Sign), NEW r
      PROVE  globLoop(GlobState(p, r, s), t) = GlobState(p \o t, TRUE, s)
  <2> DEFINE u == Append(s, "[")
  <2>1. globStep(GlobState(p, r, s), "[") = GlobState(p \o <<"[">>, TRUE, u) BY ONLY StepOpen, Zenon
  <2>2. \A q : globStep(GlobState(q, TRUE, u), a) = GlobState(q \o <<a>>, TRUE, u) BY ONLY <1>1, StepPlain, Zenon
  <2>3. \A q : globStep(GlobState(q, TRUE, u), "-") = GlobState(q \o <<"-">>, TRUE, u)
    BY ONLY <1>2, StepPlain, Zenon
  <2>4. \A q : globStep(GlobState(q, TRUE, u), b) = GlobState(q \o <<b>>, TRUE, u) BY ONLY <1>1, StepPlain, Zenon
  <2>5. \A q : globStep(GlobState(q, TRUE, u), "]") = GlobState(q \o <<"]">>, TRUE, s)
    BY ONLY s \in Seq(Sign), StepClose, Zenon
  <2>6. ((((p \o <<"[">>) \o <<a>>) \o <<"-">>) \o <<b>>) \o <<"]">> = p \o t
    <3>1. t[1] = "[" /\ t[2] = a /\ t[3] = "-" /\ t[4] = b /\ t[5] = "]" /\ Len(t) = 5 OBVIOUS
    <3> HIDE DEF t
    <3>2. ((((p \o <<t[1]>>) \o <<t[2]>>) \o <<t[3]>>) \o <<t[4]>>) \o <<t[5]>> = p \o t
      BY ONLY p \in Seq(Sign), <1>0, <3>1, ConcatFive, Zenon
    <3> QED BY ONLY <3>1, <3>2, Zenon
  <2> DEFINE q1 == p \o <<"[">>
             q2 == q1 \o <<a>>
             q3 == q2 \o <<"-">>
             q4 == q3 \o <<b>>
             q5 == q4 \o <<"]">>
  <2>7. globStep(GlobState(q1, TRUE, u), a) = GlobState(q2, TRUE, u) BY ONLY <2>2, Zenon
  <2>8. globStep(GlobState(q2, TRUE, u), "-") = GlobState(q3, TRUE, u) BY ONLY <2>3, Zenon
  <2>9. globStep(GlobState(q3, TRUE, u), b) = GlobState(q4, TRUE, u) BY ONLY <2>4, Zenon
  <2>10. globStep(GlobState(q4, TRUE, u), "]") = GlobState(q5, TRUE, s) BY ONLY <2>5, Zenon
  <2>11. globStep(GlobState(p, r, s), "[") = GlobState(q1, TRUE, u) BY ONLY <2>1, Zenon
  <2>12. q5 = p \o t BY ONLY <2>6, Zenon
  <2> HIDE DEF u, q1, q2, q3, q4, q5, t
  <2> QED BY ONLY <1>3, <2>7, <2>8, <2>9, <2>10, <2>11, <2>12, Zenon
<1>5. ASSUME NEW o \in Seq(Frame), NEW A \in SUBSET Nodes, NEW D \in SUBSET Nodes
      PROVE  regexLoop(Reading(o, A, D), t) = Reading(o, A, Concat(D, {<<ch>> : ch \in C}))
  <2> DEFINE s == Append(Append(Append(<<>>, a), "-"), b)
  <2>1. regexStep(Reading(o, A, D), "[") = InClass(o, A, D, <<>>) BY ReadClass, Zenon
  <2>0. \A x : \A y \in Plain : regexStep(InClass(o, A, D, x), y) = InClass(o, A, D, Append(x, y))
    BY ReadClass, Zenon
  <2>2. \A x : regexStep(InClass(o, A, D, x), a) = InClass(o, A, D, Append(x, a)) BY ONLY <1>1, <2>0, Zenon
  <2>3. \A x : regexStep(InClass(o, A, D, x), "-") = InClass(o, A, D, Append(x, "-")) BY ONLY <1>2, <2>0, Zenon
  <2>4. \A x : regexStep(InClass(o, A, D, x), b) = InClass(o, A, D, Append(x, b)) BY ONLY <1>1, <2>0, Zenon
  <2>5. \A x : regexStep(InClass(o, A, D, x), "]") = Reading(o, A, Concat(D, {<<ch>> : ch \in Chars(x)}))
    BY ReadClass, Zenon
  <2>6. Chars(s) = C
    <3>1. Append(<<>>, a) = <<a>> OBVIOUS
    <3>2. s = <<a, "-", b>>
      <4>1. Append(<<a>>, "-") = <<a, "-">> /\ Append(<<a, "-">>, b) = <<a, "-", b>> BY ONLY AppendLiteral, Zenon
      <4> QED BY ONLY <3>1, <4>1, Zenon
    <3>3. <<a, "-", b>>[2] = "-" /\ <<a, "-", b>>[1] = a /\ <<a, "-", b>>[3] = b OBVIOUS
    <3>4. Chars(<<a, "-", b>>) = Between(a, b) BY ONLY <3>3, Zenon DEF Chars
    <3> QED BY ONLY <3>2, <3>4, Zenon
  <2> HIDE DEF C
  <2> DEFINE x1 == Append(<<>>, a)
             x2 == Append(x1, "-")
             x3 == Append(x2, b)
  <2>7. regexStep(InClass(o, A, D, <<>>), a) = InClass(o, A, D, x1) BY ONLY <2>2, Zenon
  <2>8. regexStep(InClass(o, A, D, x1), "-") = InClass(o, A, D, x2) BY ONLY <2>3, Zenon
  <2>9. regexStep(InClass(o, A, D, x2), b) = InClass(o, A, D, x3) BY ONLY <2>4, Zenon
  <2>10. regexStep(InClass(o, A, D, x3), "]") = Reading(o, A, Concat(D, {<<ch>> : ch \in Chars(x3)})) BY ONLY <2>5, Zenon
  <2>11. Chars(x3) = C BY ONLY <2>6, Zenon
  <2> HIDE DEF x1, x2, x3, t
  <2> QED BY ONLY <1>3, <2>1, <2>7, <2>8, <2>9, <2>10, <2>11, Zenon
<1> DEFINE g == FromTo(a, b)
<1>6. g.text = t /\ g.words = {<<ch>> : ch \in C} BY DEF FromTo
<1>7. C \in SUBSET Letters BY DEF Between
<1>8. \A o \in Seq(Frame) : \A A, D \in SUBSET Nodes :
          regexLoop(Reading(o, A, D), t) = Reading(o, A, Concat(D, {<<ch>> : ch \in C}))
  BY ONLY <1>5, Zenon
<1> HIDE DEF g, t, C
<1>9. Means(g) BY ONLY <1>0, <1>4, <1>6, <1>7, <1>8, MeansClassBy, Zenon
<1> QED BY ONLY <1>9, Zenon DEF g

\* One glob after another.
LEMMA MeansThen ==
    ASSUME NEW g, NEW h, Means(g), Means(h)
    PROVE  Means(Then(g, h))
<1> DEFINE k == Then(g, h)
<1>1. k.text = g.text \o h.text /\ k.words = Concat(g.words, h.words) BY DEF Then
<1>2. /\ g.text \in Seq(Sign) /\ h.text \in Seq(Sign)
      /\ g.words \in SUBSET Nodes /\ h.words \in SUBSET Nodes
  BY Zenon DEF Means
<1>3. PICK P \in Seq(Sign), R \in Ops :
        /\ Writes(g.text, P, R) /\ Reads(P, g.words)
        /\ R = "=" => P \in Seq(Letters) /\ g.words = {P} \cap Nodes
  BY Zenon DEF Means
<1>4. PICK Q \in Seq(Sign), S \in Ops :
        /\ Writes(h.text, Q, S) /\ Reads(Q, h.words)
        /\ S = "=" => Q \in Seq(Letters) /\ h.words = {Q} \cap Nodes
  BY Zenon DEF Means
<1> DEFINE T == Both(R, S)
           PQ == P \o Q
<1>5. Writes(g.text \o h.text, PQ, T)
  BY ONLY P \in Seq(Sign), R \in Ops, Q \in Seq(Sign), S \in Ops, <1>2, <1>3, <1>4, WritesThen, Zenon
<1>6. Reads(PQ, Concat(g.words, h.words))
  BY ONLY P \in Seq(Sign), Q \in Seq(Sign), <1>2, <1>3, <1>4, ReadsThen, Zenon
<1>7. T \in Ops /\ (T = "=" => R = "=" /\ S = "=") BY DEF Both, Ops
<1>8. PQ \in Seq(Sign) /\ g.text \o h.text \in Seq(Sign)
  <2>1. PQ \in Seq(Sign) BY ConcatProperties
  <2> DEFINE t == g.text
             u == h.text
  <2>2. t \in Seq(Sign) /\ u \in Seq(Sign) BY <1>2
  <2> HIDE DEF t, u
  <2>3. t \o u \in Seq(Sign) BY <2>2, ConcatProperties
  <2> QED BY ONLY <2>1, <2>3, Zenon DEF t, u
<1>9. Concat(g.words, h.words) \in SUBSET Nodes BY ConcatType
<1>10. ASSUME T = "=" PROVE PQ \in Seq(Letters) /\ Concat(g.words, h.words) = {PQ} \cap Nodes
  <2>1. /\ P \in Seq(Letters) /\ g.words = {P} \cap Nodes
        /\ Q \in Seq(Letters) /\ h.words = {Q} \cap Nodes
    BY ONLY <1>3, <1>4, <1>7, <1>10, Zenon
  <2>2. PQ \in Seq(Letters) BY <2>1, ConcatProperties
  <2>3. Concat({P} \cap Nodes, {Q} \cap Nodes) = {P \o Q} \cap Nodes BY ONLY <2>1, ConcatWords, Zenon
  <2> QED BY ONLY <2>1, <2>2, <2>3, Zenon
<1> HIDE DEF k, T, PQ
<1>11. Means(k)
  <2>1. Writes(k.text, PQ, T) /\ Reads(PQ, k.words) /\ k.text \in Seq(Sign) /\ k.words \in SUBSET Nodes
    BY ONLY <1>1, <1>5, <1>6, <1>8, <1>9, Zenon
  <2>2. T = "=" => PQ \in Seq(Letters) /\ k.words = {PQ} \cap Nodes BY ONLY <1>1, <1>10, Zenon
  <2> QED BY ONLY <1>7, <1>8, <2>1, <2>2, MeansBy, Zenon
<1> QED BY ONLY <1>11, Zenon DEF k

\* A text and one more character, in both loops.
LEMMA LoopLast ==
    ASSUME NEW t \in Seq(Sign), NEW ch \in Sign
    PROVE  /\ \A g : globLoop(g, t \o <<ch>>) = globStep(globLoop(g, t), ch)
           /\ \A m : regexLoop(m, t \o <<ch>>) = regexStep(regexLoop(m, t), ch)
           /\ t \o <<ch>> \in Seq(Sign)
<1>1. t \o <<ch>> = Append(t, ch) BY AppendIsConcat
<1>2. ASSUME NEW g PROVE globLoop(g, Append(t, ch)) = globStep(globLoop(g, t), ch) BY GlobLoopAppend
<1>3. ASSUME NEW m PROVE regexLoop(m, Append(t, ch)) = regexStep(regexLoop(m, t), ch) BY RegexLoopAppend
<1>4. Append(t, ch) \in Seq(Sign) BY AppendProperties
<1> QED BY ONLY <1>1, <1>2, <1>3, <1>4, Zenon

\* The end of a group.
LEMMA MeansGroup ==
    ASSUME NEW g, Extends(g)
    PROVE  Means(g)
<1>1. PICK t \in Seq(Sign), P \in Seq(Sign), B \in SUBSET Nodes, D \in SUBSET Nodes :
        g.text = t \o <<"}">> /\ Opens(t, P) /\ Enters(P, B, D) /\ g.words = B \cup D
  BY Zenon DEF Extends
<1>2. "}" \in Sign /\ ")" \in Sign BY DEF Sign
<1> DEFINE u == t \o <<"}">>
           Q == P \o <<")">>
<1>3. u \in Seq(Sign) /\ \A x : globLoop(x, u) = globStep(globLoop(x, t), "}")
  BY ONLY t \in Seq(Sign), <1>2, LoopLast, Zenon
<1>4. Q \in Seq(Sign) /\ \A x : regexLoop(x, Q) = regexStep(regexLoop(x, P), ")")
  BY ONLY P \in Seq(Sign), <1>2, LoopLast, Zenon
<1>5. ASSUME NEW p \in Seq(Sign), NEW s \in Seq(Sign), NEW r
      PROVE  globLoop(GlobState(p, r, s), u) = GlobState(p \o Q, Also("=~", r), s)
  <2>1. globLoop(GlobState(p, r, s), t) = GlobState(p \o P, TRUE, Append(s, "{")) BY <1>1, Zenon DEF Opens
  <2>2. globStep(GlobState(p \o P, TRUE, Append(s, "{")), "}") = GlobState((p \o P) \o <<")">>, TRUE, s)
    BY ONLY s \in Seq(Sign), StepClose, Zenon
  <2>3. (p \o P) \o <<")">> = p \o Q
    <3>1. <<")">> \in Seq(Sign) BY ONLY <1>2, LoopOne, Zenon
    <3> DEFINE c == <<")">>
    <3> HIDE DEF c
    <3>2. c \in Seq(Sign) BY ONLY <3>1, Zenon DEF c
    <3>3. (p \o P) \o c = p \o (P \o c)
      BY ONLY p \in Seq(Sign), P \in Seq(Sign), <3>2, ConcatThree, SMTT(20)
    <3> QED BY ONLY <3>3, Zenon DEF c
  <2>4. Also("=~", r) = TRUE BY Zenon DEF Also
  <2> HIDE DEF u, Q
  <2> QED BY ONLY <1>3, <2>1, <2>2, <2>3, <2>4, Zenon
<1>6. ASSUME NEW o \in Seq(Frame), NEW A \in SUBSET Nodes, NEW C \in SUBSET Nodes
      PROVE  regexLoop(Reading(o, A, C), Q) = Reading(o, A, Concat(C, B \cup D))
  <2> DEFINE f == Append(o, [alts |-> A, cur |-> C])
  <2>1. regexLoop(Reading(o, A, C), P) = Reading(f, B, D) BY <1>1, Zenon DEF Enters
  <2>2. regexStep(Reading(f, B, D), ")") = Reading(o, A, Concat(C, B \cup D))
    BY ONLY o \in Seq(Frame), A \in SUBSET Nodes, C \in SUBSET Nodes, B \in SUBSET Nodes, D \in SUBSET Nodes, ReadEnd
  <2> HIDE DEF f, Q
  <2> QED BY ONLY <1>4, <2>1, <2>2, Zenon
<1> HIDE DEF u, Q
<1>7. Writes(u, Q, "=~") BY ONLY <1>5, Zenon DEF Writes
<1>8. Reads(Q, B \cup D) BY ONLY <1>6, Zenon DEF Reads
<1>9. "=~" \in Ops /\ "=~" # "=" BY DEF Ops
<1>10. g.text = u /\ g.words = B \cup D BY ONLY <1>1, Zenon DEF u
<1>11. B \cup D \in SUBSET Nodes BY Zenon
<1>12. Writes(g.text, Q, "=~") /\ Reads(Q, g.words) /\ g.text \in Seq(Sign) /\ g.words \in SUBSET Nodes
  BY ONLY <1>3, <1>7, <1>8, <1>10, <1>11, Zenon
<1> QED BY ONLY <1>4, <1>9, <1>12, MeansBy, Zenon

\* Braces begin a group of one alternative.
LEMMA ExtendsBraces ==
    ASSUME NEW g, Means(g)
    PROVE  Extends(Braces(g))
<1> DEFINE k == Braces(g)
           W == g.words
<1>1. k.text = (<<"{">> \o g.text) \o <<"}">> /\ k.words = W BY DEF Braces
<1>2. g.text \in Seq(Sign) /\ W \in SUBSET Nodes BY Zenon DEF Means
<1>3. PICK P \in Seq(Sign), R \in Ops : Writes(g.text, P, R) /\ Reads(P, W) BY Zenon DEF Means
<1>4. "{" \in Sign /\ "(" \in Sign BY DEF Sign
<1>5. <<"{">> \in Seq(Sign) /\ \A x : globLoop(x, <<"{">>) = globStep(x, "{") BY ONLY <1>4, LoopOne, Zenon
<1>6. <<"(">> \in Seq(Sign) /\ \A x : regexLoop(x, <<"(">>) = regexStep(x, "(") BY ONLY <1>4, LoopOne, Zenon
<1>7. Opens(<<"{">>, <<"(">>)
  <2>1. \A p, r, s : globStep(GlobState(p, r, s), "{") = GlobState(p \o <<"(">>, TRUE, Append(s, "{"))
    BY ONLY StepOpen, Zenon
  <2> QED BY ONLY <1>5, <2>1, Zenon DEF Opens
<1>8. Enters(<<"(">>, {}, {<<>>})
  <2>1. \A o \in Seq(Frame) : \A A, C \in SUBSET Nodes :
          regexStep(Reading(o, A, C), "(") = Reading(Append(o, [alts |-> A, cur |-> C]), {}, {<<>>})
    BY ONLY ReadGroup, Zenon
  <2> QED BY ONLY <1>6, <2>1, Zenon DEF Enters
<1> DEFINE a == <<"{">>
           b == <<"(">>
           u == a \o g.text
           Q == b \o P
           E == {<<>>}
           N == {}
<1>9. Opens(u, Q)
  <2>1. a \in Seq(Sign) /\ b \in Seq(Sign) /\ Opens(a, b) BY ONLY <1>5, <1>6, <1>7, Zenon
  <2> HIDE DEF a, b
  <2> QED BY ONLY <1>2, <1>3, P \in Seq(Sign), R \in Ops, <2>1, OpensThen, Zenon
<1>10. Enters(Q, {}, W)
  <2>1. Concat(E, W) = W /\ E \in SUBSET Nodes /\ N \in SUBSET Nodes BY <1>2, ConcatUnit
  <2>2. b \in Seq(Sign) /\ Enters(b, N, E) BY ONLY <1>6, <1>8, Zenon
  <2> HIDE DEF b, E, N, W
  <2>3. Enters(Q, N, Concat(E, W)) BY ONLY <1>2, <1>3, P \in Seq(Sign), <2>1, <2>2, EntersThen, Zenon
  <2> QED BY ONLY <2>1, <2>3, Zenon DEF N
<1>11. u \in Seq(Sign) /\ Q \in Seq(Sign)
  <2> DEFINE t == g.text
  <2>1. a \in Seq(Sign) /\ b \in Seq(Sign) /\ t \in Seq(Sign) BY ONLY <1>2, <1>5, <1>6, Zenon
  <2> HIDE DEF a, b, t
  <2>2. a \o t \in Seq(Sign) /\ b \o P \in Seq(Sign) BY <2>1, ConcatProperties
  <2> QED BY ONLY <2>2, Zenon DEF t
<1>12. W = {} \cup W /\ {} \in SUBSET Nodes BY Zenon
<1>13. k.text = u \o <<"}">> /\ k.words = {} \cup W BY ONLY <1>1, <1>12, Zenon
<1> HIDE DEF k, u, Q, W
<1>14. Extends(k) BY ONLY <1>2, <1>9, <1>10, <1>11, <1>12, <1>13, Zenon DEF Extends
<1> QED BY ONLY <1>14, Zenon DEF k

\* One more alternative.
LEMMA ExtendsOrElse ==
    ASSUME NEW g, NEW h, Extends(g), Means(h)
    PROVE  Extends(OrElse(g, h))
<1> DEFINE k == OrElse(g, h)
           W == h.words
<1>1. PICK t \in Seq(Sign), P \in Seq(Sign), B \in SUBSET Nodes, D \in SUBSET Nodes :
        g.text = t \o <<"}">> /\ Opens(t, P) /\ Enters(P, B, D) /\ g.words = B \cup D
  BY Zenon DEF Extends
<1>2. h.text \in Seq(Sign) /\ W \in SUBSET Nodes BY Zenon DEF Means
<1>3. PICK S \in Seq(Sign), R \in Ops : Writes(h.text, S, R) /\ Reads(S, W) BY Zenon DEF Means
<1>4. Front(g.text) = t
  <2>1. "}" \in Sign BY DEF Sign
  <2>2. t \o <<"}">> = Append(t, "}") BY AppendIsConcat, <2>1
  <2>3. Front(Append(t, "}")) = t BY ONLY t \in Seq(Sign), <2>1, FrontLastAppend, Zenon
  <2> QED BY ONLY <1>1, <2>2, <2>3, Zenon
<1> DEFINE u == t \o <<",">>
           Q == P \o <<"|">>
           E == {<<>>}
           V == B \cup D
<1>5. k.text = (u \o h.text) \o <<"}">> /\ k.words = V \cup W
  <2>1. k.text = ((Front(g.text) \o <<",">>) \o h.text) \o <<"}">> /\ k.words = g.words \cup h.words
    BY DEF OrElse
  <2> QED BY ONLY <1>1, <1>4, <2>1, Zenon
<1>6. "," \in Sign /\ "|" \in Sign BY DEF Sign
<1>7. u \in Seq(Sign) /\ \A x : globLoop(x, u) = globStep(globLoop(x, t), ",")
  BY ONLY t \in Seq(Sign), <1>6, LoopLast, Zenon
<1>8. Q \in Seq(Sign) /\ \A x : regexLoop(x, Q) = regexStep(regexLoop(x, P), "|")
  BY ONLY P \in Seq(Sign), <1>6, LoopLast, Zenon
<1>9. Opens(u, Q)
  <2>1. ASSUME NEW p \in Seq(Sign), NEW s \in Seq(Sign), NEW r
        PROVE  globLoop(GlobState(p, r, s), u) = GlobState(p \o Q, TRUE, Append(s, "{"))
    <3>1. globLoop(GlobState(p, r, s), t) = GlobState(p \o P, TRUE, Append(s, "{")) BY <1>1, Zenon DEF Opens
    <3>2. globStep(GlobState(p \o P, TRUE, Append(s, "{")), ",")
            = GlobState((p \o P) \o <<"|">>, TRUE, Append(s, "{"))
      BY ONLY s \in Seq(Sign), StepClose, Zenon
    <3>3. (p \o P) \o <<"|">> = p \o Q
      <4>1. <<"|">> \in Seq(Sign) BY ONLY <1>6, LoopOne, Zenon
      <4> DEFINE c == <<"|">>
      <4> HIDE DEF c
      <4>2. c \in Seq(Sign) BY ONLY <4>1, Zenon DEF c
      <4>3. (p \o P) \o c = p \o (P \o c)
        BY ONLY p \in Seq(Sign), P \in Seq(Sign), <4>2, ConcatThree, SMTT(20)
      <4> QED BY ONLY <4>3, Zenon DEF c
    <3> HIDE DEF u, Q
    <3> QED BY ONLY <1>7, <3>1, <3>2, <3>3, Zenon
  <2> HIDE DEF u, Q
  <2> QED BY ONLY <2>1, Zenon DEF Opens
<1>10. Enters(Q, V, E)
  <2>1. ASSUME NEW o \in Seq(Frame), NEW A \in SUBSET Nodes, NEW C \in SUBSET Nodes
        PROVE  regexLoop(Reading(o, A, C), Q) = Reading(Append(o, [alts |-> A, cur |-> C]), V, E)
    <3> DEFINE f == Append(o, [alts |-> A, cur |-> C])
    <3>1. regexLoop(Reading(o, A, C), P) = Reading(f, B, D) BY <1>1, Zenon DEF Enters
    <3>2. f \in Seq(Frame) BY FrameOnTop
    <3> HIDE DEF f, Q
    <3>3. regexStep(Reading(f, B, D), "|") = Reading(f, V, E) BY <3>2, ReadGroup, Zenon
    <3>4. regexLoop(Reading(o, A, C), Q) = Reading(f, V, E) BY ONLY <1>8, <3>1, <3>3, Zenon
    <3> QED BY ONLY <3>4, Zenon DEF f
  <2> HIDE DEF Q, V, E
  <2> QED BY ONLY <2>1, Zenon DEF Enters
<1>11. V \in SUBSET Nodes /\ E \in SUBSET Nodes /\ Concat(E, W) = W BY <1>2, ConcatUnit
<1> DEFINE y == h.text
           z == u \o y
           Z == Q \o S
<1>12. y \in Seq(Sign) BY <1>2
<1> HIDE DEF k, W, u, Q, E, V
<1>13. Opens(z, Z)
  BY ONLY <1>2, <1>3, S \in Seq(Sign), R \in Ops, <1>7, <1>8, <1>9, OpensThen, Zenon
<1>14. Enters(Z, V, Concat(E, W))
  BY ONLY <1>2, <1>3, S \in Seq(Sign), <1>8, <1>10, <1>11, EntersThen, Zenon
<1>15. Enters(Z, V, W) BY ONLY <1>11, <1>14, Zenon
<1>16. z \in Seq(Sign) /\ Z \in Seq(Sign)
  <2> HIDE DEF y
  <2> QED BY <1>7, <1>8, <1>12, ConcatProperties
<1>17. k.text = z \o <<"}">> BY ONLY <1>5, Zenon
<1> HIDE DEF z, Z
<1>18. Extends(k) BY ONLY <1>2, <1>5, <1>11, <1>13, <1>15, <1>16, <1>17, Zenon DEF Extends
<1> QED BY ONLY <1>18, Zenon DEF k

\* What a glob of the list is: one that means something and, in braces, may go on.
Good(g) == Means(g) /\ (g.braces = TRUE => Extends(g))

\* A simple glob is good.
LEMMA GoodSimple ==
    ASSUME NEW g \in Simple
    PROVE  Good(g)
<1>1. CASE g \in {Word(w) : w \in {v \in Nodes : ToSet(v) \subseteq Plain}}
  <2>1. PICK w \in Nodes : g = Word(w) /\ ToSet(w) \subseteq Plain BY <1>1
  <2>2. g.braces = FALSE BY <2>1 DEF Word
  <2>3. Means(g) BY ONLY w \in Nodes, <2>1, MeansWord, Zenon
  <2> QED BY <2>2, <2>3 DEF Good
<1>2. CASE g \in {One, Star}
  <2>1. One.braces = FALSE /\ Star.braces = FALSE BY DEF One, Star
  <2> QED BY <1>2, <2>1, MeansOne, MeansStar DEF Good
<1>3. CASE g \in {Class(a, b) : a \in Verbatim, b \in Verbatim \ {"-"}}
  <2>1. PICK a \in Verbatim, b \in Verbatim \ {"-"} : g = Class(a, b) BY <1>3
  <2>2. g.braces = FALSE BY <2>1 DEF Class
  <2>3. Means(g) BY ONLY a \in Verbatim, b \in Verbatim \ {"-"}, <2>1, MeansClass, Zenon
  <2> QED BY <2>2, <2>3 DEF Good
<1>4. CASE g \in {FromTo(r[1], r[2]) : r \in {c \in Verbatim \X Verbatim : CodeOf(c[1]) <= CodeOf(c[2])}}
  <2>1. PICK r \in Verbatim \X Verbatim : g = FromTo(r[1], r[2]) BY <1>4
  <2>2. r[1] \in Verbatim /\ r[2] \in Verbatim OBVIOUS
  <2>3. g.braces = FALSE BY <2>1 DEF FromTo
  <2>4. Means(FromTo(r[1], r[2])) BY ONLY <2>2, MeansFromTo
  <2>5. Means(g) BY ONLY <2>1, <2>4, Zenon
  <2> QED BY <2>3, <2>5 DEF Good
<1> QED BY <1>1, <1>2, <1>3, <1>4 DEF Simple

\* Every glob of the list, by induction on its place.
LEMMA GlobsGood == \A g \in ToSet(Globs) : Good(g)
<1> DEFINE n == Len(Globs)
           N == {m \in Nat : \A k \in 1..n : k <= m => Good(Globs[k])}
<1>1. n \in Nat /\ DOMAIN Globs = 1..n
  <2>1. Globs \in Seq(AnyGlob) BY GlobsAssumption DEF GlobsAssumption
  <2> HIDE DEF AnyGlob
  <2> QED BY <2>1
<1>2. 0 \in N BY <1>1
<1>3. ASSUME NEW m \in Nat, m \in N PROVE m + 1 \in N
  <2>1. ASSUME NEW k \in 1..n, k <= m + 1 PROVE Good(Globs[k])
    <3>1. ASSUME NEW i \in 1..k - 1 PROVE Good(Globs[i])
      <4>1. i \in 1..n /\ i <= m BY <1>1, <2>1
      <4> QED BY <1>3, <4>1
    <3>2. \/ Globs[k] \in Simple
          \/ \E i, j \in 1..k - 1 : Globs[k] = Then(Globs[i], Globs[j])
          \/ \E i \in 1..k - 1 : Globs[k] = Braces(Globs[i])
          \/ \E i, j \in 1..k - 1 : Globs[i].braces /\ Globs[k] = OrElse(Globs[i], Globs[j])
      BY GlobsAssumption, Zenon DEF GlobsAssumption
    <3>3. CASE Globs[k] \in Simple BY <3>3, GoodSimple
    <3>4. CASE \E i, j \in 1..k - 1 : Globs[k] = Then(Globs[i], Globs[j])
      <4>1. PICK i \in 1..k - 1, j \in 1..k - 1 : Globs[k] = Then(Globs[i], Globs[j]) BY <3>4
      <4>2. Means(Globs[i]) /\ Means(Globs[j]) BY ONLY <3>1, i \in 1..k - 1, j \in 1..k - 1, Zenon DEF Good
      <4>3. Means(Globs[k]) BY ONLY <4>1, <4>2, MeansThen, Zenon
      <4>4. Globs[k].braces = FALSE BY ONLY <4>1 DEF Then
      <4> QED BY ONLY <4>3, <4>4 DEF Good
    <3>5. CASE \E i \in 1..k - 1 : Globs[k] = Braces(Globs[i])
      <4>1. PICK i \in 1..k - 1 : Globs[k] = Braces(Globs[i]) BY <3>5
      <4>2. Means(Globs[i]) BY ONLY <3>1, i \in 1..k - 1, Zenon DEF Good
      <4>3. Extends(Globs[k]) BY ONLY <4>1, <4>2, ExtendsBraces, Zenon
      <4>4. Means(Globs[k]) BY ONLY <4>3, MeansGroup, Zenon
      <4> QED BY ONLY <4>3, <4>4, Zenon DEF Good
    <3>6. CASE \E i, j \in 1..k - 1 : Globs[i].braces /\ Globs[k] = OrElse(Globs[i], Globs[j])
      <4>1. PICK i \in 1..k - 1, j \in 1..k - 1 : Globs[i].braces /\ Globs[k] = OrElse(Globs[i], Globs[j])
        BY <3>6
      <4>2. Good(Globs[i]) /\ Means(Globs[j])
        BY ONLY <3>1, i \in 1..k - 1, j \in 1..k - 1, Zenon DEF Good
      <4>3. Globs[i].braces = TRUE
        <5>1. i \in 1..n BY <1>1
        <5>2. Globs \in Seq(AnyGlob) BY GlobsAssumption DEF GlobsAssumption
        <5>3. Globs[i] \in AnyGlob
          <6> HIDE DEF AnyGlob
          <6> QED BY <1>1, <5>1, <5>2
        <5>4. Globs[i].braces \in BOOLEAN BY <5>3 DEF AnyGlob
        <5> QED BY ONLY <4>1, <5>4, Zenon
      <4>4. Extends(Globs[i]) BY ONLY <4>2, <4>3, Zenon DEF Good
      <4>5. Extends(Globs[k]) BY ONLY <4>1, <4>2, <4>4, ExtendsOrElse, Zenon
      <4>6. Means(Globs[k]) BY ONLY <4>5, MeansGroup, Zenon
      <4> QED BY ONLY <4>5, <4>6, Zenon DEF Good
    <3> QED BY <3>2, <3>3, <3>4, <3>5, <3>6, Zenon
  <2> QED BY <2>1
<1> HIDE DEF N
<1>4. \A m \in Nat : m \in N BY <1>2, <1>3, SetInduction
<1>5. \A k \in 1..n : Good(Globs[k])
  <2>1. n \in N BY <1>1, <1>4
  <2> QED BY <1>1, <2>1 DEF N
<1> QED BY <1>1, <1>5 DEF ToSet

-----------------------------------------------------------------------------
(* What the filter of a glob lets through.                                 *)

\* The pattern of a glob is no error, and reads the words of the glob.
LEMMA PatternOf ==
    ASSUME NEW g, Means(g)
    PROVE  \E P \in Seq(Sign), R \in Ops :
             /\ globToRegexPattern(g.text) = [pattern |-> P, regexed |-> Also(R, FALSE), err |-> FALSE]
             /\ Writes(g.text, P, R) /\ Reads(P, g.words)
             /\ Language(P) = g.words
             /\ R = "=" => g.words = {P} \cap Nodes
<1>1. g.words \in SUBSET Nodes BY Zenon DEF Means
<1>2. PICK P \in Seq(Sign), R \in Ops :
        /\ Writes(g.text, P, R) /\ Reads(P, g.words)
        /\ R = "=" => P \in Seq(Letters) /\ g.words = {P} \cap Nodes
  BY Zenon DEF Means
<1>3. globToRegexPattern(g.text) = [pattern |-> P, regexed |-> Also(R, FALSE), err |-> FALSE]
  <2> DEFINE e == <<>>
             s == <<"">>
             x == GlobState(P, Also(R, FALSE), s)
  <2>1. e \in Seq(Sign) /\ s \in Seq(Sign) /\ Len(s) = 1
    <3>1. "" \in Sign BY DEF Sign
    <3>2. s \in Seq(Sign) BY ONLY <3>1, LoopOne, Zenon
    <3> QED BY <3>2, EmptySeq
  <2>2. e \o P = P BY ConcatEmptySeq
  <2> HIDE DEF e, s
  <2>3. globLoop(GlobState(e, FALSE, s), g.text) = GlobState(e \o P, Also(R, FALSE), s)
    BY ONLY <1>2, <2>1, Zenon DEF Writes
  <2>4. globLoop(GlobState(e, FALSE, s), g.text) = x BY ONLY <2>2, <2>3, Zenon
  <2>5. x.pattern = P /\ x.regexed = Also(R, FALSE) /\ x.err = FALSE /\ x.groupStartStack = s
    BY DEF GlobState
  <2>6. ~(Len(s) > 1) BY <2>1
  <2> HIDE DEF x
  <2>7. globToRegexPattern(g.text)
          = [pattern |-> x.pattern, regexed |-> x.regexed, err |-> x.err \/ Len(x.groupStartStack) > 1]
    BY ONLY <2>4, Zenon DEF globToRegexPattern, GlobState, e, s
  <2>8. (x.err \/ Len(x.groupStartStack) > 1) = FALSE BY ONLY <2>5, <2>6, Zenon
  <2> QED BY ONLY <2>5, <2>7, <2>8, Zenon
<1>4. Language(P) = g.words
  <2> DEFINE W == g.words
             E == {<<>>}
             o == <<>>
             f == [alts |-> {}, cur |-> {<<>>}]
             h == [alts |-> {}, cur |-> W]
  <2>1. o \in Seq(Frame) /\ E \in SUBSET Nodes /\ {} \in SUBSET Nodes /\ Concat(E, W) = W
    BY <1>1, ConcatUnit, EmptySeq
  <2>2. regexLoop(Reading(o, {}, E), P) = Reading(o, {}, Concat(E, W))
    <3> HIDE DEF o, E, W
    <3> QED BY ONLY <1>2, <2>1, Zenon DEF Reads, W
  <2>3. regexLoop(Reading(o, {}, E), P) = Reading(o, {}, W) BY ONLY <2>1, <2>2, Zenon
  <2>4. Append(<<>>, f) = <<f>> /\ Append(<<>>, h) = <<h>>
    <3> HIDE DEF f, h
    <3> QED OBVIOUS
  <2>5. Reading(o, {}, W).open = <<h>>
    <3>1. \A z : [open |-> z, inclass |-> FALSE, class |-> <<>>].open = z BY Zenon
    <3>2. Reading(o, {}, W) = [open |-> Append(<<>>, h), inclass |-> FALSE, class |-> <<>>] BY Zenon DEF Reading
    <3> QED BY ONLY <2>4, <3>1, <3>2, Zenon
  <2>6. Head(<<h>>) = h /\ h.alts \cup h.cur = W OBVIOUS
  <2>7. Reading(o, {}, E) = [open |-> <<f>>, inclass |-> FALSE, class |-> <<>>] BY ONLY <2>4, Zenon DEF Reading
  <2> DEFINE y == regexLoop([open |-> <<f>>, inclass |-> FALSE, class |-> <<>>], P)
  <2>8. Language(P) = Head(y.open).alts \cup Head(y.open).cur BY Zenon DEF Language
  <2>9. y = Reading(o, {}, W) BY ONLY <2>3, <2>7, Zenon
  <2> HIDE DEF y, f, h, W
  <2>10. Language(P) = W BY ONLY <2>5, <2>6, <2>8, <2>9, Zenon
  <2> QED BY ONLY <2>10, Zenon DEF W
<1> QED BY <1>2, <1>3, <1>4, Zenon

\* The filter of a glob lets a node through if it is one of the glob's words.
Passes(c, v) == Readable(c.pattern) /\ IF c.regexed THEN v \in Language(c.pattern) ELSE v = c.pattern

\* A pattern without a backslash is a string that the backend can read.
LEMMA SignsReadable ==
    ASSUME NEW P \in Seq(Sign)
    PROVE  Readable(P)
<1>1. "\\" \notin Sign BY DEF Sign, Plain
<1>2. \A i \in DOMAIN P : P[i] \in Sign OBVIOUS
<1> QED BY <1>1, <1>2 DEF Readable, ToSet

\* The pattern of a glob that means something is no error, and lets its words through.
LEMMA FilterOf ==
    ASSUME NEW g, Means(g), NEW v \in Nodes
    PROVE  /\ globToRegexPattern(g.text).err = FALSE
           /\ globToRegexPattern(g.text).regexed \in BOOLEAN
           /\ Passes(globToRegexPattern(g.text), v) <=> v \in g.words
<1> DEFINE c == globToRegexPattern(g.text)
<1>1. PICK P \in Seq(Sign), R \in Ops :
        /\ c = [pattern |-> P, regexed |-> Also(R, FALSE), err |-> FALSE]
        /\ Language(P) = g.words
        /\ R = "=" => g.words = {P} \cap Nodes
  BY PatternOf, Zenon
<1> HIDE DEF c
<1>2. c.err = FALSE /\ c.pattern = P /\ c.regexed = Also(R, FALSE) BY <1>1
<1>3. Readable(c.pattern) BY ONLY <1>2, P \in Seq(Sign), SignsReadable, Zenon
<1>4. CASE R = "=~"
  <2>1. c.regexed = TRUE BY ONLY <1>2, <1>4, Zenon DEF Also
  <2>2. Passes(c, v) <=> v \in g.words BY ONLY <1>1, <1>2, <1>3, <2>1, Zenon DEF Passes
  <2> QED BY ONLY <1>2, <2>1, <2>2, Zenon DEF c
<1>5. CASE R = "="
  <2>1. c.regexed = FALSE
    <3>1. Also(R, FALSE) = FALSE BY ONLY <1>5 DEF Also
    <3> QED BY ONLY <1>2, <3>1, Zenon
  <2>2. g.words = {P} \cap Nodes BY ONLY <1>1, <1>5, Zenon
  <2>3. Passes(c, v) <=> v = P BY ONLY <1>2, <1>3, <2>1, Zenon DEF Passes
  <2>4. Passes(c, v) <=> v \in g.words BY ONLY v \in Nodes, <2>2, <2>3, Zenon
  <2> QED BY ONLY <1>2, <2>1, <2>4, Zenon DEF c
<1> QED BY <1>4, <1>5 DEF Ops

\* A text "*" is left out: it matches every node.
LEMMA StarText ==
    ASSUME NEW g, Means(g), g.text = <<"*">>
    PROVE  g.words = Nodes
<1>1. PICK P \in Seq(Sign), R \in Ops :
        /\ globToRegexPattern(g.text) = [pattern |-> P, regexed |-> Also(R, FALSE), err |-> FALSE]
        /\ Language(P) = g.words
  BY PatternOf, Zenon
<1>2. PICK Q \in Seq(Sign), S \in Ops :
        /\ globToRegexPattern(Star.text) = [pattern |-> Q, regexed |-> Also(S, FALSE), err |-> FALSE]
        /\ Language(Q) = Star.words
  BY PatternOf, MeansStar, Zenon
<1>3. Star.text = <<"*">> /\ Star.words = Nodes BY DEF Star
<1>4. [pattern |-> P, regexed |-> Also(R, FALSE), err |-> FALSE]
        = [pattern |-> Q, regexed |-> Also(S, FALSE), err |-> FALSE]
  BY <1>1, <1>2, <1>3, Zenon
<1>5. P = Q BY ONLY <1>4
<1> QED BY ONLY <1>1, <1>2, <1>3, <1>5, Zenon

\* A text that is no glob is no "*" either.
LEMMA RefusedText ==
    ASSUME NEW g, Refused(g)
    PROVE  g.words = {} /\ globToRegexPattern(g.text).err /\ g.text # <<"*">>
<1>1. g.words = {} /\ globToRegexPattern(g.text).err BY Zenon DEF Refused
<1>2. globToRegexPattern(Star.text).err = FALSE
  <2>1. <<>> \in Nodes
    <3>1. {} \in SUBSET Nodes OBVIOUS
    <3> QED BY <3>1, ConcatUnit
  <2> QED BY <2>1, MeansStar, FilterOf, Zenon
<1>3. Star.text = <<"*">> BY DEF Star
<1> QED BY ONLY <1>1, <1>2, <1>3, Zenon

-----------------------------------------------------------------------------
(* The labels of a series.                                                 *)

\* A path that is sent.
Path(p) ==
    /\ p \in Seq(Seq(STRING)) /\ Len(p) >= 2 /\ p[1] # <<>>
    /\ \A i \in 2..Len(p) : p[i] \in Nodes

Series(p) == Stored(convertGraphite(p))

\* The name is never empty.
LEMMA NameNotEmpty ==
    ASSUME NEW p, Path(p)
    PROVE  Dashless(p[1]) # <<>>
<1>1. p \in Seq(Seq(STRING)) /\ Len(p) >= 2 /\ p[1] # <<>> BY DEF Path
<1>2. p[1] \in Seq(STRING) BY <1>1
<1> DEFINE q == p[1]
<1>3. q \in Seq(STRING) /\ q # <<>> BY <1>1, <1>2
<1> HIDE DEF q
<1>4. 1 \in DOMAIN q BY <1>3
<1>5. DOMAIN Dashless(q) = DOMAIN q BY DEF Dashless
<1>6. DOMAIN <<>> = {} OBVIOUS
<1>7. Dashless(q) # <<>> BY <1>4, <1>5, <1>6, Zenon
<1> QED BY <1>7 DEF q

\* The labels of a series, and their values.
LEMMA SeriesIs ==
    ASSUME NEW p, Path(p)
    PROVE  LET name == Dashless(p[1])
               s == Series(p)
           IN  /\ DOMAIN s = {NameLabel} \cup {labelName(name, i) : i \in {j \in 1..Len(p) - 1 : p[j + 1] # <<>>}}
               /\ s[NameLabel] = name
               /\ \A i \in 1..Len(p) - 1 : p[i + 1] # <<>> => s[labelName(name, i)] = p[i + 1]
<1> DEFINE name == Dashless(p[1])
           L == {NameLabel} \cup {labelName(name, i) : i \in 1..Len(p) - 1}
           c == [l \in L |-> IF l = NameLabel THEN name ELSE p[l[2] + 1]]
           D == {k \in L : c[k] # <<>>}
           s == Series(p)
<1>1. convertGraphite(p) = c BY DEF convertGraphite
<1>2. s = [l \in D |-> c[l]] BY <1>1 DEF Series, Stored
<1>3. name # <<>> BY NameNotEmpty
<1>4. Len(p) \in Nat BY DEF Path
<1> HIDE DEF name
<1>5. NameLabel \in L /\ c[NameLabel] = name OBVIOUS
<1>6. ASSUME NEW i \in 1..Len(p) - 1
      PROVE  labelName(name, i) \in L /\ labelName(name, i) # NameLabel /\ c[labelName(name, i)] = p[i + 1]
  <2>1. i # 0 BY <1>4
  <2>2. labelName(name, i) # NameLabel BY <2>1 DEF labelName, NameLabel
  <2>3. labelName(name, i)[2] = i BY DEF labelName
  <2>4. labelName(name, i) \in L OBVIOUS
  <2> QED BY <2>2, <2>3, <2>4
<1> HIDE DEF c
<1>7. \A l \in L : l = NameLabel \/ \E i \in 1..Len(p) - 1 : l = labelName(name, i) OBVIOUS
<1>8. DOMAIN s = D BY <1>2
<1>9. ASSUME NEW l PROVE l \in D <=> l \in {NameLabel} \cup {labelName(name, i) : i \in {j \in 1..Len(p) - 1 : p[j + 1] # <<>>}}
  <2> HIDE DEF L
  <2>1. l = NameLabel => l \in D BY <1>3, <1>5
  <2>2. ASSUME NEW i \in 1..Len(p) - 1, p[i + 1] # <<>> PROVE labelName(name, i) \in D BY <1>6, <2>2
  <2>3. ASSUME l \in D, l # NameLabel PROVE \E i \in {j \in 1..Len(p) - 1 : p[j + 1] # <<>>} : l = labelName(name, i)
    <3>1. PICK i \in 1..Len(p) - 1 : l = labelName(name, i) BY <1>7, <2>3
    <3>2. p[i + 1] # <<>> BY <1>6, <2>3, <3>1
    <3> QED BY <3>1, <3>2
  <2> QED BY <2>1, <2>2, <2>3
<1>10. DOMAIN s = {NameLabel} \cup {labelName(name, i) : i \in {j \in 1..Len(p) - 1 : p[j + 1] # <<>>}}
  BY <1>8, <1>9
<1>11. s[NameLabel] = name BY <1>2, <1>3, <1>5
<1>12. ASSUME NEW i \in 1..Len(p) - 1, p[i + 1] # <<>> PROVE s[labelName(name, i)] = p[i + 1]
  BY <1>2, <1>6, <1>12
<1> QED BY <1>10, <1>11, <1>12 DEF name

\* A label that is not there is an empty node.
LEMMA LabelValueIs ==
    ASSUME NEW p, Path(p)
    PROVE  /\ LabelValue(Series(p), NameLabel) = Dashless(p[1])
           /\ \A i \in Nat \ {0} :
                LabelValue(Series(p), labelName(Dashless(p[1]), i)) = NodeAt(p, i + 1)
<1> DEFINE name == Dashless(p[1])
           s == Series(p)
           K == {j \in 1..Len(p) - 1 : p[j + 1] # <<>>}
<1>1. /\ DOMAIN s = {NameLabel} \cup {labelName(name, i) : i \in K}
      /\ s[NameLabel] = name
      /\ \A i \in 1..Len(p) - 1 : p[i + 1] # <<>> => s[labelName(name, i)] = p[i + 1]
  BY SeriesIs
<1>2. Len(p) \in Nat BY DEF Path
<1> HIDE DEF name, s
<1>3. LabelValue(s, NameLabel) = name BY <1>1 DEF LabelValue
<1>4. ASSUME NEW i \in Nat \ {0} PROVE LabelValue(s, labelName(name, i)) = NodeAt(p, i + 1)
  <2>1. labelName(name, i) # NameLabel BY DEF labelName, NameLabel
  <2>2. \A j : labelName(name, j) = labelName(name, i) => j = i BY DEF labelName
  <2>3. labelName(name, i) \in DOMAIN s <=> i \in K BY <1>1, <2>1, <2>2
  <2>4. CASE i \in K
    <3>1. LabelValue(s, labelName(name, i)) = p[i + 1] BY <1>1, <2>3, <2>4 DEF LabelValue
    <3>2. NodeAt(p, i + 1) = p[i + 1] BY <1>2, <2>4 DEF NodeAt
    <3> QED BY <3>1, <3>2
  <2>5. CASE i \notin K
    <3>1. LabelValue(s, labelName(name, i)) = <<>> BY <2>3, <2>5 DEF LabelValue
    <3>2. i + 1 <= Len(p) => i \in 1..Len(p) - 1 BY <1>2
    <3>3. NodeAt(p, i + 1) = <<>> BY <2>5, <3>2 DEF NodeAt
    <3> QED BY <3>1, <3>3
  <2> QED BY <2>4, <2>5
<1> QED BY <1>3, <1>4 DEF name, s

-----------------------------------------------------------------------------
(* Selectors.                                                              *)

\* A filter lets a series through.
Holds(f, s) ==
    /\ Readable(f.Value)
    /\ IF f.IsRegexp THEN LabelValue(s, f.Label) \in Language(f.Value) ELSE LabelValue(s, f.Label) = f.Value

\* A selector asks for the name and for what each filter asks for.
LEMMA SelectsBuild ==
    ASSUME NEW name, NEW filters, NEW s, \A k \in DOMAIN filters : filters[k].IsRegexp \in BOOLEAN
    PROVE  Selects(Build(name, filters), s)
             <=> /\ Readable(name) /\ LabelValue(s, NameLabel) = name
                 /\ \A k \in DOMAIN filters : Holds(filters[k], s)
<1> DEFINE M(k) == [label |-> filters[k].Label, value |-> filters[k].Value,
                    op |-> IF filters[k].IsRegexp THEN "=~" ELSE "="]
           m0 == [label |-> NameLabel, op |-> "=", value |-> name]
           Lets(m) == /\ Readable(m.value)
                      /\ IF m.op = "=" THEN LabelValue(s, m.label) = m.value
                         ELSE LabelValue(s, m.label) \in Language(m.value)
<1>1. Build(name, filters) = {m0} \cup {M(k) : k \in DOMAIN filters} BY DEF Build
<1>2. Selects(Build(name, filters), s) <=> \A m \in Build(name, filters) : Lets(m) BY Zenon DEF Selects
<1>3. Lets(m0) <=> Readable(name) /\ LabelValue(s, NameLabel) = name OBVIOUS
<1>4. ASSUME NEW k \in DOMAIN filters PROVE Lets(M(k)) <=> Holds(filters[k], s)
  <2>1. CASE filters[k].IsRegexp
    <3>1. M(k).op = "=~" /\ M(k).label = filters[k].Label /\ M(k).value = filters[k].Value BY <2>1
    <3> HIDE DEF M
    <3>2. M(k).op # "=" BY <3>1
    <3> QED BY <2>1, <3>1, <3>2, Zenon DEF Holds
  <2>2. CASE ~filters[k].IsRegexp
    <3>1. M(k).op = "=" /\ M(k).label = filters[k].Label /\ M(k).value = filters[k].Value BY <2>2
    <3> HIDE DEF M
    <3> QED BY <2>2, <3>1, Zenon DEF Holds
  <2> QED BY <2>1, <2>2
<1> HIDE DEF M, m0, Lets
<1>5. (\A m \in Build(name, filters) : Lets(m)) <=> Lets(m0) /\ \A k \in DOMAIN filters : Lets(M(k))
  BY <1>1, Zenon
<1> QED BY <1>2, <1>3, <1>4, <1>5, Zenon

\* A node of a path, and the empty one after it, is a node.
LEMMA NodeAtType ==
    ASSUME NEW p, Path(p), NEW i \in Nat, i >= 2
    PROVE  NodeAt(p, i) \in Nodes
<1>1. {} \in SUBSET Nodes OBVIOUS
<1>2. <<>> \in Nodes BY <1>1, ConcatUnit
<1>3. Len(p) \in Nat BY DEF Path
<1>4. i <= Len(p) => i \in 2..Len(p) BY <1>3
<1> QED BY <1>2, <1>4 DEF Path, NodeAt

\* The texts of a target.
Texts(target) == [i \in DOMAIN target |-> target[i].text]

\* The texts of a target are as many as its nodes, and texts.
LEMMA TextsAre ==
    ASSUME NEW target \in Targets
    PROVE  /\ target \in Seq(AnyGlob) /\ Len(target) \in Nat /\ Len(target) >= 1
           /\ DOMAIN target = 1..Len(target)
           /\ Texts(target) \in Seq(Seq(STRING)) /\ Len(Texts(target)) = Len(target)
           /\ \A i \in 1..Len(target) : Texts(target)[i] = target[i].text
<1>1. target \in Seq(AnyGlob) /\ target # <<>> BY TargetsAssumption DEF TargetsAssumption
<1>2. ASSUME NEW g \in AnyGlob PROVE g.text \in Seq(STRING) BY DEF AnyGlob
<1> HIDE DEF AnyGlob
<1>3. Len(target) \in Nat /\ DOMAIN target = 1..Len(target) BY <1>1
<1>4. Len(target) >= 1 BY <1>1, <1>3, EmptySeq
<1>5. \A i \in 1..Len(target) : target[i].text \in Seq(STRING) BY <1>1, <1>2
<1>6. Texts(target) = [i \in 1..Len(target) |-> target[i].text] BY <1>3 DEF Texts
<1> DEFINE t == Texts(target)
<1>7. t \in [1..Len(target) -> Seq(STRING)] BY <1>5, <1>6
<1>8. \A i \in 1..Len(target) : t[i] = target[i].text BY <1>6
<1> HIDE DEF t
<1>9. t \in Seq(Seq(STRING)) /\ Len(t) = Len(target) BY <1>3, <1>7
<1> QED BY <1>1, <1>3, <1>4, <1>8, <1>9 DEF t

\* A node of a target without escapes is a glob that means something, or a text that is
\* none.
LEMMA TargetNode ==
    ASSUME NEW target \in Targets, ~HasEscapes(target), NEW i \in 2..Len(target)
    PROVE  Means(target[i]) \/ Refused(target[i])
<1>1. target[i] \in ToSet(Globs) \/ Refused(target[i]) \/ IsEscaped(target[i])
  BY TargetsAssumption DEF TargetsAssumption
<1>2. ~IsEscaped(target[i]) BY Zenon DEF HasEscapes
<1> QED BY ONLY <1>1, <1>2, GlobsGood, Zenon DEF Good

\* The name of a selector can be read.
LEMMA NameReadable ==
    ASSUME NEW target \in Targets
    PROVE  Readable(Dashless(target[1].text))
<1> DEFINE t == target[1].text
<1>1. "\\" \notin ToSet(t) BY TargetsAssumption DEF TargetsAssumption
<1> HIDE DEF t
<1>2. \A i \in DOMAIN t : t[i] # "\\" BY <1>1 DEF ToSet
<1>3. DOMAIN Dashless(t) = DOMAIN t /\ \A i \in DOMAIN t : Dashless(t)[i] # "\\" BY <1>2 DEF Dashless
<1>4. Readable(Dashless(t))
  <2> DEFINE d == Dashless(t)
  <2> HIDE DEF d
  <2>1. \A i \in DOMAIN d : d[i] # "\\" BY <1>3 DEF d
  <2> QED BY <2>1 DEF Readable, ToSet, d
<1> QED BY <1>4 DEF t

\* All of two lists of filters.
LEMMA ConcatForall ==
    ASSUME NEW X, NEW F \in Seq(X), NEW E \in Seq(X), NEW Y
    PROVE  (\A k \in DOMAIN (F \o E) : (F \o E)[k] \in Y)
             <=> (\A k \in DOMAIN F : F[k] \in Y) /\ (\A k \in DOMAIN E : E[k] \in Y)
<1> DEFINE G == F \o E
<1>1. /\ G \in Seq(X) /\ Len(G) = Len(F) + Len(E) /\ Len(F) \in Nat /\ Len(E) \in Nat
      /\ \A i \in 1..Len(G) : G[i] = IF i <= Len(F) THEN F[i] ELSE E[i - Len(F)]
  BY ConcatProperties
<1> HIDE DEF G
<1>2. DOMAIN G = 1..Len(G) /\ DOMAIN F = 1..Len(F) /\ DOMAIN E = 1..Len(E) BY <1>1
<1>3. ASSUME \A k \in DOMAIN G : G[k] \in Y, NEW k \in 1..Len(F) PROVE F[k] \in Y
  <2>1. k \in 1..Len(G) /\ k <= Len(F) BY <1>1
  <2> QED BY <1>1, <1>2, <1>3, <2>1
<1>4. ASSUME \A k \in DOMAIN G : G[k] \in Y, NEW k \in 1..Len(E) PROVE E[k] \in Y
  <2>1. /\ k + Len(F) \in 1..Len(G) /\ ~(k + Len(F) <= Len(F)) /\ (k + Len(F)) - Len(F) = k BY <1>1
  <2>2. G[k + Len(F)] = E[k] BY <1>1, <2>1
  <2> QED BY <1>2, <1>4, <2>1, <2>2
<1>5. ASSUME \A k \in DOMAIN F : F[k] \in Y, \A k \in DOMAIN E : E[k] \in Y, NEW k \in 1..Len(G) PROVE G[k] \in Y
  <2>1. k <= Len(F) => k \in 1..Len(F) BY <1>1
  <2>2. ~(k <= Len(F)) => k - Len(F) \in 1..Len(E) BY <1>1
  <2> QED BY <1>1, <1>2, <1>5, <2>1, <2>2
<1>6. (\A k \in DOMAIN G : G[k] \in Y) <=> (\A k \in DOMAIN F : F[k] \in Y) /\ (\A k \in DOMAIN E : E[k] \in Y)
  BY ONLY <1>2, <1>3, <1>4, <1>5, Zenon
<1> QED BY ONLY <1>6, Zenon DEF G

\* What a filter asks for.
LEMMA HoldsFilter ==
    ASSUME NEW label, NEW value, NEW re \in BOOLEAN, NEW s
    PROVE  /\ LabelFilter(label, value, re).IsRegexp = re
           /\ Holds(LabelFilter(label, value, re), s)
                <=> Passes([pattern |-> value, regexed |-> re], LabelValue(s, label))
<1> DEFINE f == LabelFilter(label, value, re)
           c == [pattern |-> value, regexed |-> re]
<1>1. f.IsRegexp = re /\ f.Label = label /\ f.Value = value BY Zenon DEF LabelFilter
<1>2. c.pattern = value /\ c.regexed = re BY Zenon
<1> HIDE DEF f, c
<1>3. Holds(f, s) <=> Passes(c, LabelValue(s, label)) BY ONLY <1>1, <1>2, Zenon DEF Holds, Passes
<1> QED BY ONLY <1>1, <1>3, Zenon DEF f, c

\* The selector of a target without escapes selects the series of the paths that match.
LEMMA SelectsGlobs ==
    ASSUME NEW target \in Targets, ~HasEscapes(target), NEW p, Path(p), NEW terminal \in BOOLEAN
    PROVE  LET conv == ConvertGraphiteTarget(Texts(target), terminal)
           IN  Selects(Build(conv.name, conv.filters), Series(p))
                 <=> MatchesTo(p, target, IF terminal THEN Len(target) + 1 ELSE Len(target))
<1> DEFINE nodes == Texts(target)
           n == Len(nodes)
           name == Dashless(nodes[1])
           c == [i \in 1..n - 1 |-> globToRegexPattern(nodes[i + 1])]
           K == {i \in 1..n - 1 : nodes[i + 1] # <<"*">>}
           kept == InOrder(K)
           conv == ConvertGraphiteTarget(nodes, terminal)
           s == Series(p)
           m == IF terminal THEN n + 1 ELSE n
           F == [k \in DOMAIN kept |-> LabelFilter(labelName(name, kept[k]), c[kept[k]].pattern, c[kept[k]].regexed)]
           E == EndFilter(name, n, terminal)
           W(i) == IF i <= n THEN target[i].words ELSE {<<>>}
<1>1. /\ n \in Nat /\ n >= 1 /\ Len(target) = n
      /\ \A i \in 1..n : nodes[i] = target[i].text
  BY TextsAre
<1>2. conv = IF \E k \in DOMAIN kept : c[kept[k]].err
             THEN [name |-> <<>>, filters |-> <<>>]
             ELSE [name |-> name, filters |-> F \o E]
  <2> HIDE DEF nodes
  <2> QED BY ONLY Zenon DEF ConvertGraphiteTarget
<1>3. /\ kept \in [1..Cardinality(K) -> K] /\ DOMAIN kept = 1..Cardinality(K) /\ Cardinality(K) \in Nat
      /\ \A i \in K : \E k \in DOMAIN kept : kept[k] = i
  <2>1. IsFiniteSet(1..n - 1) BY <1>1, FS_Interval
  <2>2. K \in SUBSET Int /\ K \subseteq 1..n - 1 BY <1>1
  <2>3. IsFiniteSet(K) BY <2>1, <2>2, FS_Subset
  <2> HIDE DEF K
  <2> QED BY <2>2, <2>3, InOrderElements
<1>4. /\ LabelValue(s, NameLabel) = Dashless(p[1])
      /\ \A i \in Nat \ {0} : LabelValue(s, labelName(Dashless(p[1]), i)) = NodeAt(p, i + 1)
  BY LabelValueIs
<1>5. ASSUME NEW i \in 1..n - 1
      PROVE  /\ i + 1 \in 2..n /\ nodes[i + 1] = target[i + 1].text
             /\ c[i] = globToRegexPattern(target[i + 1].text)
             /\ Means(target[i + 1]) \/ Refused(target[i + 1])
  <2>1. i + 1 \in 2..Len(target) /\ i + 1 \in 1..n /\ i + 1 \in 2..n BY <1>1
  <2>2. nodes[i + 1] = target[i + 1].text BY <1>1, <2>1
  <2>3. c[i] = globToRegexPattern(nodes[i + 1]) BY Zenon
  <2>4. Means(target[i + 1]) \/ Refused(target[i + 1]) BY ONLY target \in Targets, ~HasEscapes(target), <2>1, TargetNode
  <2> QED BY ONLY <2>1, <2>2, <2>3, <2>4, Zenon
<1>6. name = Dashless(target[1].text)
  <2>1. 1 \in 1..n BY <1>1
  <2>2. nodes[1] = target[1].text BY <1>1, <2>1
  <2> QED BY <2>2
<1>7. K \subseteq 1..n - 1 /\ \A i \in 1..n - 1 : i \in K <=> nodes[i + 1] # <<"*">> OBVIOUS
<1>8. MatchesTo(p, target, m) <=> Dashless(p[1]) = name /\ \A i \in 2..m : NodeAt(p, i) \in W(i)
  <2> HIDE DEF name, m
  <2> QED BY ONLY <1>1, <1>6, Zenon DEF MatchesTo
<1>9. m \in Nat /\ \A i \in 2..m : i \in Nat /\ i >= 2 BY <1>1
<1>10. \A i \in 2..m : NodeAt(p, i) \in Nodes BY <1>9, NodeAtType
<1> HIDE DEF c, K, kept, s, conv, nodes, name, n, W
<1>11. CASE \E k \in DOMAIN kept : c[kept[k]].err
  <2>1. PICK k \in DOMAIN kept : c[kept[k]].err BY <1>11
  <2>2. conv.name = <<>> /\ conv.filters = <<>> BY <1>2, <1>11
  <2> DEFINE i == kept[k]
  <2>3. i \in 1..n - 1 BY <1>3, <1>7
  <2>4. /\ i + 1 \in 2..n /\ c[i] = globToRegexPattern(target[i + 1].text)
        /\ Means(target[i + 1]) \/ Refused(target[i + 1])
    BY ONLY <1>5, <2>3, Zenon
  <2>5. ~Means(target[i + 1])
    <3>1. <<>> \in Nodes
      <4>1. {} \in SUBSET Nodes OBVIOUS
      <4> QED BY <4>1, ConcatUnit
    <3>2. ASSUME Means(target[i + 1]) PROVE FALSE
      <4>1. c[i].err = FALSE BY ONLY <2>4, <3>1, <3>2, FilterOf, Zenon
      <4> QED BY ONLY <2>1, <4>1, Zenon
    <3> QED BY <3>2
  <2>6. target[i + 1].words = {} BY ONLY <2>4, <2>5, RefusedText, Zenon
  <2>7. i + 1 \in 2..m /\ i + 1 <= n BY ONLY <1>1, <2>4
  <2>8. W(i + 1) = {} BY ONLY <2>6, <2>7, Zenon DEF W
  <2>9. ~MatchesTo(p, target, m) BY ONLY <1>8, <2>7, <2>8, Zenon
  <2>10. ~Selects(Build(<<>>, <<>>), s)
    <3> DEFINE e == <<>>
    <3>1. DOMAIN e = {} OBVIOUS
    <3> HIDE DEF e
    <3>2. Selects(Build(<<>>, e), s) => LabelValue(s, NameLabel) = <<>>
      <4>1. \A j \in DOMAIN e : e[j].IsRegexp \in BOOLEAN BY ONLY <3>1, Zenon
      <4> QED BY ONLY <4>1, SelectsBuild, Zenon
    <3>3. Dashless(p[1]) # <<>> BY NameNotEmpty
    <3>4. ~Selects(Build(<<>>, e), s) BY ONLY <1>4, <3>2, <3>3, Zenon
    <3> QED BY ONLY <3>4, Zenon DEF e
  <2> QED BY ONLY <1>1, <2>2, <2>9, <2>10, Zenon DEF conv, s, nodes
<1>12. CASE ~\E k \in DOMAIN kept : c[kept[k]].err
  <2>1. conv.name = name /\ conv.filters = F \o E
    <3> HIDE DEF F, E
    <3>1. conv = [name |-> name, filters |-> F \o E] BY ONLY <1>2, <1>12, Zenon
    <3> DEFINE G == F \o E
    <3>2. conv = [name |-> name, filters |-> G] BY ONLY <3>1, Zenon
    <3> HIDE DEF G
    <3>3. conv.name = name /\ conv.filters = G BY ONLY <3>2, Zenon
    <3> QED BY ONLY <3>3, Zenon DEF G
  \* Every node is a glob.
  <2>2. ASSUME NEW i \in 1..n - 1 PROVE Means(target[i + 1])
    <3>1. SUFFICES ASSUME Refused(target[i + 1]) PROVE FALSE BY <1>5, Zenon
    <3>2. globToRegexPattern(target[i + 1].text).err /\ target[i + 1].text # <<"*">>
      BY ONLY <3>1, RefusedText, Zenon
    <3>3. i \in K /\ c[i].err BY ONLY <1>5, <1>7, <3>2, i \in 1..n - 1, Zenon
    <3>4. PICK k \in DOMAIN kept : kept[k] = i BY ONLY <1>3, <3>3, Zenon
    <3> QED BY ONLY <1>12, <3>3, <3>4, Zenon
  \* What the filter of a node asks for.
  <2>3. ASSUME Dashless(p[1]) = name, NEW i \in 1..n - 1
        PROVE  LET f == LabelFilter(labelName(name, i), c[i].pattern, c[i].regexed)
               IN  Holds(f, s) <=> NodeAt(p, i + 1) \in target[i + 1].words
    <3>1. i \in Nat \ {0} /\ i + 1 \in 2..m BY ONLY <1>1, i \in 1..n - 1
    <3>2. LabelValue(s, labelName(name, i)) = NodeAt(p, i + 1) BY ONLY <1>4, <2>3, <3>1, Zenon
    <3>3. NodeAt(p, i + 1) \in Nodes BY ONLY <1>10, <3>1, Zenon
    <3>4. /\ c[i].regexed \in BOOLEAN
          /\ Passes(c[i], NodeAt(p, i + 1)) <=> NodeAt(p, i + 1) \in target[i + 1].words
      BY ONLY <1>5, i \in 1..n - 1, <2>2, <3>3, FilterOf, Zenon
    <3> DEFINE d == [pattern |-> c[i].pattern, regexed |-> c[i].regexed]
    <3>5. d.pattern = c[i].pattern /\ d.regexed = c[i].regexed BY ONLY Zenon
    <3> HIDE DEF d
    <3>6. Passes(d, NodeAt(p, i + 1)) <=> Passes(c[i], NodeAt(p, i + 1)) BY ONLY <3>5, Zenon DEF Passes
    <3>7. Holds(LabelFilter(labelName(name, i), c[i].pattern, c[i].regexed), s)
            <=> Passes([pattern |-> c[i].pattern, regexed |-> c[i].regexed], LabelValue(s, labelName(name, i)))
      BY ONLY <3>4, HoldsFilter, Zenon
    <3> QED BY ONLY <3>2, <3>4, <3>6, <3>7, Zenon DEF d
  <2>4. ASSUME NEW k \in DOMAIN F PROVE F[k].IsRegexp \in BOOLEAN
    <3> DEFINE i == kept[k]
    <3>1. k \in DOMAIN kept /\ i \in 1..n - 1 BY <1>3, <1>7
    <3>2. F[k] = LabelFilter(labelName(name, i), c[i].pattern, c[i].regexed) BY ONLY <3>1
    <3>3. Means(target[i + 1]) /\ c[i] = globToRegexPattern(target[i + 1].text) BY ONLY <1>5, <2>2, <3>1, Zenon
    <3>4. <<>> \in Nodes
      <4>1. {} \in SUBSET Nodes OBVIOUS
      <4> QED BY <4>1, ConcatUnit
    <3>5. c[i].regexed \in BOOLEAN BY ONLY <3>3, <3>4, FilterOf, Zenon
    <3> HIDE DEF i
    <3>6. LabelFilter(labelName(name, i), c[i].pattern, c[i].regexed).IsRegexp = c[i].regexed
      BY ONLY <3>5, HoldsFilter, Zenon
    <3> HIDE DEF F
    <3> QED BY ONLY <3>2, <3>5, <3>6, Zenon
  <2> DEFINE e == LabelFilter(labelName(name, n), <<>>, FALSE)
             X == {F[k] : k \in DOMAIN F} \cup {e}
             Y == {f \in X : Holds(f, s)}
  <2>5. e.IsRegexp = FALSE BY DEF LabelFilter
  <2>6. ASSUME NEW f \in X PROVE f.IsRegexp \in BOOLEAN
    <3> HIDE DEF F, e
    <3>1. f = e \/ \E k \in DOMAIN F : f = F[k] BY ONLY f \in X, Zenon
    <3> QED BY ONLY <2>4, <2>5, <3>1, Zenon
  <2>7. F \in Seq(X) /\ DOMAIN F = DOMAIN kept
    <3>1. DOMAIN F = 1..Cardinality(K) /\ DOMAIN F = DOMAIN kept BY <1>3
    <3>2. F \in [1..Cardinality(K) -> X]
      <4>1. F = [k \in 1..Cardinality(K) |-> F[k]] BY <1>3
      <4> HIDE DEF F, e
      <4>2. \A k \in 1..Cardinality(K) : F[k] \in X BY ONLY <3>1, Zenon
      <4> HIDE DEF X
      <4> QED BY ONLY <4>1, <4>2
    <3> HIDE DEF F, X
    <3> QED BY <1>3, <3>1, <3>2
  <2>8. /\ E \in Seq(X)
        /\ terminal => DOMAIN E = {1} /\ E[1] = e
        /\ ~terminal => DOMAIN E = {}
    <3>0. e \in X BY Zenon
    <3> HIDE DEF X, e
    <3>1. CASE terminal
      <4>1. E = <<e>> BY ONLY <3>1, Zenon DEF EndFilter, e
      <4>2. <<e>> \in Seq(X) /\ DOMAIN <<e>> = {1} /\ <<e>>[1] = e BY ONLY <3>0
      <4> HIDE DEF E
      <4> QED BY ONLY <3>1, <4>1, <4>2, Zenon
    <3>2. CASE ~terminal
      <4>1. E = <<>> BY ONLY <3>2, Zenon DEF EndFilter
      <4>2. <<>> \in Seq(X) /\ DOMAIN <<>> = {} BY ONLY EmptySeq
      <4> HIDE DEF E
      <4> QED BY ONLY <3>2, <4>1, <4>2, Zenon
    <3> QED BY ONLY <3>1, <3>2, Zenon
  <2> DEFINE G == F \o E
  <2>9. ASSUME NEW k \in DOMAIN G PROVE G[k] \in X
    <3> HIDE DEF F, E, X
    <3>1. G \in Seq(X) BY <2>7, <2>8, ConcatProperties
    <3> HIDE DEF G
    <3> QED BY <3>1
  <2>10. (\A k \in DOMAIN G : G[k] \in Y) <=> (\A k \in DOMAIN F : F[k] \in Y) /\ (\A k \in DOMAIN E : E[k] \in Y)
    <3> HIDE DEF F, E, X, Y
    <3> QED BY ONLY <2>7, <2>8, ConcatForall, Zenon
  <2>11. \A f \in X : f \in Y <=> Holds(f, s) BY Zenon
  <2>12. /\ \A k \in DOMAIN F : F[k] \in X
         /\ e \in X
    BY Zenon
  <2>13. \A k \in DOMAIN kept : F[k] = LabelFilter(labelName(name, kept[k]), c[kept[k]].pattern, c[kept[k]].regexed)
    BY Zenon
  <2> HIDE DEF F, E, X, Y, G
  <2>14. Selects(Build(name, G), s) <=> Dashless(p[1]) = name /\ \A k \in DOMAIN G : G[k] \in Y
    <3>1. \A k \in DOMAIN G : G[k].IsRegexp \in BOOLEAN BY ONLY <2>6, <2>9, Zenon
    <3>2. Selects(Build(name, G), s)
            <=> /\ Readable(name) /\ LabelValue(s, NameLabel) = name
                /\ \A k \in DOMAIN G : Holds(G[k], s)
      BY ONLY <3>1, SelectsBuild, Zenon
    <3>3. Readable(name) BY ONLY <1>6, target \in Targets, NameReadable, Zenon
    <3> QED BY ONLY <1>4, <2>9, <2>11, <3>2, <3>3, Zenon
  <2>15. ASSUME Dashless(p[1]) = name
         PROVE  (\A k \in DOMAIN F : F[k] \in Y) <=> \A i \in K : NodeAt(p, i + 1) \in target[i + 1].words
    <3>1. ASSUME NEW k \in DOMAIN kept
          PROVE  F[k] \in Y <=> NodeAt(p, kept[k] + 1) \in target[kept[k] + 1].words
      <4>1. kept[k] \in 1..n - 1 BY <1>3, <1>7
      <4> DEFINE i == kept[k]
      <4> HIDE DEF i
      <4>2. i \in 1..n - 1 /\ F[k] = LabelFilter(labelName(name, i), c[i].pattern, c[i].regexed)
        BY ONLY k \in DOMAIN kept, <2>13, <4>1, Zenon DEF i
      <4>3. Holds(LabelFilter(labelName(name, i), c[i].pattern, c[i].regexed), s)
              <=> NodeAt(p, i + 1) \in target[i + 1].words
        BY ONLY <2>3, <2>15, <4>2, Zenon
      <4>4. F[k] \in X BY ONLY k \in DOMAIN kept, <2>7, <2>12, Zenon
      <4>5. F[k] \in Y <=> NodeAt(p, i + 1) \in target[i + 1].words BY ONLY <2>11, <4>2, <4>3, <4>4, Zenon
      <4> QED BY ONLY <4>5, Zenon DEF i
    <3>2. \A k \in DOMAIN kept : kept[k] \in K BY <1>3
    <3> QED BY ONLY <1>3, <2>7, <3>1, <3>2, Zenon
  <2>16. ASSUME Dashless(p[1]) = name
         PROVE  (\A k \in DOMAIN E : E[k] \in Y) <=> (terminal => NodeAt(p, n + 1) = <<>>)
    <3>1. e \in Y <=> NodeAt(p, n + 1) = <<>>
      <4>1. n \in Nat \ {0} BY <1>1
      <4>2. LabelValue(s, labelName(name, n)) = NodeAt(p, n + 1) BY ONLY <1>4, <2>16, <4>1, Zenon
      <4>3. FALSE \in BOOLEAN BY Zenon
      <4>4. Holds(e, s) <=> Passes([pattern |-> <<>>, regexed |-> FALSE], LabelValue(s, labelName(name, n)))
        BY ONLY <4>3, HoldsFilter, Zenon
      <4> DEFINE d == [pattern |-> <<>>, regexed |-> FALSE]
      <4>5. d.pattern = <<>> /\ d.regexed = FALSE BY ONLY Zenon
      <4> HIDE DEF d
      <4>6. Readable(<<>>)
        <5>1. <<>> \in Seq(Sign) BY ONLY EmptySeq
        <5> QED BY ONLY <5>1, SignsReadable
      <4>7. Passes(d, NodeAt(p, n + 1)) <=> NodeAt(p, n + 1) = <<>> BY ONLY <4>5, <4>6, Zenon DEF Passes
      <4> QED BY ONLY <2>11, <2>12, <4>2, <4>4, <4>7, Zenon DEF d
    <3> HIDE DEF e
    <3> QED BY ONLY <2>8, <3>1, Zenon
  <2>17. (\A i \in 2..m : NodeAt(p, i) \in W(i))
            <=> /\ \A i \in K : NodeAt(p, i + 1) \in target[i + 1].words
                /\ terminal => NodeAt(p, n + 1) = <<>>
    <3>1. ASSUME NEW i \in 1..n - 1, i \notin K PROVE NodeAt(p, i + 1) \in target[i + 1].words
      <4>1. target[i + 1].text = <<"*">> BY ONLY <1>5, <1>7, <3>1, Zenon
      <4>2. Means(target[i + 1]) BY ONLY <2>2, i \in 1..n - 1, Zenon
      <4>3. target[i + 1].words = Nodes BY ONLY <4>1, <4>2, StarText, Zenon
      <4>4. i + 1 \in 2..m BY ONLY <1>1, i \in 1..n - 1
      <4>5. NodeAt(p, i + 1) \in Nodes BY ONLY <1>10, <4>4, Zenon
      <4> QED BY ONLY <4>3, <4>5, Zenon
    <3>2. ASSUME NEW i \in 1..n - 1 PROVE i + 1 \in 2..m /\ W(i + 1) = target[i + 1].words
      <4>1. i + 1 \in 2..m /\ i + 1 <= n BY ONLY <1>1, i \in 1..n - 1
      <4> QED BY ONLY <4>1, Zenon DEF W
    <3>3. terminal => n + 1 \in 2..m /\ W(n + 1) = {<<>>}
      <4>1. terminal => n + 1 \in 2..m BY ONLY <1>1
      <4>2. ~(n + 1 <= n) BY ONLY <1>1
      <4>3. W(n + 1) = {<<>>} BY ONLY <4>2, Zenon DEF W
      <4> QED BY ONLY <4>1, <4>3, Zenon
    <3>4. ASSUME NEW i \in 2..m PROVE (\E j \in 1..n - 1 : i = j + 1) \/ (terminal /\ i = n + 1)
      <4>1. CASE i <= n
        <5>1. i - 1 \in 1..n - 1 /\ i = (i - 1) + 1 BY ONLY <1>1, <1>9, i \in 2..m, <4>1
        <5> QED BY ONLY <5>1, Zenon
      <4>2. CASE ~(i <= n)
        <5>1. CASE terminal
          <6>1. m = n + 1 BY ONLY <5>1, Zenon
          <6> HIDE DEF m
          <6>2. i = n + 1 BY ONLY <1>1, i \in 2..m, <4>2, <6>1
          <6> QED BY <5>1, <6>2
        <5>2. CASE ~terminal
          <6>1. m = n BY ONLY <5>2, Zenon
          <6> HIDE DEF m
          <6> QED BY ONLY <1>1, i \in 2..m, <4>2, <6>1
        <5> QED BY <5>1, <5>2
      <4> QED BY <4>1, <4>2
    <3> HIDE DEF m
    <3>5. ASSUME \A i \in 2..m : NodeAt(p, i) \in W(i)
          PROVE  /\ \A i \in K : NodeAt(p, i + 1) \in target[i + 1].words
                 /\ terminal => NodeAt(p, n + 1) = <<>>
      <4>1. ASSUME NEW i \in K PROVE NodeAt(p, i + 1) \in target[i + 1].words
        <5>1. i \in 1..n - 1 BY ONLY <1>7, i \in K, Zenon
        <5> QED BY ONLY <3>2, <3>5, <5>1, Zenon
      <4>2. ASSUME terminal PROVE NodeAt(p, n + 1) = <<>>
        <5>1. NodeAt(p, n + 1) \in {<<>>} BY ONLY <3>3, <3>5, <4>2, Zenon
        <5> QED BY ONLY <5>1, Zenon
      <4> QED BY ONLY <4>1, <4>2, Zenon
    <3>6. ASSUME /\ \A i \in K : NodeAt(p, i + 1) \in target[i + 1].words
                 /\ terminal => NodeAt(p, n + 1) = <<>>,
                 NEW i \in 2..m
          PROVE  NodeAt(p, i) \in W(i)
      <4>1. CASE \E j \in 1..n - 1 : i = j + 1
        <5>1. PICK j \in 1..n - 1 : i = j + 1 BY ONLY <4>1, Zenon
        <5>2. NodeAt(p, j + 1) \in target[j + 1].words BY ONLY <3>1, <3>6, j \in 1..n - 1, Zenon
        <5>3. W(j + 1) = target[j + 1].words BY ONLY <3>2, j \in 1..n - 1, Zenon
        <5> QED BY ONLY <5>1, <5>2, <5>3, Zenon
      <4>2. CASE terminal /\ i = n + 1
        <5>1. W(n + 1) = {<<>>} /\ NodeAt(p, n + 1) = <<>> BY ONLY <3>3, <3>6, <4>2, Zenon
        <5> QED BY ONLY <4>2, <5>1, Zenon
      <4> QED BY ONLY <3>4, i \in 2..m, <4>1, <4>2, Zenon
    <3> QED BY ONLY <3>5, <3>6, Zenon
  <2>18. Selects(Build(name, G), s) <=> MatchesTo(p, target, m)
    <3> HIDE DEF m
    <3> QED BY ONLY <1>8, <2>10, <2>14, <2>15, <2>16, <2>17, Zenon
  <2>19. conv.name = name /\ conv.filters = G BY ONLY <2>1, Zenon DEF G
  <2> HIDE DEF m
  <2>20. Selects(Build(conv.name, conv.filters), s) <=> MatchesTo(p, target, m) BY ONLY <2>18, <2>19, Zenon
  <2>21. m = IF terminal THEN Len(target) + 1 ELSE Len(target) BY ONLY <1>1, Zenon DEF m
  <2> QED BY ONLY <2>20, <2>21, Zenon DEF conv, s, nodes
<1> QED BY ONLY <1>11, <1>12, Zenon

\* A series that is selected has the name of the selector.
LEMMA SelectedName ==
    ASSUME NEW p, Path(p), NEW name, NEW filters, Selects(Build(name, filters), Series(p))
    PROVE  name = Dashless(p[1])
<1> DEFINE m == [label |-> NameLabel, op |-> "=", value |-> name]
<1>1. m \in Build(name, filters) BY Zenon DEF Build
<1>2. m.op = "=" /\ m.label = NameLabel /\ m.value = name BY Zenon
<1> HIDE DEF m
<1>3. LabelValue(Series(p), NameLabel) = name BY <1>1, <1>2, Zenon DEF Selects
<1> QED BY <1>3, LabelValueIs, Zenon

\* What the loop over a glob writes.
Written == STRING \cup {"\\", "\\.+", "[^.]", "[^.]*", "(", ")", "|"}

\* The loop has failed, or its pattern has a backslash if it has read an escaped
\* character (b) or the next one is escaped.
Marked(g, b) ==
    \/ \E p, e, r, s : Round(g, p, e, r, s, TRUE)
    \/ \E p \in Seq(Written) : \E r, s : Round(g, p, TRUE, r, s, FALSE) /\ "\\" \in ToSet(p)
    \/ \E p \in Seq(Written) : \E r, s : Round(g, p, FALSE, r, s, FALSE) /\ (b => "\\" \in ToSet(p))

\* What is in a text is in the text with something after it.
LEMMA ConcatKeeps ==
    ASSUME NEW p \in Seq(Written), NEW q \in Seq(Written)
    PROVE  /\ p \o q \in Seq(Written)
           /\ \A ch : ch \in ToSet(p) \/ ch \in ToSet(q) => ch \in ToSet(p \o q)
<1> DEFINE r == p \o q
<1>1. /\ r \in Seq(Written) /\ Len(r) = Len(p) + Len(q) /\ Len(p) \in Nat /\ Len(q) \in Nat
      /\ \A i \in 1..Len(r) : r[i] = IF i <= Len(p) THEN p[i] ELSE q[i - Len(p)]
  BY ConcatProperties
<1> HIDE DEF r
<1>2. DOMAIN r = 1..Len(r) /\ DOMAIN p = 1..Len(p) /\ DOMAIN q = 1..Len(q) BY <1>1
<1>3. ASSUME NEW i \in DOMAIN p PROVE p[i] \in ToSet(r)
  <2>1. i \in 1..Len(r) /\ i <= Len(p) BY <1>1, <1>2
  <2>2. r[i] = p[i] BY <1>1, <2>1
  <2> QED BY <1>2, <2>1, <2>2 DEF ToSet
<1>4. ASSUME NEW i \in DOMAIN q PROVE q[i] \in ToSet(r)
  <2>1. /\ i + Len(p) \in 1..Len(r) /\ ~(i + Len(p) <= Len(p)) /\ (i + Len(p)) - Len(p) = i BY <1>1, <1>2
  <2>2. r[i + Len(p)] = q[i] BY <1>1, <2>1
  <2> QED BY <1>2, <2>1, <2>2 DEF ToSet
<1>5. \A ch : ch \in ToSet(p) \/ ch \in ToSet(q) => ch \in ToSet(r) BY <1>3, <1>4 DEF ToSet
<1> QED BY ONLY <1>1, <1>5, Zenon DEF r

\* A text of one character, and of two.
LEMMA ShortTexts ==
    ASSUME NEW X, NEW a \in X, NEW d \in X
    PROVE  /\ <<a>> \in Seq(X) /\ a \in ToSet(<<a>>)
           /\ <<a, d>> \in Seq(X) /\ a \in ToSet(<<a, d>>)
<1> DEFINE p == <<a>>
           q == <<a, d>>
<1>1. p \in Seq(X) /\ 1 \in DOMAIN p /\ p[1] = a OBVIOUS
<1>2. q \in Seq(X) /\ 1 \in DOMAIN q /\ q[1] = a OBVIOUS
<1> HIDE DEF p, q
<1>3. a \in ToSet(p) /\ a \in ToSet(q) BY <1>1, <1>2 DEF ToSet
<1> QED BY ONLY <1>1, <1>2, <1>3, Zenon DEF p, q

\* The pieces of a character are texts, with a backslash if it is an escaped one.
LEMMA PiecesAre ==
    ASSUME NEW ch \in STRING
    PROVE  /\ Pieces(ch) \in Seq(Written)
           /\ ch \in EscapedRunes \/ ch = "\\" => "\\" \in ToSet(Pieces(ch))
<1>0. \A d \in Written : <<d>> \in Seq(Written) /\ d \in ToSet(<<d>>) BY ONLY ShortTexts, Zenon
<1>1. CASE ch \in EscapedRunes
  <2>1. Pieces(ch) = <<"\\", ch>> BY <1>1 DEF Pieces, EscapedRunes
  <2>2. "\\" \in Written /\ ch \in Written BY DEF Written
  <2>3. <<"\\", ch>> \in Seq(Written) /\ "\\" \in ToSet(<<"\\", ch>>)
    BY ONLY <2>2, ShortTexts, Zenon
  <2> QED BY ONLY <2>1, <2>3, Zenon
<1>2. CASE ch \notin EscapedRunes
  <2>1. CASE ch \notin {".", "?", "*", "{", "}", ","}
    <3>1. Pieces(ch) = <<ch>> BY <1>2, <2>1 DEF Pieces
    <3>2. ch \in Written BY DEF Written
    <3> QED BY ONLY <1>0, <1>2, <3>1, <3>2, Zenon
  <2>2. CASE ch \in {".", "?", "*", "{", "}", ","}
    <3>1. \/ Pieces(ch) = <<"\\.+">> \/ Pieces(ch) = <<"[^.]">> \/ Pieces(ch) = <<"[^.]*">>
          \/ Pieces(ch) = <<"(">> \/ Pieces(ch) = <<")">> \/ Pieces(ch) = <<"|">>
      BY <1>2, <2>2 DEF Pieces
    <3>2. /\ "\\.+" \in Written /\ "[^.]" \in Written /\ "[^.]*" \in Written
          /\ "(" \in Written /\ ")" \in Written /\ "|" \in Written
      BY DEF Written
    <3>3. Pieces(ch) \in Seq(Written) BY ONLY <1>0, <3>1, <3>2, Zenon
    <3>4. ch # "\\" BY <2>2
    <3> QED BY ONLY <1>2, <3>3, <3>4, Zenon
  <2> QED BY ONLY <2>1, <2>2, Zenon
<1> QED BY ONLY <1>1, <1>2, Zenon

\* One round of the loop.
LEMMA MarkedStep ==
    ASSUME NEW g, NEW b, Marked(g, b), NEW ch \in STRING
    PROVE  Marked(globStep(g, ch), b \/ ch \in EscapedRunes)
<1> DEFINE h == globStep(g, ch)
<1>1. ASSUME NEW p, NEW e, NEW r, NEW s, Round(g, p, e, r, s, TRUE)
      PROVE  Marked(h, b \/ ch \in EscapedRunes)
  <2>1. h = g BY ONLY <1>1, RoundStep, Zenon
  <2> HIDE DEF h
  <2> QED BY ONLY <1>1, <2>1, Zenon DEF Marked
<1>2. ASSUME NEW p \in Seq(Written)
      PROVE  LET q == p \o Pieces(ch)
                 z == Append(p, ch)
             IN  /\ q \in Seq(Written) /\ z \in Seq(Written)
                 /\ "\\" \in ToSet(p) => "\\" \in ToSet(q) /\ "\\" \in ToSet(z)
                 /\ ch \in EscapedRunes \/ ch = "\\" => "\\" \in ToSet(q)
  <2> DEFINE c == <<ch>>
  <2>0. ch \in Written BY DEF Written
  <2>1. Append(p, ch) = p \o c BY <2>0, AppendIsConcat
  <2>2. c \in Seq(Written) BY ONLY <2>0, ShortTexts, Zenon
  <2> HIDE DEF c
  <2>3. /\ p \o c \in Seq(Written) /\ ("\\" \in ToSet(p) => "\\" \in ToSet(p \o c))
    BY ONLY p \in Seq(Written), <2>2, ConcatKeeps, Zenon
  <2>4. /\ p \o Pieces(ch) \in Seq(Written)
        /\ \A d : d \in ToSet(p) \/ d \in ToSet(Pieces(ch)) => d \in ToSet(p \o Pieces(ch))
    BY ONLY p \in Seq(Written), ch \in STRING, PiecesAre, ConcatKeeps, Zenon
  <2>5. ch \in EscapedRunes \/ ch = "\\" => "\\" \in ToSet(Pieces(ch)) BY ONLY ch \in STRING, PiecesAre, Zenon
  <2> QED BY ONLY <2>1, <2>3, <2>4, <2>5, Zenon
<1>3. ASSUME NEW p \in Seq(Written), NEW r, NEW s, Round(g, p, TRUE, r, s, FALSE), "\\" \in ToSet(p)
      PROVE  Marked(h, b \/ ch \in EscapedRunes)
  <2> DEFINE z == Append(p, ch)
  <2>1. Round(h, z, FALSE, r, s, FALSE) BY ONLY <1>3, RoundStep, Zenon
  <2>2. z \in Seq(Written) /\ "\\" \in ToSet(z) BY ONLY <1>2, <1>3, Zenon
  <2> HIDE DEF h, z
  <2> QED BY ONLY <2>1, <2>2, Zenon DEF Marked
<1>4. ASSUME NEW p \in Seq(Written), NEW r, NEW s, Round(g, p, FALSE, r, s, FALSE),
             b => "\\" \in ToSet(p)
      PROVE  Marked(h, b \/ ch \in EscapedRunes)
  <2> DEFINE q == p \o Pieces(ch)
  <2>1. \/ ch = "\\" /\ Round(h, q, TRUE, r, s, FALSE)
        \/ ch # "\\" /\ \E u, t : Round(h, q, FALSE, u, t, FALSE)
        \/ Round(h, p, FALSE, r, s, TRUE)
    BY ONLY <1>4, RoundStep, Zenon
  <2>2. q \in Seq(Written) /\ (b \/ ch \in EscapedRunes \/ ch = "\\" => "\\" \in ToSet(q))
    BY ONLY <1>2, <1>4, Zenon
  <2> HIDE DEF h, q
  <2> QED BY ONLY <2>1, <2>2, Zenon DEF Marked
<1> HIDE DEF h
<1>5. Marked(h, b \/ ch \in EscapedRunes) BY ONLY Marked(g, b), <1>1, <1>3, <1>4, Zenon DEF Marked
<1> QED BY ONLY <1>5, Zenon DEF h

\* A text with an escaped character is an error, or has a pattern that the backend
\* cannot read (by induction on the part that the loop has read).
LEMMA EscapedText ==
    ASSUME NEW text \in Seq(STRING), NEW k \in 1..Len(text), text[k] \in EscapedRunes
    PROVE  \/ globToRegexPattern(text).err
           \/ /\ ~globToRegexPattern(text).err
              /\ ~Readable(globToRegexPattern(text).pattern)
<1> DEFINE start == [pattern |-> <<>>, escaping |-> FALSE, regexed |-> FALSE,
                     groupStartStack |-> <<"">>, err |-> FALSE]
           n == Len(text)
           after == GlobAfter(start, text)
           B(i) == \E j \in 1..i : text[j] \in EscapedRunes
           N == {i \in Nat : i <= n => Marked(after[i], B(i))}
<1>1. n \in Nat BY LenProperties
<1>2. GlobSteps(after, start, text, n) /\ globLoop(start, text) = after[n]
  <2> HIDE DEF start
  <2> QED BY GlobLoopSteps
<1>3. Marked(start, FALSE)
  <2> DEFINE e == <<>>
             t == <<"">>
  <2>1. e \in Seq(Written) BY EmptySeq
  <2>2. Round(start, e, FALSE, FALSE, t, FALSE) BY Zenon DEF Round
  <2> HIDE DEF e, start, t
  <2> QED BY ONLY <2>1, <2>2, Zenon DEF Marked
<1> HIDE DEF start, after
<1>4. 0 \in N
  <2>1. after[0] = start BY <1>1, <1>2 DEF GlobSteps
  <2>2. B(0) = FALSE OBVIOUS
  <2>3. Marked(after[0], B(0)) BY ONLY <1>3, <2>1, <2>2, Zenon
  <2> HIDE DEF B
  <2> QED BY <2>3
<1>5. ASSUME NEW i \in Nat, i \in N PROVE i + 1 \in N
  <2> HIDE DEF B
  <2> SUFFICES ASSUME i + 1 <= n PROVE Marked(after[i + 1], B(i + 1)) OBVIOUS
  <2>1. Marked(after[i], B(i)) BY <1>1, <1>5
  <2>2. i + 1 \in 0..n /\ i + 1 # 0 /\ (i + 1) - 1 = i /\ i + 1 \in 1..n BY <1>1
  <2>3. after[i + 1] = globStep(after[i], text[i + 1]) BY <1>2, <2>2 DEF GlobSteps
  <2>4. text[i + 1] \in STRING BY <2>2
  <2>5. B(i + 1) <=> B(i) \/ text[i + 1] \in EscapedRunes
    <3>1. \A j : j \in 1..i + 1 <=> j \in 1..i \/ j = i + 1 BY <1>1
    <3> QED BY ONLY <3>1, Zenon DEF B
  <2>6. Marked(globStep(after[i], text[i + 1]), B(i) \/ text[i + 1] \in EscapedRunes)
    BY ONLY <2>1, <2>4, MarkedStep, Zenon
  <2>7. Marked(after[i + 1], B(i) \/ text[i + 1] \in EscapedRunes) => Marked(after[i + 1], B(i + 1))
    BY ONLY <2>5, Zenon DEF Marked
  <2> QED BY ONLY <2>3, <2>5, <2>6, <2>7, Zenon
<1>6. B(n) = TRUE BY Zenon
<1> HIDE DEF N
<1>7. \A i \in Nat : i \in N BY <1>4, <1>5, SetInduction
<1> HIDE DEF B
<1>8. Marked(after[n], TRUE)
  <2>1. n \in N /\ n <= n BY <1>1, <1>7
  <2>2. Marked(after[n], B(n)) BY <2>1 DEF N
  <2> QED BY ONLY <1>6, <2>2, Zenon
<1> DEFINE g == globLoop(start, text)
           c == globToRegexPattern(text)
<1>9. c = [pattern |-> g.pattern, regexed |-> g.regexed, err |-> g.err \/ Len(g.groupStartStack) > 1]
  BY Zenon DEF globToRegexPattern, start
<1>10. g = after[n] BY ONLY <1>2, Zenon
<1> HIDE DEF g
<1>11. c.pattern = g.pattern /\ c.err = (g.err \/ Len(g.groupStartStack) > 1) BY ONLY <1>9
<1>12. g.err \/ "\\" \in ToSet(g.pattern)
  <2>1. \/ \E p, e, r, s : Round(g, p, e, r, s, TRUE)
        \/ \E p, e, r, s : Round(g, p, e, r, s, FALSE) /\ "\\" \in ToSet(p)
    BY ONLY <1>8, <1>10, Zenon DEF Marked
  <2>2. ASSUME NEW p, NEW e, NEW r, NEW s, Round(g, p, e, r, s, TRUE) PROVE g.err
    <3>1. g.err = TRUE BY ONLY <2>2, RoundIs, Zenon
    <3> QED BY ONLY <3>1, Zenon
  <2>3. ASSUME NEW p, NEW e, NEW r, NEW s, Round(g, p, e, r, s, FALSE), "\\" \in ToSet(p)
        PROVE  "\\" \in ToSet(g.pattern)
    <3>1. g.pattern = p BY ONLY <2>3, RoundIs, Zenon
    <3> QED BY ONLY <2>3, <3>1, Zenon
  <2> QED BY ONLY <2>1, <2>2, <2>3, Zenon
<1> HIDE DEF c
<1>13. c.err \/ (~c.err /\ ~Readable(c.pattern)) BY ONLY <1>11, <1>12, Zenon DEF Readable
<1> QED BY ONLY <1>13, Zenon DEF c

\* The selector of a target with escapes selects nothing.
LEMMA SelectsNone ==
    ASSUME NEW target \in Targets, HasEscapes(target), NEW p, Path(p), NEW terminal \in BOOLEAN
    PROVE  LET conv == ConvertGraphiteTarget(Texts(target), terminal)
           IN  ~Selects(Build(conv.name, conv.filters), Series(p))
<1> DEFINE nodes == Texts(target)
           n == Len(nodes)
           name == Dashless(nodes[1])
           c == [i \in 1..n - 1 |-> globToRegexPattern(nodes[i + 1])]
           K == {i \in 1..n - 1 : nodes[i + 1] # <<"*">>}
           kept == InOrder(K)
           conv == ConvertGraphiteTarget(nodes, terminal)
           s == Series(p)
           F == [k \in DOMAIN kept |-> LabelFilter(labelName(name, kept[k]), c[kept[k]].pattern, c[kept[k]].regexed)]
           E == EndFilter(name, n, terminal)
<1>1. /\ n \in Nat /\ n >= 1 /\ Len(target) = n /\ nodes \in Seq(Seq(STRING))
      /\ \A i \in 1..n : nodes[i] = target[i].text
  BY TextsAre
<1>2. conv = IF \E k \in DOMAIN kept : c[kept[k]].err
             THEN [name |-> <<>>, filters |-> <<>>]
             ELSE [name |-> name, filters |-> F \o E]
  <2> HIDE DEF nodes
  <2> QED BY ONLY Zenon DEF ConvertGraphiteTarget
<1>3. /\ kept \in [1..Cardinality(K) -> K] /\ DOMAIN kept = 1..Cardinality(K) /\ Cardinality(K) \in Nat
      /\ \A i \in K : \E k \in DOMAIN kept : kept[k] = i
  <2>1. IsFiniteSet(1..n - 1) BY <1>1, FS_Interval
  <2>2. K \in SUBSET Int /\ K \subseteq 1..n - 1 BY <1>1
  <2>3. IsFiniteSet(K) BY <2>1, <2>2, FS_Subset
  <2> HIDE DEF K
  <2> QED BY <2>2, <2>3, InOrderElements
<1>4. PICK i \in 2..Len(target) : IsEscaped(target[i]) BY Zenon DEF HasEscapes
<1> DEFINE t == nodes[i]
<1>5. i \in 1..n /\ i - 1 \in 1..n - 1 /\ (i - 1) + 1 = i BY <1>1
<1>6. t = target[i].text /\ t \in Seq(STRING)
  <2> HIDE DEF nodes
  <2> QED BY <1>1, <1>5
<1>7. PICK j \in DOMAIN t : t[j] \in EscapedRunes BY <1>4, <1>6 DEF IsEscaped
<1>8. t # <<"*">>
  <2>1. \A d \in DOMAIN <<"*">> : <<"*">>[d] = "*" OBVIOUS
  <2>2. "*" \notin EscapedRunes BY DEF EscapedRunes
  <2> HIDE DEF t
  <2> QED BY ONLY <1>7, <2>1, <2>2, Zenon
<1>9. i - 1 \in K /\ c[i - 1] = globToRegexPattern(t)
  <2> HIDE DEF nodes
  <2> QED BY <1>5, <1>8
<1>10. PICK k \in DOMAIN kept : kept[k] = i - 1
  <2> HIDE DEF kept, K, t
  <2> QED BY ONLY <1>3, <1>9, Zenon
<1>11. j \in 1..Len(t)
  <2> HIDE DEF t
  <2> QED BY <1>6, <1>7
<1>12. \/ globToRegexPattern(t).err
       \/ ~globToRegexPattern(t).err /\ ~Readable(globToRegexPattern(t).pattern)
  <2> HIDE DEF t
  <2> QED BY ONLY <1>6, <1>7, <1>11, EscapedText, Zenon
<1>13. F[k] = LabelFilter(labelName(name, kept[k]), c[kept[k]].pattern, c[kept[k]].regexed) /\ DOMAIN F = DOMAIN kept
  <2> HIDE DEF kept, c, name
  <2> QED BY Zenon
<1> HIDE DEF c, K, kept, s, conv, nodes, name, n, t, F
<1>14. CASE \E d \in DOMAIN kept : c[kept[d]].err
  <2>1. conv.name = <<>> BY <1>2, <1>14
  <2>2. ASSUME Selects(Build(conv.name, conv.filters), s) PROVE FALSE
    <3>1. conv.name = Dashless(p[1]) BY ONLY <2>2, Path(p), SelectedName, Zenon DEF s
    <3>2. Dashless(p[1]) # <<>> BY NameNotEmpty
    <3> QED BY ONLY <2>1, <3>1, <3>2, Zenon
  <2> QED BY ONLY <2>2, Zenon DEF conv, s, nodes
<1>15. CASE ~\E d \in DOMAIN kept : c[kept[d]].err
  <2>1. conv.filters = F \o E
    <3> DEFINE G == F \o E
    <3>1. conv = [name |-> name, filters |-> G] BY ONLY <1>2, <1>15, Zenon
    <3> HIDE DEF G
    <3>2. conv.filters = G BY ONLY <3>1, Zenon
    <3> QED BY ONLY <3>2, Zenon DEF G
  <2>2. ~Readable(F[k].Value)
    <3>1. ~c[kept[k]].err BY ONLY <1>15, k \in DOMAIN kept, Zenon
    <3>2. ~Readable(c[kept[k]].pattern) BY ONLY <1>9, <1>10, <1>12, <3>1, Zenon
    <3> DEFINE l == labelName(name, kept[k])
               v == c[kept[k]].pattern
               w == c[kept[k]].regexed
    <3> HIDE DEF l, v, w
    <3>a. F[k] = LabelFilter(l, v, w) BY ONLY <1>13, Zenon DEF l, v, w
    <3>b. LabelFilter(l, v, w).Value = v BY DEF LabelFilter
    <3>3. F[k].Value = c[kept[k]].pattern BY ONLY <3>a, <3>b, Zenon DEF v
    <3> QED BY ONLY <3>2, <3>3, Zenon
  <2>3. k \in DOMAIN conv.filters /\ conv.filters[k] = F[k]
    <3> DEFINE X == {F[d] : d \in DOMAIN F} \cup {LabelFilter(labelName(name, n), <<>>, FALSE)}
    <3>1. F \in Seq(X)
      <4>1. DOMAIN F = 1..Cardinality(K) /\ F = [d \in 1..Cardinality(K) |-> F[d]] BY <1>3, <1>13 DEF F
      <4>2. \A d \in 1..Cardinality(K) : F[d] \in X BY ONLY <4>1, Zenon
      <4> HIDE DEF X
      <4> QED BY <1>3, <4>1, <4>2
    <3>2. E \in Seq(X)
      <4> DEFINE e == LabelFilter(labelName(name, n), <<>>, FALSE)
      <4>0. e \in X BY Zenon
      <4> HIDE DEF e, X
      <4>1. E = <<e>> \/ E = <<>> BY ONLY Zenon DEF EndFilter, e
      <4>2. <<e>> \in Seq(X) /\ <<>> \in Seq(X) BY ONLY <4>0, EmptySeq
      <4> HIDE DEF E
      <4> QED BY ONLY <4>1, <4>2, Zenon
    <3> DEFINE G == F \o E
    <3> HIDE DEF X, E
    <3>3. /\ G \in Seq(X) /\ Len(G) = Len(F) + Len(E) /\ Len(F) \in Nat /\ Len(E) \in Nat
          /\ \A d \in 1..Len(G) : G[d] = IF d <= Len(F) THEN F[d] ELSE E[d - Len(F)]
      BY <3>1, <3>2, ConcatProperties
    <3>4. k \in 1..Len(F) BY <1>13, <3>1
    <3> HIDE DEF G
    <3>5. k \in 1..Len(G) /\ k <= Len(F) /\ DOMAIN G = 1..Len(G) BY <3>3, <3>4
    <3>6. k \in DOMAIN G /\ G[k] = F[k] BY <3>3, <3>5
    <3>7. conv.filters = G BY ONLY <2>1, Zenon DEF G
    <3> QED BY ONLY <3>6, <3>7, Zenon
  <2> DEFINE f == conv.filters
             m == [label |-> f[k].Label, value |-> f[k].Value, op |-> IF f[k].IsRegexp THEN "=~" ELSE "="]
  <2>4. m \in Build(conv.name, f) BY ONLY <2>3, Zenon DEF Build
  <2>5. m.value = F[k].Value
    <3>1. m.value = f[k].Value BY ONLY Zenon
    <3> QED BY ONLY <2>3, <3>1, Zenon
  <2> HIDE DEF m
  <2>6. ~Selects(Build(conv.name, f), s) BY ONLY <2>2, <2>4, <2>5, Zenon DEF Selects
  <2> QED BY ONLY <2>6, Zenon DEF conv, s, nodes, f
<1> QED BY ONLY <1>14, <1>15, Zenon

\* The selector of a target selects the series of the paths that match it, if it has no
\* escapes, and of none otherwise.
LEMMA SelectsIff ==
    ASSUME NEW target \in Targets, NEW p, Path(p), NEW terminal \in BOOLEAN
    PROVE  LET conv == ConvertGraphiteTarget(Texts(target), terminal)
           IN  Selects(Build(conv.name, conv.filters), Series(p))
                 <=> /\ ~HasEscapes(target)
                     /\ MatchesTo(p, target, IF terminal THEN Len(target) + 1 ELSE Len(target))
<1>1. CASE HasEscapes(target) BY ONLY <1>1, target \in Targets, Path(p), terminal \in BOOLEAN, SelectsNone, Zenon
<1>2. CASE ~HasEscapes(target) BY ONLY <1>2, target \in Targets, Path(p), terminal \in BOOLEAN, SelectsGlobs, Zenon
<1> QED BY ONLY <1>1, <1>2, Zenon

-----------------------------------------------------------------------------
(* The name of a series in an answer.                                      *)

\* No two labels of a series are the same.
LEMMA CountLabels ==
    ASSUME NEW K, IsFiniteSet(K), NEW name
    PROVE  LET L == {labelName(name, i) : i \in K}
           IN  IsFiniteSet(L) /\ Cardinality(L) = Cardinality(K)
<1> DEFINE L == {labelName(name, i) : i \in K}
           f == [i \in K |-> labelName(name, i)]
<1>1. f \in [K -> L] /\ \A i \in K : f[i] = labelName(name, i) OBVIOUS
<1>2. \A l \in L : \E i \in K : f[i] = l OBVIOUS
<1>3. \A i, j \in K : labelName(name, i) = labelName(name, j) => i = j BY DEF labelName
<1> HIDE DEF L, f
<1>4. f \in Surjection(K, L) BY <1>1, <1>2 DEF Surjection
<1>5. f \in Injection(K, L) BY <1>1, <1>3 DEF Injection, IsInjective
<1> QED BY <1>4, <1>5, FS_Surjection DEF L

\* The same for numbers that are moved by one.
LEMMA CountNext ==
    ASSUME NEW K \in SUBSET Int, IsFiniteSet(K)
    PROVE  LET L == {i + 1 : i \in K} IN IsFiniteSet(L) /\ Cardinality(L) = Cardinality(K)
<1> DEFINE L == {i + 1 : i \in K}
           f == [i \in K |-> i + 1]
<1>1. f \in [K -> L] /\ \A i \in K : f[i] = i + 1 OBVIOUS
<1>2. \A l \in L : \E i \in K : f[i] = l OBVIOUS
<1>3. \A i, j \in K : i + 1 = j + 1 => i = j OBVIOUS
<1> HIDE DEF L, f
<1>4. f \in Surjection(K, L) BY <1>1, <1>2 DEF Surjection
<1>5. f \in Injection(K, L) BY <1>1, <1>3 DEF Injection, IsInjective
<1> QED BY <1>4, <1>5, FS_Surjection DEF L

\* The nodes after the first, up to the number n, are in the order of the whole path.
LEMMA NodesInOrder ==
    ASSUME NEW K \in SUBSET (Nat \ {0}), IsFiniteSet(K), NEW n \in Nat
    PROVE  LET S == {i \in 1..n : i \in K}
               T == {1} \cup {i + 1 : i \in K}
           IN  /\ IsFiniteSet(S) /\ IsFiniteSet(T) /\ Cardinality(S) \in Nat /\ Cardinality(T) \in Nat
               /\ Cardinality(S) + 1 <= Cardinality(T)
               /\ InOrder(S) \in [1..Cardinality(S) -> S]
               /\ InOrder(T) \in [1..Cardinality(T) -> T]
               /\ InOrder(T)[1] = 1
               /\ \A k \in 1..Cardinality(S) : InOrder(T)[k + 1] = InOrder(S)[k] + 1
<1> DEFINE S == {i \in 1..n : i \in K}
           T == {1} \cup {i + 1 : i \in K}
           V == {i + 1 : i \in S}
           U == {1} \cup V
           m == Cardinality(S)
           f == InOrder(S)
           g == InOrder(T)
           h == [k \in 1..(m + 1) |-> IF k = 1 THEN 1 ELSE f[k - 1] + 1]
<1>1. S \in SUBSET K /\ S \in SUBSET Int /\ K \in SUBSET Int OBVIOUS
<1>2. IsFiniteSet(S) /\ m \in Nat
  <2> HIDE DEF S
  <2> QED BY <1>1, FS_Subset, FS_CardinalityType
<1>3. IsFiniteSet(T) /\ T \in SUBSET Int /\ Cardinality(T) \in Nat
  <2> DEFINE Z == {i + 1 : i \in K}
  <2>1. IsFiniteSet(Z) BY <1>1, CountNext
  <2>2. T = Z \cup {1} /\ T \in SUBSET Int BY <1>1
  <2> HIDE DEF Z, T
  <2>3. IsFiniteSet(T) BY <2>1, <2>2, FS_AddElement
  <2> QED BY <2>2, <2>3, FS_CardinalityType
<1>4. IsFiniteSet(U) /\ Cardinality(U) = m + 1 /\ U \in SUBSET Int
  <2>1. IsFiniteSet(V) /\ Cardinality(V) = m
    <3> HIDE DEF S
    <3> QED BY <1>1, <1>2, CountNext
  <2>2. 1 \notin V /\ U = V \cup {1} /\ U \in SUBSET Int BY <1>1
  <2> HIDE DEF V, U
  <2> QED BY <2>1, <2>2, FS_AddElement
<1>5. Ascending(f, S, m) /\ Ascending(g, T, Cardinality(T))
  <2> HIDE DEF S, T
  <2> QED BY <1>1, <1>2, <1>3, InOrderAscends
<1>6. /\ f \in [1..m -> S] /\ \A a, b \in 1..m : a < b => f[a] < f[b]
      /\ g \in [1..Cardinality(T) -> T]
  BY <1>5 DEF Ascending
<1>7. ASSUME NEW k \in 1..m PROVE f[k] \in S /\ f[k] \in Int /\ f[k] >= 1
  <2>1. f[k] \in S BY <1>6
  <2> QED BY <2>1
<1> HIDE DEF f, g
<1>8. Ascending(h, U, m + 1)
  <2>1. ASSUME NEW k \in 1..(m + 1) PROVE (IF k = 1 THEN 1 ELSE f[k - 1] + 1) \in U
    <3>1. CASE k = 1 BY <3>1
    <3>2. CASE k # 1
      <4>1. k - 1 \in 1..m BY <1>2, <3>2
      <4>2. f[k - 1] \in S BY <1>7, <4>1
      <4> HIDE DEF S
      <4>3. f[k - 1] + 1 \in U BY <4>2
      <4> QED BY <3>2, <4>3
    <3> QED BY <3>1, <3>2
  <2>2. h \in [1..(m + 1) -> U]
    <3> HIDE DEF U
    <3> QED BY <2>1
  <2>3. ASSUME NEW a \in 1..(m + 1), NEW b \in 1..(m + 1), a < b PROVE h[a] < h[b]
    <3>1. b # 1 /\ b - 1 \in 1..m BY <1>2, <2>3
    <3>2. h[b] = f[b - 1] + 1 BY <3>1
    <3>3. f[b - 1] \in Int /\ f[b - 1] >= 1 BY <1>7, <3>1
    <3>4. CASE a = 1
      <4>1. h[a] = 1 BY <3>4
      <4> HIDE DEF h
      <4> QED BY <3>2, <3>3, <4>1
    <3>5. CASE a # 1
      <4>1. a - 1 \in 1..m /\ a - 1 < b - 1 BY <1>2, <2>3, <3>5
      <4>2. h[a] = f[a - 1] + 1 BY <3>5
      <4>3. f[a - 1] < f[b - 1] /\ f[a - 1] \in Int BY <1>6, <1>7, <3>1, <4>1
      <4> HIDE DEF h
      <4> QED BY <3>2, <3>3, <4>2, <4>3
    <3> QED BY <3>4, <3>5
  <2> HIDE DEF h, U, m
  <2> QED BY <2>2, <2>3 DEF Ascending
<1>9. U \subseteq T BY <1>1
<1>10. ASSUME NEW a \in U, NEW b \in T \ U PROVE a < b
  <2>1. b # 1 BY <1>10
  <2>2. PICK i \in K : b = i + 1 BY <1>10, <2>1
  <2>3. i \notin S BY <1>10, <2>2
  <2>4. i > n /\ i \in Int BY <2>3
  <2>5. a = 1 \/ \E j \in S : a = j + 1 OBVIOUS
  <2>6. \A j \in S : j <= n /\ j \in Int OBVIOUS
  <2> QED BY <2>2, <2>4, <2>5, <2>6
<1>11. m + 1 <= Cardinality(T) /\ \A k \in 1..(m + 1) : h[k] = g[k]
  <2>1. Ascending(h, U, Cardinality(U)) BY <1>4, <1>8
  <2>2. Ascending(g, T, Cardinality(T)) BY <1>5
  <2>3. \A a \in U, b \in T \ U : a < b BY <1>10
  <2> HIDE DEF h, U, T
  <2>4. Cardinality(U) <= Cardinality(T) /\ \A k \in 1..Cardinality(U) : h[k] = g[k]
    BY <1>3, <1>4, <1>9, <2>1, <2>2, <2>3, AscendingBegins
  <2> QED BY <1>4, <2>4
<1>12. g[1] = 1
  <2>1. 1 \in 1..(m + 1) /\ h[1] = 1 BY <1>2
  <2> HIDE DEF h
  <2> QED BY <1>11, <2>1
<1>13. ASSUME NEW k \in 1..m PROVE g[k + 1] = f[k] + 1
  <2>1. k + 1 \in 1..(m + 1) /\ k + 1 # 1 /\ (k + 1) - 1 = k BY <1>2
  <2>2. h[k + 1] = f[k] + 1 BY <2>1
  <2> HIDE DEF h
  <2> QED BY <1>11, <2>1, <2>2
<1> HIDE DEF S, T, h
<1> QED BY <1>2, <1>3, <1>6, <1>11, <1>12, <1>13 DEF f, g, S, T

\* A list with one element before it.
LEMMA OneBefore ==
    ASSUME NEW X, NEW a \in X, NEW u \in Seq(X)
    PROVE  /\ <<a>> \o u \in Seq(X) /\ Len(<<a>> \o u) = 1 + Len(u) /\ Len(u) \in Nat
           /\ (<<a>> \o u)[1] = a
           /\ \A i \in 2..1 + Len(u) : (<<a>> \o u)[i] = u[i - 1]
<1> DEFINE h == <<a>>
           r == h \o u
<1>1. h \in Seq(X) /\ Len(h) = 1 /\ h[1] = a OBVIOUS
<1>2. Len(u) \in Nat OBVIOUS
<1> HIDE DEF h
<1>3. r \in Seq(X) /\ Len(r) = Len(h) + Len(u) BY <1>1, ConcatProperties
<1>4. \A i \in 1..Len(h) + Len(u) : r[i] = IF i <= Len(h) THEN h[i] ELSE u[i - Len(h)]
  BY <1>1, ConcatProperties
<1> HIDE DEF r
<1>5. \A i \in 1..1 + Len(u) : r[i] = IF i <= 1 THEN h[i] ELSE u[i - 1] BY ONLY <1>1, <1>4
<1>6. r[1] = a BY <1>1, <1>2, <1>5
<1>7. ASSUME NEW i \in 2..1 + Len(u) PROVE r[i] = u[i - 1]
  <2>1. i \in 1..1 + Len(u) /\ ~(i <= 1) BY <1>2
  <2> QED BY <1>5, <2>1
<1>8. Len(r) = 1 + Len(u) BY <1>1, <1>3
<1> QED BY <1>2, <1>3, <1>6, <1>7, <1>8 DEF r, h

\* The path of a series with its name as it is stored: the other nodes are the same.
LEMMA NameIs ==
    ASSUME NEW p, Path(p)
    PROVE  /\ Name(p) \in Seq({Dashless(p[1])} \cup Nodes) /\ Len(Name(p)) = Len(p)
           /\ Name(p)[1] = Dashless(p[1])
           /\ \A i \in 2..Len(p) : Name(p)[i] = p[i]
<1> DEFINE name == Dashless(p[1])
           X == {name} \cup Nodes
           n == Len(p)
           q == Name(p)
           t == Tail(p)
           h == <<name>>
<1>1. n \in Nat /\ n >= 2 /\ p \in Seq(Seq(STRING)) /\ \A i \in 2..n : p[i] \in Nodes BY DEF Path
<1>2. t = [i \in 1..(n - 1) |-> p[i + 1]]
  <2>1. p # <<>> BY <1>1
  <2>2. Len(t) = n - 1 /\ t \in Seq(Seq(STRING)) /\ \A i \in 1..(n - 1) : t[i] = p[i + 1] BY <1>1, <2>1, HeadTailProperties
  <2> HIDE DEF t
  <2> QED BY <1>1, <2>2
<1>3. t \in [1..(n - 1) -> X]
  <2>1. ASSUME NEW i \in 1..(n - 1) PROVE p[i + 1] \in X
    <3>1. i + 1 \in 2..n BY <1>1
    <3> QED BY <1>1, <3>1
  <2> HIDE DEF X, t, n
  <2> QED BY <1>2, <2>1
<1>4. name \in X OBVIOUS
<1>5. q = h \o t BY DEF Name
<1>6. \A i \in 1..(n - 1) : t[i] = p[i + 1] BY <1>2
<1> HIDE DEF X, t, n, name
<1>7. t \in Seq(X) /\ Len(t) = n - 1 BY <1>1, <1>3
<1>8. <<name>> \o t \in Seq(X) /\ Len(<<name>> \o t) = 1 + Len(t) /\ (<<name>> \o t)[1] = name
      /\ \A i \in 2..1 + Len(t) : (<<name>> \o t)[i] = t[i - 1]
  BY ONLY <1>4, <1>7, OneBefore, SMT
<1> HIDE DEF q
<1>9. q \in Seq(X) /\ Len(q) = 1 + Len(t) /\ q[1] = name /\ \A i \in 2..1 + Len(t) : q[i] = t[i - 1]
  BY ONLY <1>5, <1>8, Zenon DEF h
<1>10. Len(q) = n BY <1>1, <1>7, <1>9
<1>12. ASSUME NEW i \in 2..n PROVE q[i] = p[i]
  <2>1. i \in 2..1 + Len(t) /\ i - 1 \in 1..(n - 1) /\ (i - 1) + 1 = i BY <1>1, <1>7
  <2> QED BY <1>6, <1>9, <2>1
<1> QED BY <1>9, <1>10, <1>12 DEF X, n, name, q

\* The number of labels of a metric is enough to come to every one of them, and the
\* numbers of those that are there are the numbers of the nodes that are not empty.
LEMMA MetricIs ==
    ASSUME NEW p, Path(p), NEW keeps \in BOOLEAN
    PROVE  LET name   == Dashless(p[1])
               s      == Series(p)
               metric == IF keeps THEN s ELSE [l \in DOMAIN s \ {NameLabel} |-> s[l]]
               K      == {j \in 1..Len(p) - 1 : p[j + 1] # <<>>}
               n      == Cardinality(DOMAIN metric)
           IN  /\ IsFiniteSet(K) /\ n \in Nat /\ Cardinality(K) <= n
               /\ NameLabel \in DOMAIN metric => metric[NameLabel] = name
               /\ \A i \in Nat \ {0} : labelName(name, i) \in DOMAIN metric <=> i \in K
               /\ \A i \in K : metric[labelName(name, i)] = p[i + 1]
<1> DEFINE name   == Dashless(p[1])
           s      == Series(p)
           metric == IF keeps THEN s ELSE [l \in DOMAIN s \ {NameLabel} |-> s[l]]
           K      == {j \in 1..Len(p) - 1 : p[j + 1] # <<>>}
           L      == {labelName(name, i) : i \in K}
           n      == Cardinality(DOMAIN metric)
<1>1. /\ DOMAIN s = {NameLabel} \cup L
      /\ s[NameLabel] = name
      /\ \A i \in 1..Len(p) - 1 : p[i + 1] # <<>> => s[labelName(name, i)] = p[i + 1]
  BY SeriesIs
<1>2. Len(p) \in Nat /\ Len(p) >= 2 BY DEF Path
<1>3. IsFiniteSet(K)
  <2>1. IsFiniteSet(1..Len(p) - 1) BY <1>2, FS_Interval
  <2>2. K \in SUBSET (1..Len(p) - 1) OBVIOUS
  <2> HIDE DEF K
  <2> QED BY <2>1, <2>2, FS_Subset
<1>4. \A i \in K : i \in Nat \ {0} /\ s[labelName(name, i)] = p[i + 1] BY <1>1, <1>2
<1> HIDE DEF name, s, K
<1>5. IsFiniteSet(L) /\ Cardinality(L) = Cardinality(K) BY <1>3, CountLabels
<1>6. \A i \in Nat \ {0} : labelName(name, i) # NameLabel BY DEF labelName, NameLabel
<1>7. \A i, j : labelName(name, i) = labelName(name, j) => i = j BY DEF labelName
<1>8. NameLabel \notin L BY <1>4, <1>6
<1>9. \A i \in Nat \ {0} : labelName(name, i) \in L <=> i \in K BY <1>7
<1> HIDE DEF L
<1>10. /\ DOMAIN metric = L \/ DOMAIN metric = L \cup {NameLabel}
       /\ \A l \in DOMAIN metric : metric[l] = s[l]
  <2>1. CASE keeps
    <3>1. metric = s BY <2>1
    <3> HIDE DEF metric
    <3> QED BY <1>1, <3>1
  <2>2. CASE ~keeps
    <3>1. metric = [l \in DOMAIN s \ {NameLabel} |-> s[l]] BY <2>2
    <3> HIDE DEF metric
    <3> QED BY <1>1, <1>8, <3>1
  <2> QED BY <2>1, <2>2
<1> HIDE DEF metric
<1>11. n \in Nat /\ Cardinality(K) <= n
  <2>1. Cardinality(L) \in Nat BY <1>5, FS_CardinalityType
  <2>2. Cardinality(L \cup {NameLabel}) = Cardinality(L) + 1 BY <1>5, <1>8, FS_AddElement
  <2> QED BY <1>5, <1>10, <2>1, <2>2
<1>12. NameLabel \in DOMAIN metric => metric[NameLabel] = name BY <1>1, <1>10
<1>13. ASSUME NEW i \in Nat \ {0} PROVE labelName(name, i) \in DOMAIN metric <=> i \in K
  BY <1>6, <1>9, <1>10
<1>14. ASSUME NEW i \in K PROVE metric[labelName(name, i)] = p[i + 1]
  BY <1>4, <1>10, <1>13
<1> HIDE DEF n
<1> QED BY ONLY <1>3, <1>11, <1>12, <1>13, <1>14, Zenon DEF name, s, metric, K, n

\* A list that is longer or equal, and begins with the same, has it for a prefix.
LEMMA PrefixBy ==
    ASSUME NEW X, NEW r \in Seq(X), NEW q \in Seq(X), Len(r) <= Len(q),
           \A i \in 1..Len(r) : r[i] = q[i]
    PROVE  IsPrefix(r, q)
<1>1. Len(r) \in Nat /\ Len(q) \in Nat OBVIOUS
<1>2. SubSeq(r, 1, Len(r)) = SubSeq(q, 1, Len(r)) BY <1>1
<1> QED BY <1>2 DEF IsPrefix

\* The series of a path comes back with the nodes of the path.
LEMMA NamedIs ==
    ASSUME NEW p, Path(p), NEW keeps \in BOOLEAN
    PROVE  LET s      == Series(p)
               metric == IF keeps THEN s ELSE [l \in DOMAIN s \ {NameLabel} |-> s[l]]
               r      == ConvertPrometheusMetric(Dashless(p[1]), metric)
           IN  /\ r # <<>>
               /\ IsPrefix(r, Nonempty(Name(p)))
               /\ <<>> \notin ToSet(p) => r = Name(p)
<1> DEFINE name   == Dashless(p[1])
           s      == Series(p)
           metric == IF keeps THEN s ELSE [l \in DOMAIN s \ {NameLabel} |-> s[l]]
           r      == ConvertPrometheusMetric(name, metric)
           K      == {j \in 1..Len(p) - 1 : p[j + 1] # <<>>}
           n      == Cardinality(DOMAIN metric)
           S      == {i \in 1..n : i \in K}
           T      == {1} \cup {i + 1 : i \in K}
           X      == {name} \cup Nodes
           f      == InOrder(S)
           g      == InOrder(T)
           m      == Cardinality(S)
           q      == Name(p)
           e      == Nonempty(q)
           u      == [k \in DOMAIN f |-> metric[labelName(name, f[k])]]
           h      == <<name>>
<1>1. /\ IsFiniteSet(K) /\ n \in Nat /\ Cardinality(K) <= n
      /\ NameLabel \in DOMAIN metric => metric[NameLabel] = name
      /\ \A i \in Nat \ {0} : labelName(name, i) \in DOMAIN metric <=> i \in K
      /\ \A i \in K : metric[labelName(name, i)] = p[i + 1]
  BY ONLY Path(p), keeps \in BOOLEAN, MetricIs, Zenon
<1>2. Len(p) \in Nat /\ Len(p) >= 2 BY DEF Path
<1>3. \A i \in 2..Len(p) : p[i] \in Nodes BY DEF Path
<1>4. q \in Seq(X) /\ Len(q) = Len(p) /\ q[1] = name /\ \A i \in 2..Len(p) : q[i] = p[i]
  BY NameIs
<1>5. name # <<>> BY NameNotEmpty
<1>6. K \in SUBSET (Nat \ {0}) BY <1>2
<1>7. /\ IsFiniteSet(S) /\ IsFiniteSet(T) /\ m \in Nat /\ Cardinality(T) \in Nat
      /\ m + 1 <= Cardinality(T)
      /\ f \in [1..m -> S]
      /\ g \in [1..Cardinality(T) -> T]
      /\ g[1] = 1
      /\ \A k \in 1..m : g[k + 1] = f[k] + 1
  <2> HIDE DEF K, n
  <2> QED BY <1>1, <1>6, NodesInOrder
<1>8. {i \in 1..n : labelName(name, i) \in DOMAIN metric} = S
  <2> HIDE DEF n, K, metric, name
  <2>1. \A i \in 1..n : i \in Nat \ {0} BY <1>1
  <2> QED BY <1>1, <2>1
<1>9. r = h \o u
  <2> HIDE DEF K, metric, name
  <2>1. r = IF NameLabel \in DOMAIN metric /\ metric[NameLabel] # name THEN <<>> ELSE h \o u
    BY ONLY <1>8, Zenon DEF ConvertPrometheusMetric
  <2> QED BY ONLY <1>1, <2>1, Zenon
<1>10. \A i \in K : i + 1 \in 2..Len(p) /\ p[i + 1] # <<>> BY <1>2
<1>11. {i \in DOMAIN q : q[i] # <<>>} = T
  <2>1. DOMAIN q = 1..Len(p) BY <1>2, <1>4
  <2>2. ASSUME NEW i \in 1..Len(p), q[i] # <<>> PROVE i \in T
    <3>1. CASE i = 1 BY <3>1
    <3>2. CASE i # 1
      <4>1. i \in 2..Len(p) /\ i - 1 \in 1..Len(p) - 1 /\ (i - 1) + 1 = i BY <1>2, <3>2
      <4>2. p[i] # <<>> BY <1>4, <2>2, <4>1
      <4>3. i - 1 \in K BY <4>1, <4>2
      <4> QED BY <4>1, <4>3
    <3> QED BY <3>1, <3>2
  <2>3. ASSUME NEW i \in T PROVE i \in 1..Len(p) /\ q[i] # <<>>
    <3>1. CASE i = 1 BY <1>2, <1>4, <1>5, <3>1
    <3>2. CASE i # 1
      <4>1. PICK j \in K : i = j + 1 BY <3>2
      <4>2. i \in 2..Len(p) /\ p[i] # <<>> BY <1>10, <4>1
      <4> QED BY <1>2, <1>4, <4>2
    <3> QED BY <3>1, <3>2
  <2> HIDE DEF T, q
  <2> QED BY <2>1, <2>2, <2>3
<1>12. e = [k \in DOMAIN g |-> q[g[k]]]
  <2> HIDE DEF T, q
  <2> QED BY ONLY <1>11, Zenon DEF Nonempty
<1>13. \A k \in 1..m : f[k] \in K
  <2> HIDE DEF K
  <2> QED BY <1>7
<1> HIDE DEF name, metric, K, n, S, T, X, f, g, m, q, e, u, h, r
<1>14. DOMAIN u = 1..m /\ \A k \in 1..m : u[k] = p[f[k] + 1]
  <2>1. DOMAIN f = 1..m BY <1>7
  <2>2. ASSUME NEW k \in 1..m PROVE u[k] = p[f[k] + 1]
    <3>1. u[k] = metric[labelName(name, f[k])] BY <2>1 DEF u
    <3> QED BY <1>1, <1>13, <3>1
  <2>3. DOMAIN u = 1..m BY <2>1 DEF u
  <2> QED BY <2>2, <2>3
<1>15. u \in Seq(X) /\ Len(u) = m
  <2>1. ASSUME NEW k \in 1..m PROVE u[k] \in X
    <3>1. f[k] + 1 \in 2..Len(p) BY <1>10, <1>13
    <3> QED BY <1>3, <1>14, <3>1 DEF X
  <2>2. u = [k \in 1..m |-> u[k]] BY <1>7 DEF u
  <2>3. u \in [1..m -> X] BY ONLY <2>1, <2>2
  <2> QED BY <1>7, <2>3
<1>16. name \in X BY DEF X
<1>17. /\ r \in Seq(X) /\ Len(r) = 1 + m /\ r[1] = name
       /\ \A i \in 2..1 + m : r[i] = u[i - 1]
  <2>1. <<name>> \o u \in Seq(X) /\ Len(<<name>> \o u) = 1 + Len(u) /\ (<<name>> \o u)[1] = name
      /\ \A i \in 2..1 + Len(u) : (<<name>> \o u)[i] = u[i - 1]
    BY ONLY <1>15, <1>16, OneBefore, SMT
  <2> QED BY ONLY <1>9, <1>15, <2>1, Zenon DEF h
<1>18. r # <<>> BY <1>7, <1>17
<1>19. e \in Seq(X) /\ Len(e) = Cardinality(T) /\ \A k \in 1..Cardinality(T) : e[k] = q[g[k]]
  <2>1. DOMAIN g = 1..Cardinality(T) BY <1>7
  <2>2. ASSUME NEW k \in 1..Cardinality(T) PROVE q[g[k]] \in X
    <3>1. g[k] \in T BY <1>7
    <3>2. g[k] \in DOMAIN q BY <1>11, <3>1
    <3> QED BY <1>4, <3>2
  <2>3. e = [k \in 1..Cardinality(T) |-> q[g[k]]] BY <1>12, <2>1
  <2>4. e \in [1..Cardinality(T) -> X] BY ONLY <2>2, <2>3
  <2>5. \A k \in 1..Cardinality(T) : e[k] = q[g[k]] BY ONLY <2>3
  <2>6. Cardinality(T) \in Nat BY <1>7
  <2> QED BY ONLY <2>4, <2>5, <2>6
<1>20. \A i \in 1..Len(r) : r[i] = e[i]
  <2> SUFFICES ASSUME NEW i \in 1..Len(r) PROVE r[i] = e[i] OBVIOUS
  <2>1. CASE i = 1
    <3>1. r[1] = name BY <1>17
    <3>2. e[1] = q[1] BY <1>7, <1>19
    <3> QED BY <1>4, <2>1, <3>1, <3>2
  <2>2. CASE i # 1
    <3>1. i - 1 \in 1..m /\ (i - 1) + 1 = i /\ i \in 2..1 + m /\ i \in 1..Cardinality(T) BY <1>7, <1>17, <2>2
    <3>2. r[i] = p[f[i - 1] + 1] BY <1>14, <1>17, <3>1
    <3>3. e[i] = q[f[i - 1] + 1] BY <1>7, <1>19, <3>1
    <3>4. f[i - 1] + 1 \in 2..Len(p) BY <1>10, <1>13, <3>1
    <3> QED BY <1>4, <3>2, <3>3, <3>4
  <2> QED BY <2>1, <2>2
<1>21. IsPrefix(r, e)
  <2>1. Len(r) <= Len(e) BY <1>7, <1>17, <1>19
  <2> QED BY <1>17, <1>19, <1>20, <2>1, PrefixBy
<1>22. ASSUME <<>> \notin ToSet(p) PROVE r = q
  <2> DEFINE z == Len(p) - 1
             I == 1..z
             d == [k \in I |-> k]
  <2>1. z \in Nat /\ z >= 1 BY <1>2
  <2>2. \A i \in I : p[i + 1] # <<>>
    <3>1. p \in Seq(Seq(STRING)) /\ DOMAIN p = 1..Len(p) BY DEF Path
    <3>2. \A i \in 1..Len(p) : p[i] \in ToSet(p) BY <3>1 DEF ToSet
    <3>3. \A i \in I : i + 1 \in 1..Len(p) BY <1>2
    <3> QED BY <1>22, <3>2, <3>3
  <2>3. K = I BY <2>2 DEF K
  <2>4. Cardinality(I) = z /\ IsFiniteSet(I) BY <2>1, FS_Interval
  <2>5. S = I
    <3>1. z <= n BY <1>1, <2>3, <2>4
    <3> QED BY <1>1, <2>1, <2>3, <3>1 DEF S
  <2>6. m = z BY <2>4, <2>5 DEF m
  <2>7. Ascending(f, I, z)
    <3>1. Ascending(InOrder(I), I, Cardinality(I))
      <4>1. I \in SUBSET Int BY <2>1
      <4> HIDE DEF I
      <4> QED BY <2>4, <4>1, InOrderAscends
    <3> QED BY <2>4, <2>5, <3>1 DEF f
  <2>8. Ascending(d, I, z)
    <3>1. d \in [1..z -> I] /\ \A a, b \in 1..z : a < b => d[a] < d[b] BY <2>1
    <3> HIDE DEF d, I, z
    <3> QED BY <3>1 DEF Ascending
  <2>9. \A k \in I : f[k] = k
    <3>1. \A k \in 1..Cardinality(I) : d[k] = f[k]
      <4>1. I \in SUBSET Int BY <2>1
      <4>2. \A a \in I, b \in I \ I : a < b OBVIOUS
      <4>3. Ascending(d, I, Cardinality(I)) /\ Ascending(f, I, Cardinality(I)) BY <2>4, <2>7, <2>8
      <4> HIDE DEF I, d
      <4> QED BY <2>4, <4>1, <4>2, <4>3, AscendingBegins
    <3>2. \A k \in I : d[k] = k OBVIOUS
    <3> HIDE DEF d
    <3> QED BY <2>4, <3>1, <3>2
  <2>10. Len(r) = Len(q) BY <1>2, <1>4, <1>17, <2>6
  <2>11. ASSUME NEW i \in 1..Len(r) PROVE r[i] = q[i]
    <3>1. CASE i = 1
      <4>1. r[1] = name BY <1>17
      <4> QED BY <1>4, <3>1, <4>1
    <3>2. CASE i # 1
      <4>1. i - 1 \in I /\ i - 1 \in 1..m /\ (i - 1) + 1 = i /\ i \in 2..1 + m /\ i \in 2..Len(p)
        BY <1>2, <1>17, <2>6, <3>2
      <4>2. r[i] = p[f[i - 1] + 1] BY <1>14, <1>17, <4>1
      <4>3. f[i - 1] = i - 1 BY <2>9, <4>1
      <4> QED BY <1>4, <4>1, <4>2, <4>3
    <3> QED BY <3>1, <3>2
  <2> QED BY <1>4, <1>17, <2>10, <2>11, SeqEqual
<1> QED BY <1>18, <1>21, <1>22 DEF r, name, metric, e, q

-----------------------------------------------------------------------------
(* The series in the backend.                                              *)

\* The series in the backend are those of the paths that were sent with a value and
\* a time.
DbInv == sent \in SUBSET Lines /\ db = {Series(p) : p \in Paths}

\* What mateinsert accepts: two fields after a path of two nodes or more.
LEMMA AcceptedIs ==
    ASSUME NEW line \in Lines
    PROVE  Accepted(line) <=> Len(line.path) >= 2 /\ line.rest = <<TRUE, TRUE>>
<1> DEFINE r == line.rest
<1>1. r \in Seq({TRUE}) BY LinesAssumption DEF LinesAssumption
<1> HIDE DEF r
<1>2. Len(r) \in Nat /\ \A i \in 1..Len(r) : r[i] = TRUE
  <2> DEFINE B == {TRUE}
  <2>1. r \in Seq(B) BY <1>1
  <2>2. \A b \in B : b = TRUE BY Zenon
  <2> HIDE DEF B
  <2>3. Len(r) \in Nat /\ \A i \in 1..Len(r) : r[i] \in B BY ONLY <2>1
  <2> QED BY ONLY <2>2, <2>3, Zenon
<1>3. Len(r) = 2 => r = <<TRUE, TRUE>>
  <2> SUFFICES ASSUME Len(r) = 2 PROVE r = <<TRUE, TRUE>> OBVIOUS
  <2> DEFINE u == <<TRUE, TRUE>>
  <2>1. u \in Seq({TRUE}) /\ Len(u) = 2 /\ \A i \in 1..2 : u[i] = TRUE OBVIOUS
  <2>2. \A i \in 1..Len(r) : r[i] = u[i] BY <1>2, <2>1
  <2> HIDE DEF u
  <2>3. r = u BY <1>1, <2>1, <2>2, SeqEqual
  <2> QED BY <2>3 DEF u
<1>4. r = <<TRUE, TRUE>> => Len(r) = 2 OBVIOUS
<1>5. (Len(r) >= 2 /\ (Len(r) = 2 \/ ~r[2])) <=> Len(r) = 2 BY <1>2
<1>6. Accepted(line) <=> (Len(r) >= 2 /\ (Len(r) = 2 \/ ~r[2])) /\ Len(line.path) >= 2
  BY Zenon DEF Accepted, r
<1>7. Accepted(line) <=> Len(line.path) >= 2 /\ r = <<TRUE, TRUE>> BY ONLY <1>3, <1>4, <1>5, <1>6, Zenon
<1> QED BY ONLY <1>7, Zenon DEF r

\* The paths that were sent are paths.
LEMMA PathsAre ==
    ASSUME DbInv
    PROVE  \A p \in Paths : Path(p)
<1> SUFFICES ASSUME NEW p \in Paths PROVE Path(p) BY Zenon
<1>1. PICK l \in sent : p = l.path /\ Len(l.path) >= 2 BY DEF Paths
<1>2. l \in Lines BY DEF DbInv
<1> QED BY <1>1, <1>2, LinesAssumption DEF LinesAssumption, Path

\* A line that arrives adds the series of its path, if it is accepted.
LEMMA InsertKeeps ==
    ASSUME DbInv, NEW line \in Lines, Insert(line)
    PROVE  DbInv' /\ ask' = NoAsk
<1> DEFINE Good2(k) == Len(k.path) >= 2 /\ k.rest = <<TRUE, TRUE>>
<1>1. sent' = sent \cup {line} /\ ask' = NoAsk
      /\ db' = IF Accepted(line) THEN db \cup {Series(line.path)} ELSE db
  BY Zenon DEF Insert, Series
<1>2. sent \in SUBSET Lines /\ db = {Series(p) : p \in Paths} BY DEF DbInv
<1>3. Accepted(line) <=> Good2(line) BY AcceptedIs
<1>4. Paths = {l.path : l \in {k \in sent : Good2(k)}} BY Zenon DEF Paths
<1>5. Paths' = {l.path : l \in {k \in sent' : Good2(k)}} BY Zenon DEF Paths
<1> HIDE DEF Good2
<1>6. Paths' = IF Accepted(line) THEN Paths \cup {line.path} ELSE Paths BY <1>1, <1>3, <1>4, <1>5
<1>7. db' = {Series(p) : p \in Paths'} BY <1>1, <1>2, <1>6
<1>8. sent' \in SUBSET Lines BY <1>1, <1>2
<1> QED BY <1>1, <1>7, <1>8 DEF DbInv

-----------------------------------------------------------------------------
(* Render.                                                                 *)

\* Render answers with the series of the paths that match, under their own names.
LEMMA RenderAnswers ==
    ASSUME DbInv, NEW target \in Targets, NEW keeps \in BOOLEAN, Render(target, keeps)
    PROVE  /\ \A p \in Paths :
                (\E a \in answer' : a.series = Series(p))
                    <=> ~HasEscapes(target) /\ MatchesTo(p, target, Len(target) + 1)
           /\ \A a \in answer' : \E p \in Paths :
                /\ a.series = Series(p)
                /\ IsPrefix(a.target, Nonempty(Name(p)))
                /\ <<>> \notin ToSet(p) => a.target = Name(p)
<1> DEFINE conv      == ConvertGraphiteTarget(Texts(target), TRUE)
           Sel(s)    == Selects(Build(conv.name, conv.filters), s)
           Metric(s) == IF keeps THEN s ELSE [l \in DOMAIN s \ {NameLabel} |-> s[l]]
           Named(s)  == ConvertPrometheusMetric(conv.name, Metric(s))
           A(s)      == [series |-> s, target |-> Named(s)]
<1>1. answer' = {A(s) : s \in {x \in {y \in db : Sel(y)} : Named(x) # <<>>}}
  BY Zenon DEF Render, Texts
<1>2. db = {Series(p) : p \in Paths} /\ \A p \in Paths : Path(p) BY PathsAre DEF DbInv
<1>3. ASSUME NEW p \in Paths
      PROVE  Sel(Series(p)) <=> ~HasEscapes(target) /\ MatchesTo(p, target, Len(target) + 1)
  <2>1. TRUE \in BOOLEAN BY Zenon
  <2>2. Sel(Series(p))
          <=> ~HasEscapes(target) /\ MatchesTo(p, target, IF TRUE THEN Len(target) + 1 ELSE Len(target))
    BY ONLY <1>2, p \in Paths, target \in Targets, <2>1, SelectsIff, Zenon
  <2>3. (IF TRUE THEN Len(target) + 1 ELSE Len(target)) = Len(target) + 1 BY Zenon
  <2> HIDE DEF Sel
  <2> QED BY ONLY <2>2, <2>3, Zenon
<1>4. ASSUME NEW p \in Paths, Sel(Series(p))
      PROVE  /\ Named(Series(p)) # <<>>
             /\ IsPrefix(Named(Series(p)), Nonempty(Name(p)))
             /\ <<>> \notin ToSet(p) => Named(Series(p)) = Name(p)
  <2>1. conv.name = Dashless(p[1]) BY ONLY <1>2, p \in Paths, <1>4, SelectedName, Zenon
  <2>2. LET r == ConvertPrometheusMetric(Dashless(p[1]), Metric(Series(p)))
        IN  /\ r # <<>>
            /\ IsPrefix(r, Nonempty(Name(p)))
            /\ <<>> \notin ToSet(p) => r = Name(p)
    BY ONLY <1>2, p \in Paths, keeps \in BOOLEAN, NamedIs, Zenon
  <2> QED BY ONLY <2>1, <2>2, Zenon
<1>5. \A s : A(s).series = s /\ A(s).target = Named(s) BY Zenon
<1> HIDE DEF conv, Sel, Metric, Named, A
<1>6. ASSUME NEW a \in answer'
      PROVE  \E p \in Paths : a.series = Series(p) /\ a.target = Named(Series(p)) /\ Sel(Series(p))
  <2>1. PICK s \in db : a = A(s) /\ Sel(s) BY ONLY <1>1, a \in answer', Zenon
  <2>2. PICK p \in Paths : s = Series(p) BY ONLY <1>2, s \in db, Zenon
  <2> QED BY ONLY <1>5, <2>1, <2>2, Zenon
<1>7. ASSUME NEW p \in Paths
      PROVE  (\E a \in answer' : a.series = Series(p)) <=> Sel(Series(p))
  <2>1. ASSUME NEW a \in answer', a.series = Series(p) PROVE Sel(Series(p))
    BY ONLY <1>6, <2>1, Zenon
  <2>2. ASSUME Sel(Series(p)) PROVE \E a \in answer' : a.series = Series(p)
    <3>1. Series(p) \in db BY ONLY <1>2, p \in Paths, Zenon
    <3>2. A(Series(p)) \in answer' BY ONLY <1>1, <1>4, p \in Paths, <2>2, <3>1, Zenon
    <3> QED BY ONLY <1>5, <3>2, Zenon
  <2> QED BY ONLY <2>1, <2>2, Zenon
<1>8. ASSUME NEW a \in answer'
      PROVE  \E p \in Paths :
                /\ a.series = Series(p)
                /\ IsPrefix(a.target, Nonempty(Name(p)))
                /\ <<>> \notin ToSet(p) => a.target = Name(p)
  <2>1. PICK p \in Paths : a.series = Series(p) /\ a.target = Named(Series(p)) /\ Sel(Series(p))
    BY ONLY <1>6, a \in answer', Zenon
  <2>2. /\ IsPrefix(Named(Series(p)), Nonempty(Name(p)))
        /\ <<>> \notin ToSet(p) => Named(Series(p)) = Name(p)
    BY ONLY <1>4, p \in Paths, <2>1, Zenon
  <2>3. /\ IsPrefix(a.target, Nonempty(Name(p)))
        /\ <<>> \notin ToSet(p) => a.target = Name(p)
    BY ONLY <2>1, <2>2, Zenon
  <2> QED BY ONLY p \in Paths, <2>1, <2>3, Zenon
<1> QED BY ONLY <1>3, <1>7, <1>8, Zenon

-----------------------------------------------------------------------------
(* Find.                                                                   *)

\* A series has the label of a node if it has the name and the node is not empty.
LEMMA LabelThere ==
    ASSUME NEW p, Path(p), NEW name, NEW i \in Nat \ {0}
    PROVE  /\ labelName(name, i) \in DOMAIN Series(p)
                <=> name = Dashless(p[1]) /\ NodeAt(p, i + 1) # <<>>
           /\ labelName(name, i) \in DOMAIN Series(p)
                => i + 1 <= Len(p) /\ Series(p)[labelName(name, i)] = p[i + 1]
<1> DEFINE n == Dashless(p[1])
           s == Series(p)
           K == {j \in 1..Len(p) - 1 : p[j + 1] # <<>>}
<1>1. /\ DOMAIN s = {NameLabel} \cup {labelName(n, j) : j \in K}
      /\ \A j \in 1..Len(p) - 1 : p[j + 1] # <<>> => s[labelName(n, j)] = p[j + 1]
  BY SeriesIs
<1>2. Len(p) \in Nat /\ Len(p) >= 2 BY DEF Path
<1>3. i \in K <=> NodeAt(p, i + 1) # <<>>
  <2>1. i + 1 <= Len(p) <=> i \in 1..Len(p) - 1 BY <1>2
  <2> QED BY <2>1 DEF NodeAt
<1>4. labelName(name, i) # NameLabel BY DEF labelName, NameLabel
<1>5. \A j : labelName(n, j) = labelName(name, i) <=> n = name /\ j = i BY DEF labelName
<1>6. i \in K => i + 1 <= Len(p) /\ s[labelName(n, i)] = p[i + 1] BY <1>1, <1>2
<1> HIDE DEF n, s, K
<1>7. labelName(name, i) \in DOMAIN s <=> n = name /\ i \in K BY <1>1, <1>4, <1>5
<1> QED BY ONLY <1>3, <1>6, <1>7, Zenon DEF n, s

\* The prefix of a target that a path matches, and the path's next node, are the
\* beginning of the path.
LEMMA PrefixIs ==
    ASSUME NEW target \in Targets, NEW p, Path(p), NEW n, n = Len(target), n >= 2, n <= Len(p),
           MatchesTo(p, target, n), \A i \in 2..n - 1 : target[i].words = {target[i].text}
    PROVE  Append(ConvertQueryLabel(Texts(target)).prefix, p[n]) = SubSeq(Name(p), 1, n)
<1> DEFINE nodes == Texts(target)
           name == Dashless(nodes[1])
           u == SubSeq(nodes, 2, n - 1)
           r == <<name>> \o u
           q == Name(p)
           X == ({name} \cup Nodes) \cup Seq(STRING)
           a == Append(r, p[n])
           b == SubSeq(q, 1, n)
<1>1. /\ n \in Nat /\ nodes \in Seq(Seq(STRING)) /\ Len(nodes) = n
      /\ \A i \in 1..n : nodes[i] = target[i].text
  BY TextsAre
<1>2. Len(p) \in Nat /\ \A i \in 2..Len(p) : p[i] \in Nodes BY DEF Path
<1>3. /\ Dashless(p[1]) = Dashless(target[1].text)
      /\ \A i \in 2..n : NodeAt(p, i) \in IF i <= Len(target) THEN target[i].words ELSE {<<>>}
  BY Zenon DEF MatchesTo
<1>4. name = Dashless(p[1]) BY <1>1, <1>3
<1>5. ASSUME NEW i \in 2..n - 1 PROVE p[i] = nodes[i]
  <2>1. i \in 2..n /\ i \in 1..n /\ i <= Len(target) /\ i <= Len(p) BY <1>1, <1>2
  <2>2. p[i] \in target[i].words BY <1>3, <2>1 DEF NodeAt
  <2>3. target[i].words = {target[i].text} OBVIOUS
  <2>4. nodes[i] = target[i].text BY <1>1, <2>1
  <2> HIDE DEF nodes
  <2> QED BY ONLY <2>2, <2>3, <2>4, Zenon
<1>6. q \in Seq({name} \cup Nodes) /\ Len(q) = Len(p) /\ q[1] = name /\ \A i \in 2..Len(p) : q[i] = p[i]
  BY <1>4, NameIs
<1>7. ConvertQueryLabel(nodes).prefix = r
  <2> HIDE DEF nodes
  <2> QED BY <1>1 DEF ConvertQueryLabel
<1> HIDE DEF nodes, name, q
<1>8. \A i \in 1..Len(q) : q[i] \in X BY <1>6
<1>9. b \in Seq(X) /\ Len(b) = n /\ \A i \in 1..n : b[i] = q[i]
  <2>1. \A i \in 1..n : i \in 1..Len(q) BY <1>1, <1>2, <1>6
  <2>2. q \in Seq(X)
    <3>1. DOMAIN q = 1..Len(q) /\ Len(q) \in Nat /\ q = [i \in 1..Len(q) |-> q[i]] BY <1>6
    <3> HIDE DEF X
    <3>2. q \in [1..Len(q) -> X] BY ONLY <1>8, <3>1
    <3> QED BY ONLY <3>1, <3>2
  <2>3. Len(q) \in Nat /\ n <= Len(q) /\ 1 <= n BY <1>1, <1>2, <1>6
  <2> HIDE DEF X
  <2> QED BY <1>1, <2>2, <2>3
<1>10. u \in Seq(X) /\ Len(u) = n - 2 /\ \A i \in 1..n - 2 : u[i] = nodes[i + 1]
  <2>1. \A i \in 1..n : nodes[i] \in X BY <1>1
  <2>2. nodes \in Seq(X)
    <3>1. DOMAIN nodes = 1..n /\ nodes = [i \in 1..n |-> nodes[i]] BY <1>1
    <3> HIDE DEF X
    <3>2. nodes \in [1..n -> X] BY ONLY <2>1, <3>1
    <3> QED BY ONLY <1>1, <3>1, <3>2
  <2> HIDE DEF X
  <2> QED BY <1>1, <2>2
<1>11. name \in X /\ p[n] \in X BY <1>1, <1>2
<1> HIDE DEF X, u, b
<1>12. r \in Seq(X) /\ Len(r) = 1 + Len(u) /\ r[1] = name /\ \A i \in 2..1 + Len(u) : r[i] = u[i - 1]
  BY ONLY <1>10, <1>11, OneBefore, SMT
<1> HIDE DEF r
<1>13. a \in Seq(X) /\ Len(a) = Len(r) + 1 /\ (\A i \in 1..Len(r) : a[i] = r[i]) /\ a[Len(r) + 1] = p[n]
  BY <1>11, <1>12, AppendProperties
<1> HIDE DEF a
<1>14. Len(r) = n - 1 /\ Len(a) = n BY <1>1, <1>10, <1>12, <1>13
<1>15. ASSUME NEW i \in 1..n PROVE a[i] = b[i]
  <2>1. CASE i = n
    <3>1. a[n] = p[n] BY <1>1, <1>13, <1>14
    <3>2. b[n] = p[n] BY <1>1, <1>2, <1>6, <1>9
    <3> QED BY <2>1, <3>1, <3>2
  <2>2. CASE i = 1 /\ i # n
    <3>1. a[1] = name BY <1>1, <1>12, <1>13, <1>14
    <3> QED BY <1>1, <1>6, <1>9, <2>2, <3>1
  <2>3. CASE i # 1 /\ i # n
    <3>1. i \in 2..n - 1 /\ i \in 1..Len(r) /\ i \in 2..1 + Len(u) /\ i - 1 \in 1..n - 2 /\ (i - 1) + 1 = i
          /\ i \in 2..Len(p)
      BY <1>1, <1>2, <1>10, <1>14, <2>3
    <3>2. a[i] = nodes[i] BY <1>10, <1>12, <1>13, <3>1
    <3>3. b[i] = p[i] BY <1>6, <1>9, <3>1
    <3> QED BY <1>5, <3>1, <3>2, <3>3
  <2> QED BY <2>1, <2>2, <2>3
<1>16. a = b BY <1>1, <1>9, <1>13, <1>14, <1>15, SeqEqual
<1> QED BY ONLY <1>7, <1>16, Zenon DEF a, b, q, nodes

\* Find answers with what FindsChildren says.
LEMMA FindAnswers ==
    ASSUME DbInv, NEW target \in Targets, Find(target), NEW n, n = Len(target),
           n >= 3 \/ (n = 2 /\ target[2] = Star),
           \A i \in 2..n - 1 : target[i].words = {target[i].text}
    PROVE  answer' = {SubSeq(Name(p), 1, n) :
                        p \in {q \in Paths : /\ ~HasEscapes(target)
                                              /\ NodeAt(q, n) # <<>> /\ MatchesTo(q, target, n)}}
<1> DEFINE nodes  == Texts(target)
           conv   == ConvertGraphiteTarget(nodes, FALSE)
           query  == ConvertQueryLabel(nodes)
           name   == Dashless(nodes[1])
           Sel(s) == Selects(Build(conv.name, conv.filters), s)
           found  == {s \in db : query.fast \/ Sel(s)}
           data   == {s[query.label] : s \in {f \in found : query.label \in DOMAIN f}}
           Asked(p) == ~HasEscapes(target) /\ NodeAt(p, n) # <<>> /\ MatchesTo(p, target, n)
           Given(s) == s \in found /\ query.label \in DOMAIN s
<1>1. answer' = IF nodes = << <<"*">> >> THEN {} ELSE {Append(query.prefix, v) : v \in data}
  BY Zenon DEF Find, Texts
<1>2. n \in Nat /\ n >= 2 /\ Len(nodes) = n /\ nodes \in Seq(Seq(STRING)) /\ nodes[1] = target[1].text
  <2>1. /\ Len(target) \in Nat /\ Len(target) >= 1
        /\ nodes \in Seq(Seq(STRING)) /\ Len(nodes) = Len(target)
        /\ \A i \in 1..Len(target) : nodes[i] = target[i].text
    BY ONLY target \in Targets, TextsAre, Zenon
  <2> HIDE DEF nodes
  <2>2. n \in Nat /\ n >= 2 BY <2>1
  <2>3. 1 \in 1..Len(target) BY <2>1
  <2> QED BY <2>1, <2>2, <2>3
<1>3. db = {Series(p) : p \in Paths} /\ \A p \in Paths : Path(p) BY PathsAre DEF DbInv
<1>4. query.label = labelName(name, n - 1) /\ query.fast = (n = 2)
  <2> HIDE DEF nodes
  <2> QED BY ONLY <1>2, Zenon DEF ConvertQueryLabel
<1>5. nodes # << <<"*">> >>
  <2>1. Len(<< <<"*">> >>) = 1 OBVIOUS
  <2> DEFINE star == << <<"*">> >>
  <2> HIDE DEF star, nodes
  <2>2. Len(star) = 1 BY <2>1 DEF star
  <2>3. n # 1 BY ONLY <1>2
  <2>4. nodes # star BY ONLY <1>2, <2>2, <2>3, Zenon
  <2> QED BY <2>4 DEF star
<1>6. answer' = {Append(query.prefix, v) : v \in data} BY ONLY <1>1, <1>5, Zenon
<1>7. n - 1 \in Nat \ {0} /\ (n - 1) + 1 = n BY <1>2
<1>8. ASSUME NEW p \in Paths
      PROVE  /\ query.label \in DOMAIN Series(p) <=> name = Dashless(p[1]) /\ NodeAt(p, n) # <<>>
             /\ query.label \in DOMAIN Series(p) => n <= Len(p) /\ Series(p)[query.label] = p[n]
  <2> HIDE DEF name, query
  <2>1. Path(p) BY ONLY <1>3, p \in Paths, Zenon
  <2> DEFINE i == n - 1
  <2>2. i \in Nat \ {0} /\ i + 1 = n BY <1>7
  <2> HIDE DEF i
  <2>3. /\ labelName(name, i) \in DOMAIN Series(p)
                <=> name = Dashless(p[1]) /\ NodeAt(p, i + 1) # <<>>
        /\ labelName(name, i) \in DOMAIN Series(p)
                => i + 1 <= Len(p) /\ Series(p)[labelName(name, i)] = p[i + 1]
    BY ONLY <2>1, <2>2, LabelThere, Zenon
  <2>4. query.label = labelName(name, i) BY <1>4 DEF i
  <2> QED BY ONLY <2>2, <2>3, <2>4, Zenon
<1>9. ASSUME NEW p \in Paths
      PROVE  MatchesTo(p, target, n) => name = Dashless(p[1])
  BY ONLY <1>2, Zenon DEF MatchesTo
<1>10. ASSUME NEW p \in Paths PROVE Sel(Series(p)) <=> ~HasEscapes(target) /\ MatchesTo(p, target, n)
  <2>1. FALSE \in BOOLEAN BY Zenon
  <2>2. Sel(Series(p))
          <=> ~HasEscapes(target) /\ MatchesTo(p, target, IF FALSE THEN Len(target) + 1 ELSE Len(target))
    BY ONLY <1>3, p \in Paths, target \in Targets, <2>1, SelectsIff, Zenon
  <2>3. (IF FALSE THEN Len(target) + 1 ELSE Len(target)) = n BY Zenon
  <2> HIDE DEF Sel
  <2> QED BY ONLY <2>2, <2>3, Zenon
<1>11. ASSUME NEW p \in Paths, n = 2, target[2] = Star, name = Dashless(p[1])
       PROVE  MatchesTo(p, target, n)
  <2>1. Star.words = Nodes BY DEF Star
  <2>2. Path(p) BY ONLY <1>3, p \in Paths, Zenon
  <2>3. NodeAt(p, 2) \in Nodes
    <3>1. 2 \in Nat /\ 2 >= 2 OBVIOUS
    <3> QED BY ONLY <2>2, <3>1, NodeAtType, Zenon
  <2>4. Dashless(p[1]) = Dashless(target[1].text) BY ONLY <1>2, <1>11, Zenon
  <2>5. \A i \in 2..n : i = 2 /\ i <= Len(target) BY <1>11
  <2> HIDE DEF Star, name
  <2>6. \A i \in 2..n : NodeAt(p, i) \in IF i <= Len(target) THEN target[i].words ELSE {<<>>}
    BY ONLY <1>11, <2>1, <2>3, <2>5, Zenon
  <2> QED BY ONLY <2>4, <2>6, Zenon DEF MatchesTo
<1>12. ASSUME NEW p \in Paths PROVE Given(Series(p)) <=> Asked(p)
  <2> HIDE DEF Sel, query, name
  <2>1. Series(p) \in db BY ONLY <1>3, p \in Paths, Zenon
  <2>2. Given(Series(p)) <=> (n = 2 \/ Sel(Series(p))) /\ query.label \in DOMAIN Series(p)
    BY ONLY <1>4, <2>1, Zenon
  <2>3. CASE n = 2
    <3>1. target[2] = Star BY <1>2, <2>3
    <3>2. name = Dashless(p[1]) => MatchesTo(p, target, n) BY ONLY <1>11, p \in Paths, <2>3, <3>1, Zenon
    <3>3. ~HasEscapes(target)
      <4>1. \A i \in 2..Len(target) : i = 2 BY <1>2, <2>3
      <4>2. \A d \in DOMAIN Star.text : Star.text[d] = "*" BY DEF Star
      <4>3. "*" \notin EscapedRunes BY DEF EscapedRunes
      <4> HIDE DEF Star
      <4> QED BY ONLY <3>1, <4>1, <4>2, <4>3, Zenon DEF HasEscapes, IsEscaped
    <3> HIDE DEF Given, found
    <3> QED BY ONLY <1>8, <1>9, p \in Paths, <2>2, <2>3, <3>2, <3>3, Zenon
  <2>4. CASE n # 2
    <3> HIDE DEF Given, found
    <3> QED BY ONLY <1>8, <1>9, <1>10, p \in Paths, <2>2, <2>4, Zenon
  <2> QED BY ONLY <2>3, <2>4, Zenon
<1>13. ASSUME NEW p \in Paths, Asked(p)
       PROVE  Append(query.prefix, Series(p)[query.label]) = SubSeq(Name(p), 1, n)
  <2>1. query.label \in DOMAIN Series(p) BY ONLY <1>12, <1>13, Zenon
  <2>2. n <= Len(p) /\ Series(p)[query.label] = p[n] BY ONLY <1>8, p \in Paths, <2>1, Zenon
  <2>3. Path(p) BY ONLY <1>3, p \in Paths, Zenon
  <2>4. Append(query.prefix, p[n]) = SubSeq(Name(p), 1, n)
    BY ONLY <1>2, <1>13, target \in Targets, n = Len(target), <2>2, <2>3,
            \A i \in 2..n - 1 : target[i].words = {target[i].text}, PrefixIs, Zenon
  <2> QED BY ONLY <2>2, <2>4, Zenon
<1>14. data = {s[query.label] : s \in {f \in db : Given(f)}}
  <2>1. {f \in found : query.label \in DOMAIN f} = {f \in db : Given(f)}
    <3> HIDE DEF query, Sel
    <3> QED OBVIOUS
  <2> HIDE DEF query, Given, found
  <2> QED BY ONLY <2>1, Zenon
<1> HIDE DEF Given, Asked, found, Sel, query, conv, name, nodes, data
<1> DEFINE W == {SubSeq(Name(p), 1, n) : p \in {q \in Paths : Asked(q)}}
<1>15. ASSUME NEW w \in answer' PROVE w \in W
  <2>1. PICK v \in data : w = Append(query.prefix, v) BY ONLY <1>6, w \in answer', Zenon
  <2>2. PICK s \in db : Given(s) /\ v = s[query.label] BY ONLY <1>14, v \in data, Zenon
  <2>3. PICK p \in Paths : s = Series(p) BY ONLY <1>3, s \in db, Zenon
  <2>4. Asked(p) BY ONLY <1>12, p \in Paths, <2>2, <2>3, Zenon
  <2>5. w = SubSeq(Name(p), 1, n) BY ONLY <1>13, p \in Paths, <2>1, <2>2, <2>3, <2>4, Zenon
  <2> QED BY ONLY p \in Paths, <2>4, <2>5, Zenon
<1>16. ASSUME NEW w \in W PROVE w \in answer'
  <2>1. PICK p \in Paths : Asked(p) /\ w = SubSeq(Name(p), 1, n) BY ONLY w \in W, Zenon
  <2>2. Series(p) \in db /\ Given(Series(p)) BY ONLY <1>3, <1>12, p \in Paths, <2>1, Zenon
  <2>3. Series(p)[query.label] \in data BY ONLY <1>14, <2>2, Zenon
  <2>4. w = Append(query.prefix, Series(p)[query.label]) BY ONLY <1>13, p \in Paths, <2>1, Zenon
  <2> QED BY ONLY <1>6, <2>3, <2>4, Zenon
<1>17. answer' = W
  <2> HIDE DEF W
  <2> QED BY ONLY <1>15, <1>16, Zenon
<1> QED BY ONLY <1>17, Zenon DEF W, Asked

-----------------------------------------------------------------------------
(* Theorems.                                                               *)

\* The inductive invariant: what the backend holds, which every answer is made of,
\* and what an answer says while it is there.
IInv == DbInv /\ SelectsMatching /\ NamesReturn /\ FindsChildren

\* The selector's view of a path: it matches or passes for one that does.
LEMMA MatchesOrPasses ==
    ASSUME NEW target \in Targets, NEW p
    PROVE  MatchesTo(p, target, Len(target) + 1) <=> Matches(p, target) \/ PassesFor(p, target)
<1> DEFINE n == Len(target)
           W(i) == IF i <= Len(target) THEN target[i].words ELSE {<<>>}
<1>1. n \in Nat /\ n >= 1 BY TextsAre
<1>2. ASSUME Len(p) = n PROVE MatchesTo(p, target, n + 1) <=> MatchesTo(p, target, n)
  <2>1. NodeAt(p, n + 1) \in W(n + 1)
    <3>1. ~(n + 1 <= Len(p)) /\ ~(n + 1 <= Len(target)) BY <1>1, <1>2
    <3> QED BY ONLY <3>1, Zenon DEF NodeAt
  <2>2. \A i : i \in 2..n + 1 <=> i \in 2..n \/ i = n + 1 BY <1>1
  <2>3. \A k : MatchesTo(p, target, k)
                 <=> Dashless(p[1]) = Dashless(target[1].text) /\ \A i \in 2..k : NodeAt(p, i) \in W(i)
    BY ONLY Zenon DEF MatchesTo
  <2> HIDE DEF n, W
  <2> QED BY ONLY <2>1, <2>2, <2>3, Zenon
<1> QED BY ONLY <1>2, Zenon DEF Matches, PassesFor

\* The properties say nothing of a state without a request.
LEMMA NothingAsked ==
    ASSUME ask = NoAsk
    PROVE  SelectsMatching /\ NamesReturn /\ FindsChildren
<1>1. ask.kind = "none" BY DEF NoAsk
<1>2. ask.kind # "render" /\ ask.kind # "find" BY <1>1
<1> QED BY ONLY <1>2, Zenon DEF SelectsMatching, NamesReturn, FindsChildren

\* The same of the next state.
LEMMA NothingAskedNext ==
    ASSUME ask' = NoAsk
    PROVE  SelectsMatching' /\ NamesReturn' /\ FindsChildren'
<1>1. ask'.kind = "none" BY DEF NoAsk
<1>2. ask'.kind # "render" /\ ask'.kind # "find" BY <1>1
<1> QED BY ONLY <1>2, Zenon DEF SelectsMatching, NamesReturn, FindsChildren

\* The invariant holds in every state: the backend's series are those of the paths
\* that mateinsert accepted, and the answers of matecarbon's Find and Render are right.
THEOREM Invariance == Spec => []IInv
<1>1. Init => IInv
  <2> SUFFICES ASSUME Init PROVE IInv OBVIOUS
  <2>1. db = {} /\ sent = {} /\ ask = NoAsk BY DEF Init
  <2>2. Paths = {} BY <2>1 DEF Paths
  <2>3. DbInv BY <2>1, <2>2 DEF DbInv
  <2> QED BY ONLY <2>1, <2>3, NothingAsked, Zenon DEF IInv
<1>2. IInv /\ [Next]_vars => IInv'
  <2> SUFFICES ASSUME IInv, [Next]_vars PROVE IInv' OBVIOUS
  <2>1. DbInv BY DEF IInv
  <2>2. ASSUME UNCHANGED <<db, sent>> PROVE DbInv' /\ Paths' = Paths
    BY <2>1, <2>2 DEF DbInv, Paths
  <2>3. ASSUME NEW line \in Lines, Insert(line) PROVE IInv'
    BY ONLY <2>1, <2>3, InsertKeeps, NothingAskedNext, Zenon DEF IInv
  <2>4. ASSUME NEW target \in Targets, Find(target) PROVE IInv'
    <3>1. ask' = [kind |-> "find", target |-> target] /\ UNCHANGED <<db, sent>> BY <2>4, Zenon DEF Find
    <3>2. ask'.kind = "find" /\ ask'.kind # "render" /\ ask'.target = target BY <3>1
    <3>3. DbInv' /\ Paths' = Paths BY <2>2, <3>1
    <3>4. FindsChildren'
      <4> DEFINE n == Len(target)
      <4>1. ASSUME n >= 3 \/ (n = 2 /\ target[2] = Star),
                   \A i \in 2..n - 1 : target[i].words = {target[i].text}
            PROVE  answer' = {SubSeq(Name(p), 1, n) :
                        p \in {q \in Paths : /\ ~HasEscapes(target)
                                              /\ NodeAt(q, n) # <<>> /\ MatchesTo(q, target, n)}}
        BY ONLY <2>1, <2>4, <4>1, target \in Targets, FindAnswers, Zenon
      <4> QED BY ONLY <3>2, <3>3, <4>1, Zenon DEF FindsChildren
    <3>5. SelectsMatching' /\ NamesReturn' BY ONLY <3>2, Zenon DEF SelectsMatching, NamesReturn
    <3> QED BY ONLY <3>3, <3>4, <3>5, Zenon DEF IInv
  <2>5. ASSUME NEW target \in Targets, NEW keeps \in BOOLEAN, Render(target, keeps) PROVE IInv'
    <3>1. ask' = [kind |-> "render", target |-> target] /\ UNCHANGED <<db, sent>> BY <2>5, Zenon DEF Render
    <3>2. ask'.kind = "render" /\ ask'.kind # "find" /\ ask'.target = target BY <3>1
    <3>3. DbInv' /\ Paths' = Paths BY <2>2, <3>1
    <3>4. /\ \A p \in Paths :
                (\E a \in answer' : a.series = Series(p))
                    <=> ~HasEscapes(target) /\ MatchesTo(p, target, Len(target) + 1)
          /\ \A a \in answer' : \E p \in Paths :
                /\ a.series = Series(p)
                /\ IsPrefix(a.target, Nonempty(Name(p)))
                /\ <<>> \notin ToSet(p) => a.target = Name(p)
      BY ONLY <2>1, <2>5, target \in Targets, keeps \in BOOLEAN, RenderAnswers, Zenon
    <3>5. SelectsMatching'
      <4>1. \A p \in Paths : MatchesTo(p, target, Len(target) + 1)
                                <=> Matches(p, target) \/ PassesFor(p, target)
        BY target \in Targets, MatchesOrPasses
      <4> QED BY ONLY <3>2, <3>3, <3>4, <4>1, Zenon DEF SelectsMatching, Series
    <3>6. NamesReturn' BY ONLY <3>2, <3>3, <3>4, Zenon DEF NamesReturn, Series
    <3>7. FindsChildren' BY ONLY <3>2, Zenon DEF FindsChildren
    <3> QED BY ONLY <3>3, <3>5, <3>6, <3>7, Zenon DEF IInv
  <2>6. ASSUME Answered PROVE IInv'
    <3>1. ask' = NoAsk /\ UNCHANGED <<db, sent>> BY <2>6, Zenon DEF Answered
    <3>2. DbInv' BY <2>2, <3>1
    <3> QED BY ONLY <3>1, <3>2, NothingAskedNext, Zenon DEF IInv
  <2>7. ASSUME UNCHANGED vars PROVE IInv'
    BY <2>7 DEF vars, IInv, DbInv, SelectsMatching, NamesReturn, FindsChildren, Paths
  <2> QED BY <2>3, <2>4, <2>5, <2>6, <2>7, Zenon DEF Next
<1> QED BY <1>1, <1>2, PTL DEF Spec

\* What the backend holds is what the accepted lines say, and nothing else.
THEOREM BackendHoldsPaths == Spec => []DbInv
<1>1. IInv => DbInv BY DEF IInv
<1> QED BY <1>1, Invariance, PTL

\* Render selects the series of the paths that a target's globs match and those that its
\* selector cannot tell from them, for every set of paths and every glob that is made of
\* words, "?", "*", classes and braces: the regular expression that globToRegexPattern
\* writes means the same words as the glob.  For every target with one of $ ' < > in a
\* node it selects none.
THEOREM Selection == Spec => []SelectsMatching
<1>1. IInv => SelectsMatching BY DEF IInv
<1> QED BY <1>1, Invariance, PTL

\* The names that ConvertPrometheusMetric gives to series are the paths that
\* convertGraphite made the series of.
THEOREM NamesComeBack == Spec => []NamesReturn
<1>1. IInv => NamesReturn BY DEF IInv
<1> QED BY <1>1, Invariance, PTL

\* Find answers with the children of a prefix, all of them and no others, and with none
\* for a target with one of $ ' < > in a node.
THEOREM ChildrenFound == Spec => []FindsChildren
<1>1. IInv => FindsChildren BY DEF IInv
<1> QED BY <1>1, Invariance, PTL

=============================================================================
