---------------------------- MODULE RenderProofs ----------------------------
(***************************************************************************)
(* Proofs about Render: what every FetchResponse of a render target looks  *)
(* like, for every request, flush interval, grid and set of series, and    *)
(* that only a reversed range, whose end is before its start, makes the    *)
(* goroutine panic.                                                        *)
(*                                                                         *)
(* The inductive invariant follows one series through the loop: while the  *)
(* slots are filled, the samples already passed are in the values and the  *)
(* others lie at or after the Frontier; once filled, the values end at the *)
(* last sample; once the start is aligned, it is the first time of the     *)
(* series' grid in the request; and what is appended to the response is    *)
(* Aligned.  Of a reversed range the last two steps leave one NaN, nothing *)
(* or a panic (Ended).  Everything rests on the times of one grid being congruent     *)
(* modulo the step, and on arithmetic with \div that is proved first.      *)
(***************************************************************************)
EXTENDS Render, SequenceLemmas, FiniteSetTheorems

(* Arithmetic.                                                             *)

\* A quotient rounded down, as Go's Floor and TLA+'s \div do it.
LEMMA DivBounds ==
    ASSUME NEW a \in Int, NEW s \in Nat \ {0}
    PROVE  /\ a \div s \in Int
           /\ (a \div s) * s <= a /\ a < (a \div s) * s + s
<1>1. PICK q \in Int, e \in 0..(s - 1) : a = q * s + e /\ a \div s = q OBVIOUS
<1> QED BY <1>1

\* It is the only number between those bounds.
LEMMA DivUnique ==
    ASSUME NEW a \in Int, NEW s \in Nat \ {0}, NEW k \in Int, k * s <= a, a < k * s + s
    PROVE  a \div s = k
OBVIOUS

\* A multiple of s leaves no remainder.
LEMMA ModMultiple ==
    ASSUME NEW s \in Nat \ {0}, NEW k \in Int
    PROVE  (k * s) % s = 0
OBVIOUS

\* Products with the step compare as the factors do ...
LEMMA MulOrder ==
    ASSUME NEW s \in Nat \ {0}, NEW j1 \in Int, NEW k \in Int, j1 * s < k * s + s
    PROVE  j1 <= k
OBVIOUS

\* ... in both directions.
LEMMA MulMonotone ==
    ASSUME NEW s \in Nat \ {0}, NEW j1 \in Int, NEW k \in Int, j1 <= k
    PROVE  j1 * s <= k * s
OBVIOUS

\* The distributive law, with the type of the product.
LEMMA MulDist ==
    ASSUME NEW s \in Int, NEW a \in Int, NEW b \in Int
    PROVE  /\ a * s \in Int
           /\ (a + b) * s = a * s + b * s
           /\ (a - b) * s = a * s - b * s
OBVIOUS

\* Times a whole number of steps apart.
Congruent(t, u, s) == \E k \in Int : t = u + k * s

\* Being congruent is an equivalence.
LEMMA CongruentEquiv ==
    ASSUME NEW s \in Nat \ {0}, NEW t \in Int, NEW u \in Int, NEW v \in Int
    PROVE  /\ Congruent(t, t, s)
           /\ Congruent(t, u, s) => Congruent(u, t, s)
           /\ Congruent(t, u, s) /\ Congruent(u, v, s) => Congruent(t, v, s)
<1>1. Congruent(t, t, s)
  <2>1. t = t + 0 * s OBVIOUS
  <2> QED BY <2>1 DEF Congruent
<1>2. ASSUME Congruent(t, u, s) PROVE Congruent(u, t, s)
  <2>1. PICK k \in Int : t = u + k * s BY <1>2 DEF Congruent
  <2>2. u = t + (0 - k) * s BY <2>1
  <2> QED BY <2>2 DEF Congruent
<1>3. ASSUME Congruent(t, u, s), Congruent(u, v, s) PROVE Congruent(t, v, s)
  <2>1. PICK k \in Int : t = u + k * s BY <1>3 DEF Congruent
  <2>2. PICK l \in Int : u = v + l * s BY <1>3 DEF Congruent
  <2>3. t = v + (k + l) * s BY <2>1, <2>2
  <2> QED BY <2>3 DEF Congruent
<1> QED BY <1>1, <1>2, <1>3

\* Moving a time by whole steps keeps its class.
LEMMA CongruentShift ==
    ASSUME NEW s \in Nat \ {0}, NEW t \in Int, NEW u \in Int, NEW k \in Int, Congruent(t, u, s)
    PROVE  Congruent(t + k * s, u, s)
<1>1. PICK l \in Int : t = u + l * s BY DEF Congruent
<1>2. t + k * s = u + (l + k) * s BY <1>1
<1> QED BY <1>2 DEF Congruent

\* The next time of a class is a whole step later.
LEMMA CongruentNext ==
    ASSUME NEW s \in Nat \ {0}, NEW t \in Int, NEW u \in Int, Congruent(t, u, s), t > u
    PROVE  t >= u + s
<1>1. PICK k \in Int : t = u + k * s BY DEF Congruent
<1>2. k >= 1
  <2>1. k * s > 0 * s BY <1>1
  <2> QED BY <2>1
<1>3. k * s >= 1 * s BY <1>2
<1> QED BY <1>1, <1>3

\* Two times of a class less than a step apart are the same.
LEMMA CongruentNear ==
    ASSUME NEW s \in Nat \ {0}, NEW t \in Int, NEW u \in Int, Congruent(t, u, s),
           t - u < s, u - t < s
    PROVE  t = u
<1>1. PICK k \in Int : t = u + k * s BY DEF Congruent
<1>2. k * s < 0 * s + s /\ 0 * s < k * s + s BY <1>1
<1>3. k <= 0 /\ 0 <= k BY <1>2, MulOrder
<1> QED BY <1>1, <1>3

\* A finite set of times can be listed in order, so SortTimes, a CHOOSE, is such a list.
LEMMA SortTimesSorted ==
    ASSUME NEW S \in SUBSET Int, IsFiniteSet(S)
    PROVE  Ascending(SortTimes(S), S, Cardinality(S))
<1>1. PICK f : Ascending(f, S, Cardinality(S)) BY SortExists
<1> QED BY <1>1 DEF SortTimes, Ascending

-----------------------------------------------------------------------------
(* The inductive invariant.                                               *)

\* The sample of time t is among the values v.
Has(v, t) == \E i \in 1..Len(v) : v[i] = t

\* Value i of v is NaN or the sample of the i-th time from m on.
Slots(v, m, s) == \A i \in 1..Len(v) : v[i] \in {NaN, m + (i - 1) * s}

\* The step is a whole number of flush intervals that cuts the range as asked.
RequestOK ==
    /\ step % StatsdFlushInterval = 0
    /\ req.stop - req.start <= Points(req) * step

\* The backend's times: at most a step outside the request, and congruent.
GridOK ==
    /\ \A t \in grid : t \in (req.start - step + 1)..(Until(req) + step - 1)
    /\ \A t, u \in grid : Congruent(t, u, step)

\* The series being worked on: samples of the grid in order, values in place.
Series ==
    /\ ts # <<>>
    /\ \A k \in 1..Len(ts) : ts[k] \in grid
    /\ \A a, b \in 1..Len(ts) : a < b => ts[a] < ts[b]
    /\ Slots(values, mstart, step)

\* The time from which on samples have not been looked at.
Frontier == mstart + (IF pc = "search" THEN Len(values) - 1 ELSE Len(values)) * step

\* While the slots are filled: what was passed is placed, the rest is ahead.
Filling ==
    /\ mstart = ts[1] /\ mend = ts[Len(ts)]
    /\ (Len(values) - 1) * step <= mend - mstart
    /\ pc = "search" => Len(values) >= 1
    /\ \A k \in 1..(j - 1) : Has(values, ts[k])
    /\ \A k \in j..Len(ts) : ts[k] >= Frontier

\* All slots are there: the last one is that of the last sample.
Filled ==
    /\ mstart = ts[1] /\ mend = ts[Len(ts)]
    /\ mend = mstart + (Len(values) - 1) * step
    /\ \A k \in 1..Len(ts) : Has(values, ts[k])

\* m is the first time of the grid's class in the request.
Began(m) == m \in req.start..(req.start + step - 1) /\ \E t \in grid : Congruent(m, t, step)

\* The start is aligned; no sample at or after the request's start is lost.
StartAligned ==
    /\ Began(mstart)
    /\ mend = ts[Len(ts)]
    /\ mend = mstart + (Len(values) - 1) * step
    /\ \A k \in 1..Len(ts) : ts[k] >= req.start => Has(values, ts[k])

\* A response that starts at m ends less than a step from the end of the request; of
\* a reversed range there is one point at most.
Ended(m, e) ==
    IF req.start <= req.stop THEN e > req.stop - step /\ e < req.stop + step
    ELSE e = m \/ e = m - step

\* What a finished response with samples X is.
Aligned(m, e, v, X) ==
    /\ Began(m)
    /\ e = m + (Len(v) - 1) * step
    /\ Ended(m, e)
    /\ Slots(v, m, step)
    /\ \A t \in X : t \in req.start..req.stop => Has(v, t)

\* Every response that was appended is finished.
SentOK ==
    \A k \in 1..Len(sent) : Aligned(sent[k].start, sent[k].stop, sent[k].values, sent[k].samples)

\* What holds at each point of the loop over the series.
Working ==
    /\ pc = "query" => sent = <<>>
    /\ pc \in {"fill", "search", "start", "end", "emit"} => Series
    /\ pc \in {"fill", "search"} => Filling
    /\ pc = "start" => Filled
    /\ pc = "end" => StartAligned
    /\ pc = "emit" => Aligned(mstart, mend, values, {ts[k] : k \in 1..Len(ts)})

\* The inductive invariant.
IInv == TypeOK /\ PanicsOnlyReversed /\ RequestOK /\ GridOK /\ Working /\ SentOK

-----------------------------------------------------------------------------
(* The request and the series.                                             *)

\* The step of the query (lines 320-324) is positive, a multiple of the flush
\* interval, and Points steps cover the range.
LEMMA QueryStepOK ==
    ASSUME NEW r \in Request
    PROVE  /\ QueryStep(r) \in Nat \ {0}
           /\ QueryStep(r) % StatsdFlushInterval = 0
           /\ r.stop - r.start <= Points(r) * QueryStep(r)
<1> DEFINE F == StatsdFlushInterval
           P == Points(r)
           a == r.stop - r.start
           b == P * F
           c == (a + b - 1) \div b
<1>1. F \in Nat \ {0} /\ P \in Nat \ {0} BY BoundsAssumption DEF Points, Request
<1>2. a \in Int
  <2>1. r.start \in Int /\ r.stop \in Int BY BoundsAssumption DEF Request, Times
  <2> QED BY <2>1
<1>3. QueryStep(r) = IF c * F >= F THEN c * F ELSE F BY DEF QueryStep, CeilDiv, Larger
<1> HIDE DEF F, P, a
<1>4. b \in Nat \ {0} BY <1>1
<1>5. c \in Int /\ c * b <= a + b - 1 /\ a + b - 1 < c * b + b
  <2> HIDE DEF b
  <2>1. a + b - 1 \in Int BY <1>2, <1>4
  <2> QED BY <1>4, <2>1, DivBounds
<1> HIDE DEF c
<1>6. c * b >= a
  <2>1. c * b \in Int BY <1>4, <1>5, MulDist
  <2> HIDE DEF b
  <2> QED BY <1>2, <1>4, <1>5, <2>1
<1>7. CASE c >= 1
  <2>1. c * F \in Int /\ c * F >= F
    <3>1. 1 * F <= c * F BY <1>1, <1>5, <1>7, MulMonotone
    <3> QED BY <1>1, <1>5, <3>1, MulDist
  <2>2. QueryStep(r) = c * F BY <1>3, <2>1
  <2>3. (c * F) % F = 0 BY <1>1, <1>5, ModMultiple
  <2>4. P * (c * F) = c * b BY <1>1, <1>5
  <2> QED BY <1>1, <1>6, <2>1, <2>2, <2>3, <2>4 DEF F, P, a
<1>8. CASE c <= 0
  <2>1. c * b <= 0 * b BY <1>4, <1>5, <1>8, MulMonotone
  <2>2. a <= 0
    <3>1. 0 * b = 0 BY <1>4
    <3>2. c * b \in Int BY <1>4, <1>5, MulDist
    <3> HIDE DEF b
    <3> QED BY <1>2, <1>6, <2>1, <3>1, <3>2
  <2>3. QueryStep(r) = F
    <3>1. c * F <= 0 * F BY <1>1, <1>5, <1>8, MulMonotone
    <3>2. ~(c * F >= F) BY <1>1, <1>5, <3>1
    <3> QED BY <1>3, <3>2
  <2>4. F % F = 0
    <3>1. (1 * F) % F = 0 BY <1>1, ModMultiple
    <3>2. 1 * F = F BY <1>1
    <3> QED BY <3>1, <3>2
  <2>5. P * F >= 0 BY <1>1
  <2> QED BY <1>1, <1>2, <2>2, <2>3, <2>4, <2>5 DEF F, P, a
<1> QED BY <1>5, <1>7, <1>8

\* The types the arithmetic needs.
LEMMA StepType ==
    ASSUME TypeOK
    PROVE  /\ step \in Nat \ {0} /\ req.start \in Int /\ req.stop \in Int
           /\ Points(req) \in Nat
           /\ Until(req) \in Int /\ req.start <= Until(req)
           /\ req.start <= req.stop => Until(req) = req.stop
BY BoundsAssumption DEF TypeOK, Request, Times, Points, Until

\* The invariant holds initially ...
LEMMA InitStep == Init => IInv
<1> SUFFICES ASSUME Init PROVE IInv
  OBVIOUS
<1> USE DEF Init
<1>1. TypeOK
  BY BoundsAssumption DEF TypeOK, Request, Times
<1>2. RequestOK
  <2>1. step \in Nat \ {0} /\ req.start = 0 /\ req.stop = 0 BY BoundsAssumption
  <2>2. Points(req) \in Nat BY <1>1, StepType
  <2>3. (1 * step) % step = 0 /\ 1 * step = step BY <2>1, ModMultiple
  <2>4. Points(req) * step >= 0 BY <2>1, <2>2
  <2> QED BY <2>1, <2>3, <2>4 DEF RequestOK
<1>3. GridOK BY DEF GridOK
<1>4. SentOK BY DEF SentOK
<1>5. Working BY DEF Working
<1> QED BY <1>1, <1>2, <1>3, <1>4, <1>5 DEF IInv, PanicsOnlyReversed

\* ... when the goroutine of a request starts ...
LEMMA QueryAct ==
    ASSUME IInv, Query
    PROVE  IInv'
<1> USE DEF Query
<1>1. req' \in Request /\ step' = QueryStep(req') OBVIOUS
<1>2. /\ step' \in Nat \ {0} /\ step' % StatsdFlushInterval = 0
      /\ req'.stop - req'.start <= Points(req') * step'
  BY <1>1, QueryStepOK
<1>3. TypeOK' BY <1>1, <1>2 DEF TypeOK
<1>4. RequestOK' BY <1>1, <1>2 DEF RequestOK
<1>5. GridOK' BY DEF GridOK
<1>6. SentOK' BY DEF SentOK
<1>7. Working' BY DEF Working
<1> QED BY <1>3, <1>4, <1>5, <1>6, <1>7 DEF IInv, PanicsOnlyReversed

\* ... when the backend chooses its grid, whichever of the two it is ...
LEMMA EvaluateStep ==
    ASSUME IInv, Evaluate
    PROVE  IInv'
<1> USE DEF Evaluate
<1> DEFINE s == step
           a == req.start
           z == Until(req)
<1>1. TypeOK /\ s \in Nat \ {0} /\ a \in Int /\ z \in Int /\ a <= z
  BY StepType DEF IInv, RequestOK
<1>2. ASSUME NEW t \in grid'
      PROVE  t \in Int /\ t \in (a - s + 1)..(z + s - 1)
    BY <1>1 DEF RequestGrid, RoundedGrid
<1>3. \E base \in Int : \A t \in grid' : Congruent(t, base, s)
  <2>1. CASE grid' = RequestGrid(req, step)
    <3>1. ASSUME NEW t \in grid' PROVE Congruent(t, a, s)
      <4>1. t - a \in Int /\ (t - a) % s = 0 BY <1>1, <2>1 DEF RequestGrid
      <4>2. t - a = ((t - a) \div s) * s /\ (t - a) \div s \in Int BY <1>1, <4>1
      <4>3. t = a + ((t - a) \div s) * s BY <1>1, <1>2, <4>2
      <4> QED BY <4>2, <4>3 DEF Congruent
    <3> QED BY <1>1, <3>1
  <2>2. CASE grid' = RoundedGrid(req, step)
    <3>1. ASSUME NEW t \in grid' PROVE Congruent(t, 0, s)
      <4>1. t \in Int /\ t % s = 0 BY <1>1, <2>2 DEF RoundedGrid
      <4>2. t = 0 + (t \div s) * s /\ t \div s \in Int BY <1>1, <4>1
      <4> QED BY <4>2 DEF Congruent
    <3> QED BY <3>1
  <2> QED BY <2>1, <2>2
<1>4. GridOK'
  <2>1. PICK base \in Int : \A t \in grid' : Congruent(t, base, s) BY <1>3
  <2>2. ASSUME NEW t \in grid', NEW u \in grid' PROVE Congruent(t, u, s)
    <3>1. Congruent(base, u, s) BY <1>1, <1>2, <2>1, CongruentEquiv
    <3> QED BY <1>1, <1>2, <2>1, <3>1, CongruentEquiv
  <2> QED BY <1>2, <2>2 DEF GridOK, Until
<1>5. TypeOK' BY <1>1, <1>2 DEF TypeOK
<1>6. RequestOK' BY DEF IInv, RequestOK, Points
<1>7. SentOK' /\ Working' BY DEF IInv, Working, SentOK
<1> QED BY <1>4, <1>5, <1>6, <1>7 DEF IInv, PanicsOnlyReversed

\* (The steps of one series leave the request, the grid and the responses alone.)
LEMMA ContextSame ==
    ASSUME IInv, UNCHANGED <<req, step, grid, sent>>
    PROVE  RequestOK' /\ GridOK' /\ SentOK'
<1>1. RequestOK' BY DEF IInv, RequestOK, Points
<1>2. GridOK' BY DEF IInv, GridOK, Until
<1>3. SentOK' BY DEF IInv, SentOK, Aligned, Began, Ended
<1> QED BY <1>1, <1>2, <1>3

\* ... when the loop takes up a series ...
LEMMA NextSeriesStep ==
    ASSUME IInv, NextSeries
    PROVE  IInv'
<1>1. PICK S \in (SUBSET grid) \ {{}} : ts' = SortTimes(S) BY DEF NextSeries
<1>2. /\ pc' = "fill" /\ j' = 1 /\ values' = <<>> /\ mstart' = ts'[1] /\ mend' = ts'[Len(ts')]
      /\ UNCHANGED <<req, step, grid, sent>>
  BY DEF NextSeries
<1>3. S \in SUBSET Int /\ S \subseteq grid /\ S # {} BY DEF IInv, TypeOK
<1>4. IsFiniteSet(S)
  <2> DEFINE lo == req.start - step + 1
             hi == Until(req) + step - 1
  <2>1. lo \in Int /\ hi \in Int BY StepType DEF IInv
  <2>2. S \subseteq lo..hi BY <1>3 DEF IInv, GridOK
  <2> HIDE DEF lo, hi
  <2>3. IsFiniteSet(lo..hi) BY <2>1, FS_Interval
  <2> QED BY <2>2, <2>3, FS_Subset
<1> DEFINE n == Cardinality(S)
<1>5. n \in Nat /\ n # 0 BY <1>3, <1>4, FS_CardinalityType, FS_EmptySet
<1>6. ts' \in [1..n -> S] /\ \A a, b \in 1..n : a < b => ts'[a] < ts'[b]
  BY <1>1, <1>3, <1>4, SortTimesSorted DEF Ascending
<1> HIDE DEF n
<1>7. ts' \in Seq(Int) /\ Len(ts') = n /\ ts' # <<>>
  <2>1. ts' \in [1..n -> Int] BY <1>3, <1>6
  <2>2. ts' \in Seq(Int) /\ Len(ts') = n BY <1>5, <2>1
  <2> QED BY <1>5, <2>2
<1>8. \A k \in 1..n : ts'[k] \in grid /\ ts'[k] \in Int BY <1>3, <1>6
<1>9. \A k \in 1..n : ts'[1] <= ts'[k] /\ ts'[k] <= ts'[n]
  <2> SUFFICES ASSUME NEW k \in 1..n PROVE ts'[1] <= ts'[k] /\ ts'[k] <= ts'[n]
    OBVIOUS
  <2>1. 1 \in 1..n /\ n \in 1..n BY <1>5
  <2>2. k = 1 \/ ts'[1] < ts'[k] BY <1>6, <2>1
  <2>3. k = n \/ ts'[k] < ts'[n] BY <1>6, <2>1
  <2> QED BY <1>8, <2>1, <2>2, <2>3
<1>10. TypeOK' BY <1>2, <1>5, <1>7, <1>8 DEF IInv, TypeOK
<1>11. Series'
  BY <1>2, <1>6, <1>7, <1>8 DEF Series, Slots
<1>12. Filling'
  <2>1. step \in Nat \ {0} BY StepType DEF IInv
  <2>2. mstart' \in Int /\ mend' \in Int /\ mstart' <= mend' BY <1>2, <1>5, <1>7, <1>8, <1>9
  <2>3. Len(values') = 0 /\ (0 - 1) * step <= 0 /\ 0 * step = 0 BY <1>2, <2>1
  <2>4. (Len(values') - 1) * step' <= mend' - mstart'
    <3>1. (0 - 1) * step \in Int BY <2>1
    <3> QED BY <1>2, <2>2, <2>3, <3>1
  <2>5. \A k \in j'..Len(ts') : ts'[k] >= mstart' + Len(values') * step'
    <3>1. mstart' + Len(values') * step' = ts'[1] BY <1>2, <2>2, <2>3
    <3> QED BY <1>2, <1>7, <1>8, <1>9, <3>1
  <2>6. \A k \in 1..(j' - 1) : FALSE BY <1>2
  <2> QED BY <1>2, <2>4, <2>5, <2>6 DEF Filling, Frontier
<1> QED BY <1>2, <1>10, <1>11, <1>12, ContextSame DEF IInv, PanicsOnlyReversed, Working

-----------------------------------------------------------------------------
(* What filling, cutting and padding do to the slots.                      *)

\* Appending a NaN keeps every value in its slot and loses none.
LEMMA SlotsAppend ==
    ASSUME NEW v \in Seq(Slot), NEW m \in Int, NEW s \in Nat, Slots(v, m, s)
    PROVE  /\ Append(v, NaN) \in Seq(Slot) /\ Len(Append(v, NaN)) = Len(v) + 1
           /\ Slots(Append(v, NaN), m, s)
           /\ \A t : Has(v, t) => Has(Append(v, NaN), t)
<1> DEFINE w == Append(v, NaN)
<1>1. NaN \in Slot BY DEF Slot
<1>2. w \in Seq(Slot) /\ Len(w) = Len(v) + 1 BY <1>1
<1>3. \A i \in 1..Len(v) : w[i] = v[i] BY <1>1
<1>4. w[Len(v) + 1] = NaN BY <1>1
<1>5. Len(v) \in Nat OBVIOUS
<1> HIDE DEF w
<1>6. Slots(w, m, s) BY <1>2, <1>3, <1>4, <1>5 DEF Slots
<1>7. \A t : Has(v, t) => Has(w, t) BY <1>2, <1>3, <1>5 DEF Has
<1> QED BY <1>2, <1>6, <1>7 DEF w

\* v with the sample u of the last slot's time in the last slot.
SetsLast(w, v, u, m, s) == u = m + (Len(v) - 1) * s /\ w = [v EXCEPT ![Len(v)] = u]

\* So does putting the sample of the last slot's own time into that slot.
LEMMA SlotsSet ==
    ASSUME NEW v \in Seq(Slot), NEW m \in Int, NEW s \in Nat, Slots(v, m, s), Len(v) >= 1,
           NEW u \in Int, NEW w, SetsLast(w, v, u, m, s)
    PROVE  /\ w \in Seq(Slot) /\ Len(w) = Len(v)
           /\ Slots(w, m, s) /\ Has(w, u)
           /\ \A t \in Int : Has(v, t) => Has(w, t)
<1> USE DEF SetsLast
<1>1. u \in Slot BY DEF Slot
<1>2. Len(v) \in 1..Len(v) OBVIOUS
<1>3. w \in Seq(Slot) /\ Len(w) = Len(v) BY <1>1
<1>4. w[Len(v)] = u BY <1>2
<1>5. \A i \in 1..Len(v) : i # Len(v) => w[i] = v[i] OBVIOUS
<1>6. Slots(w, m, s) BY <1>2, <1>3, <1>4, <1>5 DEF Slots
<1>7. Has(w, u) BY <1>2, <1>3, <1>4 DEF Has
<1>8. ASSUME NEW t \in Int, Has(v, t) PROVE Has(w, t)
  <2>1. PICK i \in 1..Len(v) : v[i] = t BY <1>8 DEF Has
  <2>2. t # NaN BY NaNAssumption
  <2>3. CASE i = Len(v)
    <3>1. t = u BY <2>1, <2>2, <2>3 DEF Slots
    <3> QED BY <1>7, <3>1
  <2>4. CASE i # Len(v) BY <1>3, <1>5, <2>1, <2>4 DEF Has
  <2> QED BY <2>3, <2>4
<1> QED BY <1>3, <1>6, <1>7, <1>8

\* Dropping the first slot loses only the sample of the first time ...
LEMMA SlotsDropFirst ==
    ASSUME NEW v \in Seq(Slot), NEW m \in Int, NEW s \in Nat, Slots(v, m, s), Len(v) >= 1
    PROVE  LET w == SubSeq(v, 2, Len(v))
           IN  /\ w \in Seq(Slot) /\ Len(w) = Len(v) - 1
               /\ Slots(w, m + s, s)
               /\ \A t \in Int : Has(v, t) /\ t # m => Has(w, t)
<1> DEFINE w == SubSeq(v, 2, Len(v))
           n == Len(v)
<1>1. n \in Nat /\ n >= 1 OBVIOUS
<1>2. w \in Seq(Slot) /\ Len(w) = n - 1
  <2>1. \A i \in 2..Len(v) : v[i] \in Slot OBVIOUS
  <2>2. w \in Seq(Slot) /\ Len(w) = IF 2 <= n THEN n - 2 + 1 ELSE 0
    BY <2>1, SubSeqProperties
  <2> HIDE DEF w, n
  <2>3. (IF 2 <= n THEN n - 2 + 1 ELSE 0) = n - 1 BY <1>1
  <2> QED BY <2>2, <2>3
<1>3. \A i \in 1..(n - 1) : w[i] = v[i + 1] OBVIOUS
<1>4. \A i \in 1..n : v[i] \in {NaN, m + (i - 1) * s} BY DEF Slots
<1> HIDE DEF w, n
<1>5. Slots(w, m + s, s)
  <2> SUFFICES ASSUME NEW i \in 1..(n - 1) PROVE w[i] \in {NaN, m + s + (i - 1) * s}
    BY <1>2 DEF Slots
  <2>1. i + 1 \in 1..n BY <1>1
  <2>2. v[i + 1] \in {NaN, m + ((i + 1) - 1) * s} BY <1>4, <2>1
  <2>3. m + ((i + 1) - 1) * s = m + s + (i - 1) * s
    <3>1. i \in Int /\ (i + 1) - 1 = i OBVIOUS
    <3>2. (i - 1) * s = i * s - 1 * s /\ i * s \in Int BY <3>1, MulDist
    <3> QED BY <3>1, <3>2
  <2> QED BY <1>3, <2>2, <2>3
<1>6. ASSUME NEW t \in Int, Has(v, t), t # m PROVE Has(w, t)
  <2>1. PICK i \in 1..n : v[i] = t BY <1>6 DEF Has, n
  <2>2. t # NaN BY NaNAssumption
  <2>3. i # 1
    <3>1. 0 * s = 0 OBVIOUS
    <3> QED BY <1>4, <1>6, <2>1, <2>2, <3>1
  <2>4. i - 1 \in 1..(n - 1) /\ (i - 1) + 1 = i BY <1>1, <2>3
  <2>5. w[i - 1] = t BY <1>3, <2>1, <2>4
  <2> QED BY <1>2, <2>4, <2>5 DEF Has
<1> QED BY <1>2, <1>5, <1>6 DEF w, n

\* ... and dropping the last one only that of the last time.
LEMMA SlotsDropLast ==
    ASSUME NEW v \in Seq(Slot), NEW m \in Int, NEW s \in Nat, Slots(v, m, s), Len(v) >= 1
    PROVE  LET w == SubSeq(v, 1, Len(v) - 1)
           IN  /\ w \in Seq(Slot) /\ Len(w) = Len(v) - 1
               /\ Slots(w, m, s)
               /\ \A t \in Int : Has(v, t) /\ t # m + (Len(v) - 1) * s => Has(w, t)
<1> DEFINE w == SubSeq(v, 1, Len(v) - 1)
           n == Len(v)
<1>1. n \in Nat /\ n >= 1 OBVIOUS
<1>2. w \in Seq(Slot) /\ Len(w) = n - 1
  <2>1. \A i \in 1..(Len(v) - 1) : v[i] \in Slot OBVIOUS
  <2>2. w \in Seq(Slot) /\ Len(w) = IF 1 <= n - 1 THEN n - 1 - 1 + 1 ELSE 0
    BY <2>1, SubSeqProperties
  <2> HIDE DEF w, n
  <2>3. (IF 1 <= n - 1 THEN n - 1 - 1 + 1 ELSE 0) = n - 1 BY <1>1
  <2> QED BY <2>2, <2>3
<1>3. \A i \in 1..(n - 1) : w[i] = v[i] OBVIOUS
<1>4. \A i \in 1..n : v[i] \in {NaN, m + (i - 1) * s} BY DEF Slots
<1> HIDE DEF w, n
<1>5. Slots(w, m, s)
  <2> SUFFICES ASSUME NEW i \in 1..(n - 1) PROVE w[i] \in {NaN, m + (i - 1) * s}
    BY <1>2 DEF Slots
  <2>1. i \in 1..n BY <1>1
  <2> QED BY <1>3, <1>4, <2>1
<1>6. ASSUME NEW t \in Int, Has(v, t), t # m + (n - 1) * s PROVE Has(w, t)
  <2>1. PICK i \in 1..n : v[i] = t BY <1>6 DEF Has, n
  <2>2. t # NaN BY NaNAssumption
  <2>3. i # n BY <1>4, <1>6, <2>1, <2>2
  <2>4. i \in 1..(n - 1) BY <1>1, <2>3
  <2> QED BY <1>2, <1>3, <2>1, <2>4 DEF Has
<1> QED BY <1>2, <1>5, <1>6 DEF w, n

\* Padding at the front moves the start back by as many steps.
LEMMA SlotsPadFront ==
    ASSUME NEW v \in Seq(Slot), NEW m \in Int, NEW s \in Nat, Slots(v, m, s), NEW q \in Nat
    PROVE  LET w == makeNanArr(q) \o v
           IN  /\ w \in Seq(Slot) /\ Len(w) = q + Len(v)
               /\ Slots(w, m - q * s, s)
               /\ \A t : Has(v, t) => Has(w, t)
<1> DEFINE p == makeNanArr(q)
           w == p \o v
           n == Len(v)
<1>1. p \in Seq(Slot) /\ Len(p) = q /\ \A i \in 1..q : p[i] = NaN
  <2>1. p \in [1..q -> Slot] BY DEF makeNanArr, Slot
  <2> QED BY <2>1 DEF makeNanArr
<1> HIDE DEF p
<1>2. w \in Seq(Slot) /\ Len(w) = q + n BY <1>1
<1>3. \A i \in 1..q : w[i] = NaN BY <1>1
<1>4. \A i \in 1..n : w[q + i] = v[i] BY <1>1
<1>5. n \in Nat OBVIOUS
<1>6. \A i \in 1..n : v[i] \in {NaN, m + (i - 1) * s} BY DEF Slots
<1> HIDE DEF w, n
<1>7. Slots(w, m - q * s, s)
  <2> SUFFICES ASSUME NEW i \in 1..(q + n) PROVE w[i] \in {NaN, m - q * s + (i - 1) * s}
    BY <1>2 DEF Slots
  <2>1. CASE i <= q BY <1>3, <2>1
  <2>2. CASE i > q
    <3>1. i - q \in 1..n /\ q + (i - q) = i BY <1>5, <2>2
    <3>2. w[i] \in {NaN, m + ((i - q) - 1) * s} BY <1>4, <1>6, <3>1
    <3>3. ((i - q) - 1) * s = (i - 1) * s - q * s /\ (i - 1) * s \in Int /\ q * s \in Int
      <4>1. (i - q) - 1 = (i - 1) - q BY <1>5
      <4> QED BY <1>5, <4>1, MulDist
    <3> QED BY <3>2, <3>3
  <2> QED BY <1>5, <2>1, <2>2
<1>8. ASSUME NEW t, Has(v, t) PROVE Has(w, t)
  <2>1. PICK i \in 1..n : v[i] = t BY <1>8 DEF Has, n
  <2>2. q + i \in 1..(q + n) BY <1>5
  <2> QED BY <1>2, <1>4, <2>1, <2>2 DEF Has
<1> QED BY <1>2, <1>7, <1>8 DEF w, n, p

\* Padding at the end leaves the start where it is.
LEMMA SlotsPadEnd ==
    ASSUME NEW v \in Seq(Slot), NEW m \in Int, NEW s \in Nat, Slots(v, m, s), NEW q \in Nat
    PROVE  LET w == v \o makeNanArr(q)
           IN  /\ w \in Seq(Slot) /\ Len(w) = Len(v) + q
               /\ Slots(w, m, s)
               /\ \A t : Has(v, t) => Has(w, t)
<1> DEFINE p == makeNanArr(q)
           w == v \o p
           n == Len(v)
<1>1. p \in Seq(Slot) /\ Len(p) = q /\ \A i \in 1..q : p[i] = NaN
  <2>1. p \in [1..q -> Slot] BY DEF makeNanArr, Slot
  <2> QED BY <2>1 DEF makeNanArr
<1> HIDE DEF p
<1>2. w \in Seq(Slot) /\ Len(w) = n + q BY <1>1
<1>3. \A i \in 1..n : w[i] = v[i] BY <1>1
<1>4. \A i \in 1..q : w[n + i] = NaN BY <1>1
<1>5. n \in Nat OBVIOUS
<1>6. \A i \in 1..n : v[i] \in {NaN, m + (i - 1) * s} BY DEF Slots
<1> HIDE DEF w, n
<1>7. Slots(w, m, s)
  <2> SUFFICES ASSUME NEW i \in 1..(n + q) PROVE w[i] \in {NaN, m + (i - 1) * s}
    BY <1>2 DEF Slots
  <2>1. CASE i <= n BY <1>3, <1>5, <1>6, <2>1
  <2>2. CASE i > n
    <3>1. i - n \in 1..q /\ n + (i - n) = i BY <1>5, <2>2
    <3> QED BY <1>4, <3>1
  <2> QED BY <1>5, <2>1, <2>2
<1>8. ASSUME NEW t, Has(v, t) PROVE Has(w, t)
  <2>1. PICK i \in 1..n : v[i] = t BY <1>8 DEF Has, n
  <2>2. i \in 1..(n + q) BY <1>5
  <2> QED BY <1>2, <1>3, <2>1, <2>2 DEF Has
<1> QED BY <1>2, <1>7, <1>8 DEF w, n, p

-----------------------------------------------------------------------------
(* The steps of a series.                                                  *)

\* What the later proofs use of a series that is being worked on.
LEMMA SeriesFacts ==
    ASSUME IInv, Series
    PROVE  /\ Len(ts) \in Nat /\ Len(ts) >= 1
           /\ \A k \in 1..Len(ts) : /\ ts[k] \in Int /\ ts[k] \in grid
                                    /\ ts[k] >= req.start - step + 1
                                    /\ ts[k] <= Until(req) + step - 1
                                    /\ ts[1] <= ts[k] /\ ts[k] <= ts[Len(ts)]
           /\ \A k, l \in 1..Len(ts) : Congruent(ts[k], ts[l], step)
<1> DEFINE n == Len(ts)
<1>1. ts \in Seq(Int) /\ grid \subseteq Int BY DEF IInv, TypeOK
<1>2. n \in Nat /\ n >= 1 BY <1>1 DEF Series
<1>3. \A k \in 1..n : ts[k] \in grid /\ ts[k] \in Int BY <1>1 DEF Series
<1>4. step \in Nat \ {0} /\ req.start \in Int /\ Until(req) \in Int BY StepType DEF IInv
<1>5. \A k \in 1..n : ts[k] \in (req.start - step + 1)..(Until(req) + step - 1)
  BY <1>3 DEF IInv, GridOK
<1>6. \A k, l \in 1..n : Congruent(ts[k], ts[l], step) BY <1>3 DEF IInv, GridOK
<1>7. \A a, b \in 1..n : a < b => ts[a] < ts[b] BY DEF Series
<1> HIDE DEF n
<1>8. ASSUME NEW k \in 1..n PROVE ts[1] <= ts[k] /\ ts[k] <= ts[n]
  <2>1. 1 \in 1..n /\ n \in 1..n BY <1>2
  <2>2. k = 1 \/ ts[1] < ts[k] BY <1>7, <2>1
  <2>3. k = n \/ ts[k] < ts[n] BY <1>7, <2>1
  <2> QED BY <1>3, <2>1, <2>2, <2>3
<1>9. \A k \in 1..n : ts[k] >= req.start - step + 1 /\ ts[k] <= Until(req) + step - 1
  BY <1>3, <1>4, <1>5
<1> QED BY <1>2, <1>3, <1>6, <1>8, <1>9 DEF n

\* ... when it has taken the last one ...
LEMMA EndSeriesStep ==
    ASSUME IInv, EndSeries
    PROVE  IInv'
<1>1. UNCHANGED <<req, step, grid, sent, ts, j, values, mstart, mend>> /\ pc' = "idle"
  BY DEF EndSeries
<1>2. TypeOK' BY <1>1 DEF IInv, TypeOK
<1> QED BY <1>1, <1>2, ContextSame DEF IInv, PanicsOnlyReversed, Working

\* ... when a slot is opened with NaN: the slot is not past the last sample ...
LEMMA FillSlotStep ==
    ASSUME IInv, FillSlot
    PROVE  IInv'
<1> DEFINE n == Len(values)
           D == mend - mstart
           w == Append(values, NaN)
<1>1. /\ pc = "fill" /\ pc' = "search" /\ values' = w /\ n < D \div step + 1
      /\ UNCHANGED <<req, step, grid, sent, ts, j, mstart, mend>>
  BY DEF FillSlot, Count
<1>2. /\ step \in Nat \ {0} /\ mstart \in Int /\ D \in Int /\ n \in Nat /\ values \in Seq(Slot)
      /\ j \in Int
  BY StepType DEF IInv, TypeOK
<1>3. Series /\ Filling BY <1>1 DEF IInv, Working
<1>4. w \in Seq(Slot) /\ Len(w) = n + 1 /\ Slots(w, mstart, step) /\ \A t : Has(values, t) => Has(w, t)
  BY <1>2, <1>3, SlotsAppend DEF Series
<1>5. n * step <= D
  <2> HIDE DEF n, D
  <2>1. D \div step \in Int /\ (D \div step) * step <= D BY <1>2, DivBounds
  <2>2. n <= D \div step BY <1>1, <1>2, <2>1
  <2>3. n * step <= (D \div step) * step BY <1>2, <2>1, <2>2, MulMonotone
  <2>4. n * step \in Int /\ (D \div step) * step \in Int BY <1>2, <2>1, MulDist
  <2> QED BY <1>2, <2>1, <2>3, <2>4
<1>6. (n + 1) - 1 = n /\ n + 1 >= 1 BY <1>2
<1> HIDE DEF w
<1>7. TypeOK' BY <1>1, <1>4 DEF IInv, TypeOK
<1>8. Series' BY <1>1, <1>3, <1>4 DEF Series
<1>9. Filling'
  <2>1. (Len(w) - 1) * step <= mend - mstart /\ Len(w) >= 1 BY <1>4, <1>5, <1>6
  <2>2. \A k \in 1..(j - 1) : Has(w, ts[k]) BY <1>3, <1>4 DEF Filling
  <2>3. \A k \in j..Len(ts) : ts[k] >= mstart + (Len(w) - 1) * step
    <3>1. \A k \in j..Len(ts) : ts[k] >= mstart + n * step BY <1>1, <1>3 DEF Filling, Frontier
    <3> QED BY <1>4, <1>6, <3>1
  <2> QED BY <1>1, <1>3, <2>1, <2>2, <2>3 DEF Filling, Frontier
<1> QED BY <1>1, <1>7, <1>8, <1>9, ContextSame DEF IInv, PanicsOnlyReversed, Working

\* ... when sample j is put into its slot ...
LEMMA SearchMatchStep ==
    ASSUME IInv, SearchMatch
    PROVE  IInv'
<1> DEFINE n == Len(values)
           u == ts[j]
           w == [values EXCEPT ![n] = u]
<1>1. /\ pc = "search" /\ pc' = pc /\ values' = w /\ u = mstart + (n - 1) * step
      /\ j <= Len(ts) /\ j' = j + 1
      /\ UNCHANGED <<req, step, grid, sent, ts, mstart, mend>>
  BY DEF SearchMatch, SlotTime
<1>2. /\ step \in Nat \ {0} /\ mstart \in Int /\ n \in Nat /\ values \in Seq(Slot)
      /\ j \in 1..(Len(ts) + 1) /\ Len(ts) \in Nat
  BY StepType DEF IInv, TypeOK
<1>3. Series /\ Filling BY <1>1 DEF IInv, Working
<1>4. j \in 1..Len(ts) /\ u \in Int BY <1>1, <1>2, <1>3, SeriesFacts
<1>5. n >= 1 BY <1>1, <1>3 DEF Filling
<1>6. /\ w \in Seq(Slot) /\ Len(w) = n /\ Slots(w, mstart, step) /\ Has(w, u)
      /\ \A t \in Int : Has(values, t) => Has(w, t)
  <2> HIDE DEF u
  <2>1. values \in Seq(Slot) /\ mstart \in Int /\ step \in Nat /\ Slots(values, mstart, step)
    BY <1>2, <1>3 DEF Series
  <2>2. Len(values) >= 1 /\ u \in Int BY <1>4, <1>5
  <2>3. SetsLast(w, values, u, mstart, step) BY <1>1 DEF SetsLast
  <2> HIDE DEF w
  <2> QED BY ONLY <2>1, <2>2, <2>3, SlotsSet
<1> HIDE DEF w
<1>7. TypeOK'
  <2>1. j + 1 \in 1..(Len(ts) + 1) BY <1>2, <1>4
  <2> QED BY <1>1, <1>6, <2>1 DEF IInv, TypeOK
<1>8. Series' BY <1>1, <1>3, <1>6 DEF Series
<1>9. Filling'
  <2>1. ASSUME NEW k \in 1..j PROVE Has(w, ts[k])
    <3>1. CASE k = j BY <1>6, <3>1
    <3>2. CASE k # j
      <4>1. k \in 1..(j - 1) /\ k \in 1..Len(ts) BY <1>2, <1>4, <3>2
      <4>2. Has(values, ts[k]) /\ ts[k] \in Int BY <1>3, <4>1, SeriesFacts DEF Filling
      <4> QED BY <1>6, <4>2
    <3> QED BY <3>1, <3>2
  <2>2. \A k \in (j + 1)..Len(ts) : ts[k] >= mstart + (n - 1) * step
    <3>1. \A k \in (j + 1)..Len(ts) : k \in j..Len(ts) BY <1>2
    <3> QED BY <1>1, <1>3, <3>1 DEF Filling, Frontier
  <2>3. (n - 1) * step <= mend - mstart BY <1>3 DEF Filling
  <2>4. (j + 1) - 1 = j BY <1>2
  <2> QED BY <1>1, <1>3, <1>5, <1>6, <2>1, <2>2, <2>3, <2>4 DEF Filling, Frontier
<1> QED BY <1>1, <1>7, <1>8, <1>9, ContextSame DEF IInv, PanicsOnlyReversed, Working

\* ... when sample j belongs to a later slot: it lies a whole step on ...
LEMMA SearchBreakStep ==
    ASSUME IInv, SearchBreak
    PROVE  IInv'
<1> DEFINE n == Len(values)
           u == mstart + (n - 1) * step
<1>1. /\ pc = "search" /\ pc' = "fill" /\ ~(j <= Len(ts) /\ u = ts[j])
      /\ UNCHANGED <<req, step, grid, sent, ts, j, values, mstart, mend>>
  BY DEF SearchBreak, SlotTime
<1>2. /\ step \in Nat \ {0} /\ mstart \in Int /\ n \in Nat
      /\ j \in 1..(Len(ts) + 1) /\ Len(ts) \in Nat
  BY StepType DEF IInv, TypeOK
<1>3. Series /\ Filling BY <1>1 DEF IInv, Working
<1>4. u \in Int /\ u + step = mstart + n * step
  <2>1. (n - 1) * step = n * step - 1 * step /\ n * step \in Int BY <1>2, MulDist
  <2> QED BY <1>2, <2>1
<1>5. TypeOK' BY <1>1 DEF IInv, TypeOK
<1>6. Series' BY <1>1, <1>3 DEF Series
<1>7. ASSUME NEW k \in j..Len(ts) PROVE ts[k] >= mstart + n * step
  <2>1. k \in 1..Len(ts) /\ j \in 1..Len(ts) /\ 1 \in 1..Len(ts) BY <1>2
  <2>2. /\ ts[k] \in Int /\ ts[j] \in Int /\ ts[1] \in Int
        /\ Congruent(ts[1], ts[k], step)
    BY <1>3, <2>1, SeriesFacts
  <2>3. ts[j] > u
    <3>1. j \in j..Len(ts) /\ ts[j] # u BY <1>1, <1>2, <2>1
    <3>2. ts[j] >= u BY <1>1, <1>3, <3>1 DEF Filling, Frontier
    <3> HIDE DEF u
    <3> QED BY <1>4, <2>2, <3>1, <3>2
  <2>4. ts[k] > u
    <3>1. k = j \/ ts[j] < ts[k] BY <1>3, <2>1 DEF Series
    <3> HIDE DEF u
    <3> QED BY <1>4, <2>2, <2>3, <3>1
  <2>5. Congruent(ts[k], u, step)
    <3>1. u = ts[1] + (n - 1) * step /\ n - 1 \in Int BY <1>2, <1>3 DEF Filling
    <3>2. Congruent(ts[1] + (n - 1) * step, ts[k], step)
      <4> HIDE DEF n
      <4> QED BY <1>2, <2>2, <3>1, CongruentShift
    <3>3. Congruent(u, ts[k], step) BY <3>1, <3>2
    <3> HIDE DEF u
    <3> QED BY <1>2, <1>4, <2>2, <3>3, CongruentEquiv
  <2>6. ts[k] >= u + step
    <3> HIDE DEF u
    <3> QED BY <1>2, <1>4, <2>2, <2>4, <2>5, CongruentNext
  <2> QED BY <1>4, <2>6
<1>8. Filling' BY <1>1, <1>3, <1>7 DEF Filling, Frontier
<1> QED BY <1>1, <1>5, <1>6, <1>8, ContextSame DEF IInv, PanicsOnlyReversed, Working

\* ... when all slots are filled: no sample is left over ...
LEMMA FillDoneStep ==
    ASSUME IInv, FillDone
    PROVE  IInv'
<1> DEFINE n == Len(values)
           D == mend - mstart
           q == D \div step
<1>1. /\ pc = "fill" /\ pc' = "start" /\ n >= q + 1
      /\ UNCHANGED <<req, step, grid, sent, ts, j, values, mstart, mend>>
  BY DEF FillDone, Count
<1>2. /\ step \in Nat \ {0} /\ mstart \in Int /\ mend \in Int /\ n \in Nat
      /\ j \in 1..(Len(ts) + 1) /\ Len(ts) \in Nat
  BY StepType DEF IInv, TypeOK
<1>3. Series /\ Filling BY <1>1 DEF IInv, Working
<1>4. PICK k \in Int : mend = mstart + k * step
  <2>1. 1 \in 1..Len(ts) /\ Len(ts) \in 1..Len(ts) BY <1>3, SeriesFacts
  <2>2. Congruent(mend, mstart, step) BY <1>3, <2>1, SeriesFacts DEF Filling
  <2> QED BY <2>2 DEF Congruent
<1>5. D \in Int /\ D = k * step
  <2>1. k * step \in Int BY <1>2, <1>4, MulDist
  <2> QED BY <1>2, <1>4, <2>1
<1>6. q = k
  <2> HIDE DEF D
  <2>1. k * step <= D /\ D < k * step + step BY <1>2, <1>5
  <2> QED BY <1>2, <1>5, <2>1, DivUnique
<1>7. n - 1 = k
  <2>1. (n - 1) * step <= k * step BY <1>3, <1>5 DEF Filling
  <2> HIDE DEF n
  <2>2. n - 1 \in Int /\ (n - 1) * step \in Int /\ k * step \in Int BY <1>2, <1>4, MulDist
  <2>3. (n - 1) * step < k * step + step BY <1>2, <2>1, <2>2
  <2>4. n - 1 <= k BY <1>2, <1>4, <2>2, <2>3, MulOrder
  <2>5. n >= k + 1 BY <1>1, <1>6
  <2> QED BY <1>2, <1>4, <2>4, <2>5
<1>8. j > Len(ts)
  <2> SUFFICES ASSUME ~(j > Len(ts)) PROVE FALSE
    OBVIOUS
  <2>1. j \in j..Len(ts) /\ j \in 1..Len(ts) BY <1>2
  <2>2. ts[j] >= mstart + n * step BY <1>1, <1>3, <2>1 DEF Filling, Frontier
  <2>3. ts[j] <= mend /\ ts[j] \in Int BY <1>3, <2>1, SeriesFacts DEF Filling
  <2>4. n = k + 1 BY <1>2, <1>4, <1>7
  <2>5. n * step = k * step + step /\ k * step \in Int
    <3> HIDE DEF n
    <3> QED BY <1>2, <1>4, <2>4
  <2> QED BY <1>2, <1>4, <2>2, <2>3, <2>5
<1>9. Filled'
  <2>1. mend = mstart + (n - 1) * step BY <1>4, <1>7
  <2>2. \A l \in 1..Len(ts) : l \in 1..(j - 1) BY <1>2, <1>8
  <2> QED BY <1>1, <1>3, <2>1, <2>2 DEF Filled, Filling
<1>10. TypeOK' BY <1>1 DEF IInv, TypeOK
<1>11. Series' BY <1>1, <1>3 DEF Series
<1> QED BY <1>1, <1>9, <1>10, <1>11, ContextSame DEF IInv, PanicsOnlyReversed, Working

\* Rounded up, a distance of less than a step is one step.
LEMMA CeilDivOne ==
    ASSUME NEW s \in Nat \ {0}, NEW x \in Int, x >= 1, x <= s - 1
    PROVE  CeilDiv(x, s) = 1
<1>1. x + s - 1 \in Int /\ 1 * s <= x + s - 1 /\ x + s - 1 < 1 * s + s OBVIOUS
<1>2. (x + s - 1) \div s = 1
  <2> DEFINE a == x + s - 1
  <2>1. a \in Int /\ 1 * s <= a /\ a < 1 * s + s BY <1>1
  <2> HIDE DEF a
  <2>2. a \div s = 1 BY <2>1, DivUnique
  <2> QED BY <2>2 DEF a
<1> QED BY <1>2 DEF CeilDiv

\* ... when the start is cut: by one point, which is there and out of range ...
LEMMA CutStartStep ==
    ASSUME IInv, CutStart
    PROVE  IInv'
<1> DEFINE n == Len(values)
           w == SubSeq(values, 2, Len(values))
<1>1. pc = "start" /\ mstart < req.start BY DEF CutStart
<1>2. /\ step \in Nat \ {0} /\ mstart \in Int /\ mend \in Int /\ n \in Nat
      /\ values \in Seq(Slot) /\ req.start \in Int /\ req.stop \in Int
  BY StepType DEF IInv, TypeOK
<1>3. Series /\ Filled BY <1>1 DEF IInv, Working
<1>4. /\ Len(ts) \in 1..Len(ts) /\ 1 \in 1..Len(ts)
      /\ mstart >= req.start - step + 1 /\ mstart <= mend
      /\ mstart \in grid
  BY <1>3, SeriesFacts DEF Filled
<1>5. CeilDiv(req.start - mstart, step) = 1
  <2>1. /\ req.start - mstart \in Int /\ req.start - mstart >= 1
        /\ req.start - mstart <= step - 1
    BY <1>1, <1>2, <1>4
  <2> QED BY <1>2, <2>1, CeilDivOne
<1>6. mend = mstart + (n - 1) * step BY <1>3 DEF Filled
<1>7. n >= 1
  <2> SUFFICES ASSUME n = 0 PROVE FALSE
    BY <1>2
  <2>1. (0 - 1) * step < 0 BY <1>2
  <2> QED BY <1>2, <1>4, <1>6, <2>1
<1>8. /\ pc' = "end" /\ mstart' = mstart + step /\ values' = w
      /\ UNCHANGED <<req, step, grid, sent, ts, j, mend>>
  <2>1. ~(1 > n) /\ 1 * step = step /\ 1 + 1 = 2 BY <1>2, <1>7
  <2> QED BY <1>5, <2>1 DEF CutStart
<1>9. /\ w \in Seq(Slot) /\ Len(w) = n - 1 /\ Slots(w, mstart + step, step)
      /\ \A t \in Int : Has(values, t) /\ t # mstart => Has(w, t)
  BY <1>2, <1>3, <1>7, SlotsDropFirst DEF Series
<1> HIDE DEF w
<1>10. Began(mstart)'
  <2>1. mstart + step \in req.start..(req.start + step - 1) BY <1>1, <1>2, <1>4
  <2>2. Congruent(mstart + step, mstart, step)
    <3>1. mstart + step = mstart + 1 * step BY <1>2
    <3> QED BY <3>1 DEF Congruent
  <2> QED BY <1>4, <1>8, <2>1, <2>2 DEF Began
<1>11. StartAligned'
  <2>1. mend = (mstart + step) + (Len(w) - 1) * step
    <3>1. (n - 1) * step = ((n - 1) - 1) * step + step /\ ((n - 1) - 1) * step \in Int
      <4> HIDE DEF n
      <4> QED BY <1>2
    <3> QED BY <1>2, <1>6, <1>9, <3>1
  <2>2. ASSUME NEW k \in 1..Len(ts), ts[k] >= req.start PROVE Has(w, ts[k])
    <3>1. ts[k] \in Int BY <1>3, SeriesFacts
    <3>2. ts[k] # mstart BY <1>1, <1>2, <2>2, <3>1
    <3>3. Has(values, ts[k]) BY <1>3 DEF Filled
    <3> QED BY <1>9, <3>1, <3>2, <3>3
  <2>3. mend = ts[Len(ts)] BY <1>3 DEF Filled
  <2> QED BY <1>8, <1>10, <2>1, <2>2, <2>3 DEF StartAligned
<1>12. TypeOK' BY <1>2, <1>8, <1>9 DEF IInv, TypeOK
<1>13. Series' BY <1>3, <1>8, <1>9 DEF Series
<1> QED BY <1>8, <1>11, <1>12, <1>13, ContextSame DEF IInv, PanicsOnlyReversed, Working

\* ... when it is padded ...
LEMMA PadStartStep ==
    ASSUME IInv, PadStart
    PROVE  IInv'
<1> DEFINE n == Len(values)
           a == mstart - req.start
           q == a \div step
           w == makeNanArr(q) \o values
<1>1. /\ pc = "start" /\ mstart >= req.start /\ pc' = "end"
      /\ mstart' = mstart - q * step /\ values' = w
      /\ UNCHANGED <<req, step, grid, sent, ts, j, mend>>
  BY DEF PadStart
<1>2. /\ step \in Nat \ {0} /\ mstart \in Int /\ mend \in Int /\ n \in Nat
      /\ values \in Seq(Slot) /\ req.start \in Int /\ req.stop \in Int
  BY StepType DEF IInv, TypeOK
<1>3. Series /\ Filled BY <1>1 DEF IInv, Working
<1>4. Len(ts) \in 1..Len(ts) /\ 1 \in 1..Len(ts) /\ mstart \in grid
  BY <1>3, SeriesFacts DEF Filled
<1>5. a \in Int /\ a >= 0 BY <1>1, <1>2
<1>6. q \in Nat /\ q * step \in Int /\ q * step <= a /\ a < q * step + step
  <2> HIDE DEF a
  <2>1. q \in Int /\ q * step <= a /\ a < q * step + step BY <1>2, <1>5, DivBounds
  <2> HIDE DEF q
  <2>2. q * step \in Int BY <1>2, <2>1, MulDist
  <2>3. 0 * step < q * step + step
    <3>1. 0 * step = 0 BY <1>2
    <3> QED BY <1>2, <1>5, <2>1, <2>2, <3>1
  <2>4. 0 <= q BY <1>2, <2>1, <2>3, MulOrder
  <2> QED BY <2>1, <2>2, <2>4
<1>7. mend = mstart + (n - 1) * step BY <1>3 DEF Filled
<1>8. /\ w \in Seq(Slot) /\ Len(w) = q + n /\ Slots(w, mstart - q * step, step)
      /\ \A t : Has(values, t) => Has(w, t)
  <2> HIDE DEF q
  <2> QED BY <1>2, <1>3, <1>6, SlotsPadFront DEF Series
<1> HIDE DEF w, q
<1>9. Began(mstart)'
  <2>1. mstart - q * step \in req.start..(req.start + step - 1) BY <1>2, <1>6
  <2>2. Congruent(mstart - q * step, mstart, step)
    <3>1. mstart - q * step = mstart + (0 - q) * step /\ 0 - q \in Int BY <1>2, <1>6
    <3> QED BY <3>1 DEF Congruent
  <2> QED BY <1>1, <1>4, <2>1, <2>2 DEF Began
<1>10. StartAligned'
  <2>1. mend = (mstart - q * step) + (Len(w) - 1) * step
    <3>1. ((q + n) - 1) * step = q * step + (n - 1) * step /\ (n - 1) * step \in Int
      <4> HIDE DEF n
      <4>1. (q + n) - 1 = q + (n - 1) BY <1>2, <1>6
      <4> QED BY <1>2, <1>6, <4>1, MulDist
    <3> QED BY <1>2, <1>6, <1>7, <1>8, <3>1
  <2>2. \A k \in 1..Len(ts) : Has(w, ts[k]) BY <1>3, <1>8 DEF Filled
  <2>3. mend = ts[Len(ts)] BY <1>3 DEF Filled
  <2> QED BY <1>1, <1>9, <2>1, <2>2, <2>3 DEF StartAligned
<1>11. TypeOK' BY <1>1, <1>2, <1>6, <1>8 DEF IInv, TypeOK
<1>12. Series' BY <1>1, <1>3, <1>8 DEF Series
<1> QED BY <1>1, <1>10, <1>11, <1>12, ContextSame DEF IInv, PanicsOnlyReversed, Working

\* ... when the end is cut: by one point, which is there and out of range ...
LEMMA CutEndStep ==
    ASSUME IInv, CutEnd, req.start <= req.stop
    PROVE  IInv'
<1> DEFINE n == Len(values)
           w == SubSeq(values, 1, Len(values) - 1)
           X == {ts[k] : k \in 1..Len(ts)}
<1>1. pc = "end" /\ mend > req.stop BY DEF CutEnd
<1>2. /\ step \in Nat \ {0} /\ mstart \in Int /\ mend \in Int /\ n \in Nat
      /\ values \in Seq(Slot) /\ req.start \in Int /\ req.stop \in Int
      /\ Until(req) = req.stop
  BY StepType DEF IInv, TypeOK
<1>3. Series /\ StartAligned BY <1>1 DEF IInv, Working
<1>4. Len(ts) \in 1..Len(ts) /\ mend <= req.stop + step - 1
  <2>1. Len(ts) \in 1..Len(ts) BY <1>3, SeriesFacts
  <2>2. mend = ts[Len(ts)] BY <1>3 DEF StartAligned
  <2>3. ts[Len(ts)] <= Until(req) + step - 1 BY <1>3, <2>1, SeriesFacts
  <2> QED BY <1>2, <2>1, <2>2, <2>3
<1>5. CeilDiv(mend - req.stop, step) = 1
  <2>1. /\ mend - req.stop \in Int /\ mend - req.stop >= 1
        /\ mend - req.stop <= step - 1
    BY <1>1, <1>2, <1>4
  <2> QED BY <1>2, <2>1, CeilDivOne
<1>6. mend = mstart + (n - 1) * step /\ mstart <= req.start + step - 1
  BY <1>2, <1>3 DEF StartAligned, Began
<1>7. n >= 1
  <2> SUFFICES ASSUME n = 0 PROVE FALSE
    BY <1>2
  <2>1. (0 - 1) * step = 0 - step BY <1>2
  <2> QED BY <1>1, <1>2, <1>6, <2>1
<1>8. /\ pc' = "emit" /\ mend' = mend - step /\ values' = w
      /\ UNCHANGED <<req, step, grid, sent, ts, j, mstart>>
  <2>1. ~(1 > n) /\ 1 * step = step BY <1>2, <1>7
  <2> QED BY <1>5, <2>1 DEF CutEnd
<1>9. /\ w \in Seq(Slot) /\ Len(w) = n - 1 /\ Slots(w, mstart, step)
      /\ \A t \in Int : Has(values, t) /\ t # mend => Has(w, t)
  <2>1. /\ w \in Seq(Slot) /\ Len(w) = n - 1 /\ Slots(w, mstart, step)
        /\ \A t \in Int : Has(values, t) /\ t # mstart + (n - 1) * step => Has(w, t)
    BY <1>2, <1>3, <1>7, SlotsDropLast DEF Series
  <2> QED BY <1>6, <2>1
<1> HIDE DEF w
<1>10. Aligned(mstart, mend - step, w, X)
  <2>1. mend - step = mstart + (Len(w) - 1) * step
    <3>1. (n - 1) * step = ((n - 1) - 1) * step + step /\ ((n - 1) - 1) * step \in Int
      <4> HIDE DEF n
      <4> QED BY <1>2
    <3> QED BY <1>2, <1>6, <1>9, <3>1
  <2>2. mend - step > req.stop - step /\ mend - step < req.stop + step BY <1>1, <1>2, <1>4
  <2>5. Ended(mstart, mend - step) BY <2>2 DEF Ended
  <2>3. ASSUME NEW t \in X, t \in req.start..req.stop PROVE Has(w, t)
    <3>1. PICK k \in 1..Len(ts) : t = ts[k] OBVIOUS
    <3>2. t \in Int /\ t >= req.start /\ t # mend BY <1>1, <1>2, <2>3
    <3>3. Has(values, t) BY <1>3, <3>1, <3>2 DEF StartAligned
    <3> QED BY <1>9, <3>2, <3>3
  <2>4. Began(mstart) BY <1>3 DEF StartAligned
  <2> HIDE DEF X
  <2> QED BY <1>9, <2>1, <2>3, <2>4, <2>5 DEF Aligned
<1>11. Aligned(mstart, mend, values, X)' BY <1>8, <1>10 DEF Aligned, Began, Ended
<1>12. TypeOK' BY <1>2, <1>8, <1>9 DEF IInv, TypeOK
<1>13. Series' BY <1>3, <1>8, <1>9 DEF Series
<1> QED BY <1>8, <1>11, <1>12, <1>13, ContextSame DEF IInv, PanicsOnlyReversed, Working

\* (A reversed range: more points are cut than there are, or all of them.)
LEMMA CutEndReversed ==
    ASSUME IInv, CutEnd, req.start > req.stop
    PROVE  IInv'
<1> DEFINE n == Len(values)
           a == mend - req.stop
           c == CeilDiv(a, step)
           X == {ts[k] : k \in 1..Len(ts)}
<1>1. pc = "end" BY DEF CutEnd
<1>2. /\ step \in Nat \ {0} /\ mstart \in Int /\ mend \in Int /\ n \in Nat
      /\ values \in Seq(Slot) /\ req.start \in Int /\ req.stop \in Int
  BY StepType DEF IInv, TypeOK
<1>3. Series /\ StartAligned BY <1>1 DEF IInv, Working
<1>4. CASE c > n
  <2>1. pc' = "panic" /\ UNCHANGED <<req, step, grid, sent, ts, j, values, mstart, mend>>
    BY <1>4 DEF CutEnd, Panic
  <2>2. TypeOK' BY <2>1 DEF IInv, TypeOK
  <2> QED BY <2>1, <2>2, ContextSame DEF IInv, PanicsOnlyReversed, Working
<1>5. CASE ~(c > n)
  <2>1. mend = mstart + (n - 1) * step /\ mstart >= req.start
    BY <1>2, <1>3 DEF StartAligned, Began
  <2>2. c \in Int /\ c * step \in Int /\ c * step >= a
    <3> DEFINE b == a + step - 1
    <3>1. a \in Int /\ b \in Int BY <1>2
    <3>2. c = b \div step BY DEF CeilDiv
    <3> HIDE DEF a, b, c
    <3>3. b \div step \in Int /\ b < (b \div step) * step + step BY <1>2, <3>1, DivBounds
    <3>4. c \in Int /\ b < c * step + step BY <3>2, <3>3
    <3>5. c * step \in Int BY <1>2, <3>4, MulDist
    <3> QED BY <1>2, <3>1, <3>4, <3>5 DEF b
  <2>3. c = n
    <3>1. n - 1 \in Int /\ (n - 1) * step \in Int
      <4> HIDE DEF n
      <4> QED BY <1>2, MulDist
    <3>2. (n - 1) * step < c * step
      <4> HIDE DEF c
      <4> QED BY <1>2, <2>1, <2>2, <3>1
    <3> HIDE DEF c, n
    <3>3. (n - 1) * step < (c - 1) * step + step
      <4>1. (c - 1) * step = c * step - 1 * step BY <1>2, <2>2, MulDist
      <4> QED BY <1>2, <2>2, <3>1, <3>2, <4>1
    <3>4. n - 1 <= c - 1 BY <1>2, <2>2, <3>1, <3>3, MulOrder
    <3> QED BY <1>2, <1>5, <2>2, <3>4
  <2>4. /\ pc' = "emit" /\ mend' = mend - n * step /\ values' = SubSeq(values, 1, n - n)
        /\ UNCHANGED <<req, step, grid, sent, ts, j, mstart>>
    BY <1>5, <2>3 DEF CutEnd
  <2>5. values' = <<>>
    <3>1. n - n = 0 BY <1>2
    <3>2. values' = SubSeq(values, 1, 0) BY <2>4, <3>1
    <3> QED BY <1>2, <3>2
  <2>6. mend' = mstart - step
    <3>1. (n - 1) * step = n * step - step /\ n * step \in Int
      <4> HIDE DEF n
      <4> QED BY <1>2, MulDist
    <3> QED BY <1>2, <2>1, <2>4, <3>1
  <2>7. Aligned(mstart, mstart - step, <<>>, X)
    <3>1. Began(mstart) BY <1>3 DEF StartAligned
    <3>2. mstart - step = mstart + (0 - 1) * step BY <1>2
    <3>3. Ended(mstart, mstart - step) BY <1>2 DEF Ended
    <3>4. Slots(<<>>, mstart, step) BY DEF Slots
    <3>5. \A t \in X : ~(t \in req.start..req.stop) BY <1>2
    <3>6. Len(<<>>) = 0 OBVIOUS
    <3> HIDE DEF X
    <3> QED BY <3>1, <3>2, <3>3, <3>4, <3>5, <3>6 DEF Aligned
  <2>8. Aligned(mstart, mend, values, X)' BY <2>4, <2>5, <2>6, <2>7 DEF Aligned, Began, Ended
  <2>9. TypeOK' BY <1>2, <2>4, <2>5, <2>6 DEF IInv, TypeOK
  <2>10. Series' BY <1>3, <2>4, <2>5 DEF Series, Slots
  <2> QED BY <2>4, <2>8, <2>9, <2>10, ContextSame DEF IInv, PanicsOnlyReversed, Working
<1> QED BY <1>4, <1>5

\* Of a range that is not negative, Go's quotient is rounded down.
LEMMA QuoNat ==
    ASSUME NEW a \in Int, a >= 0, NEW s \in Nat \ {0}
    PROVE  Quo(a, s) = a \div s
BY DEF Quo

\* ... when it is padded: never by a negative number of points ...
LEMMA PadEndStep ==
    ASSUME IInv, PadEnd, req.start <= req.stop
    PROVE  IInv'
<1> DEFINE n == Len(values)
           d == req.stop - req.start
           D == d \div step
           q == D + 1 - n
           w == values \o makeNanArr(q)
           X == {ts[k] : k \in 1..Len(ts)}
<1>1. pc = "end" /\ mend <= req.stop BY DEF PadEnd
<1>2. /\ step \in Nat \ {0} /\ mstart \in Int /\ mend \in Int /\ n \in Nat
      /\ values \in Seq(Slot) /\ req.start \in Int /\ req.stop \in Int
      /\ Until(req) = req.stop
  BY StepType DEF IInv, TypeOK
<1>3. Series /\ StartAligned BY <1>1 DEF IInv, Working
<1>4. /\ mend = mstart + (n - 1) * step
      /\ req.start <= mstart /\ mstart <= req.start + step - 1
  BY <1>2, <1>3 DEF StartAligned, Began
<1>5. D \in Int /\ D * step \in Int /\ D * step <= d /\ d < D * step + step
  <2>1. d \in Int BY <1>2
  <2> HIDE DEF d
  <2>2. D \in Int /\ D * step <= d /\ d < D * step + step BY <1>2, <2>1, DivBounds
  <2> HIDE DEF D
  <2> QED BY <1>2, <2>2, MulDist
<1> HIDE DEF D
<1>6. q \in Nat
  <2>1. n - 1 \in Int /\ (n - 1) * step \in Int
    <3> HIDE DEF n
    <3> QED BY <1>2, MulDist
  <2>2. (n - 1) * step < D * step + step BY <1>1, <1>2, <1>4, <1>5, <2>1
  <2>3. n - 1 <= D
    <3> HIDE DEF n
    <3> QED BY <1>2, <1>5, <2>1, <2>2, MulOrder
  <2> QED BY <1>2, <1>5, <2>3
<1>7. /\ pc' = "emit" /\ mend' = mend + q * step /\ values' = w
      /\ UNCHANGED <<req, step, grid, sent, ts, j, mstart>>
  <2>1. ~(q < 0) BY <1>6
  <2>2. Quo(req.stop - req.start, step) = D
    <3>1. req.stop - req.start \in Int /\ req.stop - req.start >= 0 BY <1>2
    <3> QED BY <1>2, <3>1, QuoNat DEF D
  <2> HIDE DEF d
  <2> QED BY <2>1, <2>2 DEF PadEnd
<1>8. /\ w \in Seq(Slot) /\ Len(w) = n + q /\ Slots(w, mstart, step)
      /\ \A t : Has(values, t) => Has(w, t)
  <2> HIDE DEF q
  <2> QED BY <1>2, <1>3, <1>6, SlotsPadEnd DEF Series
<1> HIDE DEF w
<1>9. mend + q * step = mstart + D * step
  <2>1. (n - 1) * step + q * step = D * step /\ (n - 1) * step \in Int /\ q * step \in Int
    <3>1. (n - 1) + q = D /\ n - 1 \in Int BY <1>2, <1>5
    <3>2. q \in Int BY <1>6
    <3> HIDE DEF n, q
    <3>3. ((n - 1) + q) * step = (n - 1) * step + q * step BY <1>2, <3>1, <3>2, MulDist
    <3> QED BY <1>2, <3>1, <3>2, <3>3, MulDist
  <2> DEFINE x == (n - 1) * step
             y == q * step
             z == D * step
  <2>2. mend = mstart + x /\ x + y = z /\ x \in Int /\ y \in Int /\ z \in Int
    BY <1>4, <1>5, <2>1
  <2> HIDE DEF x, y, z
  <2>3. mend + y = mstart + z BY <1>2, <2>2
  <2> QED BY <2>3 DEF y, z
<1>10. Aligned(mstart, mend + q * step, w, X)
  <2>1. mend + q * step = mstart + (Len(w) - 1) * step
    <3>1. Len(w) - 1 = D BY <1>2, <1>5, <1>8
    <3> QED BY <1>9, <3>1
  <2>2. mstart + D * step > req.stop - step /\ mstart + D * step < req.stop + step
    BY <1>2, <1>4, <1>5
  <2>5. Ended(mstart, mstart + D * step) BY <2>2 DEF Ended
  <2>3. ASSUME NEW t \in X, t \in req.start..req.stop PROVE Has(w, t)
    <3>1. PICK k \in 1..Len(ts) : t = ts[k] OBVIOUS
    <3>2. t >= req.start BY <1>2, <2>3
    <3>3. Has(values, t) BY <1>3, <3>1, <3>2 DEF StartAligned
    <3> QED BY <1>8, <3>3
  <2>4. Began(mstart) BY <1>3 DEF StartAligned
  <2> HIDE DEF X, q
  <2> QED BY <1>8, <1>9, <2>1, <2>3, <2>4, <2>5 DEF Aligned
<1>11. Aligned(mstart, mend, values, X)' BY <1>7, <1>10 DEF Aligned, Began, Ended
<1>12. TypeOK'
  <2>1. mend + q * step \in Int
    <3> HIDE DEF q
    <3> QED BY <1>2, <1>5, <1>9
  <2> HIDE DEF q
  <2> QED BY <1>7, <1>8, <2>1 DEF IInv, TypeOK
<1>13. Series' BY <1>3, <1>7, <1>8 DEF Series
<1> QED BY <1>7, <1>11, <1>12, <1>13, ContextSame DEF IInv, PanicsOnlyReversed, Working

\* (A reversed range: nothing is left of the series, and it is padded by a point at most.)
LEMMA PadEndReversed ==
    ASSUME IInv, PadEnd, req.start > req.stop
    PROVE  IInv'
<1> DEFINE n == Len(values)
           d == req.stop - req.start
           D == Quo(d, step)
           q == D + 1 - n
           w == values \o makeNanArr(q)
           X == {ts[k] : k \in 1..Len(ts)}
<1>1. pc = "end" /\ mend <= req.stop BY DEF PadEnd
<1>2. /\ step \in Nat \ {0} /\ mstart \in Int /\ mend \in Int /\ n \in Nat
      /\ values \in Seq(Slot) /\ req.start \in Int /\ req.stop \in Int
  BY StepType DEF IInv, TypeOK
<1>3. Series /\ StartAligned BY <1>1 DEF IInv, Working
<1>4. mend = mstart + (n - 1) * step /\ mstart >= req.start
  BY <1>2, <1>3 DEF StartAligned, Began
<1>5. n = 0
  <2>1. n - 1 \in Int /\ (n - 1) * step \in Int
    <3> HIDE DEF n
    <3> QED BY <1>2, MulDist
  <2>2. (n - 1) * step < 0 BY <1>1, <1>2, <1>4, <2>1
  <2>3. (n - 1) * step < (0 - 1) * step + step BY <1>2, <2>2
  <2>4. n - 1 <= 0 - 1
    <3> HIDE DEF n
    <3> QED BY <1>2, <2>1, <2>3, MulOrder
  <2> QED BY <1>2, <2>4
<1>6. mend = mstart - step BY <1>2, <1>4, <1>5
<1>7. D = 0 \/ D = -1
  <2> DEFINE e == -d
  <2>1. e \in Int /\ e >= 1 /\ e <= step /\ d \in Int /\ ~(d >= 0) BY <1>1, <1>2, <1>4, <1>6
  <2>2. D = -(e \div step) BY <2>1 DEF Quo
  <2> HIDE DEF e, d, D
  <2>3. CASE e < step
    <3>1. 0 * step <= e /\ e < 0 * step + step BY <1>2, <2>1, <2>3
    <3>2. e \div step = 0 BY <1>2, <2>1, <3>1, DivUnique
    <3> QED BY <2>2, <3>2
  <2>4. CASE e = step
    <3>1. 1 * step <= e /\ e < 1 * step + step BY <1>2, <2>1, <2>4
    <3>2. e \div step = 1 BY <1>2, <2>1, <3>1, DivUnique
    <3> QED BY <2>2, <3>2
  <2> QED BY <1>2, <2>1, <2>3, <2>4
<1>8. q = 0 \/ q = 1
  <2> HIDE DEF D
  <2> QED BY <1>5, <1>7
<1>9. /\ pc' = "emit" /\ mend' = mend + q * step /\ values' = w
      /\ UNCHANGED <<req, step, grid, sent, ts, j, mstart>>
  <2>1. ~(q < 0)
    <3> HIDE DEF q
    <3> QED BY <1>8
  <2> QED BY <2>1 DEF PadEnd
<1> HIDE DEF q
<1>10. w \in Seq(Slot) /\ Len(w) = n + q /\ Slots(w, mstart, step)
  <2>1. q \in Nat BY <1>8
  <2> QED BY <1>2, <1>3, <2>1, SlotsPadEnd DEF Series
<1> HIDE DEF w
<1>11. mend + q * step = mstart + (Len(w) - 1) * step /\ mend + q * step \in Int
  <2>1. Len(w) = q BY <1>5, <1>8, <1>10
  <2> QED BY <1>2, <1>6, <1>8, <2>1
<1>12. Aligned(mstart, mend + q * step, w, X)
  <2>1. Began(mstart) BY <1>3 DEF StartAligned
  <2>2. Ended(mstart, mend + q * step) BY <1>2, <1>6, <1>8 DEF Ended
  <2>3. \A t \in X : ~(t \in req.start..req.stop) BY <1>2
  <2> HIDE DEF X
  <2> QED BY <1>10, <1>11, <2>1, <2>2, <2>3 DEF Aligned
<1>13. Aligned(mstart, mend, values, X)' BY <1>9, <1>12 DEF Aligned, Began, Ended
<1>14. TypeOK' BY <1>9, <1>10, <1>11 DEF IInv, TypeOK
<1>15. Series' BY <1>3, <1>9, <1>10 DEF Series
<1> QED BY <1>9, <1>13, <1>14, <1>15, ContextSame DEF IInv, PanicsOnlyReversed, Working

\* ... when the response is appended ...
LEMMA EmitStep ==
    ASSUME IInv, Emit
    PROVE  IInv'
<1> DEFINE X == {ts[k] : k \in 1..Len(ts)}
           r == [start |-> mstart, stop |-> mend, values |-> values, samples |-> X]
<1>1. /\ pc = "emit" /\ pc' = "next" /\ sent' = Append(sent, r)
      /\ UNCHANGED <<req, step, grid, ts, j, values, mstart, mend>>
  BY DEF Emit
<1>2. Series /\ Aligned(mstart, mend, values, X) BY <1>1 DEF IInv, Working
<1>3. r \in Response
  <2>1. X \subseteq Int BY <1>2, SeriesFacts
  <2> HIDE DEF X
  <2> QED BY <2>1 DEF IInv, TypeOK, Response
<1>4. sent \in Seq(Response) BY DEF IInv, TypeOK
<1>5. Aligned(r.start, r.stop, r.values, r.samples)
  <2> HIDE DEF X
  <2> QED BY <1>2
<1> HIDE DEF r
<1>6. TypeOK' BY <1>1, <1>3, <1>4 DEF IInv, TypeOK
<1>7. SentOK'
  <2>1. /\ Len(sent') = Len(sent) + 1 /\ sent'[Len(sent) + 1] = r
        /\ \A k \in 1..Len(sent) : sent'[k] = sent[k]
    BY <1>1, <1>3, <1>4
  <2>2. Len(sent) \in Nat BY <1>4
  <2> SUFFICES ASSUME NEW k \in 1..(Len(sent) + 1)
               PROVE  Aligned(sent'[k].start, sent'[k].stop, sent'[k].values, sent'[k].samples)
    BY <1>1, <2>1 DEF SentOK, Aligned, Began, Ended
  <2>3. CASE k = Len(sent) + 1 BY <1>5, <2>1, <2>3
  <2>4. CASE k # Len(sent) + 1
    <3>1. k \in 1..Len(sent) BY <2>2, <2>4
    <3>2. Aligned(sent[k].start, sent[k].stop, sent[k].values, sent[k].samples)
      BY <3>1 DEF IInv, SentOK
    <3> QED BY <2>1, <3>1, <3>2
  <2> QED BY <2>3, <2>4
<1>8. RequestOK' /\ GridOK'
  <2>1. RequestOK' BY <1>1 DEF IInv, RequestOK, Points
  <2>2. GridOK' BY <1>1 DEF IInv, GridOK, Until
  <2> QED BY <2>1, <2>2
<1>9. Working' BY <1>1 DEF Working
<1> QED BY <1>1, <1>6, <1>7, <1>8, <1>9 DEF IInv, PanicsOnlyReversed

\* (The end is cut or padded, whatever the range.)
LEMMA CutEndAct ==
    ASSUME IInv, CutEnd
    PROVE  IInv'
<1>1. req.start \in Int /\ req.stop \in Int BY StepType DEF IInv
<1>2. req.start <= req.stop \/ req.start > req.stop BY <1>1
<1> QED BY <1>2, CutEndStep, CutEndReversed

\* (Likewise.)
LEMMA PadEndAct ==
    ASSUME IInv, PadEnd
    PROVE  IInv'
<1>1. req.start \in Int /\ req.stop \in Int BY StepType DEF IInv
<1>2. req.start <= req.stop \/ req.start > req.stop BY <1>1
<1> QED BY <1>2, PadEndStep, PadEndReversed

\* ... and when nothing happens.
LEMMA StutterStep ==
    ASSUME IInv, UNCHANGED vars
    PROVE  IInv'
<1> USE DEF vars
<1>1. TypeOK' /\ PanicsOnlyReversed' BY DEF IInv, TypeOK, PanicsOnlyReversed
<1>2. RequestOK' /\ GridOK' /\ SentOK' BY ContextSame
<1>3. Working'
  BY DEF IInv, Working, Series, Filling, Frontier, Filled, StartAligned, Aligned, Began, Ended
<1> QED BY <1>1, <1>2, <1>3 DEF IInv

-----------------------------------------------------------------------------
(* The theorems.                                                           *)

\* The invariant holds in every behaviour: by the lemmas above, action by action.
THEOREM Invariance == Spec => []IInv
<1>1. Init => IInv BY InitStep
<1>2. IInv /\ [Next]_vars => IInv'
  BY QueryAct, EvaluateStep, NextSeriesStep, EndSeriesStep, FillSlotStep, SearchMatchStep,
     SearchBreakStep, FillDoneStep, CutStartStep, PadStartStep, CutEndAct, PadEndAct,
     EmitStep, StutterStep DEF Next, Dead
<1> QED BY <1>1, <1>2, PTL DEF Spec

\* Every variable keeps its type.
THEOREM TypeCorrect == Spec => []TypeOK
<1>1. IInv => TypeOK BY DEF IInv
<1> QED BY <1>1, Invariance, PTL

\* For every request whose range is not reversed, whatever the series, the slice
\* bounds of lines 413 and 422 and the length of line 458 are in range: the
\* goroutine panics, if it does, on a reversed range.
THEOREM PanicsReversed == Spec => []PanicsOnlyReversed
<1>1. IInv => PanicsOnlyReversed BY DEF IInv
<1> QED BY <1>1, Invariance, PTL

\* What is known of each response.
LEMMA SentFacts ==
    ASSUME IInv, NEW k \in 1..Len(sent)
    PROVE  /\ sent[k].start \in Int /\ sent[k].stop \in Int /\ sent[k].values \in Seq(Slot)
           /\ Aligned(sent[k].start, sent[k].stop, sent[k].values, sent[k].samples)
<1>1. sent[k] \in Response BY DEF IInv, TypeOK
<1> QED BY <1>1 DEF Response, IInv, SentOK

\* In every FetchResponse the points lie step apart from StartTime to StopTime,
\* and each is the sample of its own time or NaN (lines 388-427).
THEOREM PointsInPlace == Spec => []InPlace
<1>1. IInv => InPlace BY SentFacts DEF InPlace, Aligned, Began, Slots
<1> QED BY <1>1, Invariance, PTL

\* No sample of the requested range is lost by filling, cutting or padding
\* (lines 391-427).
THEOREM SamplesKept == Spec => []NoSampleLost
<1>1. IInv => NoSampleLost BY SentFacts DEF NoSampleLost, Aligned, Has
<1> QED BY <1>1, Invariance, PTL

\* A response has at most one point more than MaxDataPoints (lines 320-324).
THEOREM FewPoints == Spec => []PointsBounded
<1>1. ASSUME IInv PROVE PointsBounded
  <2>1. /\ step \in Nat \ {0} /\ req.start \in Int /\ req.stop \in Int /\ Points(req) \in Nat
        /\ req.stop - req.start <= Points(req) * step
    BY <1>1, StepType DEF IInv, RequestOK
  <2>2. ASSUME NEW k \in 1..Len(sent) PROVE Len(sent[k].values) <= Points(req) + 1
    <3> DEFINE m == sent[k].start
               n == Len(sent[k].values)
               P == Points(req)
    <3>1. m \in Int /\ n \in Nat BY <1>1, SentFacts
    <3>2. m >= req.start /\ Ended(m, m + (n - 1) * step)
      BY <1>1, <2>1, SentFacts DEF Aligned, Began
    <3> HIDE DEF m, n, P
    <3>3. P \in Nat /\ req.stop - req.start <= P * step BY <2>1 DEF P
    <3>4. n - 1 \in Int /\ (n - 1) * step \in Int /\ P * step \in Int BY <2>1, <3>1, <3>3, MulDist
    <3>5. (n - 1) * step < P * step + step
      <4>3. CASE ~(req.start <= req.stop)
        <5>1. (n - 1) * step <= 0 BY <2>1, <3>1, <3>2, <3>4, <4>3 DEF Ended
        <5>2. 0 * step <= P * step /\ 0 * step = 0 BY <2>1, <3>3, MulMonotone
        <5> QED BY <2>1, <3>4, <5>1, <5>2
      <4> SUFFICES ASSUME req.start <= req.stop PROVE (n - 1) * step < P * step + step
        BY <4>3
      <4> DEFINE x == (n - 1) * step
                 y == P * step
      <4>1. /\ x \in Int /\ y \in Int /\ m + x < req.stop + step /\ req.stop - req.start <= y
        BY <3>2, <3>3, <3>4 DEF Ended
      <4> HIDE DEF x, y
      <4>2. x < y + step BY <2>1, <3>1, <3>2, <4>1
      <4> QED BY <4>2 DEF x, y
    <3>6. n - 1 <= P BY <2>1, <3>3, <3>4, <3>5, MulOrder
    <3>7. n <= P + 1 BY <3>1, <3>3, <3>6
    <3> QED BY <3>7 DEF n, P
  <2>3. step % StatsdFlushInterval = 0 BY <1>1 DEF IInv, RequestOK
  <2> QED BY <2>2, <2>3 DEF PointsBounded
<1> QED BY <1>1, Invariance, PTL

\* The responses of one request start together and end at most a step apart
\* (lines 406-427): it is the best that holds, as SeriesAligned is violated.
THEOREM StartTogether == Spec => []SameStart
<1>1. ASSUME IInv PROVE SameStart
  <2> SUFFICES ASSUME NEW a \in 1..Len(sent), NEW b \in 1..Len(sent)
               PROVE  /\ sent[a].start = sent[b].start
                      /\ sent[a].stop - sent[b].stop \in {-step, 0, step}
    BY DEF SameStart
  <2> DEFINE m == sent[a].start
             u == sent[b].start
             e == sent[a].stop
             f == sent[b].stop
             x == Len(sent[a].values) - 1
             y == Len(sent[b].values) - 1
  <2>1. step \in Nat \ {0} /\ req.start \in Int /\ req.stop \in Int BY <1>1, StepType DEF IInv
  <2>2. m \in Int /\ u \in Int /\ e \in Int /\ f \in Int /\ x \in Int /\ y \in Int
    <3>1. Len(sent[a].values) \in Nat /\ Len(sent[b].values) \in Nat BY <1>1, SentFacts
    <3> QED BY <1>1, <3>1, SentFacts
  <2>3. /\ Began(m) /\ e = m + x * step /\ Ended(m, e)
        /\ Began(u) /\ f = u + y * step /\ Ended(u, f)
    BY <1>1, SentFacts DEF Aligned
  <2> HIDE DEF m, u, e, f, x, y
  <2>4. m = u
    <3>1. PICK t \in grid : Congruent(m, t, step) BY <2>3 DEF Began
    <3>2. PICK v \in grid : Congruent(u, v, step) BY <2>3 DEF Began
    <3>3. t \in Int /\ v \in Int /\ Congruent(t, v, step) BY <1>1 DEF IInv, TypeOK, GridOK
    <3>4. Congruent(m, v, step) BY <2>1, <2>2, <3>1, <3>3, CongruentEquiv
    <3>5. Congruent(v, u, step) BY <2>1, <2>2, <3>2, <3>3, CongruentEquiv
    <3>6. Congruent(m, u, step) BY <2>1, <2>2, <3>3, <3>4, <3>5, CongruentEquiv
    <3>7. m - u < step /\ u - m < step BY <2>1, <2>2, <2>3 DEF Began
    <3> QED BY <2>1, <2>2, <3>6, <3>7, CongruentNear
  <2>5. e - f \in {-step, 0, step}
    <3> DEFINE k == x - y
    <3>1. k \in Int /\ k * step = x * step - y * step /\ x * step \in Int /\ y * step \in Int
      BY <2>1, <2>2, MulDist
    <3> HIDE DEF k
    <3>2. e - f = k * step BY <2>2, <2>3, <2>4, <3>1
    <3>3. k * step < 2 * step /\ -2 * step < k * step
      <4>1. Ended(u, e) /\ Ended(u, f) BY <2>3, <2>4
      <4>2. e - f < 2 * step /\ -2 * step < e - f
        <5>1. CASE req.start <= req.stop BY <2>1, <2>2, <4>1, <5>1 DEF Ended
        <5>2. CASE ~(req.start <= req.stop) BY <2>1, <2>2, <4>1, <5>2 DEF Ended
        <5> QED BY <5>1, <5>2
      <4> QED BY <3>2, <4>2
    <3>4. k <= 1
      <4>1. k * step < 1 * step + step BY <2>1, <3>3
      <4> QED BY <2>1, <3>1, <4>1, MulOrder
    <3>5. -1 <= k
      <4>1. k * step \in Int BY <2>1, <3>1, MulDist
      <4>2. -1 * step < k * step + step BY <2>1, <3>3, <4>1
      <4> QED BY <2>1, <3>1, <4>2, MulOrder
    <3>6. k = -1 \/ k = 0 \/ k = 1 BY <3>1, <3>4, <3>5
    <3> QED BY <2>1, <3>2, <3>6
  <2> QED BY <2>4, <2>5 DEF m, u, e, f
<1> QED BY <1>1, Invariance, PTL

=============================================================================
