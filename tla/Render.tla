------------------------------- MODULE Render -------------------------------
(***************************************************************************)
(* cmd/matecarbon: how the goroutine of one render target computes the     *)
(* query step and turns each series of the backend's matrix into a         *)
(* FetchResponse: the holes between samples are filled with NaN, then the  *)
(* series is cut or padded to the time range of the request.               *)
(*                                                                         *)
(* Times are whole seconds, as in the protocol; the sample taken at time t *)
(* is represented by t, so that a value that moved in time shows.  The     *)
(* float64 arithmetic of the code is exact on these integers (quotients    *)
(* are only rounded up or down, and differ from an integer by far more     *)
(* than an ulp).                                                           *)
(***************************************************************************)
EXTENDS Integers, Sequences, FiniteSets

CONSTANTS MaxTime,             \* bound on times
          MaxPoints,           \* bound on MaxDataPoints
          StatsdFlushInterval, \* config, whole seconds
          DefaultMaxDatapoints,\* used when the request has no MaxDataPoints
          MaxSeries,           \* bound on the series of one reply
          DefaultRange,        \* external: what the backend makes of a reversed range
          NaN

ASSUME BoundsAssumption == /\ MaxTime \in Nat /\ MaxPoints \in Nat /\ MaxSeries \in Nat
                           /\ StatsdFlushInterval \in Nat \ {0}
                           /\ DefaultMaxDatapoints \in Nat \ {0}
                           /\ DefaultRange \in Nat
ASSUME NaNAssumption == NaN \notin Int

VARIABLES
    pc,        \* "idle", "query", "next", "fill", "search", "start", "end", "emit", "panic"
    req,       \* the FetchRequest: StartTime, StopTime, MaxDataPoints
    step,      \* the step of the query
    grid,      \* the times at which the backend evaluated the query
    ts,        \* timestamps of m.Values of the current series
    j,         \* index of the next sample to place
    values,    \* the values of the FetchResponse being built
    mstart, mend,  \* metricStart, metricEnd
    sent       \* the FetchResponses appended for this request

vars == <<pc, req, step, grid, ts, j, values, mstart, mend, sent>>

Times == 0..MaxTime

Request == [start : Times, stop : Times, points : 0..MaxPoints]

Init ==
    /\ pc = "idle"
    /\ req = [start |-> 0, stop |-> 0, points |-> 0]
    /\ step = StatsdFlushInterval
    /\ grid = {}
    /\ ts = <<>>
    /\ j = 1
    /\ values = <<>>
    /\ mstart = 0
    /\ mend = 0
    /\ sent = <<>>

CeilDiv(a, b) == (a + b - 1) \div b

\* Go's quotient of integers, b > 0: rounded towards zero.
Quo(a, b) == IF a >= 0 THEN a \div b ELSE -((-a) \div b)

Larger(a, b) == IF a >= b THEN a ELSE b

Points(r) == IF r.points = 0 THEN DefaultMaxDatapoints ELSE r.points

\* Mutant: the range is divided with truncation instead of Ceil.
QueryStep_Floor(r) ==
    Larger(((r.stop - r.start) \div (Points(r) * StatsdFlushInterval)) * StatsdFlushInterval,
           StatsdFlushInterval)

\* The smallest multiple of the flush interval that cuts the range into at
\* most Points pieces.
QueryStep(r) ==
    Larger(CeilDiv(r.stop - r.start, Points(r) * StatsdFlushInterval) * StatsdFlushInterval,
           StatsdFlushInterval)

\* The goroutine of a request starts.  Nothing looks at the order of StartTime and
\* StopTime: the step of a reversed range is the flush interval.
Query ==
    /\ pc = "idle"
    /\ req' \in Request
    /\ step' = QueryStep(req')
    /\ pc' = "query"
    /\ grid' = {} /\ ts' = <<>> /\ j' = 1 /\ values' = <<>>
    /\ mstart' = 0 /\ mend' = 0 /\ sent' = <<>>

\* External: VictoriaMetrics evaluates the query at start, start + step, ...,
\* or, to make its cache effective, at the multiples of step from start
\* rounded down to stop rounded up.  It moves the end of a reversed range to a
\* default distance after its start, and answers.
Until(r) == IF r.start <= r.stop THEN r.stop ELSE r.start + DefaultRange
RequestGrid(r, s) == {t \in r.start..Until(r) : (t - r.start) % s = 0}
RoundedGrid(r, s) == {t \in (r.start - s + 1)..(Until(r) + s - 1) : t % s = 0}

Evaluate ==
    /\ pc = "query"
    /\ grid' \in {RequestGrid(req, step), RoundedGrid(req, step)}
    /\ pc' = "next"
    /\ UNCHANGED <<req, step, ts, j, values, mstart, mend, sent>>

\* The samples of S, oldest first.
SortTimes(S) ==
    CHOOSE f \in [1..Cardinality(S) -> S] :
        \A a, b \in 1..Cardinality(S) : a < b => f[a] < f[b]

\* The next series of the matrix: a sample at some of the times of the grid.
\* A series without values is skipped.
NextSeries ==
    /\ pc = "next"
    /\ Len(sent) < MaxSeries
    /\ \E S \in (SUBSET grid) \ {{}} : ts' = SortTimes(S)
    /\ j' = 1
    /\ values' = <<>>
    /\ mstart' = ts'[1]
    /\ mend' = ts'[Len(ts')]
    /\ pc' = "fill"
    /\ UNCHANGED <<req, step, grid, sent>>

EndSeries ==
    /\ pc = "next"
    /\ pc' = "idle"
    /\ UNCHANGED <<req, step, grid, ts, j, values, mstart, mend, sent>>

Count == (mend - mstart) \div step + 1

\* Round i = Len(values) of the outer loop starts with a NaN.
FillSlot ==
    /\ pc = "fill"
    /\ Len(values) < Count
    /\ values' = Append(values, NaN)
    /\ pc' = "search"
    /\ UNCHANGED <<req, step, grid, ts, j, mstart, mend, sent>>

SlotTime == mstart + (Len(values) - 1) * step

\* Mutant: the slot is filled, but j stays at the sample that filled it.
SearchMatch_Stuck ==
    /\ pc = "search"
    /\ j <= Len(ts)
    /\ SlotTime = ts[j]
    /\ values' = [values EXCEPT ![Len(values)] = ts[j]]
    /\ pc' = "fill"
    /\ UNCHANGED <<req, step, grid, ts, j, mstart, mend, sent>>

\* The inner loop places sample j and goes on to the next one ...
SearchMatch ==
    /\ pc = "search"
    /\ j <= Len(ts)
    /\ SlotTime = ts[j]
    /\ values' = [values EXCEPT ![Len(values)] = ts[j]]
    /\ j' = j + 1
    /\ UNCHANGED <<pc, req, step, grid, ts, mstart, mend, sent>>

\* ... until it meets one that belongs to a later slot.
SearchBreak ==
    /\ pc = "search"
    /\ ~(j <= Len(ts) /\ SlotTime = ts[j])
    /\ pc' = "fill"
    /\ UNCHANGED <<req, step, grid, ts, j, values, mstart, mend, sent>>

FillDone ==
    /\ pc = "fill"
    /\ Len(values) >= Count
    /\ pc' = "start"
    /\ UNCHANGED <<req, step, grid, ts, j, values, mstart, mend, sent>>

makeNanArr(count) == [i \in 1..count |-> NaN]

\* A slice bound or the length of a make is out of range.  The goroutine recovers
\* from nothing, so that its panic is the end of the process.
Panic ==
    /\ pc' = "panic"
    /\ UNCHANGED <<req, step, grid, ts, j, values, mstart, mend, sent>>

\* Mutant: the number of points to cut is rounded down.
CutStart_Floor ==
    /\ pc = "start"
    /\ mstart < req.start
    /\ LET startStep == (req.start - mstart) \div step
       IN  IF startStep > Len(values)
           THEN Panic
           ELSE /\ mstart' = mstart + startStep * step
                /\ values' = SubSeq(values, startStep + 1, Len(values))
                /\ pc' = "end"
                /\ UNCHANGED <<req, step, grid, ts, j, mend, sent>>

\* A series that begins before the request loses its first points, rounded up.
CutStart ==
    /\ pc = "start"
    /\ mstart < req.start
    /\ LET startStep == CeilDiv(req.start - mstart, step)
       IN  IF startStep > Len(values)
           THEN Panic
           ELSE /\ mstart' = mstart + startStep * step
                /\ values' = SubSeq(values, startStep + 1, Len(values))
                /\ pc' = "end"
                /\ UNCHANGED <<req, step, grid, ts, j, mend, sent>>

\* Mutant: the start time is moved, the padding forgotten.
PadStart_NoNaN ==
    /\ pc = "start"
    /\ mstart >= req.start
    /\ mstart' = mstart - ((mstart - req.start) \div step) * step
    /\ pc' = "end"
    /\ UNCHANGED <<req, step, grid, ts, j, values, mend, sent>>

\* One that begins later is padded with as many whole steps as fit.
PadStart ==
    /\ pc = "start"
    /\ mstart >= req.start
    /\ LET startStep == (mstart - req.start) \div step
       IN  /\ mstart' = mstart - startStep * step
           /\ values' = makeNanArr(startStep) \o values
    /\ pc' = "end"
    /\ UNCHANGED <<req, step, grid, ts, j, mend, sent>>

\* A series that ends after the request loses its last points, rounded up.
CutEnd ==
    /\ pc = "end"
    /\ mend > req.stop
    /\ LET stopStep == CeilDiv(mend - req.stop, step)
       IN  IF stopStep > Len(values)
           THEN Panic
           ELSE /\ mend' = mend - stopStep * step
                /\ values' = SubSeq(values, 1, Len(values) - stopStep)
                /\ pc' = "emit"
                /\ UNCHANGED <<req, step, grid, ts, j, mstart, sent>>

\* Mutant: the fence post is forgotten.
PadEnd_OffByOne ==
    /\ pc = "end"
    /\ mend <= req.stop
    /\ LET stopStep == Quo(req.stop - req.start, step) - Len(values)
       IN  IF stopStep < 0
           THEN Panic
           ELSE /\ mend' = mend + stopStep * step
                /\ values' = values \o makeNanArr(stopStep)
                /\ pc' = "emit"
                /\ UNCHANGED <<req, step, grid, ts, j, mstart, sent>>

\* One that ends earlier is padded up to the length of the range in steps.
PadEnd ==
    /\ pc = "end"
    /\ mend <= req.stop
    /\ LET stopStep == Quo(req.stop - req.start, step) + 1 - Len(values)
       IN  IF stopStep < 0
           THEN Panic
           ELSE /\ mend' = mend + stopStep * step
                /\ values' = values \o makeNanArr(stopStep)
                /\ pc' = "emit"
                /\ UNCHANGED <<req, step, grid, ts, j, mstart, sent>>

\* The FetchResponse is appended to the response.  (samples is not part of
\* it: it remembers the series for the properties.)
Emit ==
    /\ pc = "emit"
    /\ sent' = Append(sent, [start |-> mstart, stop |-> mend, values |-> values,
                             samples |-> {ts[k] : k \in 1..Len(ts)}])
    /\ pc' = "next"
    /\ UNCHANGED <<req, step, grid, ts, j, values, mstart, mend>>

\* After a panic nothing happens any more.
Dead == pc = "panic" /\ UNCHANGED vars

Next ==
    \/ Query \/ Evaluate \/ NextSeries \/ EndSeries
    \/ FillSlot \/ SearchMatch \/ SearchBreak \/ FillDone
    \/ CutStart \/ PadStart \/ CutEnd \/ PadEnd \/ Emit
    \/ Dead

Spec == Init /\ [][Next]_vars

-----------------------------------------------------------------------------
(* Properties.                                                             *)

Slot == Int \cup {NaN}

Response == [start : Int, stop : Int, values : Seq(Slot), samples : SUBSET Int]

TypeOK ==
    /\ pc \in {"idle", "query", "next", "fill", "search", "start", "end", "emit", "panic"}
    /\ req \in Request
    /\ step \in Nat \ {0}
    /\ grid \subseteq Int
    /\ ts \in Seq(Int)
    /\ j \in 1..(Len(ts) + 1)
    /\ values \in Seq(Slot)
    /\ mstart \in Int
    /\ mend \in Int
    /\ sent \in Seq(Response)

\* Only a reversed range makes slicing or make panic: for every other one the slice
\* bounds of lines 413 and 422 and the length of line 458 are in range.  (On a
\* reversed range the goroutine does panic: see AlignmentEnds.)
PanicsOnlyReversed == pc = "panic" => req.start > req.stop

\* In every FetchResponse the points lie step apart from StartTime to StopTime,
\* StartTime is the first time of the series' grid in the request, and a value
\* is the sample of its own time or NaN (lines 388-427).
InPlace ==
    \A k \in 1..Len(sent) :
        LET r == sent[k] IN
        /\ r.start \in req.start..(req.start + step - 1)
        /\ r.stop = r.start + (Len(r.values) - 1) * step
        /\ \A i \in 1..Len(r.values) : r.values[i] \in {NaN, r.start + (i - 1) * step}

\* Filling and aligning drop no sample of the requested range (the search
\* pointer j never gets stuck, and no cut takes a point that is in range).
NoSampleLost ==
    \A k \in 1..Len(sent) : \A t \in sent[k].samples :
        t \in req.start..req.stop =>
            \E i \in 1..Len(sent[k].values) : sent[k].values[i] = t

\* The step is a whole number of flush intervals, and a response has at most
\* one point more than MaxDataPoints asks for (lines 320-324): a range of n steps has
\* n + 1 points, against the comment at line 431, "must not exceed MaxDataPoints".
PointsBounded ==
    /\ step % StatsdFlushInterval = 0
    /\ \A k \in 1..Len(sent) : Len(sent[k].values) <= Points(req) + 1

\* The series of one request start together, and end at most a step apart
\* (lines 406-427; carbonapi divides them point by point).
SameStart ==
    \A a, b \in 1..Len(sent) :
        /\ sent[a].start = sent[b].start
        /\ sent[a].stop - sent[b].stop \in {-step, 0, step}

\* The comment at lines 406-407, "Align the start and end points of the metric with
\* the time of the request", says that it is done for the request that came, without
\* an exception: the alignment never ends in a panic.
AlignmentEnds == pc # "panic"

\* The comment at lines 406-407: "Align the start and end points of the metric
\* with the time of the request", so that the series can be divided; even of a
\* request whose range is not reversed.
SeriesAligned ==
    req.start <= req.stop => \A a, b \in 1..Len(sent) :
        sent[a].start = sent[b].start /\ sent[a].stop = sent[b].stop

=============================================================================
