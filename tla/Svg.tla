--------------------------------- MODULE Svg --------------------------------
(***************************************************************************)
(* The drawing of a time series (export/svg): CanvasWithSnapshot turns the *)
(* values of a series into points and bounds, Canvas.Export lays them out  *)
(* on a grid, svgPath and svgRange draw the line and the band behind it.   *)
(*                                                                         *)
(* A snapshot is a record: kind is the type of its values, percent whether *)
(* its unit is UnitPercent, values its samples, oldest first, and interval *)
(* and maxCount the shape of the series.  Sample i is taken at time i.     *)
(* Numbers are in units of 1/Scale, so that the mean of two samples and    *)
(* half a difference of means are exact.                                   *)
(***************************************************************************)
EXTENDS Integers, Sequences, FiniteSetsExt, SequencesExt

CONSTANTS
    Snapshots,   \* what LastN may find in a series that has values
    GridWidth,   \* int(c.gridWidth): the pixels along the time axis
    Nil          \* the sample of a period in which nothing was measured

Scale == 4

\* What a period in which something was measured leaves; a histogram always
\* has its percentiles.
Sample(kind) ==
    CASE kind = "meter"     -> [samples : Nat, sum : Int, max : Int]
      [] kind = "histogram" -> [values : Seq(Int) \ {<<>>}]
      [] OTHER              -> [value : Int]

\* loadCollector (main.go:379-384) makes no other series.  A time unit is a
\* millisecond.
SvgAssumption ==
    /\ GridWidth \in 1..1000
    /\ \A s \in Snapshots :
        /\ s.kind \in STRING /\ s.percent \in BOOLEAN
        /\ s.values \in Seq(Sample(s.kind) \cup {Nil}) /\ s.values # <<>>
        /\ s.interval \in Nat /\ s.interval >= 1000
        /\ s.maxCount \in Nat /\ s.maxCount > 1

-----------------------------------------------------------------------------
(* CanvasWithSnapshot *)

\* The type of the last sample selects the case, which a nil matches none of.
Drawable(s) ==
    /\ Last(s.values) # Nil
    /\ s.kind \in {"counter", "gauge", "meter", "histogram"}

\* Of a sample: the number drawn, and the bounds of the band.
Number(kind, v) ==
    IF kind = "meter"
    THEN IF v.samples > 0 THEN (Scale * v.sum) \div v.samples ELSE 0
    ELSE IF kind = "histogram" THEN Scale * v.values[(Len(v.values) \div 2) + 1]
    ELSE Scale * v.value

Upper(kind, v) ==
    IF kind = "meter" THEN Scale * v.max
    ELSE IF kind = "histogram" THEN Scale * Last(v.values) ELSE 0

\* svg.MinValues = maxValues (svgoutput.go:102): both edges of the band are
\* the upper bounds, and the lower ones are computed and dropped.
CanvasWithSnapshot(s) ==
    LET numbers(Of(_, _)) ==
            [i \in DOMAIN s.values |->
                IF Drawable(s) /\ s.values[i] # Nil THEN Of(s.kind, s.values[i]) ELSE 0]
    IN  [times     |-> [i \in DOMAIN s.values |-> i],
         values    |-> numbers(Number),
         minValues |-> numbers(Upper),
         maxValues |-> numbers(Upper),
         yMin      |-> 0,
         yMax      |-> IF s.percent THEN Scale * 100 ELSE 0,
         margin    |-> ~s.percent,
         interval  |-> s.interval,
         maxCount  |-> s.maxCount]

-----------------------------------------------------------------------------
(* Canvas.Export *)

\* Faulty variant: the grid ends one interval early.
TimePerPointShort(c) == (c.interval * (c.maxCount - 2)) \div GridWidth

\* lastTime - gridOrgTime, spread over the pixels.
TimePerPoint(c) == (c.interval * (c.maxCount - 1)) \div GridWidth

ExportFailsOn(c) == c.times = <<>> \/ c.values = <<>> \/ TimePerPoint(c) <= 0

\* Faulty variant: the upper bounds are not looked at.
FitNoUpper(c) ==
    LET base == IF c.yMin = c.yMax THEN {} ELSE {c.yMin, c.yMax}
        lo == Min(base \cup Range(c.values) \cup Range(c.minValues))
        hi == Max(base \cup Range(c.values))
        gap == IF c.margin THEN (hi - lo) \div 2 ELSE 0
    IN  [c EXCEPT !.yMin = lo - gap, !.yMax = hi + gap]

\* The grid is fitted to the values and bounds.  Its own limits count only
\* when they differ: the first value replaces equal ones.
Fit(c) ==
    LET base == IF c.yMin = c.yMax THEN {} ELSE {c.yMin, c.yMax}
        lo == Min(base \cup Range(c.values) \cup Range(c.minValues))
        hi == Max(base \cup Range(c.values) \cup Range(c.maxValues))
        gap == IF c.margin THEN (hi - lo) \div 2 ELSE 0
    IN  [c EXCEPT !.yMin = lo - gap, !.yMax = hi + gap]

Point(t, v) == [t |-> t, v |-> v]
Points(times, values) ==
    [i \in DOMAIN values |-> Point(times[i], values[i])]

svgPath(c) == Points(c.times, c.values)

\* Faulty variant: the lower edge keeps its order, under reversed times.
svgRangeUnreversed(c) ==
    Points(Reverse(c.times) \o c.times, c.minValues \o c.maxValues)

\* Back along the lower edge, then forth along the upper one.
svgRange(c) ==
    Points(Reverse(c.times) \o c.times, Reverse(c.minValues) \o c.maxValues)

\* What ends in the file.
Drawing(c) == [yMin |-> Fit(c).yMin, yMax |-> Fit(c).yMax,
               line |-> svgPath(c), band |-> svgRange(c)]

\* Canvas.y divides by the height of the range only when it is positive.
Inside(d, v) == d.yMin <= v /\ v <= d.yMax

=============================================================================
