--------------------------- MODULE ExportSvgProofs ---------------------------
(***************************************************************************)
(* Proofs about Svg and ExportSvg: what is drawn of any snapshot that a    *)
(* series made by loadCollector may give, and the files that the exporter  *)
(* leaves, for every list of metrics and every set of outputs.             *)
(***************************************************************************)
EXTENDS ExportSvg, ExporterProofs, SelectionProofs, FunctionTheorems

-----------------------------------------------------------------------------
(* The canvas *)

\* The middle of a sequence.
LEMMA Middle ==
  ASSUME NEW n \in Nat \ {0}
  PROVE  (n \div 2) + 1 \in 1..n
OBVIOUS

\* A canvas of n samples of a series that loadCollector makes.
Canvas(c, n) ==
    /\ n \in Nat \ {0}
    /\ c.times \in [1..n -> Int] /\ \A i \in 1..n : c.times[i] = i
    /\ c.values \in [1..n -> Int]
    /\ c.minValues \in [1..n -> Int]
    /\ c.maxValues \in [1..n -> Int]
    /\ c.yMin \in Int /\ c.yMax \in Int /\ c.margin \in BOOLEAN
    /\ c.interval \in Nat /\ c.interval >= 1000
    /\ c.maxCount \in Nat /\ c.maxCount > 1

\* What CanvasWithSnapshot makes of a snapshot.
LEMMA CanvasType ==
  ASSUME SvgAssumption, NEW s \in Snapshots
  PROVE  Canvas(CanvasWithSnapshot(s), Len(s.values))
<1> DEFINE n == Len(s.values)
           c == CanvasWithSnapshot(s)
<1>1. s.values \in Seq(Sample(s.kind) \cup {Nil}) /\ s.values # <<>>
  BY DEF SvgAssumption
<1>2. /\ n \in Nat \ {0} /\ DOMAIN s.values = 1..n
      /\ \A i \in 1..n : s.values[i] \in Sample(s.kind) \cup {Nil}
  BY <1>1, LenProperties, EmptySeq
<1>3. ASSUME Drawable(s), NEW v \in Sample(s.kind)
      PROVE  Number(s.kind, v) \in Int /\ Upper(s.kind, v) \in Int
  <2>1. CASE s.kind = "meter"
    <3>1. v.samples \in Nat /\ v.sum \in Int /\ v.max \in Int
      BY <1>3, <2>1 DEF Sample
    <3>2. v.samples > 0 => (Scale * v.sum) \div v.samples \in Int
      BY <3>1 DEF Scale
    <3> QED  BY <2>1, <3>1, <3>2 DEF Number, Upper, Scale
  <2>2. CASE s.kind = "histogram"
    <3>1. v.values \in Seq(Int) /\ v.values # <<>>
      BY <1>3, <2>2 DEF Sample
    <3>2. Len(v.values) \in Nat \ {0} /\ \A i \in 1..Len(v.values) : v.values[i] \in Int
      BY <3>1, LenProperties, EmptySeq
    <3>3. (Len(v.values) \div 2) + 1 \in 1..Len(v.values)
      BY <3>2, Middle
    <3> QED  BY <2>2, <3>2, <3>3 DEF Number, Upper, Scale, Last
  <2>3. CASE s.kind \notin {"meter", "histogram"}
    <3>1. v.value \in Int
      BY <1>3, <2>3 DEF Sample
    <3> QED  BY <2>3, <3>1 DEF Number, Upper, Scale
  <2> QED  BY <2>1, <2>2, <2>3
<1>4. /\ c.values = [i \in DOMAIN s.values |->
                IF Drawable(s) /\ s.values[i] # Nil THEN Number(s.kind, s.values[i]) ELSE 0]
      /\ c.minValues = [i \in DOMAIN s.values |->
                IF Drawable(s) /\ s.values[i] # Nil THEN Upper(s.kind, s.values[i]) ELSE 0]
      /\ c.maxValues = c.minValues
      /\ c.times = [i \in DOMAIN s.values |-> i]
      /\ c.yMin = 0 /\ c.yMax = (IF s.percent THEN Scale * 100 ELSE 0)
      /\ c.margin = ~s.percent /\ c.interval = s.interval /\ c.maxCount = s.maxCount
  BY DEF CanvasWithSnapshot
<1>5. c.values \in [1..n -> Int] /\ c.minValues \in [1..n -> Int]
  BY <1>2, <1>3, <1>4
<1>6. /\ s.percent \in BOOLEAN
      /\ s.interval \in Nat /\ s.interval >= 1000
      /\ s.maxCount \in Nat /\ s.maxCount > 1
  <2>1. s.percent \in BOOLEAN
    BY ZenonT(60) DEF SvgAssumption
  <2>2. s.interval \in Nat
    BY ZenonT(60) DEF SvgAssumption
  <2>3. s.interval >= 1000
    BY ZenonT(60) DEF SvgAssumption
  <2>4. s.maxCount \in Nat
    BY ZenonT(60) DEF SvgAssumption
  <2>5. s.maxCount > 1
    BY ZenonT(60) DEF SvgAssumption
  <2> QED  BY <2>1, <2>2, <2>3, <2>4, <2>5
<1>7. c.times \in [1..n -> Int] /\ \A i \in 1..n : c.times[i] = i
  BY <1>2, <1>4
<1> HIDE DEF c, n
<1>8. c.yMax \in Int
  BY <1>4, <1>6 DEF Scale
<1>9. Canvas(c, n)
  BY <1>2, <1>4, <1>5, <1>6, <1>7, <1>8 DEF Canvas
<1> QED  BY <1>9 DEF c, n

\* A thousand or more is at least one pixel for each of a thousand.
LEMMA Quotient ==
  ASSUME NEW a \in Nat, a >= 1000, NEW w \in 1..1000
  PROVE  a \div w > 0
OBVIOUS

\* A series that loadCollector lets through has a canvas that can be drawn.
LEMMA NeverRefused ==
  ASSUME SvgAssumption, NEW s \in Snapshots
  PROVE  ~ExportFailsOn(CanvasWithSnapshot(s))
<1> DEFINE c == CanvasWithSnapshot(s)
           n == Len(s.values)
<1>0. Canvas(c, n)
  BY CanvasType
<1> HIDE DEF c, n
<1>1. /\ c.interval \in Nat /\ c.interval >= 1000
      /\ c.maxCount \in Nat /\ c.maxCount > 1
      /\ GridWidth \in 1..1000
  BY <1>0 DEF SvgAssumption, Canvas
<1>2. c.times # <<>> /\ c.values # <<>>
  <2>1. n \in Nat \ {0} /\ DOMAIN c.times = 1..n /\ DOMAIN c.values = 1..n
    BY <1>0 DEF Canvas
  <2>2. 1 \in DOMAIN c.times /\ 1 \in DOMAIN c.values
    BY <2>1
  <2> QED  BY <2>2
<1>3. TimePerPoint(c) > 0
  <2> DEFINE all == c.interval * (c.maxCount - 1)
  <2>1. all \in Nat /\ all >= 1000
    <3>1. c.maxCount - 1 \in Nat /\ c.maxCount - 1 >= 1
      BY <1>1
    <3>2. \A a, b \in Nat : a >= 1000 /\ b >= 1 => a * b \in Nat /\ a * b >= 1000
      OBVIOUS
    <3> HIDE DEF all
    <3>3. \A b \in Nat : b >= 1 => c.interval * b \in Nat /\ c.interval * b >= 1000
      BY <1>1, <3>2
    <3>4. all \in Nat /\ all >= 1000
      BY <3>1, <3>3, ZenonT(60) DEF all
    <3> QED  BY <3>4
  <2> HIDE DEF all
  <2>2. all \div GridWidth > 0
    <3>1. GridWidth \in 1..1000
      BY <1>1
    <3> QED  BY <2>1, <3>1, Quotient, ZenonT(60)
  <2> QED  BY <2>2 DEF all, TimePerPoint
<1>4. ~(TimePerPoint(c) <= 0)
  <2>1. TimePerPoint(c) \in Int
    BY <1>1 DEF TimePerPoint
  <2> QED  BY <1>3, <2>1
<1> QED  BY <1>2, <1>4 DEF c, ExportFailsOn

-----------------------------------------------------------------------------
(* The drawing *)

\* The fields of a point.
LEMMA PointFields == \A t, v : Point(t, v).t = t /\ Point(t, v).v = v
BY DEF Point

\* The edge back and the edge forth.
LEMMA BandShape ==
  ASSUME SvgAssumption, NEW s \in Snapshots
  PROVE  LET c == CanvasWithSnapshot(s)
             n == Len(s.values)
             band == svgRange(c)
         IN  /\ DOMAIN band = 1..(2 * n)
             /\ \A i \in 1..n : band[i] = Point(n - i + 1, c.minValues[n - i + 1])
             /\ \A i \in (n + 1)..(2 * n) : band[i] = Point(i - n, c.maxValues[i - n])
<1> DEFINE c == CanvasWithSnapshot(s)
           n == Len(s.values)
           band == svgRange(c)
<1>1. /\ n \in Nat \ {0}
      /\ c.times \in [1..n -> Int] /\ \A i \in 1..n : c.times[i] = i
      /\ c.minValues \in [1..n -> Int] /\ c.maxValues \in [1..n -> Int]
  <2>1. Canvas(c, n)
    BY CanvasType
  <2> HIDE DEF c, n
  <2> QED  BY <2>1 DEF Canvas
<1> HIDE DEF c, n
<1>2. \A f \in [1..n -> Int] :
         /\ f \in Seq(Int) /\ Len(f) = n
         /\ Reverse(f) \in [1..n -> Int] /\ \A i \in 1..n : Reverse(f)[i] = f[n - i + 1]
  <2> SUFFICES ASSUME NEW f \in [1..n -> Int]
               PROVE  /\ f \in Seq(Int) /\ Len(f) = n
                      /\ Reverse(f) \in [1..n -> Int]
                      /\ \A i \in 1..n : Reverse(f)[i] = f[n - i + 1]
    OBVIOUS
  <2>1. f \in Seq(Int)
    BY <1>1
  <2>2. Len(f) = n
    BY <1>1, <2>1, LenProperties
  <2>3. Reverse(f) = [i \in 1..n |-> f[n - i + 1]]
    BY <2>2 DEF Reverse
  <2>4. \A i \in 1..n : n - i + 1 \in 1..n
    BY <1>1
  <2> QED  BY <2>1, <2>2, <2>3, <2>4
<1>3. \A f, g \in [1..n -> Int] :
         /\ Reverse(f) \o g \in [1..(2 * n) -> Int]
         /\ \A i \in 1..n : (Reverse(f) \o g)[i] = f[n - i + 1]
         /\ \A i \in (n + 1)..(2 * n) : (Reverse(f) \o g)[i] = g[i - n]
  <2> SUFFICES ASSUME NEW f \in [1..n -> Int], NEW g \in [1..n -> Int]
               PROVE  /\ Reverse(f) \o g \in [1..(2 * n) -> Int]
                      /\ \A i \in 1..n : (Reverse(f) \o g)[i] = f[n - i + 1]
                      /\ \A i \in (n + 1)..(2 * n) : (Reverse(f) \o g)[i] = g[i - n]
    OBVIOUS
  <2>1. Reverse(f) \in Seq(Int) /\ g \in Seq(Int) /\ Len(Reverse(f)) = n /\ Len(g) = n
    BY <1>2
  <2>2. /\ Reverse(f) \o g \in Seq(Int) /\ Len(Reverse(f) \o g) = n + n
        /\ \A i \in 1..(n + n) : (Reverse(f) \o g)[i] =
              IF i <= n THEN Reverse(f)[i] ELSE g[i - n]
    <3>1. /\ Reverse(f) \o g \in Seq(Int)
          /\ Len(Reverse(f) \o g) = Len(Reverse(f)) + Len(g)
          /\ \A i \in 1..(Len(Reverse(f)) + Len(g)) : (Reverse(f) \o g)[i] =
                IF i <= Len(Reverse(f)) THEN Reverse(f)[i] ELSE g[i - Len(Reverse(f))]
      BY <2>1, ConcatProperties, Zenon
    <3> QED  BY <2>1, <3>1, Zenon
  <2>3. n + n = 2 * n /\ 1..n \subseteq 1..(2 * n) /\ (n + 1)..(2 * n) \subseteq 1..(2 * n)
    BY <1>1
  <2>4. Reverse(f) \o g \in [1..(2 * n) -> Int]
    BY <2>2, <2>3, LenProperties
  <2>5. \A i \in 1..n : (Reverse(f) \o g)[i] = f[n - i + 1]
    <3>1. \A i \in 1..n : i \in 1..(n + n) /\ i <= n
      BY <1>1
    <3>2. \A i \in 1..n : (Reverse(f) \o g)[i] = Reverse(f)[i]
      BY <2>2, <3>1
    <3> QED  BY <1>2, <3>2
  <2>6. \A i \in (n + 1)..(2 * n) : (Reverse(f) \o g)[i] = g[i - n]
    <3>1. \A i \in (n + 1)..(2 * n) : i \in 1..(n + n) /\ ~(i <= n)
      BY <1>1
    <3> QED  BY <2>2, <3>1
  <2> QED  BY <2>4, <2>5, <2>6
<1>4. /\ DOMAIN band = 1..(2 * n)
      /\ \A i \in 1..(2 * n) :
            band[i] = Point((Reverse(c.times) \o c.times)[i],
                            (Reverse(c.minValues) \o c.maxValues)[i])
  BY <1>1, <1>3 DEF svgRange, Points
<1>5. 1..n \subseteq 1..(2 * n) /\ (n + 1)..(2 * n) \subseteq 1..(2 * n)
  BY <1>1
<1>6. \A i \in 1..n : n - i + 1 \in 1..n
  BY <1>1
<1>7. \A i \in (n + 1)..(2 * n) : i - n \in 1..n
  BY <1>1
<1>8. \A i \in 1..n : band[i] = Point(n - i + 1, c.minValues[n - i + 1])
  <2>1. \A i \in 1..n : /\ (Reverse(c.times) \o c.times)[i] = c.times[n - i + 1]
                        /\ (Reverse(c.minValues) \o c.maxValues)[i] = c.minValues[n - i + 1]
    <3>1. \A i \in 1..n : (Reverse(c.times) \o c.times)[i] = c.times[n - i + 1]
      BY <1>1, <1>3
    <3>2. \A i \in 1..n :
             (Reverse(c.minValues) \o c.maxValues)[i] = c.minValues[n - i + 1]
      BY <1>1, <1>3
    <3> QED  BY <3>1, <3>2
  <2>2. \A i \in 1..n : c.times[n - i + 1] = n - i + 1
    BY <1>1, <1>6
  <2> QED  BY <1>4, <1>5, <2>1, <2>2, ZenonT(60)
<1>9. \A i \in (n + 1)..(2 * n) : band[i] = Point(i - n, c.maxValues[i - n])
  <2>1. \A i \in (n + 1)..(2 * n) :
           /\ (Reverse(c.times) \o c.times)[i] = c.times[i - n]
           /\ (Reverse(c.minValues) \o c.maxValues)[i] = c.maxValues[i - n]
    <3>1. \A i \in (n + 1)..(2 * n) : (Reverse(c.times) \o c.times)[i] = c.times[i - n]
      BY <1>1, <1>3
    <3>2. \A i \in (n + 1)..(2 * n) :
             (Reverse(c.minValues) \o c.maxValues)[i] = c.maxValues[i - n]
      BY <1>1, <1>3
    <3> QED  BY <3>1, <3>2
  <2>2. \A i \in (n + 1)..(2 * n) : c.times[i - n] = i - n
    BY <1>1, <1>7
  <2> QED  BY <1>4, <1>5, <2>1, <2>2
<1> QED  BY <1>4, <1>8, <1>9 DEF c, n

\* The values of a sequence of numbers.
LEMMA RangeFinite ==
  ASSUME NEW n \in Nat \ {0}, NEW f \in [1..n -> Int]
  PROVE  /\ Range(f) \in SUBSET Int /\ IsFiniteSet(Range(f)) /\ Range(f) # {}
         /\ \A i \in 1..n : f[i] \in Range(f)
<1>1. IsFiniteSet(1..n)
  BY FS_Interval
<1>2. Range(f) \subseteq Int /\ f \in Surjection(1..n, Range(f))
  BY Fun_RangeProperties
<1>3. IsFiniteSet(Range(f))
  BY <1>1, <1>2, FS_Surjection
<1>4. \A i \in 1..n : f[i] \in Range(f)
  BY DEF Range
<1>5. 1 \in 1..n
  OBVIOUS
<1> QED  BY <1>2, <1>3, <1>4, <1>5

\* The limits that Fit finds.
LEMMA FitBounds ==
  ASSUME SvgAssumption, NEW s \in Snapshots
  PROVE  LET c == CanvasWithSnapshot(s)
         IN  \A v \in Range(c.values) \cup Range(c.minValues) \cup Range(c.maxValues) :
                v \in Int /\ Fit(c).yMin <= v /\ v <= Fit(c).yMax
<1> DEFINE c == CanvasWithSnapshot(s)
           n == Len(s.values)
           base == IF c.yMin = c.yMax THEN {} ELSE {c.yMin, c.yMax}
           low == base \cup Range(c.values) \cup Range(c.minValues)
           high == base \cup Range(c.values) \cup Range(c.maxValues)
           lo == Min(low)
           hi == Max(high)
           gap == IF c.margin THEN (hi - lo) \div 2 ELSE 0
<1>1. Canvas(c, n)
  BY CanvasType
<1>2. /\ [c EXCEPT !.yMin = lo - gap, !.yMax = hi + gap].yMin = lo - gap
      /\ [c EXCEPT !.yMin = lo - gap, !.yMax = hi + gap].yMax = hi + gap
  <2> HIDE DEF lo, hi, gap
  <2> QED  BY DEF CanvasWithSnapshot
<1> HIDE DEF c, n
<1>3. Fit(c).yMin = lo - gap /\ Fit(c).yMax = hi + gap
  <2>1. Fit(c) = [c EXCEPT !.yMin = lo - gap, !.yMax = hi + gap]
    BY DEF Fit
  <2> QED  BY <1>2, <2>1, Zenon
<1>4. \A f \in {c.values, c.minValues, c.maxValues} :
         Range(f) \in SUBSET Int /\ IsFiniteSet(Range(f)) /\ Range(f) # {}
  BY <1>1, RangeFinite DEF Canvas
<1>5. base \in SUBSET Int /\ IsFiniteSet(base)
  <2>1. c.yMin \in Int /\ c.yMax \in Int
    BY <1>1 DEF Canvas
  <2>2. IsFiniteSet({}) /\ IsFiniteSet({c.yMin, c.yMax})
    <3>1. IsFiniteSet({c.yMin}) /\ {c.yMin, c.yMax} = {c.yMin} \cup {c.yMax}
      BY FS_Singleton
    <3> QED  BY <3>1, FS_AddElement, FS_EmptySet, ZenonT(60)
  <2> QED  BY <2>1, <2>2
<1>6. low \in SUBSET Int /\ IsFiniteSet(low) /\ low # {}
  <2>1. IsFiniteSet(base \cup Range(c.values))
    BY <1>4, <1>5, FS_Union
  <2>2. IsFiniteSet(low)
    BY <1>4, <2>1, FS_Union
  <2> QED  BY <1>4, <1>5, <2>2
<1>7. high \in SUBSET Int /\ IsFiniteSet(high) /\ high # {}
  <2>1. IsFiniteSet(base \cup Range(c.values))
    BY <1>4, <1>5, FS_Union
  <2>2. IsFiniteSet(high)
    BY <1>4, <2>1, FS_Union
  <2> QED  BY <1>4, <1>5, <2>2
<1>8. /\ lo \in Int /\ \A v \in low : lo <= v
      /\ hi \in Int /\ \A v \in high : v <= hi
  <2> HIDE DEF low, high
  <2> QED  BY <1>6, <1>7, MinMax
<1>9. c.minValues = c.maxValues
  BY DEF c, CanvasWithSnapshot
<1>10. \A v \in Range(c.values) \cup Range(c.minValues) \cup Range(c.maxValues) :
          v \in Int /\ v \in low /\ v \in high
  BY <1>4, <1>9
<1>11. lo - gap <= lo /\ hi <= hi + gap /\ lo - gap \in Int /\ hi + gap \in Int
  <2>1. lo <= hi
    <3>1. PICK v \in Range(c.values) : TRUE
      BY <1>4
    <3> QED  BY <1>8, <1>10, <3>1
  <2> HIDE DEF lo, hi
  <2> QED  BY <1>8, <2>1
<1> HIDE DEF lo, hi, gap, low, high
<1>12. \A v \in Range(c.values) \cup Range(c.minValues) \cup Range(c.maxValues) :
          v \in Int /\ Fit(c).yMin <= v /\ v <= Fit(c).yMax
  BY <1>3, <1>8, <1>10, <1>11
<1> QED  BY <1>12 DEF c

\* All that is drawn of a snapshot lies on its grid.
LEMMA SnapshotInGrid ==
  ASSUME SvgAssumption, NEW s \in Snapshots
  PROVE  LET d == Drawing(CanvasWithSnapshot(s))
         IN  \A p \in Range(d.line) \cup Range(d.band) : Inside(d, p.v)
<1> DEFINE c == CanvasWithSnapshot(s)
           n == Len(s.values)
           d == Drawing(c)
           V == Range(c.values) \cup Range(c.minValues) \cup Range(c.maxValues)
<1>1. Canvas(c, n)
  BY CanvasType
<1>2. /\ DOMAIN svgRange(c) = 1..(2 * n)
      /\ \A i \in 1..n : svgRange(c)[i] = Point(n - i + 1, c.minValues[n - i + 1])
      /\ \A i \in (n + 1)..(2 * n) : svgRange(c)[i] = Point(i - n, c.maxValues[i - n])
  BY BandShape
<1>3. \A v \in V : v \in Int /\ Fit(c).yMin <= v /\ v <= Fit(c).yMax
  BY FitBounds
<1> HIDE DEF c, n
<1>4. n \in Nat \ {0}
  BY <1>1 DEF Canvas
<1>5. \A i \in 1..n : c.values[i] \in V /\ c.minValues[i] \in V /\ c.maxValues[i] \in V
  BY <1>1, RangeFinite DEF Canvas
<1>6. \A p \in Range(svgPath(c)) : p.v \in V
  <2>1. DOMAIN svgPath(c) = 1..n /\ \A i \in 1..n : svgPath(c)[i].v = c.values[i]
    BY <1>1 DEF Canvas, svgPath, Points, Point
  <2> QED  BY <1>5, <2>1 DEF Range
<1>7. \A p \in Range(svgRange(c)) : p.v \in V
  <2> SUFFICES ASSUME NEW i \in 1..(2 * n) PROVE svgRange(c)[i].v \in V
    BY <1>2 DEF Range
  <2>1. CASE i \in 1..n
    <3>1. n - i + 1 \in 1..n
      BY <1>4, <2>1
    <3> QED  BY <1>2, <1>5, <2>1, <3>1, PointFields
  <2>2. CASE i \in (n + 1)..(2 * n)
    <3>1. i - n \in 1..n
      BY <1>4, <2>2
    <3> QED  BY <1>2, <1>5, <2>2, <3>1, PointFields
  <2> QED  BY <1>4, <2>1, <2>2
<1>8. /\ d.yMin = Fit(c).yMin /\ d.yMax = Fit(c).yMax
      /\ d.line = svgPath(c) /\ d.band = svgRange(c)
  BY DEF Drawing
<1> HIDE DEF V, d
<1>9. \A p \in Range(d.line) \cup Range(d.band) : Inside(d, p.v)
  BY <1>3, <1>6, <1>7, <1>8 DEF Inside
<1> QED  BY <1>9 DEF c, d

\* The band of a snapshot runs back and forth.
LEMMA SnapshotBand ==
  ASSUME SvgAssumption, NEW s \in Snapshots
  PROVE  LET c == CanvasWithSnapshot(s)
             band == svgRange(c)
         IN  /\ \A i \in DOMAIN band :
                   band[i].v \in {c.minValues[band[i].t], c.maxValues[band[i].t]}
             /\ \A t \in Range(c.times) : Cardinality({i \in DOMAIN band : band[i].t = t}) = 2
             /\ Head(band).t = Last(band).t
<1> DEFINE c == CanvasWithSnapshot(s)
           n == Len(s.values)
           band == svgRange(c)
<1>1. Canvas(c, n)
  BY CanvasType
<1>2. /\ DOMAIN band = 1..(2 * n)
      /\ \A i \in 1..n : band[i] = Point(n - i + 1, c.minValues[n - i + 1])
      /\ \A i \in (n + 1)..(2 * n) : band[i] = Point(i - n, c.maxValues[i - n])
  BY BandShape
<1> HIDE DEF c, n, band
<1>3. n \in Nat \ {0} /\ \A i \in 1..(2 * n) : i \in 1..n \/ i \in (n + 1)..(2 * n)
  BY <1>1 DEF Canvas
<1>4. \A i \in 1..n : band[i].t = n - i + 1 /\ band[i].v = c.minValues[band[i].t]
  BY <1>2, PointFields
<1>5. \A i \in (n + 1)..(2 * n) : band[i].t = i - n /\ band[i].v = c.maxValues[band[i].t]
  BY <1>2, PointFields
<1>6. \A i \in DOMAIN band :
         band[i].v \in {c.minValues[band[i].t], c.maxValues[band[i].t]}
  BY <1>2, <1>3, <1>4, <1>5
<1>7. \A t \in Range(c.times) : Cardinality({i \in DOMAIN band : band[i].t = t}) = 2
  <2> SUFFICES ASSUME NEW t \in Range(c.times)
               PROVE  Cardinality({i \in DOMAIN band : band[i].t = t}) = 2
    OBVIOUS
  <2>1. t \in 1..n
    BY <1>1, SMTT(60) DEF Canvas, Range
  <2>2. {i \in DOMAIN band : band[i].t = t} = {n - t + 1} \cup {n + t}
    <3>1. n - t + 1 \in 1..n /\ n + t \in (n + 1)..(2 * n)
      BY <1>3, <2>1
    <3>2. band[n - t + 1].t = t /\ band[n + t].t = t
      <4>1. n - (n - t + 1) + 1 = t /\ (n + t) - n = t
        BY <1>3, <2>1
      <4> QED  BY <1>4, <1>5, <3>1, <4>1
    <3>3. n - t + 1 \in DOMAIN band /\ n + t \in DOMAIN band
      BY <1>2, <1>3, <3>1
    <3>4. \A i \in DOMAIN band : band[i].t = t => i \in {n - t + 1, n + t}
      <4> SUFFICES ASSUME NEW i \in DOMAIN band, band[i].t = t
                   PROVE  i \in {n - t + 1, n + t}
        OBVIOUS
      <4>1. CASE i \in 1..n
        BY <1>3, <1>4, <2>1, <4>1
      <4>2. CASE i \in (n + 1)..(2 * n)
        BY <1>3, <1>5, <2>1, <4>2
      <4> QED  BY <1>2, <1>3, <4>1, <4>2
    <3> QED  BY <3>2, <3>3, <3>4
  <2>3. n + t \notin {n - t + 1}
    BY <1>3, <2>1
  <2>4. IsFiniteSet({n - t + 1}) /\ Cardinality({n - t + 1}) = 1
    BY FS_Singleton
  <2>5. Cardinality({n - t + 1} \cup {n + t}) = 1 + 1
    BY <2>3, <2>4, FS_AddElement
  <2> QED  BY <2>2, <2>5
<1>8. Head(band).t = Last(band).t
  <2>1. Len(band) = 2 * n /\ Head(band) = band[1]
    <3>1. band \in Seq({band[i] : i \in 1..(2 * n)})
      <4>1. band = [i \in DOMAIN band |-> band[i]]
        BY DEF band, svgRange, Points
      <4>2. band \in [1..(2 * n) -> {band[i] : i \in 1..(2 * n)}]
        BY <1>2, <4>1
      <4>3. 2 * n \in Nat
        BY <1>3
      <4> QED  BY <4>2, <4>3, FunctionIsSeq
    <3>2. DOMAIN band = 1..Len(band) /\ Len(band) \in Nat
      BY <3>1, LenProperties
    <3>3. Len(band) = 2 * n
      BY <1>2, <1>3, <3>2
    <3>4. band # <<>>
      BY <1>3, <3>1, <3>3, EmptySeq
    <3> QED  BY <3>1, <3>3, <3>4
  <2>2. 1 \in 1..n /\ 2 * n \in (n + 1)..(2 * n)
    BY <1>3
  <2>3. band[1].t = n - 1 + 1 /\ band[2 * n].t = (2 * n) - n
    BY <1>4, <1>5, <2>2
  <2>4. n - 1 + 1 = (2 * n) - n
    BY <1>3
  <2> QED  BY <2>1, <2>3, <2>4 DEF Last
<1> QED  BY <1>6, <1>7, <1>8 DEF band, c

-----------------------------------------------------------------------------
(* What the files hold *)

\* Every step of the exporter with the SVG output is a step of the exporter, or
\* a panic of the output.
LEMMA SvgStepKinds ==
  ASSUME [SvgNext]_svgVars
  PROVE  ExporterStep
<1>1. CASE UNCHANGED svgVars
  BY <1>1 DEF svgVars, ExporterStep
<1>2. CASE (Owner \/ (\E m \in Metrics : Publish(m)) \/ (\E l \in Loops : TickerFires(l)))
           /\ UNCHANGED files
  BY <1>2, Zenon DEF Owner, ExporterStep
<1>3. ASSUME NEW l \in Loops, OpenFails(l)
      PROVE  Panics
  BY <1>3 DEF OpenFails, Panics
<1>4. ASSUME NEW l \in Loops, Draw(l) \/ DrawFails(l)
      PROVE  Panics
  BY <1>4 DEF Draw, DrawFails, Panics, ExportFailsOn
<1>5. ASSUME NEW l \in Loops, Open(l)
      PROVE  UNCHANGED vars
  BY <1>5 DEF Open
<1>6. ASSUME NEW l \in Loops, Close(l)
      PROVE  Export(l)
  BY <1>6 DEF Close
<1>7. ASSUME NEW l \in Loops, ExportOther(l)
      PROVE  Export(l) \/ ExportFails(l)
  BY <1>7 DEF ExportOther
<1>8. CASE \E l \in Loops : RunSvg(l)
  BY <1>3, <1>4, <1>5, <1>6, <1>7, <1>8, Zenon DEF RunSvg, ExporterStep
<1> QED  BY <1>1, <1>2, <1>8, Zenon DEF SvgNext

\* A goroutine with a file open is at the SVG output.  A file that is not whole
\* though its metric is served is the one being rewritten.
FilesInv ==
    /\ \A l \in opened :
          /\ loop[l] = "export" /\ left[l] # <<>> /\ Head(left[l]) = SvgOut
          /\ series[Current(l)] = "data"
    /\ \A l \in Loops : drawn[l] # Nil => l \in opened
    /\ \A l \in Loops, m \in torn :
          <<m, SvgOut>> \in sent[l] => l \in opened /\ m = Current(l)

\* The steps there are, with what each does to the files.
LEMMA FileStepKinds ==
  ASSUME [SvgNext]_svgVars
  PROVE  \/ UNCHANGED svgVars
         \/ /\ \/ Owner \/ (\E m \in Metrics : Publish(m))
               \/ \E l \in Loops :
                     \/ TickerFires(l) \/ EnterSelect(l) \/ ReceiveClose(l)
                     \/ RangeOutputs(l) \/ RangeTorn(l) \/ MetricDone(l)
                     \/ Skip(l) \/ MetricNotFound(l)
            /\ UNCHANGED files
         \/ \E l \in Loops :
               \/ ReceiveTick(l) /\ UNCHANGED files
               \/ Open(l) \/ OpenFails(l) \/ Draw(l) \/ DrawFails(l)
               \/ Close(l) \/ ExportOther(l)
BY Zenon DEF SvgNext, RunSvg

\* Every step keeps the files as the passes need them.
LEMMA FilesStep ==
  ASSUME SvgTypeOK, AtMetric, FilesInv, [SvgNext]_svgVars
  PROVE  FilesInv'
<1> USE DEF fields, loops, passes, files
<1>t. /\ loop \in [Loops -> {"none", "top", "select", "range", "export", "done"}]
      /\ mi \in [Loops -> 0..Len(MetricList)]
      /\ left \in [Loops -> Seq(Outputs)]
      /\ series \in [Metrics -> {"absent", "empty", "data"}]
      /\ sent \in [Loops -> SUBSET (Metrics \X Outputs)]
      /\ torn \subseteq Metrics /\ opened \subseteq Loops
      /\ drawn \in [Loops -> Snapshots \cup {Nil}]
  BY Zenon DEF SvgTypeOK, TypeOK
<1>m. \A l \in Loops : loop[l] = "export" => Current(l) \in Metrics
  BY <1>t, FirstMetric, CurrentType DEF AtMetric, Current
<1>g. \A m \in Metrics : series[m] = "data" => series'[m] = "data"
  BY GrowStep, SvgStepKinds DEF SvgTypeOK
<1>f. ASSUME UNCHANGED <<torn, opened, drawn>>,
             \A l \in Loops : sent'[l] = sent[l] \/ (sent'[l] = {} /\ l \notin opened),
             \A l \in opened : loop'[l] = loop[l] /\ left'[l] = left[l] /\ mi'[l] = mi[l]
      PROVE  FilesInv'
  <2>1. \A l \in opened : Current(l)' = Current(l)
    BY <1>f DEF Current
  <2>2. \A l \in opened : series'[Current(l)] = "data"
    <3> SUFFICES ASSUME NEW l \in opened PROVE series'[Current(l)] = "data"
      OBVIOUS
    <3>1. loop[l] = "export" /\ series[Current(l)] = "data"
      BY Zenon DEF FilesInv
    <3> QED  BY <1>m, <1>g, <1>t, <3>1
  <2>3. opened' = opened /\ torn' = torn /\ drawn' = drawn
    BY <1>f
  <2>4. \A l \in opened' :
           /\ loop'[l] = "export" /\ left'[l] # <<>> /\ Head(left'[l]) = SvgOut
           /\ series'[Current(l)'] = "data"
    BY <1>f, <2>1, <2>2, <2>3 DEF FilesInv
  <2>5. \A l \in Loops, m \in torn' :
           <<m, SvgOut>> \in sent'[l] => l \in opened' /\ m = Current(l)'
    BY <1>f, <2>1, <2>3 DEF FilesInv
  <2> QED  BY <2>3, <2>4, <2>5 DEF FilesInv
<1>1. CASE UNCHANGED svgVars
  BY <1>1, <1>f DEF svgVars, vars
<1>2. CASE Owner /\ UNCHANGED files
  <2>1. ASSUME NEW l \in Loops, Start(l) PROVE FilesInv'
    BY <1>2, <1>f, <1>t, <2>1 DEF Start, FilesInv
  <2>2. CASE \/ \E o \in Outputs : AddOutput(o)
             \/ AddOutputReturns \/ Stop \/ StopAgain \/ StopReturns
    BY <1>2, <1>f, <2>2 DEF AddOutput, AddOutputReturns, Stop, StopAgain, StopReturns
  <2> QED  BY <1>2, <2>1, <2>2, Zenon DEF Owner
<1>3. ASSUME NEW m \in Metrics, Publish(m) /\ UNCHANGED files PROVE FilesInv'
  BY <1>3, <1>f DEF Publish
<1>4. ASSUME NEW l \in Loops,
             TickerFires(l) \/ EnterSelect(l) \/ ReceiveClose(l) \/ RangeTorn(l),
             UNCHANGED files
      PROVE  FilesInv'
  BY <1>4, <1>f, <1>t DEF TickerFires, EnterSelect, ReceiveClose, RangeTorn, FilesInv
<1>5. ASSUME NEW l \in Loops, RangeOutputs(l), UNCHANGED files PROVE FilesInv'
  BY <1>5, <1>f, <1>t DEF RangeOutputs, FilesInv
<1>6. ASSUME NEW l \in Loops, MetricDone(l), UNCHANGED files PROVE FilesInv'
  BY <1>6, <1>f, <1>t DEF MetricDone, AfterMetric, FilesInv
<1>7. ASSUME NEW l \in Loops, Skip(l), UNCHANGED files PROVE FilesInv'
  BY <1>7, <1>f, <1>t DEF Skip, FilesInv
<1>8. ASSUME NEW l \in Loops, MetricNotFound(l), UNCHANGED files PROVE FilesInv'
  BY <1>8, <1>f, <1>t DEF MetricNotFound, PassFails, FilesInv
<1>9. ASSUME NEW l \in Loops, ReceiveTick(l), UNCHANGED files PROVE FilesInv'
  BY <1>9, <1>f, <1>t DEF ReceiveTick, FilesInv
<1>10. ASSUME NEW l \in Loops, Open(l) PROVE FilesInv'
  BY <1>10, <1>t, SvgExportAssumption DEF Open, vars, AtSvg, Serving, FilesInv, Current
<1>11. ASSUME NEW l \in Loops, OpenFails(l) \/ DrawFails(l) PROVE FilesInv'
  BY <1>11, <1>f DEF OpenFails, DrawFails
<1>12. ASSUME NEW l \in Loops, Draw(l) PROVE FilesInv'
  BY <1>12, <1>t DEF Draw, FilesInv, Current
<1>13. ASSUME NEW l \in Loops, Close(l) PROVE FilesInv'
  BY <1>13, <1>t, SvgExportAssumption DEF Close, Export, FilesInv, Current
<1>14. ASSUME NEW l \in Loops, ExportOther(l) PROVE FilesInv'
  <2>1. CASE Export(l)
    BY <1>14, <1>t, <2>1 DEF ExportOther, Export, FilesInv, Current
  <2>2. CASE ExportFails(l)
    BY <1>14, <1>f, <1>t, <2>2 DEF ExportOther, ExportFails, PassFails, FilesInv
  <2> QED  BY <1>14, <2>1, <2>2 DEF ExportOther
<1> QED  BY FileStepKinds, <1>1, <1>2, <1>3, <1>4, <1>5, <1>6, <1>7, <1>8, <1>9, <1>10,
            <1>11, <1>12, <1>13, <1>14, Zenon

-----------------------------------------------------------------------------
(* The exporter does not panic by itself *)

\* While the closed channel is still in the field, Stop is on its way to clear
\* it.  A panic ends the process: what caused it stays to be seen.
PanicInv ==
    /\ closed /\ closeCh = "chan" => stopping
    /\ PanicExplained

\* A step of a process that has not panicked.
LEMMA Alive ==
  ASSUME [SvgNext]_svgVars
  PROVE  UNCHANGED svgVars \/ ~panicked
BY FileStepKinds, Zenon DEF Owner, AddOutput, AddOutputReturns, Start, Stop, StopAgain,
   StopReturns, Publish, TickerFires, EnterSelect, ReceiveClose, ReceiveTick, RangeOutputs,
   RangeTorn, MetricDone, Skip, Serving, MetricNotFound, Open, OpenFails, Draw, DrawFails, Close,
   ExportOther, Export, ExportFails, AtSvg

\* The steps after which the process may be gone.
LEMMA WhoPanics ==
  ASSUME [SvgNext]_svgVars, ~panicked
  PROVE  \/ ~panicked'
         \/ StopAgain
         \/ \E l \in Loops : RangeTorn(l) \/ OpenFails(l) \/ Draw(l) \/ DrawFails(l)
<1> USE DEF fields, loops, passes
<1>1. CASE UNCHANGED svgVars
  BY <1>1 DEF svgVars, vars
<1>2. CASE Owner
  BY <1>2, Zenon DEF Owner, AddOutput, AddOutputReturns, Start, Stop, StopReturns
<1>3. ASSUME NEW m \in Metrics, Publish(m) PROVE ~panicked'
  BY <1>3 DEF Publish
<1>4. ASSUME NEW l \in Loops,
             \/ TickerFires(l) \/ EnterSelect(l) \/ ReceiveClose(l) \/ ReceiveTick(l)
             \/ RangeOutputs(l) \/ MetricDone(l) \/ Skip(l) \/ MetricNotFound(l)
             \/ Open(l) \/ Close(l) \/ ExportOther(l)
      PROVE  ~panicked'
  BY <1>4 DEF TickerFires, EnterSelect, ReceiveClose, ReceiveTick, RangeOutputs, MetricDone,
     Skip, MetricNotFound, PassFails, Open, vars, Close, ExportOther, Export, ExportFails
<1> QED  BY FileStepKinds, <1>1, <1>2, <1>3, <1>4, Zenon

\* Every step keeps the reasons for a panic.
LEMMA PanicStep ==
  ASSUME SvgTypeOK, FilesInv, PanicInv, [SvgNext]_svgVars
  PROVE  PanicInv'
<1> USE DEF fields, loops, passes
<1>1. CASE UNCHANGED svgVars
  BY <1>1 DEF svgVars, vars, files, PanicInv, PanicExplained
<1>2. CASE ~panicked
  <2>1. closed' /\ closeCh' = "chan" => stopping'
    <3>1. CASE UNCHANGED <<closed, closeCh, stopping>>
      BY <3>1 DEF PanicInv
    <3>2. CASE Stop \/ StopReturns
      BY <3>2 DEF Stop, StopReturns
    <3>3. \/ UNCHANGED <<closed, closeCh, stopping>>
          \/ Stop \/ StopReturns
      BY SvgStepKinds, Zenon DEF ExporterStep, vars, Panics, AddOutput, AddOutputReturns, Start, StopAgain,
         Publish, TickerFires, EnterSelect, ReceiveClose, ReceiveTick, RangeOutputs,
         RangeTorn, MetricDone, Skip, Export, MetricNotFound, ExportFails, PassFails
    <3> QED  BY <3>1, <3>2, <3>3
  <2>2. PanicExplained'
    <3>1. CASE ~panicked'
      BY <3>1 DEF PanicExplained
    <3>2. CASE StopAgain
      BY <3>2 DEF StopAgain, PanicInv, PanicExplained, SvgTypeOK, TypeOK
    <3>3. ASSUME NEW l \in Loops, RangeTorn(l) PROVE PanicExplained'
      BY <3>3 DEF RangeTorn, PanicExplained
    <3>4. ASSUME NEW l \in Loops, OpenFails(l) \/ DrawFails(l) PROVE PanicExplained'
      BY <3>4 DEF OpenFails, DrawFails, PanicExplained
    <3>5. ASSUME NEW l \in Loops, Draw(l) PROVE PanicExplained'
      <4>1. PICK s \in Snapshots : panicked' = ExportFailsOn(CanvasWithSnapshot(s))
        BY <3>5 DEF Draw
      <4>2. ~panicked'
        BY <4>1, NeverRefused, SvgExportAssumption
      <4> QED  BY <4>2 DEF PanicExplained
    <3> QED  BY <1>2, <3>1, <3>2, <3>3, <3>4, <3>5, WhoPanics
  <2> QED  BY <2>1, <2>2 DEF PanicInv
<1> QED  BY <1>1, <1>2, Alive

-----------------------------------------------------------------------------
(* The theorems *)

SvgInv == SvgTypeOK /\ AtMetric /\ PassInv /\ FilesInv /\ PanicInv

\* What is drawn is a snapshot, and torn and opened are of their types.
LEMMA SvgTypeStep ==
  ASSUME SvgTypeOK, AtMetric, [SvgNext]_svgVars
  PROVE  SvgTypeOK'
<1>1. TypeOK'
  BY TypeStep, SvgStepKinds DEF SvgTypeOK
<1>2. /\ torn \in SUBSET Metrics /\ opened \in SUBSET Loops
      /\ drawn \in [Loops -> Snapshots \cup {Nil}]
      /\ loop \in [Loops -> {"none", "top", "select", "range", "export", "done"}]
      /\ mi \in [Loops -> 0..Len(MetricList)]
  BY Zenon DEF SvgTypeOK, TypeOK
<1>3. torn' \in SUBSET Metrics
  <2>1. ASSUME NEW l \in Loops, Open(l) PROVE torn' \in SUBSET Metrics
    <3>1. loop[l] = "export"
      BY <2>1 DEF Open, AtSvg, Serving
    <3>2. Current(l) \in Metrics
      BY <1>2, <3>1, FirstMetric, CurrentType DEF AtMetric, Current
    <3> QED  BY <1>2, <2>1, <3>2 DEF Open
  <2>2. ASSUME NEW l \in Loops, Close(l) PROVE torn' \in SUBSET Metrics
    BY <1>2, <2>2 DEF Close
  <2>3. torn' = torn \/ \E l \in Loops : Open(l) \/ Close(l)
    BY FileStepKinds, Zenon DEF svgVars, files, OpenFails, Draw, DrawFails, ExportOther
  <2> QED  BY <1>2, <2>1, <2>2, <2>3
<1>4. opened' \in SUBSET Loops
  <2>1. \/ opened' = opened
        \/ \E l \in Loops : opened' = opened \cup {l} \/ opened' = opened \ {l}
    BY FileStepKinds, Zenon DEF svgVars, files, Open, OpenFails, Draw, DrawFails, Close,
       ExportOther
  <2> QED  BY <1>2, <2>1
<1>5. drawn' \in [Loops -> Snapshots \cup {Nil}]
  <2>1. \/ drawn' = drawn
        \/ \E l \in Loops, s \in Snapshots \cup {Nil} : drawn' = [drawn EXCEPT ![l] = s]
    <3>1. ASSUME NEW l \in Loops, Draw(l)
          PROVE  \E s \in Snapshots \cup {Nil} : drawn' = [drawn EXCEPT ![l] = s]
      BY <3>1 DEF Draw
    <3>2. ASSUME NEW l \in Loops, Close(l)
          PROVE  \E s \in Snapshots \cup {Nil} : drawn' = [drawn EXCEPT ![l] = s]
      BY <3>2 DEF Close
    <3> QED  BY <3>1, <3>2, FileStepKinds, Zenon DEF svgVars, files, Open, OpenFails,
                DrawFails, ExportOther
  <2> QED  BY <1>2, <2>1
<1>6. ioError' \in BOOLEAN
  <2>1. ioError' = ioError \/ ioError' = TRUE
    BY FileStepKinds, Zenon DEF svgVars, files, Open, OpenFails, Draw, DrawFails, Close,
       ExportOther
  <2> QED  BY <2>1 DEF SvgTypeOK
<1> QED  BY <1>1, <1>3, <1>4, <1>5, <1>6 DEF SvgTypeOK

\* At first nothing runs and no file is whole.
LEMMA SvgInitInv == SvgInit => SvgInv
<1> SUFFICES ASSUME SvgInit PROVE SvgInv
  OBVIOUS
<1> USE DEF SvgInit
<1>1. SvgTypeOK
  BY InitInv DEF IInv, SvgTypeOK
<1>2. AtMetric /\ PassInv
  BY InitInv DEF IInv
<1>4. FilesInv
  BY DEF Init, FilesInv
<1>5. PanicInv
  BY DEF Init, PanicInv, PanicExplained
<1> QED  BY <1>1, <1>2, <1>4, <1>5 DEF SvgInv

\* The invariant is inductive.
LEMMA SvgStepInv == SvgInv /\ [SvgNext]_svgVars => SvgInv'
<1> SUFFICES ASSUME SvgInv, [SvgNext]_svgVars PROVE SvgInv'
  OBVIOUS
<1> USE DEF SvgInv
<1>1. SvgTypeOK'
  BY SvgTypeStep
<1>2. AtMetric' /\ PassInv'
  BY AtMetricStep, PassStep, SvgStepKinds DEF SvgTypeOK
<1>3. FilesInv'
  BY FilesStep
<1>4. PanicInv'
  BY PanicStep
<1> QED  BY <1>1, <1>2, <1>3, <1>4

\* The exporter and the drawing of its files keep their types.
THEOREM SvgTypeCorrect == SvgSpec => []SvgTypeOK
<1>1. SvgInv => SvgTypeOK
  BY DEF SvgInv
<1> QED  BY <1>1, SvgInitInv, SvgStepInv, PTL DEF SvgSpec

\* A pass without an error has given every metric that had data when it began
\* to every output registered then (exporter.go, exportAll and Export).
THEOREM SvgPassServes == SvgSpec => []PassServesAll
<1>1. SvgInv => PassServesAll
  BY DEF SvgInv, PassInv, PassOf, PassServesAll
<1> QED  BY <1>1, SvgInitInv, SvgStepInv, PTL DEF SvgSpec

\* A pass without an error leaves a whole file for every metric it owed to the
\* SVG output (svgoutput.go, Export): after its last step none is being rewritten.
THEOREM PassLeavesWhole == SvgSpec => []PassFilesWhole
<1>1. SvgInv => PassFilesWhole
  <2> SUFFICES ASSUME SvgInv, NEW l \in Loops, passOk[l], NEW m \in torn
               PROVE  <<m, SvgOut>> \notin due[l]
    BY DEF PassFilesWhole
  <2>1. PassOf(l)
    BY DEF SvgInv, PassInv
  <2>2. due[l] \subseteq sent[l] /\ l \notin opened
    BY <2>1 DEF PassOf, InPass, SvgInv, FilesInv
  <2> QED  BY <2>2 DEF SvgInv, FilesInv
<1> QED  BY <1>1, SvgInitInv, SvgStepInv, PTL DEF SvgSpec

\* The exporter panics only for the reasons named, files that cannot be opened or
\* written among them: no series that loadCollector makes is refused by Canvas.Export.
THEOREM PanicsExplained == SvgSpec => []PanicExplained
<1>1. SvgInv => PanicExplained
  BY DEF SvgInv, PanicInv
<1> QED  BY <1>1, SvgInitInv, SvgStepInv, PTL DEF SvgSpec

\* Whatever is drawn lies on the grid that Canvas.Export has fitted.
THEOREM DrawingFits == SvgSpec => []DrawnInGrid
<1>1. SvgInv => DrawnInGrid
  <2> SUFFICES ASSUME SvgTypeOK PROVE DrawnInGrid
    BY DEF SvgInv
  <2>1. \A l \in Loops : drawn[l] # Nil => drawn[l] \in Snapshots
    BY Zenon DEF SvgTypeOK
  <2> QED  BY <2>1, SnapshotInGrid, SvgExportAssumption, Zenon DEF DrawnInGrid
<1> QED  BY <1>1, SvgInitInv, SvgStepInv, PTL DEF SvgSpec

\* The band behind the line runs back and forth over the times of the samples.
THEOREM BandCloses == SvgSpec => []BandAtItsTimes
<1>1. SvgInv => BandAtItsTimes
  <2> SUFFICES ASSUME SvgTypeOK PROVE BandAtItsTimes
    BY DEF SvgInv
  <2>1. \A l \in Loops : drawn[l] # Nil => drawn[l] \in Snapshots
    BY Zenon DEF SvgTypeOK
  <2> QED  BY <2>1, SnapshotBand, SvgExportAssumption, Zenon DEF BandAtItsTimes
<1> QED  BY <1>1, SvgInitInv, SvgStepInv, PTL DEF SvgSpec

=============================================================================
