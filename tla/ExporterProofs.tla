--------------------------- MODULE ExporterProofs ---------------------------
(***************************************************************************)
(* Proofs about Exporter, for every list of metrics, every set of outputs  *)
(* and any number of goroutines.                                           *)
(***************************************************************************)
EXTENDS Exporter, SequenceTheorems, TLAPS

-----------------------------------------------------------------------------
(* Sequences of outputs *)

\* The elements of a sequence.
LEMMA ElemsType ==
  ASSUME NEW S, NEW s \in Seq(S)
  PROVE  Elems(s) \subseteq S
BY ElementOfSeq, LenProperties DEF Elems

\* An output that is appended is one more element.
LEMMA AppendElems ==
  ASSUME NEW S, NEW s \in Seq(S), NEW o \in S
  PROVE  /\ Append(s, o) \in Seq(S)
         /\ Elems(Append(s, o)) = Elems(s) \cup {o}
<1> DEFINE t == Append(s, o)
<1>1. /\ t \in Seq(S) /\ Len(t) = Len(s) + 1 /\ Len(s) \in Nat
      /\ \A i \in 1..Len(s) : t[i] = s[i]
      /\ t[Len(s) + 1] = o
  BY AppendProperties, LenProperties
<1>2. DOMAIN s = 1..Len(s) /\ DOMAIN t = 1..(Len(s) + 1)
  BY <1>1, LenProperties
<1>3. \A i \in DOMAIN t : t[i] \in Elems(s) \cup {o}
  <2> SUFFICES ASSUME NEW i \in DOMAIN t PROVE t[i] \in Elems(s) \cup {o}
    OBVIOUS
  <2>1. CASE i = Len(s) + 1
    BY <1>1, <2>1
  <2>2. CASE i \in 1..Len(s)
    BY <1>1, <1>2, <2>2 DEF Elems
  <2> QED  BY <1>1, <1>2, <2>1, <2>2
<1>4. \A i \in DOMAIN s : s[i] \in Elems(t)
  <2> SUFFICES ASSUME NEW i \in DOMAIN s PROVE s[i] \in Elems(t)
    OBVIOUS
  <2>1. i \in DOMAIN t /\ t[i] = s[i]
    BY <1>1, <1>2
  <2> QED  BY <2>1, Zenon DEF Elems
<1>5. o \in Elems(t)
  <2>1. Len(s) + 1 \in DOMAIN t
    BY <1>1, <1>2
  <2> QED  BY <1>1, <2>1, Zenon DEF Elems
<1> HIDE DEF t
<1>6. Elems(t) = Elems(s) \cup {o}
  BY <1>3, <1>4, <1>5 DEF Elems
<1> QED  BY <1>1, <1>6 DEF t

\* A sequence consists of its head and of its tail.
LEMMA TailElems ==
  ASSUME NEW S, NEW s \in Seq(S), s # <<>>
  PROVE  /\ Tail(s) \in Seq(S) /\ Head(s) \in S
         /\ Elems(s) = {Head(s)} \cup Elems(Tail(s))
<1>1. /\ Head(s) = s[1] /\ Head(s) \in S /\ Tail(s) \in Seq(S)
      /\ Len(s) \in Nat /\ Len(s) # 0 /\ Len(Tail(s)) = Len(s) - 1
      /\ \A i \in 1..(Len(s) - 1) : Tail(s)[i] = s[i + 1]
  BY HeadTailProperties, LenProperties, EmptySeq
<1>2. DOMAIN s = 1..Len(s) /\ DOMAIN Tail(s) = 1..(Len(s) - 1)
  BY <1>1, LenProperties
<1>3. \A i \in DOMAIN s : s[i] \in {Head(s)} \cup Elems(Tail(s))
  <2> SUFFICES ASSUME NEW i \in DOMAIN s PROVE s[i] \in {Head(s)} \cup Elems(Tail(s))
    OBVIOUS
  <2>1. CASE i = 1
    BY <1>1, <2>1
  <2>2. CASE i # 1
    <3>1. i - 1 \in DOMAIN Tail(s) /\ Tail(s)[i - 1] = s[i]
      BY <1>1, <1>2, <2>2
    <3> QED  BY <3>1 DEF Elems
  <2> QED  BY <2>1, <2>2
<1>4. \A i \in DOMAIN Tail(s) : Tail(s)[i] \in Elems(s)
  <2> SUFFICES ASSUME NEW i \in DOMAIN Tail(s) PROVE Tail(s)[i] \in Elems(s)
    OBVIOUS
  <2>1. i + 1 \in DOMAIN s /\ Tail(s)[i] = s[i + 1]
    BY <1>1, <1>2
  <2> QED  BY <2>1 DEF Elems
<1>5. Head(s) \in Elems(s)
  <2>1. 1 \in DOMAIN s
    BY <1>1, <1>2
  <2> QED  BY <1>1, <2>1, Zenon DEF Elems
<1>6. \A e \in Elems(s) : e \in {Head(s)} \cup Elems(Tail(s))
  BY <1>3, Zenon DEF Elems
<1>7. \A e \in Elems(Tail(s)) : e \in Elems(s)
  BY <1>4, Zenon DEF Elems
<1> QED  BY <1>1, <1>5, <1>6, <1>7

-----------------------------------------------------------------------------
(* Types *)

\* The metric that a goroutine is at.
LEMMA CurrentType ==
  ASSUME NEW i \in 1..Len(MetricList)
  PROVE  MetricList[i] \in Metrics
BY ExporterAssumption, LenProperties DEF Metrics

\* There is a first metric.
LEMMA FirstMetric ==
  Len(MetricList) \in Nat /\ 1 \in 1..Len(MetricList) /\ 1 \in 0..Len(MetricList)
BY ExporterAssumption, LenProperties, EmptySeq

\* An output panics.
Panics ==
    /\ panicked' \in BOOLEAN
    /\ UNCHANGED <<ows, closeCh, closed, latestErr, adding, stopping, loops,
                   series, fails, passes>>

\* A step of the exporter, or of an output that panics.
ExporterStep ==
    \/ UNCHANGED vars
    \/ Panics
    \/ \E o \in Outputs : AddOutput(o)
    \/ AddOutputReturns
    \/ \E l \in Loops : Start(l)
    \/ Stop \/ StopAgain \/ StopReturns
    \/ \E m \in Metrics : Publish(m)
    \/ \E l \in Loops :
          \/ TickerFires(l)
          \/ EnterSelect(l) \/ ReceiveClose(l) \/ ReceiveTick(l)
          \/ RangeOutputs(l) \/ RangeTorn(l) \/ MetricDone(l)
          \/ Skip(l) \/ Export(l)
          \/ MetricNotFound(l) \/ ExportFails(l)

\* The steps of the exporter by itself.
LEMMA StepKinds ==
  ASSUME [Next]_vars
  PROVE  ExporterStep
BY Zenon DEF Next, Owner, Run, ExporterStep

\* A goroutine in a pass is at a metric.
AtMetric == \A l \in Loops : loop[l] \in {"range", "export"} => mi[l] >= 1

\* A step of the exporter keeps the types.
LEMMA TypeStep ==
  ASSUME TypeOK, AtMetric, ExporterStep
  PROVE  TypeOK'
<1> USE DEF fields, loops, passes
<1>1. CASE UNCHANGED vars
  BY <1>1 DEF TypeOK, vars
<1>2. CASE Panics
  BY <1>2 DEF TypeOK, Panics
<1>3. ASSUME NEW o \in Outputs, AddOutput(o) PROVE TypeOK'
  BY <1>3 DEF TypeOK, AddOutput
<1>4. CASE AddOutputReturns
  <2>1. adding \in Outputs
    BY <1>4 DEF TypeOK, AddOutputReturns
  <2>2. ows' \in Seq(Outputs)
    BY <1>4, <2>1, AppendElems DEF TypeOK, AddOutputReturns
  <2> QED  BY <1>4, <2>2 DEF TypeOK, AddOutputReturns
<1>5. ASSUME NEW l \in Loops, Start(l) PROVE TypeOK'
  BY <1>5 DEF TypeOK, Start
<1>6. CASE Stop \/ StopAgain \/ StopReturns
  BY <1>6 DEF TypeOK, Stop, StopAgain, StopReturns
<1>7. ASSUME NEW m \in Metrics, Publish(m) PROVE TypeOK'
  BY <1>7 DEF TypeOK, Publish
<1>8. ASSUME NEW l \in Loops, TickerFires(l) \/ EnterSelect(l) \/ ReceiveClose(l)
      PROVE  TypeOK'
  BY <1>8 DEF TypeOK, TickerFires, EnterSelect, ReceiveClose
<1>9. ASSUME NEW l \in Loops, ReceiveTick(l) PROVE TypeOK'
  <2>1. Elems(ows) \subseteq Outputs
    BY ElemsType DEF TypeOK
  <2>2. {m \in Metrics : series[m] = "data"} \X Elems(ows) \in SUBSET (Metrics \X Outputs)
    BY <2>1 DEF TypeOK
  <2>3. due' \in [Loops -> SUBSET (Metrics \X Outputs)]
    BY <1>9, <2>2 DEF TypeOK, ReceiveTick
  <2>4. mi' \in [Loops -> 0..Len(MetricList)]
    <3>1. 1 \in 0..Len(MetricList)
      BY FirstMetric
    <3> QED  BY <1>9, <3>1, Zenon DEF TypeOK, ReceiveTick
  <2>5. sent' \in [Loops -> SUBSET (Metrics \X Outputs)]
    BY <1>9 DEF TypeOK, ReceiveTick
  <2> QED  BY <1>9, <2>3, <2>4, <2>5 DEF TypeOK, ReceiveTick
<1>10. ASSUME NEW l \in Loops, RangeOutputs(l) PROVE TypeOK'
  <2>1. \A o \in {adding} \ {None} : Append(ows, o) \in Seq(Outputs)
    BY AppendElems DEF TypeOK
  <2>2. PICK read \in {ows} \cup {Append(ows, o) : o \in {adding} \ {None}} :
            left' = [left EXCEPT ![l] = read]
    BY <1>10, Zenon DEF TypeOK, RangeOutputs
  <2>3. read \in Seq(Outputs)
    BY <2>1, <2>2 DEF TypeOK
  <2>4. left' \in [Loops -> Seq(Outputs)]
    BY <2>2, <2>3, Zenon DEF TypeOK
  <2> QED  BY <1>10, <2>4 DEF TypeOK, RangeOutputs
<1>11. ASSUME NEW l \in Loops, RangeTorn(l) PROVE TypeOK'
  BY <1>11 DEF TypeOK, RangeTorn
<1>12. ASSUME NEW l \in Loops, MetricDone(l) PROVE TypeOK'
  <2>1. mi' \in [Loops -> 0..Len(MetricList)]
    <3>1. CASE mi[l] = Len(MetricList)
      BY <1>12, <3>1, Zenon DEF TypeOK, MetricDone, AfterMetric
    <3>2. CASE mi[l] # Len(MetricList)
      <4> mi[l] \in 0..Len(MetricList)
        BY Zenon DEF TypeOK
      <4>1. mi[l] + 1 \in 0..Len(MetricList)
        BY <3>2, FirstMetric
      <4>2. mi' = [mi EXCEPT ![l] = mi[l] + 1]
        BY <1>12, <3>2, Zenon DEF TypeOK, MetricDone, AfterMetric
      <4> QED  BY <4>1, <4>2, Zenon DEF TypeOK
    <3> QED  BY <3>1, <3>2 DEF TypeOK
  <2> QED  BY <1>12, <2>1 DEF TypeOK, MetricDone, AfterMetric
<1>13. ASSUME NEW l \in Loops, Skip(l) PROVE TypeOK'
  <2>1. left' \in [Loops -> Seq(Outputs)]
    BY <1>13, TailElems DEF TypeOK, Skip, Serving
  <2> QED  BY <1>13, <2>1 DEF TypeOK, Skip
<1>14. ASSUME NEW l \in Loops, Export(l) PROVE TypeOK'
  <2>1. left' \in [Loops -> Seq(Outputs)] /\ Head(left[l]) \in Outputs
    BY <1>14, TailElems DEF TypeOK, Export, Serving
  <2>2. Current(l) \in Metrics
    <3>1. mi[l] \in 0..Len(MetricList)
      BY Zenon DEF TypeOK
    <3>2. mi[l] \in 1..Len(MetricList)
      BY <1>14, <3>1, FirstMetric DEF Export, Serving, AtMetric
    <3> QED  BY <3>2, CurrentType DEF Current
  <2>3. sent[l] \cup {<<Current(l), Head(left[l])>>} \in SUBSET (Metrics \X Outputs)
    <3>1. sent[l] \in SUBSET (Metrics \X Outputs)
      BY Zenon DEF TypeOK
    <3> QED  BY <2>1, <2>2, <3>1
  <2>4. sent' \in [Loops -> SUBSET (Metrics \X Outputs)]
    BY <1>14, <2>3, Zenon DEF TypeOK, Export
  <2> QED  BY <1>14, <2>1, <2>4 DEF TypeOK, Export
<1>15. ASSUME NEW l \in Loops, MetricNotFound(l) \/ ExportFails(l) PROVE TypeOK'
  <2>1. fails' \in Nat
    <3>1. CASE MetricNotFound(l)
      BY <3>1 DEF MetricNotFound, TypeOK
    <3>2. CASE ExportFails(l)
      <4>1. fails' = fails + 1
        BY <3>2, Zenon DEF ExportFails
      <4>2. fails \in Nat
        BY Zenon DEF TypeOK
      <4> QED  BY <4>1, <4>2
    <3> QED  BY <1>15, <3>1, <3>2
  <2>2. PICK err \in {"not found", "output error"} : PassFails(l, err)
    BY <1>15 DEF TypeOK, MetricNotFound, ExportFails
  <2> QED  BY <2>1, <2>2 DEF TypeOK, PassFails
<1> QED  BY <1>1, <1>2, <1>3, <1>4, <1>5, <1>6, <1>7, <1>8, <1>9, <1>10,
            <1>11, <1>12, <1>13, <1>14, <1>15, Zenon DEF ExporterStep

-----------------------------------------------------------------------------
(* What a pass has served *)

InPass(l) == loop[l] \in {"range", "export"}

\* A pass owes only metrics with data, which stay so, to outputs that are
\* there, which stay there.  The metrics before the current one are served, and
\* the current one will be when left is empty.
PassOf(l) ==
    /\ InPass(l) =>
        /\ ~passOk[l]
        /\ due[l] \subseteq {m \in Metrics : series[m] = "data"} \X Elems(ows)
        /\ \A i \in 1..(mi[l] - 1), o \in Outputs :
              <<MetricList[i], o>> \in due[l] => <<MetricList[i], o>> \in sent[l]
    /\ loop[l] = "export" =>
          \A o \in Outputs :
              <<Current(l), o>> \in due[l] =>
                  <<Current(l), o>> \in sent[l] \/ o \in Elems(left[l])
    /\ passOk[l] => due[l] \subseteq sent[l]

PassInv == \A l \in Loops : PassOf(l)

\* A goroutine starts a pass at the first metric.
LEMMA AtMetricStep ==
  ASSUME TypeOK, AtMetric, ExporterStep
  PROVE  AtMetric'
<1> USE DEF AtMetric, fields, loops, passes
<1> mi \in [Loops -> 0..Len(MetricList)]
  BY Zenon DEF TypeOK
<1> loop \in [Loops -> {"none", "top", "select", "range", "export", "done"}]
  BY Zenon DEF TypeOK
<1> Len(MetricList) \in Nat
  BY FirstMetric
<1>1. CASE UNCHANGED <<loop, mi>>
  BY <1>1
<1>2. ASSUME NEW l \in Loops, Start(l) PROVE AtMetric'
  BY <1>2 DEF Start
<1>3. ASSUME NEW l \in Loops, EnterSelect(l) \/ ReceiveClose(l) PROVE AtMetric'
  BY <1>3 DEF EnterSelect, ReceiveClose
<1>4. ASSUME NEW l \in Loops, ReceiveTick(l) PROVE AtMetric'
  BY <1>4 DEF ReceiveTick
<1>5. ASSUME NEW l \in Loops, RangeOutputs(l) PROVE AtMetric'
  BY <1>5 DEF RangeOutputs
<1>6. ASSUME NEW l \in Loops, MetricDone(l) PROVE AtMetric'
  BY <1>6 DEF MetricDone, AfterMetric
<1>7. ASSUME NEW l \in Loops, MetricNotFound(l) \/ ExportFails(l) PROVE AtMetric'
  BY <1>7 DEF MetricNotFound, ExportFails, PassFails
<1>8. \/ UNCHANGED <<loop, mi>>
      \/ \E l \in Loops :
            \/ Start(l) \/ EnterSelect(l) \/ ReceiveClose(l) \/ ReceiveTick(l)
            \/ RangeOutputs(l) \/ MetricDone(l) \/ MetricNotFound(l) \/ ExportFails(l)
  BY Zenon DEF ExporterStep, vars, Panics, AddOutput, AddOutputReturns, Stop, StopAgain,
     StopReturns, Publish, TickerFires, RangeTorn, Skip, Export
<1> QED  BY <1>1, <1>2, <1>3, <1>4, <1>5, <1>6, <1>7, <1>8, Zenon

\* A series with data keeps it, and an output stays registered.
LEMMA GrowStep ==
  ASSUME TypeOK, ExporterStep
  PROVE  /\ \A m \in Metrics : series[m] = "data" => series'[m] = "data"
         /\ Elems(ows) \subseteq Elems(ows')
<1> USE DEF fields, loops, passes
<1>1. CASE UNCHANGED <<series, ows>>
  BY <1>1
<1>2. ASSUME NEW m \in Metrics, Publish(m)
      PROVE  UNCHANGED ows /\ \A n \in Metrics : series[n] = "data" => series'[n] = "data"
  <2> series \in [Metrics -> {"absent", "empty", "data"}]
    BY Zenon DEF TypeOK
  <2> QED  BY <1>2 DEF Publish
<1>3. CASE AddOutputReturns
  <2>1. adding \in Outputs /\ ows \in Seq(Outputs)
    BY <1>3 DEF AddOutputReturns, TypeOK
  <2>2. Elems(ows) \subseteq Elems(Append(ows, adding))
    BY <2>1, AppendElems
  <2>3. UNCHANGED series /\ ows' = Append(ows, adding)
    BY <1>3, Zenon DEF AddOutputReturns
  <2> QED  BY <2>2, <2>3
<1>4. UNCHANGED <<series, ows>> \/ AddOutputReturns \/ \E m \in Metrics : Publish(m)
  BY Zenon DEF ExporterStep, vars, Panics, AddOutput, Stop, StopAgain, StopReturns, Start,
     TickerFires, EnterSelect, ReceiveClose, ReceiveTick, RangeOutputs, RangeTorn,
     MetricDone, AfterMetric, Skip, Export, MetricNotFound, ExportFails, PassFails
<1> QED  BY <1>1, <1>2, <1>3, <1>4, Zenon

\* What the pass of a goroutine depends on.
LEMMA PassFrame ==
  ASSUME NEW l \in Loops, PassOf(l),
         \A m \in Metrics : series[m] = "data" => series'[m] = "data",
         Elems(ows) \subseteq Elems(ows'),
         due'[l] = due[l], sent'[l] = sent[l], passOk'[l] = passOk[l],
         \/ ~InPass(l)'
         \/ loop'[l] = loop[l] /\ mi'[l] = mi[l] /\ left'[l] = left[l]
  PROVE  PassOf(l)'
<1>1. CASE ~InPass(l)'
  BY <1>1 DEF PassOf, InPass
<1>2. CASE loop'[l] = loop[l] /\ mi'[l] = mi[l] /\ left'[l] = left[l]
  BY <1>2 DEF PassOf, InPass, Current
<1> QED  BY <1>1, <1>2

\* Every step keeps what a pass has served.
LEMMA PassStep ==
  ASSUME TypeOK, AtMetric, PassInv, ExporterStep
  PROVE  PassInv'
<1> USE DEF fields, loops, passes
<1> DEFINE Kept(l) ==
      /\ due'[l] = due[l] /\ sent'[l] = sent[l] /\ passOk'[l] = passOk[l]
      /\ \/ ~InPass(l)'
         \/ loop'[l] = loop[l] /\ mi'[l] = mi[l] /\ left'[l] = left[l]
<1> SUFFICES ASSUME NEW k \in Loops PROVE PassOf(k)'
  BY DEF PassInv
<1>f. ASSUME Kept(k) PROVE PassOf(k)'
  <2>1. PassOf(k)
    BY Zenon DEF PassInv
  <2> QED  BY <1>f, <2>1, GrowStep, PassFrame
<1>t. /\ loop \in [Loops -> {"none", "top", "select", "range", "export", "done"}]
      /\ mi \in [Loops -> 0..Len(MetricList)]
      /\ left \in [Loops -> Seq(Outputs)]
      /\ due \in [Loops -> SUBSET (Metrics \X Outputs)]
      /\ sent \in [Loops -> SUBSET (Metrics \X Outputs)]
      /\ passOk \in [Loops -> BOOLEAN]
      /\ ows \in Seq(Outputs)
  BY Zenon DEF TypeOK
<1>k. PassOf(k)
  BY Zenon DEF PassInv
<1>1. CASE UNCHANGED <<loops, passes>>
  BY <1>1, <1>f
<1>2. ASSUME NEW l \in Loops, Start(l) PROVE PassOf(k)'
  BY <1>2, <1>f, <1>t DEF Start, InPass
<1>3. ASSUME NEW l \in Loops, TickerFires(l) \/ EnterSelect(l) \/ ReceiveClose(l)
      PROVE  PassOf(k)'
  BY <1>3, <1>f, <1>t DEF TickerFires, EnterSelect, ReceiveClose, InPass
<1>4. ASSUME NEW l \in Loops, ReceiveTick(l) PROVE PassOf(k)'
  <2>1. CASE k # l
    BY <1>4, <1>f, <1>t, <2>1 DEF ReceiveTick
  <2>2. CASE k = l
    <3>1. /\ loop'[k] = "range" /\ mi'[k] = 1 /\ passOk'[k] = FALSE
          /\ due'[k] = {m \in Metrics : series[m] = "data"} \X Elems(ows)
          /\ series' = series /\ ows' = ows
      BY <1>4, <1>t, <2>2 DEF ReceiveTick
    <3> QED  BY <3>1 DEF PassOf, InPass
  <2> QED  BY <2>1, <2>2
<1>5. ASSUME NEW l \in Loops, RangeOutputs(l) PROVE PassOf(k)'
  <2>1. CASE k # l
    BY <1>5, <1>f, <1>t, <2>1 DEF RangeOutputs
  <2>2. CASE k = l
    <3>1. PICK read \in {ows} \cup {Append(ows, o) : o \in {adding} \ {None}} :
            left' = [left EXCEPT ![l] = read]
      BY <1>5, Zenon DEF RangeOutputs
    <3>2. Elems(ows) \subseteq Elems(read)
      <4>1. adding \in Outputs \cup {None}
        BY Zenon DEF TypeOK
      <4>2. \A o \in Outputs : Elems(ows) \subseteq Elems(Append(ows, o))
        BY <1>t, AppendElems
      <4> QED  BY <3>1, <4>1, <4>2
    <3>3. /\ loop[k] = "range" /\ loop'[k] = "export" /\ left'[k] = read
          /\ UNCHANGED <<series, ows, mi, due, sent, passOk>>
      BY <1>5, <1>t, <2>2, <3>1 DEF RangeOutputs
    <3> QED  BY <1>k, <3>2, <3>3 DEF PassOf, InPass, Current
  <2> QED  BY <2>1, <2>2
<1>6. ASSUME NEW l \in Loops, MetricDone(l) PROVE PassOf(k)'
  <2>1. CASE k # l
    BY <1>6, <1>f, <1>t, <2>1 DEF MetricDone, AfterMetric
  <2>2. CASE k = l
    <3>1. /\ loop[k] = "export" /\ left[k] = <<>>
          /\ UNCHANGED <<series, ows, due, sent>>
      BY <1>6, <2>2 DEF MetricDone
    <3>2. Elems(left[k]) = {}
      BY <3>1 DEF Elems
    <3>3. mi[k] \in 1..Len(MetricList) /\ mi[k] \in Int
      BY <1>t, <3>1, FirstMetric DEF AtMetric
    <3>4. \A i \in 1..mi[k], o \in Outputs :
             <<MetricList[i], o>> \in due[k] => <<MetricList[i], o>> \in sent[k]
      <4> SUFFICES ASSUME NEW i \in 1..mi[k], NEW o \in Outputs,
                          <<MetricList[i], o>> \in due[k]
                   PROVE  <<MetricList[i], o>> \in sent[k]
        OBVIOUS
      <4>1. CASE i = mi[k]
        BY <1>k, <3>1, <3>2, <4>1 DEF PassOf, Current
      <4>2. CASE i # mi[k]
        <5>1. i \in 1..(mi[k] - 1)
          BY <3>3, <4>2
        <5> QED  BY <1>k, <3>1, <5>1 DEF PassOf, InPass
      <4> QED  BY <4>1, <4>2
    <3>5. CASE mi[k] = Len(MetricList)
      <4>1. loop'[k] = "top" /\ passOk'[k] = TRUE
        BY <1>6, <1>t, <2>2, <3>5 DEF MetricDone, AfterMetric
      <4>2. due[k] \subseteq Metrics \X Outputs
        BY <1>t
      <4>3. \A m \in Metrics : \E i \in 1..mi[k] : MetricList[i] = m
        BY <3>5, ExporterAssumption, LenProperties DEF Metrics
      <4>4. due[k] \subseteq sent[k]
        BY <3>4, <4>2, <4>3
      <4> QED  BY <3>1, <4>1, <4>4 DEF PassOf, InPass
    <3>6. CASE mi[k] # Len(MetricList)
      <4>1. loop'[k] = "range" /\ mi'[k] = mi[k] + 1 /\ passOk'[k] = passOk[k]
        BY <1>6, <1>t, <2>2, <3>6 DEF MetricDone, AfterMetric
      <4>2. 1..(mi'[k] - 1) = 1..mi[k]
        BY <3>3, <4>1
      <4> QED  BY <1>k, <3>1, <3>4, <4>1, <4>2 DEF PassOf, InPass
    <3> QED  BY <3>5, <3>6
  <2> QED  BY <2>1, <2>2
<1>7. ASSUME NEW l \in Loops, Skip(l) PROVE PassOf(k)'
  <2>1. CASE k # l
    BY <1>7, <1>f, <1>t, <2>1 DEF Skip
  <2>2. CASE k = l
    <3>1. /\ loop[k] = "export" /\ series[Current(k)] = "empty"
          /\ UNCHANGED <<series, ows, loop, mi, due, sent, passOk>>
      BY <1>7, <2>2 DEF Skip, Serving
    <3>2. \A o \in Outputs : <<Current(k), o>> \notin due[k]
      BY <1>k, <3>1 DEF PassOf, InPass
    <3> QED  BY <1>k, <3>1, <3>2 DEF PassOf, InPass, Current
  <2> QED  BY <2>1, <2>2
<1>8. ASSUME NEW l \in Loops, Export(l) PROVE PassOf(k)'
  <2>1. CASE k # l
    BY <1>8, <1>f, <1>t, <2>1 DEF Export
  <2>2. CASE k = l
    <3>1. /\ loop[k] = "export" /\ left[k] # <<>>
          /\ left'[k] = Tail(left[k])
          /\ sent'[k] = sent[k] \cup {<<Current(k), Head(left[k])>>}
          /\ UNCHANGED <<series, ows, loop, mi, due, passOk>>
      BY <1>8, <1>t, <2>2 DEF Export, Serving
    <3>2. Elems(left[k]) = {Head(left[k])} \cup Elems(left'[k])
      <4>1. left[k] \in Seq(Outputs)
        BY <1>t
      <4> QED  BY <3>1, <4>1, TailElems
    <3> QED  BY <1>k, <3>1, <3>2 DEF PassOf, InPass, Current
  <2> QED  BY <2>1, <2>2
<1>9. ASSUME NEW l \in Loops, MetricNotFound(l) \/ ExportFails(l) PROVE PassOf(k)'
  BY <1>9, <1>f, <1>t DEF MetricNotFound, ExportFails, PassFails, InPass
<1>10. \/ UNCHANGED <<loops, passes>>
       \/ \E l \in Loops :
             \/ Start(l) \/ TickerFires(l) \/ EnterSelect(l) \/ ReceiveClose(l)
             \/ ReceiveTick(l) \/ RangeOutputs(l) \/ MetricDone(l) \/ Skip(l)
             \/ Export(l) \/ MetricNotFound(l) \/ ExportFails(l)
  BY Zenon DEF ExporterStep, vars, Panics, AddOutput, AddOutputReturns, Stop, StopAgain,
     StopReturns, Publish, RangeTorn
<1> QED  BY <1>1, <1>2, <1>3, <1>4, <1>5, <1>6, <1>7, <1>8, <1>9, <1>10, Zenon

-----------------------------------------------------------------------------
(* The theorems *)

IInv == TypeOK /\ AtMetric /\ PassInv

\* At first no goroutine runs.
LEMMA InitInv == Init => IInv
<1> SUFFICES ASSUME Init PROVE IInv
  OBVIOUS
<1> USE DEF Init
<1>1. TypeOK
  <2>1. <<>> \in Seq(Outputs)
    BY EmptySeq
  <2>2. mi \in [Loops -> 0..Len(MetricList)]
    BY FirstMetric
  <2> QED  BY <2>1, <2>2 DEF TypeOK
<1>2. AtMetric
  BY DEF AtMetric
<1>3. PassInv
  BY DEF PassInv, PassOf, InPass
<1> QED  BY <1>1, <1>2, <1>3 DEF IInv

\* The invariant is inductive, also for outputs that panic.
LEMMA StepInv == IInv /\ ExporterStep => IInv'
BY TypeStep, AtMetricStep, PassStep DEF IInv

\* The exporter keeps its types.
THEOREM ExporterTypeCorrect == Spec => []TypeOK
<1>1. IInv /\ [Next]_vars => IInv'
  BY StepInv, StepKinds
<1>2. IInv => TypeOK
  BY DEF IInv
<1> QED  BY <1>1, <1>2, InitInv, PTL DEF Spec

\* With any number of goroutines, a pass without an error has given every
\* metric that had data when it began to every output registered then
\* (exporter.go, exportAll and Export).
THEOREM PassServes == Spec => []PassServesAll
<1>1. IInv /\ [Next]_vars => IInv'
  BY StepInv, StepKinds
<1>2. IInv => PassServesAll
  BY DEF IInv, PassInv, PassOf, PassServesAll
<1> QED  BY <1>1, <1>2, InitInv, PTL DEF Spec

=============================================================================
