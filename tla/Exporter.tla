------------------------------ MODULE Exporter ------------------------------
(***************************************************************************)
(* The periodic exporter (export/exporter.go).  Each Start begins a        *)
(* goroutine that, at every tick, hands the time series of every metric to *)
(* every output.  Stop closes the channel the goroutines select on, and    *)
(* then forgets it.                                                        *)
(*                                                                         *)
(* The goroutines read s.closeCh and s.ows without the lock, so the steps  *)
(* that read them are apart from the steps that use what was read.         *)
(***************************************************************************)
EXTENDS Integers, Sequences, FiniteSets

CONSTANTS
    MetricList,  \* the names given to NewExporter, in order
    Outputs,     \* outputs that AddOutput may be given
    Loops,       \* one goroutine for each call of Start
    MaxFail,     \* bound: calls of Output.Export that fail
    None

VARIABLES
    \* the fields of Exporter, and whether the channel it made is closed
    ows, closeCh, closed, latestErr,
    \* the goroutine inside AddOutput, the one inside Stop, and whether a
    \* panic has ended the process
    adding, stopping, panicked,
    \* each goroutine of Start: its program counter, the channel its select
    \* waits on, the pending tick, the metric and the outputs still to serve
    loop, seen, tick, mi, left,
    \* external: what expvar.Get and LastN find for a metric
    series,
    \* history: failures so far; for each goroutine, what its pass has to
    \* serve, what it has served, and whether its last pass ended well
    fails, due, sent, passOk

ASSUME ExporterAssumption ==
    /\ MetricList \in Seq(STRING)
    /\ MetricList # <<>>
    /\ MaxFail \in Nat
    /\ None \notin Outputs

fields == <<ows, closeCh, closed, latestErr, adding, stopping, panicked>>
loops  == <<loop, seen, tick, mi, left>>
passes == <<due, sent, passOk>>
vars   == <<fields, loops, series, fails, passes>>

Metrics == {MetricList[i] : i \in DOMAIN MetricList}
Elems(s) == {s[i] : i \in DOMAIN s}

Init ==
    /\ ows = <<>>
    /\ closeCh = "chan"
    /\ closed = FALSE
    /\ latestErr = "nil"
    /\ adding = None
    /\ stopping = FALSE
    /\ panicked = FALSE
    /\ loop = [l \in Loops |-> "none"]
    /\ seen = [l \in Loops |-> "nil"]
    /\ tick = [l \in Loops |-> FALSE]
    /\ mi = [l \in Loops |-> 0]
    /\ left = [l \in Loops |-> <<>>]
    /\ series \in [Metrics -> {"absent", "empty", "data"}]
    /\ fails = 0
    /\ due = [l \in Loops |-> {}]
    /\ sent = [l \in Loops |-> {}]
    /\ passOk = [l \in Loops |-> FALSE]

\* external: a metric is published, and then gets its first value.
Publish(m) ==
    /\ ~panicked
    /\ \/ series[m] = "absent" /\ series' = [series EXCEPT ![m] = "empty"]
       \/ series[m] = "empty"  /\ series' = [series EXCEPT ![m] = "data"]
    /\ UNCHANGED <<fields, loops, fails, passes>>

-----------------------------------------------------------------------------
(* The owner of the exporter *)

\* AddOutput under the lock, which the readers of s.ows do not take.
AddOutput(o) ==
    /\ ~panicked
    /\ adding = None
    /\ o \notin Elems(ows)
    /\ adding' = o
    /\ UNCHANGED <<ows, closeCh, closed, latestErr, stopping, panicked, loops,
                   series, fails, passes>>

AddOutputReturns ==
    /\ ~panicked
    /\ adding # None
    /\ ows' = Append(ows, adding)
    /\ adding' = None
    /\ UNCHANGED <<closeCh, closed, latestErr, stopping, panicked, loops, series,
                   fails, passes>>

Start(l) ==
    /\ ~panicked
    /\ loop[l] = "none"
    /\ loop' = [loop EXCEPT ![l] = "top"]
    /\ UNCHANGED <<fields, seen, tick, mi, left, series, fails, passes>>

\* Stop closes the channel ...
Stop ==
    /\ ~panicked
    /\ closeCh # "nil"
    /\ ~closed
    /\ closed' = TRUE
    /\ stopping' = TRUE
    /\ UNCHANGED <<ows, closeCh, latestErr, adding, panicked, loops, series,
                   fails, passes>>

\* Faulty variant: the closed channel stays in the field.
StopReturnsUncleared ==
    /\ ~panicked
    /\ stopping
    /\ stopping' = FALSE
    /\ UNCHANGED <<ows, closeCh, closed, latestErr, adding, panicked, loops,
                   series, fails, passes>>

\* ... and clears the field.
StopReturns ==
    /\ ~panicked
    /\ stopping
    /\ closeCh' = "nil"
    /\ stopping' = FALSE
    /\ UNCHANGED <<ows, closed, latestErr, adding, panicked, loops, series,
                   fails, passes>>

\* A second caller passes the nil check while the first is between close and
\* clear.  Its own close panics: on the closed channel, or, when the first
\* has gone on meanwhile, on the nil one.
StopAgain ==
    /\ ~panicked
    /\ closeCh # "nil"
    /\ closed
    /\ panicked' = TRUE
    /\ UNCHANGED <<ows, closeCh, closed, latestErr, adding, stopping, loops,
                   series, fails, passes>>

-----------------------------------------------------------------------------
(* The goroutine of Start *)

TickerFires(l) ==
    /\ ~panicked
    /\ loop[l] \notin {"none", "done"}
    /\ ~tick[l]
    /\ tick' = [tick EXCEPT ![l] = TRUE]
    /\ UNCHANGED <<fields, loop, seen, mi, left, series, fails, passes>>

\* select evaluates s.closeCh each time it is entered.
EnterSelect(l) ==
    /\ ~panicked
    /\ loop[l] = "top"
    /\ loop' = [loop EXCEPT ![l] = "select"]
    /\ seen' = [seen EXCEPT ![l] = closeCh]
    /\ UNCHANGED <<fields, tick, mi, left, series, fails, passes>>

\* A receive from a closed channel is ready; from a nil channel it never is.
ReceiveClose(l) ==
    /\ ~panicked
    /\ loop[l] = "select"
    /\ seen[l] = "chan"
    /\ closed
    /\ loop' = [loop EXCEPT ![l] = "done"]
    /\ tick' = [tick EXCEPT ![l] = FALSE]
    /\ UNCHANGED <<fields, seen, mi, left, series, fails, passes>>

\* A pass starts: it owes every metric that has data to every output.
ReceiveTick(l) ==
    /\ ~panicked
    /\ loop[l] = "select"
    /\ tick[l]
    /\ tick' = [tick EXCEPT ![l] = FALSE]
    /\ loop' = [loop EXCEPT ![l] = "range"]
    /\ mi' = [mi EXCEPT ![l] = 1]
    /\ due' = [due EXCEPT ![l] = {m \in Metrics : series[m] = "data"} \X Elems(ows)]
    /\ sent' = [sent EXCEPT ![l] = {}]
    /\ passOk' = [passOk EXCEPT ![l] = FALSE]
    /\ UNCHANGED <<fields, seen, left, series, fails>>

\* Export(metricName): range reads s.ows once.  While AddOutput is storing it
\* the read finds the old outputs or the new ones ...
RangeOutputs(l) ==
    /\ ~panicked
    /\ loop[l] = "range"
    /\ \E read \in {ows} \cup {Append(ows, o) : o \in {adding} \ {None}} :
            left' = [left EXCEPT ![l] = read]
    /\ loop' = [loop EXCEPT ![l] = "export"]
    /\ UNCHANGED <<fields, seen, tick, mi, series, fails, passes>>

\* ... or the new length with an element not yet stored, whose filter is nil.
RangeTorn(l) ==
    /\ ~panicked
    /\ loop[l] = "range"
    /\ adding # None
    /\ panicked' = TRUE
    /\ UNCHANGED <<ows, closeCh, closed, latestErr, adding, stopping, loops,
                   series, fails, passes>>

\* Faulty variant: the last metric is never reached.
AfterMetricOneShort(l) ==
    IF mi[l] + 1 >= Len(MetricList)
    THEN /\ loop' = [loop EXCEPT ![l] = "top"]
         /\ passOk' = [passOk EXCEPT ![l] = TRUE]
         /\ UNCHANGED mi
    ELSE /\ loop' = [loop EXCEPT ![l] = "range"]
         /\ mi' = [mi EXCEPT ![l] = @ + 1]
         /\ UNCHANGED passOk

\* Faulty variant: the loop runs past the last metric.
AfterMetricOneMore(l) ==
    IF mi[l] > Len(MetricList)
    THEN /\ loop' = [loop EXCEPT ![l] = "top"]
         /\ passOk' = [passOk EXCEPT ![l] = TRUE]
         /\ UNCHANGED mi
    ELSE /\ loop' = [loop EXCEPT ![l] = "range"]
         /\ mi' = [mi EXCEPT ![l] = @ + 1]
         /\ UNCHANGED passOk

\* exportAll: the next metric, or the end of a pass without an error.
AfterMetric(l) ==
    IF mi[l] = Len(MetricList)
    THEN /\ loop' = [loop EXCEPT ![l] = "top"]
         /\ passOk' = [passOk EXCEPT ![l] = TRUE]
         /\ UNCHANGED mi
    ELSE /\ loop' = [loop EXCEPT ![l] = "range"]
         /\ mi' = [mi EXCEPT ![l] = @ + 1]
         /\ UNCHANGED passOk

MetricDone(l) ==
    /\ ~panicked
    /\ loop[l] = "export"
    /\ left[l] = <<>>
    /\ AfterMetric(l)
    /\ UNCHANGED <<fields, seen, tick, left, series, fails, due, sent>>

Serving(l) == ~panicked /\ loop[l] = "export" /\ left[l] # <<>>
Current(l) == MetricList[mi[l]]

\* A metric without values is skipped for this output.
Skip(l) ==
    /\ Serving(l)
    /\ series[Current(l)] = "empty"
    /\ left' = [left EXCEPT ![l] = Tail(@)]
    /\ UNCHANGED <<fields, loop, seen, tick, mi, series, fails, passes>>

Export(l) ==
    /\ Serving(l)
    /\ series[Current(l)] = "data"
    /\ sent' = [sent EXCEPT ![l] = @ \cup {<<Current(l), Head(left[l])>>}]
    /\ left' = [left EXCEPT ![l] = Tail(@)]
    /\ UNCHANGED <<fields, loop, seen, tick, mi, series, fails, due, passOk>>

\* Faulty variant: the goroutine returns on an error.
PassFailsForGood(l, err) ==
    /\ latestErr' = err
    /\ loop' = [loop EXCEPT ![l] = "done"]
    /\ UNCHANGED <<ows, closeCh, closed, adding, stopping, panicked, seen, tick,
                   mi, left, series, passes>>

\* The first error ends the pass, for the metrics that follow too.
PassFails(l, err) ==
    /\ latestErr' = err
    /\ loop' = [loop EXCEPT ![l] = "top"]
    /\ UNCHANGED <<ows, closeCh, closed, adding, stopping, panicked, seen, tick,
                   mi, left, series, passes>>

MetricNotFound(l) ==
    /\ Serving(l)
    /\ series[Current(l)] = "absent"
    /\ UNCHANGED fails
    /\ PassFails(l, "not found")

ExportFails(l) ==
    /\ Serving(l)
    /\ series[Current(l)] = "data"
    /\ fails < MaxFail
    /\ fails' = fails + 1
    /\ PassFails(l, "output error")

-----------------------------------------------------------------------------
Owner ==
    \/ \E o \in Outputs : AddOutput(o)
    \/ AddOutputReturns
    \/ \E l \in Loops : Start(l)
    \/ Stop \/ StopAgain \/ StopReturns

Run(l) ==
    \/ EnterSelect(l) \/ ReceiveClose(l) \/ ReceiveTick(l)
    \/ RangeOutputs(l) \/ RangeTorn(l) \/ MetricDone(l)
    \/ Skip(l) \/ Export(l)
    \/ MetricNotFound(l) \/ ExportFails(l)

Next ==
    \/ Owner
    \/ \E m \in Metrics : Publish(m)
    \/ \E l \in Loops : TickerFires(l) \/ Run(l)

Spec == Init /\ [][Next]_vars

\* The goroutines run, the ticker fires, and select, which chooses at random,
\* does not pass over a closed channel for ever.  Calls of the owner end, but
\* need not come.
Fairness ==
    /\ WF_vars(AddOutputReturns)
    /\ WF_vars(StopReturns)
    /\ \A l \in Loops :
        /\ WF_vars(TickerFires(l))
        /\ WF_vars(Run(l))
        /\ SF_vars(ReceiveClose(l))
        /\ SF_vars(ReceiveTick(l))

FairSpec == Spec /\ Fairness

-----------------------------------------------------------------------------
(* Properties *)

TypeOK ==
    /\ ows \in Seq(Outputs)
    /\ closeCh \in {"chan", "nil"}
    /\ closed \in BOOLEAN
    /\ latestErr \in {"nil", "not found", "output error"}
    /\ adding \in Outputs \cup {None}
    /\ stopping \in BOOLEAN
    /\ panicked \in BOOLEAN
    /\ loop \in [Loops -> {"none", "top", "select", "range", "export", "done"}]
    /\ seen \in [Loops -> {"chan", "nil"}]
    /\ tick \in [Loops -> BOOLEAN]
    /\ mi \in [Loops -> 0..Len(MetricList)]
    /\ left \in [Loops -> Seq(Outputs)]
    /\ series \in [Metrics -> {"absent", "empty", "data"}]
    /\ fails \in Nat
    /\ due \in [Loops -> SUBSET (Metrics \X Outputs)]
    /\ sent \in [Loops -> SUBSET (Metrics \X Outputs)]
    /\ passOk \in [Loops -> BOOLEAN]

\* A pass that ends without an error has given every metric that had data
\* when it began to every output that was registered then, whatever Publish,
\* AddOutput, Stop and the other goroutines did meanwhile.
PassServesAll == \A l \in Loops : passOk[l] => due[l] \subseteq sent[l]

\* Once every metric is published and the failures are over, a goroutine that
\* was started and not stopped serves each metric with data to each output in
\* pass after pass: no earlier error has ended it or left it idle.
Healthy(l, m, o) ==
    /\ ~panicked
    /\ loop[l] # "none"
    /\ ~closed
    /\ series[m] = "data"
    /\ o \in Elems(ows)
    /\ \A k \in Metrics : series[k] # "absent"

KeepsExporting ==
    \A l \in Loops, m \in Metrics, o \in Outputs :
        <>[]Healthy(l, m, o)
            => /\ []<>(<<m, o>> \in sent[l])
               /\ []<>(<<m, o>> \notin sent[l])

\* exporter.go:35, "defer exporter.Stop()": Stop ends what Start began.  It
\* does not when the goroutine enters select after Stop has cleared closeCh:
\* a nil channel is never ready, and the goroutine exports for ever.
StopEndsLoop ==
    (closeCh = "nil" /\ ~panicked)
        ~> (panicked \/ \A l \in Loops : loop[l] \in {"none", "done"})

=============================================================================
