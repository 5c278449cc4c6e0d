----------------------------- MODULE ExportSvg ------------------------------
(***************************************************************************)
(* The exporter with the SVG output of its usage example (exporter.go:33): *)
(* SVGOutput.Export rewrites one file per metric in place, and panics      *)
(* where another output would return an error.                             *)
(*                                                                         *)
(* Files outlive the process: at first all are missing, or cut short by    *)
(* the process before.  No two names of MetricList give one file, and, as  *)
(* in the example, Start is called once: two goroutines would rewrite one  *)
(* file at a time.                                                         *)
(***************************************************************************)
EXTENDS Exporter, Svg

CONSTANT SvgOut   \* the SVGOutput among the Outputs

VARIABLES
    torn,     \* metrics whose file is not a whole drawing
    opened,   \* goroutines that have truncated a file and not closed it
    drawn,    \* the snapshot whose drawing a goroutine has written, or Nil
    ioError   \* history: a file could not be opened or written

files == <<torn, opened, drawn, ioError>>
svgVars == <<vars, files>>

ASSUME SvgExportAssumption ==
    /\ SvgAssumption
    /\ SvgOut \in Outputs
    /\ \A k, l \in Loops : k = l

SvgInit ==
    /\ Init
    /\ torn = Metrics
    /\ opened = {}
    /\ drawn = [l \in Loops |-> Nil]
    /\ ioError = FALSE

AtSvg(l) ==
    /\ Serving(l)
    /\ series[Current(l)] = "data"
    /\ Head(left[l]) = SvgOut

\* os.OpenFile with O_TRUNC ...
Open(l) ==
    /\ AtSvg(l)
    /\ l \notin opened
    /\ opened' = opened \cup {l}
    /\ torn' = torn \cup {Current(l)}
    /\ UNCHANGED <<vars, drawn, ioError>>

\* ... may fail, for a name with a "/" in it always.
OpenFails(l) ==
    /\ AtSvg(l)
    /\ l \notin opened
    /\ panicked' = TRUE
    /\ ioError' = TRUE
    /\ UNCHANGED <<ows, closeCh, closed, latestErr, adding, stopping, loops,
                   series, fails, passes, torn, opened, drawn>>

\* The canvas of the values that LastN found is written, or refused.
Draw(l) ==
    /\ AtSvg(l)
    /\ l \in opened
    /\ drawn[l] = Nil
    /\ \E s \in Snapshots :
        /\ drawn' = [drawn EXCEPT ![l] = s]
        /\ panicked' = ExportFailsOn(CanvasWithSnapshot(s))
    /\ UNCHANGED <<ows, closeCh, closed, latestErr, adding, stopping, loops,
                   series, fails, passes, torn, opened, ioError>>

\* The canvas is not refused, but writing it fails, as on a full disk.
DrawFails(l) ==
    /\ AtSvg(l)
    /\ l \in opened
    /\ drawn[l] = Nil
    /\ \E s \in Snapshots : ~ExportFailsOn(CanvasWithSnapshot(s))
    /\ panicked' = TRUE
    /\ ioError' = TRUE
    /\ UNCHANGED <<ows, closeCh, closed, latestErr, adding, stopping, loops,
                   series, fails, passes, torn, opened, drawn>>

\* Faulty variant: the write is not waited for.
CloseEarly(l) ==
    /\ AtSvg(l)
    /\ l \in opened
    /\ Export(l)
    /\ opened' = opened \ {l}
    /\ drawn' = [drawn EXCEPT ![l] = Nil]
    /\ torn' = IF drawn[l] = Nil THEN torn ELSE torn \ {Current(l)}
    /\ UNCHANGED ioError

\* out.Close(), whose error is not looked at, and the exporter goes to its next output.
Close(l) ==
    /\ AtSvg(l)
    /\ drawn[l] # Nil
    /\ Export(l)
    /\ torn' = torn \ {Current(l)}
    /\ opened' = opened \ {l}
    /\ drawn' = [drawn EXCEPT ![l] = Nil]
    /\ UNCHANGED ioError

\* Any other output: one step, which may return an error.
ExportOther(l) ==
    /\ left[l] # <<>> /\ Head(left[l]) # SvgOut
    /\ Export(l) \/ ExportFails(l)
    /\ UNCHANGED files

RunSvg(l) ==
    \/ /\ \/ EnterSelect(l) \/ ReceiveClose(l) \/ ReceiveTick(l)
          \/ RangeOutputs(l) \/ RangeTorn(l) \/ MetricDone(l)
          \/ Skip(l) \/ MetricNotFound(l)
       /\ UNCHANGED files
    \/ Open(l) \/ OpenFails(l) \/ Draw(l) \/ DrawFails(l) \/ Close(l)
    \/ ExportOther(l)

SvgNext ==
    \/ (Owner \/ (\E m \in Metrics : Publish(m)) \/ (\E l \in Loops : TickerFires(l)))
       /\ UNCHANGED files
    \/ \E l \in Loops : RunSvg(l)

SvgFairness ==
    /\ WF_svgVars(AddOutputReturns /\ UNCHANGED files)
    /\ WF_svgVars(StopReturns /\ UNCHANGED files)
    /\ \A l \in Loops :
        /\ WF_svgVars(TickerFires(l) /\ UNCHANGED files)
        /\ WF_svgVars(RunSvg(l))
        /\ SF_svgVars(ReceiveClose(l) /\ UNCHANGED files)
        /\ SF_svgVars(ReceiveTick(l) /\ UNCHANGED files)

SvgSpec == SvgInit /\ [][SvgNext]_svgVars /\ SvgFairness

-----------------------------------------------------------------------------
(* Properties *)

SvgTypeOK ==
    /\ TypeOK
    /\ torn \in SUBSET Metrics
    /\ opened \in SUBSET Loops
    /\ drawn \in [Loops -> Snapshots \cup {Nil}]
    /\ ioError \in BOOLEAN

\* A pass that ends without an error leaves a whole drawing in the file of
\* every metric it owed to the SVG output, whatever a process that died in the
\* middle of a rewrite had left there.
PassFilesWhole ==
    \A l \in Loops :
        passOk[l] => \A m \in torn : <<m, SvgOut>> \notin due[l]

\* The exporter panics only when the file system refuses to open or to write a
\* file, when AddOutput runs beside a pass, or when two calls of Stop overlap.
\* An owner that adds its outputs before Start and stops from one place, as
\* often as it likes, never sees it panic while its files can be written: no
\* series that loadCollector lets through fails to be drawn.
PanicExplained ==
    panicked =>
        \/ ioError
        \/ adding # None /\ \E l \in Loops : loop[l] = "range"
        \/ stopping

\* Every point of the line and of the band lies on the grid: the values that
\* set its limits include all that is drawn, also for percentages above 100
\* and peaks far from the mean.
DrawnInGrid ==
    \A l \in Loops : drawn[l] # Nil =>
        LET d == Drawing(CanvasWithSnapshot(drawn[l]))
        IN  \A p \in Range(d.line) \cup Range(d.band) : Inside(d, p.v)

\* The band runs back and forth: every sample is on both of its edges, each
\* with the bound measured at its own time, and it ends at the time at which it
\* began, so that closing the path adds no slanted edge.
BandAtItsTimes ==
    \A l \in Loops : drawn[l] # Nil =>
        LET c == CanvasWithSnapshot(drawn[l])
            band == svgRange(c)
        IN  /\ \A i \in DOMAIN band :
                  band[i].v \in {c.minValues[band[i].t], c.maxValues[band[i].t]}
            /\ \A t \in Range(c.times) : Cardinality({i \in DOMAIN band : band[i].t = t}) = 2
            /\ Head(band).t = Last(band).t

=============================================================================
