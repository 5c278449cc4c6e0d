----------------------------- MODULE MCExportSvg ----------------------------
(* Instances of ExportSvg for TLC. *)
EXTENDS ExportSvg

TwoMetrics == <<"cpu", "mem">>

Shot(kind, percent, values) ==
    [kind |-> kind, percent |-> percent, values |-> values,
     interval |-> 1000, maxCount |-> 2]

G(v) == [value |-> v]
M(n, sum, max) == [samples |-> n, sum |-> sum, max |-> max]
H(lo, mid, hi) == [values |-> <<lo, mid, hi>>]

\* Negative and equal values, a period without a measurement in the middle
\* and at the end, a meter without samples, a percentage above 100, and peaks
\* above the mean.
SomeSnapshots == {
    Shot("gauge", FALSE, <<G(-3), Nil, G(2)>>),
    Shot("counter", FALSE, <<G(5), G(5)>>),
    Shot("counter", FALSE, <<G(7), Nil>>),
    Shot("meter", TRUE, <<M(2, 60, 55), M(0, 0, 0), M(2, 200, 130)>>),
    Shot("histogram", FALSE, <<H(1, 2, 8), Nil, H(-4, -3, 1)>>)}

=============================================================================
