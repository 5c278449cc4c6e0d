SPECIFICATION SvgSpec
CONSTANTS
    MetricList <- TwoMetrics
    Outputs = {svg, other}
    SvgOut = svg
    Loops = {l1}
    MaxFail = 1
    None = None
    Nil = Nil
    GridWidth = 166
    Snapshots <- SomeSnapshots
INVARIANTS SvgTypeOK PassServesAll PassFilesWhole PanicExplained DrawnInGrid BandAtItsTimes
PROPERTY KeepsExporting
CHECK_DEADLOCK FALSE
