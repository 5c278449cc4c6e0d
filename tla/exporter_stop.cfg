SPECIFICATION FairSpec
CONSTANTS
    MetricList <- OneMetric
    Outputs = {svg}
    Loops = {l1}
    MaxFail = 0
    None = None
PROPERTY StopEndsLoop
CHECK_DEADLOCK FALSE
