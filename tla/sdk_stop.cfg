\* What Stop does with the metrics left in the batch.
SPECIFICATION SdkSpec
CONSTANTS
    a1 = a1
    a2 = a2
    h1 = h1
    o1 = o1
    o2 = o2
    o3 = o3
    Observations = {o1, o2, o3}
    labels = labels
    none = none
    Metrics <- MCMetrics
    MaxBatchSize = 2
    MaxMetricsPerRequest = 2
    Adds = {a1, a2}
    MaxReports = 1
    ReportMetric <- MCReportMetric
    Observed <- MCObserved
    Before <- MCBefore
    LabelSets = {labels, none}
    NoLabels = none
    Labels <- MCLabels
    Bounds = {2}
    Infinity = 9
PROPERTY StopFlushesRemaining
\* The application may stop.
CHECK_DEADLOCK FALSE
