SPECIFICATION Spec
CONSTANTS
    m1 = m1
    m2 = m2
    a = a
    b = b
    c = c
    d = d
    e = e
    f = f
    g = g
    r1 = r1
    r2 = r2
    Requests <- MCRequests
    Series <- MCSeries
    MetricNames <- MCMetricNames
    NameOf <- MCNameOf
    NameInKey <- MCNameInKey
    Batches <- MCBatches
    MaxMetricsPerRequest = 2
    MaxUniqueSeries = 2
    MaxSeriesPerMetric = 1
    SeriesRetentionPeriod = 1
    CleanupInterval = 1
    RebuildThreshold = 1
    MaxClock = 4
    MaxRestarts = 0
SYMMETRY Symmetry
INVARIANT NamesCounted
