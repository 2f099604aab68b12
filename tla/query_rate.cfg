\* Rates over windows that begin exactly at a sample.
SPECIFICATION Spec
CONSTANTS
    r1 = r1
    r2 = r2
    Nothing = Nothing
    Malformed = Malformed
    LabelNames <- MCLabelNames
    InternalLabels <- MCInternalLabels
    Requests = {r1, r2}
    Workloads <- MCWorkloads
    Stored <- MCStored
    Arriving <- MCArriving
    Now = 8
    QueryDefaultWindow = 6
    QueryDefaultStep = 2
    InstantWindow = 3
    ListWindow = 8
    ListLimit = 14
    MaxWindow = 8
    DefaultMaxPoints = 3
    MaxPointsLimit = 3
    MaxSamples = 9
    ParseQuery <- MCParseQuery
    Evaluate <- MCEvaluate
INVARIANT RatesUseThePointAgo
\* Once every request is answered nothing is left to do.
CHECK_DEADLOCK FALSE
