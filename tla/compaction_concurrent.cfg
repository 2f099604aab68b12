SPECIFICATION Spec
CONSTANTS
    s1 = s1
    c1 = c1
    c2 = c2
    Series <- MCSeries
    UserSeries <- MCUserSeries
    seriesKeyString <- MCSeriesKeys
    Compactors <- TwoCompactors
    SampleTimes <- EarlyTimes
    ValuesAt <- ConstantValues
    RunTimes <- EveryInstant
    FiveMinutes = 2
    OneHour = 4
    Compact5mDelay = 2
    Compact5mLookback = 4
    Compact1hDelay = 6
    Compact1hLookback = 8
    RawDataRetention = 2
    FiveMinRetention = 8
    MaxLateness = 2
    MaxGap = 2
    MaxRun = 1
    MaxClock = 11
    MaxFailures = 1
SYMMETRY CompactorSymmetry
INVARIANTS TypeOK NoSampleLost NoAggregateLost
