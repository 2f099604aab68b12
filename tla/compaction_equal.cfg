SPECIFICATION Spec
CONSTANTS
    s1 = s1
    c1 = c1
    c2 = c2
    Series <- MCSeries
    UserSeries <- MCUserSeries
    seriesKeyString <- MCSeriesKeys
    Compactors <- OneCompactor
    SampleTimes <- OddTimes
    ValuesAt <- ConstantValues
    RunTimes <- HourlySchedule
    FiveMinutes = 4
    OneHour = 8
    Compact5mDelay = 6
    Compact5mLookback = 14
    Compact1hDelay = 20
    Compact1hLookback = 36
    RawDataRetention = 6
    FiveMinRetention = 36
    MaxLateness = 6
    MaxGap = 8
    MaxRun = 2
    MaxClock = 48
    MaxFailures = 0
INVARIANT NoUndercount
