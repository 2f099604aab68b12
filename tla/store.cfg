SPECIFICATION FairSpec
CONSTANTS
    i1 = i1
    i2 = i2
    w = w
    d = d
    q = q
    s1 = s1
    s2 = s2
    s3 = s3
    seriesKeyString <- MCSeriesKeys
    contextOf <- MCContexts
    Calls <- MCCalls
    ImportCalls <- MCImportCalls
    Backup <- MCBackup
    Importable <- MCImportable
    MaxImportBatchSize = 1
    Asks <- MCAsks
    Operations <- MCOperations
    MaxCrashes = 1
    MaxCalls = 3
    KeyRange = 10
    MaxMetrics = 4
    DefaultMaxMetrics = 1
INVARIANTS TypeOK AcknowledgedStays ImportIsComplete
PROPERTIES ImplementsStorage CallsReturn
CHECK_DEADLOCK FALSE
