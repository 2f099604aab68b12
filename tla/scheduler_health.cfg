\* One health request against one recorded result.
SPECIFICATION FairSpec
CONSTANTS
    h1 = h1
    h2 = h2
    Requests <- OneRequest
    MaxRetries = 1
    UnhealthyErrors = 1
    NoOne = NoOne
    MaxFailures = 1
PROPERTY HealthAnswered
\* The process exits, and the monitor's lock can deadlock.
CHECK_DEADLOCK FALSE
