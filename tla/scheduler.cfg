\* Two runners and a health request; enough failures for a run to use up its
\* retries and for the monitor to pass its threshold.
SPECIFICATION FairSpec
CONSTANTS
    h1 = h1
    h2 = h2
    Requests <- OneRequest
    MaxRetries = 1
    UnhealthyErrors = 1
    NoOne = NoOne
    MaxFailures = 2
INVARIANTS TypeOK StatusConsistent
PROPERTY StopsScheduler
\* The process exits, and the monitor's lock can deadlock.
CHECK_DEADLOCK FALSE
