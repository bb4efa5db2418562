SPECIFICATION FairSpec
CONSTANTS
    MaxSecret = 1
    Created <- NoEntry
    MaxObjects = 1
    MaxMishaps = 0
INVARIANTS TypeOK NeverTorn OneCollector
PROPERTY HealthFollows
CHECK_DEADLOCK FALSE
