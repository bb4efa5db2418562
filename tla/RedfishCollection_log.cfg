SPECIFICATION FairSpec
CONSTANTS
    MaxSecret = 0
    Created <- SameSecond
    MaxObjects = 1
    MaxMishaps = 1
PROPERTIES  LogReported
CHECK_DEADLOCK FALSE
