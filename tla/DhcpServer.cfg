SPECIFICATION FairSpec
CONSTANTS
    MaxServers = 3
    MaxChanges = 2
    MaxFaults = 1
INVARIANTS TypeOK  OneProcess KnownIsApplied
 
CHECK_DEADLOCK FALSE
