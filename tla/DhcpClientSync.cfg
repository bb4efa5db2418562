SPECIFICATION FairSpec
CONSTANTS
    i1 = i1
    IPs = {i1}
    Leases <- MCLeases
    None = None
    Cap = 1
    MaxChanges = 2
    MaxFaults = 2
INVARIANTS TypeOK  ObjectsFollowReports
PROPERTIES EventuallyHandled
CHECK_DEADLOCK FALSE
