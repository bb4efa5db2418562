SPECIFICATION FairSpec
CONSTANTS
    Names = {n1, n2}
    Subnets = {s1}
    IPs = {ip1}
    MACs = {m1, m2}
    IPRange <- MCIPRange
    ChanCap = 1
    None = None
    MaxChanges = 3
    MaxFaults = 1
INVARIANTS TypeOK NothingLost ServedWasRequested 
PROPERTIES NoSpuriousUnbind 
CHECK_DEADLOCK FALSE
