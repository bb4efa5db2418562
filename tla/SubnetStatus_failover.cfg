SPECIFICATION FairSpec
CONSTANTS
    AddressSpace = 4
    Ranges <- MCRanges
    Clients = {0, 3}
    Nodes = {n1, n2}
    None = None
    Word = 16
    Steps = 2
    MaxChanges = 0
    MaxFaults = 0
    MaxRestarts = 1
PROPERTY HostNodeFollows
CHECK_DEADLOCK FALSE
