SPECIFICATION FairSpec
CONSTANTS
    AddressSpace = 4
    Ranges <- MCRanges
    Clients = {0, 3}
    Nodes = {n1, n2}
    None = None
    Word = 16
    Steps = 2
    MaxChanges = 2
    MaxFaults = 1
    MaxRestarts = 1
INVARIANTS TypeOK AmountsExact
PROPERTIES WriteIsFresh StatusFollows
CHECK_DEADLOCK FALSE
