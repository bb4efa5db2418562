SPECIFICATION Spec
CONSTANTS
    MaxServers = 2
    MaxChanges = 0
    MaxFaults = 0
INVARIANTS AtMostOneServer
CHECK_DEADLOCK FALSE
