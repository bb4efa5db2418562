SPECIFICATION Spec
CONSTANTS
    AddressSpace = 8
    Names = {s1, s2}
    Interfaces = {"eth0"}
    HostAddrs <- MCHostAddrs
    DhcpServerInterface = "eth0"
    Requests <- MCRequests
    None = None
    NoVlan = NoVlan
    MaxCreates = 3
    MaxUpdates = 1
    MaxFaults = 1
SYMMETRY NameSymmetry
INVARIANTS TypeOK SharedOnlyIfUnseen HostNetworkKept ServerHasAddress
PROPERTY KeepsContract
CHECK_DEADLOCK FALSE
