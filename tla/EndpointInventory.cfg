SPECIFICATION FairSpec
CONSTANTS
    Names = {"r", "s"}
    TypeOf <- Types
    Addresses = {"a", "b"}
    Requests <- Users
    Secrets = {"default", "own"}
    Leased = {"b"}
    MaxCreates = 2
    MaxMishaps = 1
INVARIANTS TypeOK SharedOnlyIfUnseen
PROPERTIES AddressFollows PolledFollows
CHECK_DEADLOCK FALSE
