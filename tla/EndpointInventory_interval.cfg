SPECIFICATION FairSpec
CONSTANTS
    Names = {"s"}
    TypeOf <- Types
    Addresses = {"a", "b"}
    Requests <- Users
    Secrets = {"default", "own"}
    Leased = {"b"}
    MaxCreates = 1
    MaxMishaps = 1
PROPERTIES UpdatedAtInterval
CHECK_DEADLOCK FALSE
