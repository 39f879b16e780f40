SPECIFICATION HSpec
CONSTANTS
    MaxU16 = 2
    MaxI64 = 3
    GiB = 2
    Names <- MCNames
    DecimalName <- MCDecimalName
    DiskPath <- MCDiskPath
    Paths <- MCPaths
    Portals = {a}
    Handlers = {h1}
    Nobody = Nobody
    PoolArgs = {1}
    VolArgs = {1}
    NameArgs = {4}
    SizeArgs = {1}
    MaxRequests = 4
    MaxFaults = 1
    MaxCrashes = 1
    MaxWrites = 1
CHECK_DEADLOCK FALSE
INVARIANTS OwnImageServed SettledDataKept
