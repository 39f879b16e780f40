SPECIFICATION HSpec
CONSTANTS
    MaxU16 = 3
    MaxI64 = 3
    GiB = 2
    Names <- MCNames
    DecimalName <- MCDecimalName
    DiskPath <- MCDiskPath
    Paths <- MCPaths
    Portals = {a}
    Handlers = {h1}
    Nobody = Nobody
    PoolArgs = {1, 2}
    VolArgs = {1, 2, 4}
    NameArgs = {}
    SizeArgs = {2}
    MaxRequests = 4
    MaxFaults = 1
    MaxCrashes = 1
    MaxWrites = 0
CHECK_DEADLOCK FALSE
INVARIANTS NextVolumeIdIsFresh IdsBounded OwnImageServed
PROPERTIES OnlyOwnerUnexports
