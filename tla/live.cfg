SPECIFICATION FairSpec
CONSTANTS
    MaxU16 = 3
    MaxI64 = 3
    GiB = 2
    Names <- MCNames
    DecimalName <- MCDecimalName
    DiskPath <- MCDiskPath
    Paths <- MCPaths
    Portals = {a}
    Handlers = {h1, h2}
    Nobody = Nobody
    PoolArgs = {1}
    VolArgs = {1}
    NameArgs = {}
    SizeArgs = {2}
    MaxRequests = 3
    MaxFaults = 1
    MaxCrashes = 0
    MaxWrites = 0
CHECK_DEADLOCK FALSE
PROPERTIES CallsReturn VolumesGetExported LeftoversCollected
