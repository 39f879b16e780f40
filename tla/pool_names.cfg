SPECIFICATION Spec
CONSTANTS
    MaxU16 = 3
    MaxI64 = 3
    GiB = 2
    Names <- MCNames
    DecimalName <- MCDecimalName
    DiskPath <- MCDiskPath
    Paths <- MCPaths
    Portals = {a}
    Handlers = {h1}
    Nobody = Nobody
    PoolArgs = {1}
    VolArgs = {}
    NameArgs = {4}
    SizeArgs = {}
    MaxRequests = 3
    MaxFaults = 0
    MaxCrashes = 0
    MaxWrites = 0
INVARIANTS PoolNamesUnique
