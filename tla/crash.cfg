SPECIFICATION Spec
CONSTANTS
    MaxU16 = 3
    MaxI64 = 3
    GiB = 2
    Names <- MCNames
    DecimalName <- MCDecimalName
    DiskPath <- MCDiskPath
    Paths <- MCPaths
    Portals = {a, b}
    Handlers = {h1}
    Nobody = Nobody
    PoolArgs = {1, 5}
    VolArgs = {1}
    NameArgs = {}
    SizeArgs = {2}
    MaxRequests = 3
    MaxFaults = 1
    MaxCrashes = 1
    MaxWrites = 1
CHECK_DEADLOCK FALSE
INVARIANTS TypeOK AckedOutcomesHold ReconcileEstablishes
PROPERTIES ImplementsCatalog
