SPECIFICATION HSpec
CONSTANTS
    MaxU16 = 3
    MaxI64 = 3
    GiB = 2
    Names <- MCNames
    DecimalName <- MCDecimalName
    DiskPath <- MCDiskPath
    Paths <- MCPaths
    Portals = {a}
    Handlers = {h1, h2}
    Nobody = Nobody
    PoolArgs = {1}
    VolArgs = {1}
    NameArgs = {4}
    SizeArgs = {2}
    MaxRequests = 6
    MaxFaults = 0
    MaxCrashes = 0
    MaxWrites = 0
SYMMETRY Symmetry
INVARIANTS ReconcileEstablishes WedgedByNamesOnly OwnImageServed
PROPERTIES OnlyOwnerUnexports DeletedMeansGone
