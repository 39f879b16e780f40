SPECIFICATION Spec
CONSTANTS
    MaxU16 = 3
    Names = {1, 2, 3}
    Paths = {2, 3}
    Portals = {a}
    Procs = {x, y}
    Own = 3
    OwnId = 2
    OwnPath = 3
    OwnPortal = a
    OwnSize = 2
    Before <- MCBefore
    MaxRuns = 3
    MaxFaults = 1
CHECK_DEADLOCK FALSE
INVARIANTS TypeOK DownLeavesNothing UpExports UpFailsOnlyIfUp
PROPERTIES CommandsEnd
