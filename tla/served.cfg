SPECIFICATION FairSpec
CONSTANTS
    MaxU16 = 3
    c1 = c1
    c2 = c2
    Claims = {c1, c2}
    Nobody = Nobody
    OwnPool <- NoOwnPools
    ByHand = {"none"}
    MaxVersion = 1
    MaxFaults = 1
    MaxCrashes = 1
    MaxEdits = 0
CHECK_DEADLOCK FALSE
PROPERTIES ClaimsServed VolumesReclaimed
