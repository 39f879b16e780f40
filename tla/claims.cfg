SPECIFICATION Spec
CONSTANTS
    MaxU16 = 3
    c1 = c1
    c2 = c2
    Claims = {c1, c2}
    Nobody = Nobody
    OwnPool <- HandPool
    ByHand = {"none", "class", "other"}
    MaxVersion = 2
    MaxFaults = 1
    MaxCrashes = 1
    MaxEdits = 1
CHECK_DEADLOCK FALSE
INVARIANTS TypeOK BoundBacked OrphansBounded
PROPERTIES ClassPoolKept TalksToCatalog
