\* Every hello up to 16 bytes of body, cut into segments in every way.
SPECIFICATION HelloSpec
CONSTANTS
    MaxBody = 16
    MaxTrail = 1
    MaxRandom = 6
CHECK_DEADLOCK FALSE
INVARIANT NameNeverWhole
INVARIANT RecordsWellFormed
INVARIANT RecordsAsPromised
