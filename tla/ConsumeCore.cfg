\* A topic without gaps that producers append to, and all three commands.
CONSTANTS
    p1 = p1
    p2 = p2
    Partitions <- TwoPartitions
    MaxOffset = 2
    Capacity = 1
    Modes <- AllModes
    Limits = {0, 1, 2}
    Gaps = FALSE
SPECIFICATION FairSpec
INVARIANTS
    TypeOK
    LimitRespected
    NobodyHangsUp
    NeverStarves
PROPERTIES
    Terminates
