\* A group is given and producers append while the window is read.
CONSTANTS
    p1 = p1
    p2 = p2
    Partitions <- TwoPartitions
    MaxOffset = 2
    Capacity = 1
    Modes <- QueryOnly
    Limits = {}
    Gaps = FALSE
SPECIFICATION Spec
INVARIANTS
    CommittedWithinWindow
