\* The window's last offset holds no record.
CONSTANTS
    p1 = p1
    p2 = p2
    Partitions <- TwoPartitions
    MaxOffset = 2
    Capacity = 1
    Modes <- QueryOnly
    Limits = {}
    Gaps = TRUE
SPECIFICATION FairSpec
PROPERTIES
    ReturnsAtEnd
