\* Fewer messages asked for than there are partitions.
CONSTANTS
    p1 = p1
    p2 = p2
    Partitions <- TwoPartitions
    MaxOffset = 2
    Times = {1, 2}
    Limits = {1}
    HalfRange = 8
SPECIFICATION Spec
INVARIANTS
    OffsetPlanCapped
