\* HalfRange is so small that the limits 14, 16 and 31 overflow. A limit of 3 or 5 loses one
\* record to the division by two partitions.
CONSTANTS
    p1 = p1
    p2 = p2
    Partitions <- TwoPartitions
    MaxOffset = 2
    Times = {1, 2}
    Limits = {0, 1, 2, 3, 5, 14, 16, 31}
    HalfRange = 8
SPECIFICATION Spec
SYMMETRY Symmetry
INVARIANTS
    TypeOK
    PlanFitsConsume
    TimePlanExact
    OpenPlanMissesNothing
    OffsetPlanBounded
    OffsetPlanFilled
