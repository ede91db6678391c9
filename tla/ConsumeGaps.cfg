\* A topic that retention and compaction thin out while it is read.
CONSTANTS
    p1 = p1
    p2 = p2
    Partitions <- TwoPartitions
    MaxOffset = 2
    Capacity = 1
    Modes <- AllModes
    Limits = {1, 2}
    Gaps = TRUE
SPECIFICATION Spec
SYMMETRY Symmetry
INVARIANTS
    SentInWindow
    SentInOrder
    NothingSkipped
    SuccessIsComplete
    CommittedWasHandedOver
    
    IndInv
PROPERTIES
    ImplementsSource
