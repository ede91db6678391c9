\* Two commands, of which one at a time refreshes the entry.
CONSTANTS
    c1 = c1
    c2 = c2
    Nobody = Nobody
    Commands <- TwoCommands
    MaxTime = 2
    DefaultTtl = 1
    MaxRefreshing = 1
SPECIFICATION Spec
SYMMETRY Symmetry
INVARIANTS
    TypeOK
    KeyIsWhole
    EntriesReadable
    HitIsFresh
PROPERTY
    ImplementsStore
