\* Two commands refresh the same entry at once.
CONSTANTS
    c1 = c1
    c2 = c2
    Nobody = Nobody
    Commands <- TwoCommands
    MaxTime = 0
    DefaultTtl = 1
    MaxRefreshing = 2
SPECIFICATION Spec
INVARIANTS
    KeyIsWhole
