SPECIFICATION Spec
CONSTANTS
    Names = {e1}
    Variants = {v1, v2}
    Scores = {0, 1}
    Calls = {r1, r2, r3, r4, r5}
    MaxOpen = 2
    None = None
SYMMETRY Symmetric
INVARIANTS TypeOK StartedFirst WinnerBacked StickyAllocation
PROPERTIES NothingUndone FreshCallsFollow
CHECK_DEADLOCK FALSE
