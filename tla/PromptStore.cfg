CONSTANTS
    Prompts = {p1, p2}
    Requests = {r1, r2, r3, r4}
SYMMETRY Symmetric
SPECIFICATION Spec
CHECK_DEADLOCK FALSE
INVARIANTS
    TypeOK
    Contiguous
    OwnVersion
PROPERTY LedgerSpec
