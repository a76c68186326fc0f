SPECIFICATION Spec
CONSTANTS
    Requests = {r1, r2}
    Services = {s1, s2}
    Unknown = Unknown
    MaxChunks = 2
SYMMETRY Symmetric
INVARIANTS CostPerService
CHECK_DEADLOCK FALSE
