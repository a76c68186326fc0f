SPECIFICATION Spec
CONSTANTS
    Calls = {c1, c2}
    Spaces <- MCSpaces
    Given <- MCGiven
    Shares = {1, 5, 8, 9}
    Buckets = 8
    Short = {1, 5}
    RandomUnit = 10
    Count = 2
SYMMETRY Symmetric
INVARIANTS VariantsFit GridComplete FairSplit TrafficNests
CHECK_DEADLOCK FALSE
