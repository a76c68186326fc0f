SPECIFICATION Spec
CONSTANTS
    Requests = {r1, r2, r3, r4, r5}
    Rpm = 2
    Window = 5
    MaxDelay = 2
    MaxTime = 6
SYMMETRY Symmetric
INVARIANTS TypeOK AdmissionBounded RefusalBacked
CHECK_DEADLOCK FALSE
