CONSTANTS
    Prompts = {p1}
    Requests = {r1, r2, r3, r4}
SPECIFICATION Spec
CHECK_DEADLOCK FALSE
PROPERTY PromotedIsServed
