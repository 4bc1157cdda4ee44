\* The planning agent's publish counts and creates without a unique index or a transaction.
SPECIFICATION Spec
CONSTANTS
    Null = Null
    Ids = {v1, v2, v3, v4}
    Tabs = {b1, b2}
    MaxOps = 3
    MaxFetches = 1
    MaxFaults = 0
SYMMETRY Symmetry
INVARIANTS
    PlanningAtMostThree
CHECK_DEADLOCK FALSE
