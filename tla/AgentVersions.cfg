\* Two tabs, two requests that may overlap, a fetch under way and a restart, after any history.
SPECIFICATION Spec
CONSTANTS
    Null = Null
    Ids = {v1, v2, v3, v4}
    Tabs = {b1, b2}
    MaxOps = 2
    MaxFetches = 1
    MaxFaults = 1
SYMMETRY Symmetry
INVARIANTS
    TypeOK
    AtMostThree
    SerialIsClean
    PanelsShowTheTable
PROPERTIES
    KeepsTheList
CHECK_DEADLOCK FALSE
