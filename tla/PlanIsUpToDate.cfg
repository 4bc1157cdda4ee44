\* A run of the old description is answered after the re-plan of a save.
SPECIFICATION Spec
CONSTANTS
    Null = Null
    h1 = h1
    h2 = h2
    a = a
    b = b
    tab = tab
    Hires = {h1, h2}
    Titles = {a, b}
    Match <- MCMatch
    Plans <- MCPlans
    Tabs = {}
    MaxTexts = 1
    MaxOps = 2
INVARIANT PlanIsUpToDate
CHECK_DEADLOCK FALSE
