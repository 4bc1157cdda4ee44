\* Two hires, two texts, another tab of the leader, three requests or failures.
SPECIFICATION Spec
CONSTANTS
    Null = Null
    h1 = h1
    h2 = h2
    a = a
    b = b
    tab = tab
    Hires = {h1, h2}
    Titles = {a, b}
    Match <- MCMatch
    Plans <- MCPlans
    Tabs = {tab}
    MaxTexts = 2
    MaxOps = 3
INVARIANTS
    TypeOK
    CoordinatorIsFlagged
    ChoicesFollowTasks
    PlanIsLinked
    TypedIsKept
CHECK_DEADLOCK FALSE
