\* An agent of each kind, a project and a new one, two requests (and two
\* keys of the wizard), one of them cut off.
SPECIFICATION Spec
CONSTANTS
    Null = Null
    Agents = {own, bot}
    Personal = {own}
    Projects = {p1, p2}
    Keys = {k1, k2}
    MaxOps = 2
    MaxFaults = 1
SYMMETRY Symmetry
INVARIANTS
    TypeOK
    HireHasAgent
    PersonalIsAgreed
    AccessIsLegal
    WizardLeavesNothing
CHECK_DEADLOCK FALSE
