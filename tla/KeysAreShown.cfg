\* The marketplace page reads the key of a new hire from a field the API does not answer.
SPECIFICATION Spec
CONSTANTS
    Null = Null
    Agents = {own, bot}
    Personal = {own}
    Projects = {p1}
    Keys = {k1}
    MaxOps = 1
    MaxFaults = 0
INVARIANT KeysAreShown
CHECK_DEADLOCK FALSE
