\* Two tasks, two columns, two requests in flight.
SPECIFICATION Spec
CONSTANTS
    t1 = t1
    t2 = t2
    c1 = c1
    c2 = c2
    r1 = r1
    r2 = r2
    Tasks = {t1, t2}
    Columns = {c1, c2}
    Slots = {r1, r2}
    MaxOps = 2
    MaxFaults = 2
SYMMETRY Symmetry
INVARIANTS
    TypeOK
    BoardSettles
CHECK_DEADLOCK FALSE
