\* Two items, two presets, an agent and a hire; two requests or changes elsewhere, of them two installs
\* in flight, two moves, one failure.
SPECIFICATION Spec
CONSTANTS
    i1 = i1
    i2 = i2
    p1 = p1
    p2 = p2
    s1 = s1
    s2 = s2
    a = a
    h = h
    Items = {i1, i2}
    Agents = {a}
    Hires = {h}
    Presets = {p1, p2}
    Presses = {s1, s2}
    MaxOps = 2
    MaxMoves = 2
    MaxFaults = 1
SYMMETRY Symmetry
INVARIANTS
    TypeOK
    NothingDangles
    ScreenSettles
    InstallingEnds
PROPERTIES
    TogglesTakeHold
CHECK_DEADLOCK FALSE
