\* Three notifications, of which an answer has two and the bell one; two requests in flight.
SPECIFICATION Spec
CONSTANTS
    Id = id
    Uid = uid
    r1 = r1
    r2 = r2
    Slots = {r1, r2}
    Page = 2
    Lines = 1
    MaxNotes = 3
    MaxOps = 3
    MaxFaults = 2
SYMMETRY Symmetry
INVARIANTS
    TypeOK
    BellSettles
    CountMatches
