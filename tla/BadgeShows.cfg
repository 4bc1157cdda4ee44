\* A list is shown between a click and its answer.
SPECIFICATION Spec
CONSTANTS
    Id = id
    Uid = uid
    r1 = r1
    r2 = r2
    Slots = {r1, r2}
    Page = 2
    Lines = 1
    MaxNotes = 2
    MaxOps = 2
    MaxFaults = 0
INVARIANT BadgeShows
