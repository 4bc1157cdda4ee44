\* No fault: a notification for a bell that has joined.
SPECIFICATION FairSpec
CONSTANTS
    Id = id
    Uid = uid
    r1 = r1
    r2 = r2
    Slots = {r1, r2}
    Page = 2
    Lines = 1
    MaxNotes = 2
    MaxOps = 0
    MaxFaults = 0
PROPERTY NotifiedInApp
