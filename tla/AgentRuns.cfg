\* Jobs shorter than the claim idle time; crashes, signals, exceptions.
SPECIFICATION Spec
CONSTANTS
    Null = Null
    Tasks = {t1}
    Requests = {q1}
    Runners = {n1, n2}
    MaxRuns = 2
    MaxEntries = 2
    MaxIter = 1
    ClaimCount = 2
    MaxFaults = 1
    HandStatus = {"DONE"}
    MaxEdits = 0
    LongJobs = FALSE
    Unrunnable = {}
SYMMETRY Symmetry
INVARIANTS
    TypeOK
PROPERTY QueueSpec
CHECK_DEADLOCK FALSE
