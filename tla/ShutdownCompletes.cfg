\* One signal to one runner.
SPECIFICATION Spec
CONSTANTS
    Null = Null
    Tasks = {t1}
    Requests = {q1}
    Runners = {n1}
    MaxRuns = 1
    MaxEntries = 2
    MaxIter = 2
    ClaimCount = 2
    MaxFaults = 1
    HandStatus = {"DONE"}
    MaxEdits = 0
    LongJobs = FALSE
    Unrunnable = {}
INVARIANT CutShortIsNotCompleted
CHECK_DEADLOCK FALSE
