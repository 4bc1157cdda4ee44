\* No fault at all, one runner: stop, then wake.
SPECIFICATION Spec
CONSTANTS
    Null = Null
    Tasks = {t1}
    Requests = {q1}
    Runners = {n1}
    MaxRuns = 1
    MaxEntries = 2
    MaxIter = 2
    ClaimCount = 2
    MaxFaults = 0
    HandStatus = {"DONE"}
    MaxEdits = 0
    LongJobs = FALSE
    Unrunnable = {}
PROPERTY WakeResumes
CHECK_DEADLOCK FALSE
