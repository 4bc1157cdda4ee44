\* A job nobody can load fills the window of the claim loop; a runner crashes.
SPECIFICATION FairSpec
CONSTANTS
    Null = Null
    Tasks = {t1, t2}
    Requests = {q1}
    Runners = {n1}
    MaxRuns = 2
    MaxEntries = 2
    MaxIter = 0
    ClaimCount = 1
    MaxFaults = 1
    HandStatus = {}
    MaxEdits = 0
    LongJobs = FALSE
    Unrunnable = {t2}
PROPERTY CrashedIsReassigned
CHECK_DEADLOCK FALSE
