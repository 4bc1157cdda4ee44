\* Jobs of any length, one runner with its two loops, fair.
SPECIFICATION FairSpec
CONSTANTS
    Null = Null
    Tasks = {t1, t2}
    Requests = {q1}
    Runners = {n1}
    MaxRuns = 1
    MaxEntries = 1
    MaxIter = 1
    ClaimCount = 2
    MaxFaults = 2
    HandStatus = {"DONE"}
    MaxEdits = 1
    LongJobs = TRUE
    Unrunnable = {t2}
INVARIANTS
    RunningIsDriven
    InProgressIsOwned
PROPERTIES
    EveryJobIsAcked
    EveryRunSettles
CHECK_DEADLOCK FALSE
