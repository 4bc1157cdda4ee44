\* The bounds of Coordinator.cfg; an entry is queued when the project is aborted.
SPECIFICATION Spec
CONSTANTS
    Null = Null
    Tasks = {t1, t2}
    Unkeyed = {t2}
    Requests = {q1}
    Runners = {n1}
    MaxRuns = 2
    MaxEvents = 2
    MaxTurns = 1
    ClaimCount = 1
    MaxFaults = 1
    MaxEdits = 2
PROPERTY AbortStopsWork
CHECK_DEADLOCK FALSE
