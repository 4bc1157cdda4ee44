\* The bounds of Coordinator.cfg; a log of the coordinator itself counts as a run.
SPECIFICATION Spec
CONSTANTS
    Null = Null
    Tasks = {t1, t2}
    Unkeyed = {t2}
    Requests = {q1}
    Runners = {n1}
    MaxRuns = 2
    MaxEvents = 2
    MaxTurns = 1
    ClaimCount = 1
    MaxFaults = 1
    MaxEdits = 2
INVARIANT OnlyAgentsOccupy
CHECK_DEADLOCK FALSE
