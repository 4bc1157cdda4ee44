\* Two requests and a run; a plan of three tasks.
SPECIFICATION FairSpec
CONSTANTS
    ta = ta
    tb = tb
    tc = tc
    th = th
    Null = Null
    Tasks = {ta, tb, tc, th}
    InitTasks <- Plan
    InitDeps <- PlanDeps
    InitAssignee <- PlanAgent
    Requests = {q1, q2}
    Writes = {"DONE", "TODO", "none"}
    MaxRuns = 1
    MaxEdits = 2
    MaxFaults = 1
PROPERTY ReleasableIsReleased
INVARIANTS
    TypeOK
    ReleaseNotLost
CHECK_DEADLOCK FALSE
