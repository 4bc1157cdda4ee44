\* No fault; a task of a person is triggered or deleted.
SPECIFICATION Spec
CONSTANTS
    ta = ta
    tb = tb
    tc = tc
    th = th
    Null = Null
    Tasks = {ta, tb, tc, th}
    InitTasks <- Plan
    InitDeps <- PlanDeps
    InitAssignee <- PlanAgent
    Requests = {q1, q2}
    Writes = {"DONE", "TODO", "none"}
    MaxRuns = 2
    MaxEdits = 2
    MaxFaults = 0
INVARIANT OnlyAgentsRun
CHECK_DEADLOCK FALSE
