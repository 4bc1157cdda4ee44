\* One runner with its two loops, one fault, one of the two projects without a key.
SPECIFICATION FairSpec
CONSTANTS
    Null = Null
    Tasks = {t1, t2}
    Unkeyed = {t2}
    Requests = {q1}
    Runners = {n1}
    MaxRuns = 2
    MaxEvents = 2
    MaxTurns = 1
    ClaimCount = 1
    MaxFaults = 1
    MaxEdits = 2
INVARIANTS
    TypeOK
    FinishedIsConsidered
PROPERTIES
    QueueSpec
    EventsAreConsidered
    DecisionLogsSettle
CHECK_DEADLOCK FALSE
