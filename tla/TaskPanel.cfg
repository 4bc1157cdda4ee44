\* Two requests or changes elsewhere, hence two updates in flight; one text, and one failure.
SPECIFICATION Spec
CONSTANTS
    Updates = {"status", "comment"}
    MaxOps = 2
    MaxTexts = 1
    MaxFaults = 1
INVARIANTS
    TypeOK
    FieldIsTheTask
PROPERTIES
    PanelSettles
    RunIsFollowed
CHECK_DEADLOCK FALSE
