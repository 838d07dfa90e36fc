SPECIFICATION Spec
CONSTANTS
    NumTurns = 2
    Sessions = {s1}
    Draft = Draft
    None = None
    MaxFaults = 1
    MaxOpens = 1
INVARIANTS
    QuestionShownOnce
    WholeTurnsShownOnce
    BusyWithOpenTurns
PROPERTIES
    OverIsClosedOut
CHECK_DEADLOCK FALSE
