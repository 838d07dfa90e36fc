SPECIFICATION Spec
CONSTANTS
    NumTurns = 2
    Sessions = {s1}
    Draft = Draft
    None = None
    MaxFaults = 1
    MaxOpens = 0
INVARIANTS
    SpinnerStops
CHECK_DEADLOCK FALSE
