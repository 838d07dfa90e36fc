\* Two writes of two surfaces, or of none, and two operators.
SPECIFICATION Spec
CONSTANTS
    Writes = {w1, w2}
    Surfaces = {s1, s2}
    Operators = {o1, o2}
    NoSurface = NoSurface
    NoOne = NoOne
    MaxFaults = 1
    MaxCrashes = 1
SYMMETRY Sym
CHECK_DEADLOCK FALSE
INVARIANTS
    RunsAtMostOnce
    TrustRidesOnApproval
    LogMatchesDatabase
    PanelIsCurrent
