SPECIFICATION MCSpec
CONSTANTS
    Names = {n1}
    Calls = {c1, c2}
    None = None
    MaxEvents = 3
    Services = {s1}
    Containers = {k1, k2}
    Rounds = {r1, r2}
    Surfaces = {d1}
    Hosts = {h1, h2}
    Refreshes = {f1, f2}
INVARIANTS
    SourceIsUsable
    EntriesSurviveProbes
    EdgesResolve
PROPERTIES
    StatusConverges
    ReaderIsCurrent
CHECK_DEADLOCK FALSE
