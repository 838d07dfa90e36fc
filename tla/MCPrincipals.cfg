SPECIFICATION Spec
CONSTANTS
    None = None
    n1 = n1
    n2 = n2
    c1 = c1
    c2 = c2
    s1 = s1
    s2 = s2
    NumPrincipals = 3
    Natives <- MCNatives
    Convs <- MCConvs
    Spawns <- MCSpawns
    MaxPerSpawn = 2
    MaxConcurrent = 2
    MaxRequest = 2
    LivenessKnown <- MCLiveness
SYMMETRY Symmetry
INVARIANTS
    OneTurnPerPrincipal
    BindingFollowsLabel
    FreshConversationsAreFresh
    TurnsLeaveChildrenAlone
    FleetWithinCap
CHECK_DEADLOCK FALSE
