\* Four turns: two rooms of two turns each, or one room opened twice.
CONSTANTS
    d1 = d1
    d2 = d2
    s0 = s0
    s1 = s1
    s2 = s2
    Turns = {1, 2, 3, 4}
    Keys <- MCKeys
    Drafts <- MCDrafts
    Sessions <- MCSessions
    OnDisk <- MCOnDisk
    NoTurn = NoTurn
    NoKey = NoKey
    NoSession = NoSession
    Reports = "stable"
SPECIFICATION FairSpec
INVARIANTS
    OneTurnPerSession
    MapsAgree
PROPERTIES
    QueuedTurnContinuesRoom
    ImplementsSerialTurns
CHECK_DEADLOCK FALSE
