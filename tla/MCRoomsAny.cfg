\* A backend that may report any session id, so that a rekey can find both
\* lanes busy. Three turns: one in flight on each of two lanes, one waiting.
CONSTANTS
    d1 = d1
    d2 = d2
    s0 = s0
    s1 = s1
    s2 = s2
    Turns = {1, 2, 3}
    Keys <- SmallKeys
    Drafts <- MCDrafts
    Sessions <- SmallSessions
    OnDisk <- SmallSessions
    NoTurn = NoTurn
    NoKey = NoKey
    NoSession = NoSession
    Reports = "any"
SPECIFICATION FairSpec
INVARIANTS
    AliasesReachLanes
    ArrivalOrder
    NoWedgedLane
PROPERTIES
    OnlyHungLanesWait
CHECK_DEADLOCK FALSE
