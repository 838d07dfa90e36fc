\* Three calls over two services, never two at a time on one service.
\* Four containers: the one deployed and one for each call.
CONSTANTS
    web = web
    jobs = jobs
    Ids <- MCIds
    Initial <- MCInitial
    Calls = {c1, c2, c3}
    Ops = {"spawn", "redeploy", "destroy", "stop", "start"}
    MaxContainer = 4
    OneOperator = TRUE
    MaxFaults = 2
SPECIFICATION Spec
INVARIANTS
    NoSilentOrphan
    EntriesNameLiveContainers
PROPERTIES
    DeletesOnlyItsOwn
    ServiceStaysUp
CHECK_DEADLOCK FALSE
