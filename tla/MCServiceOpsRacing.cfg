\* Two redeploys that may overlap on one service, and no fault at all.
\* Three containers: the one deployed and one for each call.
CONSTANTS
    web = web
    jobs = jobs
    Ids <- MCIds
    Initial <- MCInitial
    Calls = {c1, c2}
    Ops = {"redeploy"}
    MaxContainer = 3
    OneOperator = FALSE
    MaxFaults = 0
SPECIFICATION Spec
INVARIANTS
    NoSilentOrphan
CHECK_DEADLOCK FALSE
