\* One write may throw and the host may crash twice: the second crash meets
\* what the first boot wrote.
CONSTANTS
    Actions = {a1, a2}
    MaxFaults = 1
    MaxCrashes = 2
SPECIFICATION FairSpec
INVARIANTS
    AtMostOneRun
    RunIsNeverOfferedAgain
    StatusMatchesOutcome
PROPERTIES
    RunsOnlyApproved
    TerminalIsFinal
    ApprovedParkedCompletes
CHECK_DEADLOCK FALSE
