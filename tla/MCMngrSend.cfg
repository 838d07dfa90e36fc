SPECIFICATION Spec
CONSTANTS
    NumPrompts = 3
    MaxNarration = 1
INVARIANTS
    AnswersAreReportedOnce
    AnswersItsOwnPrompt
    CollectedIsFinal
PROPERTIES
    TurnsEnd
CHECK_DEADLOCK FALSE
