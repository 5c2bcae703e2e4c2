SPECIFICATION TurnSpec
CONSTANTS
    NoVar = NoVar
    Garbage = Garbage
    MaxSteps = 2
    Registry <- MCRegistry
    Answers <- MCAnswers
INVARIANTS NothingDestroyedUnconfirmed ApprovedIsRun NoDanglingVariable
CHECK_DEADLOCK FALSE
