SPECIFICATION MCSpec
CONSTANTS
    Rows <- MCRows
    Builds <- MCBuilds
    Places = {"cpu", "gpu"}
    Nowhere = Nowhere
    Inference <- MCInference
    Repairs <- MCRepairs
    Edited = {1}
    MaxEdits = 1
    Commands <- MCCommands
    MaxRuns = 2
    NoScore = NoScore
    Expected <- MCExpected
    TagOf <- MCTagOf
    Always = {2}
    Order <- MCOrder
    Percent <- MCPercent
    Budget <- MCBudget
    Floor <- MCFloor
    Tolerance = 2
    ColdStartMin = 1
    Unsafe = {3}
    Answers <- MCAnswers
    PythonAnswers <- MCPythonAnswers
    Earlier = {"gpu"}
    NoVerdict = NoVerdict
    MaxPolicy = 2
    Slipping = {2}
    MaxSafety = 2
    MaxBoards = 3
INVARIANTS SubsetStandsToday  AcceptanceIsBacked StoreIsPure AcceptedOnOneStack
PROPERTY RepliesWrittenOnce
CHECK_DEADLOCK FALSE
