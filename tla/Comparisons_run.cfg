SPECIFICATION MCSpec
CONSTANTS
    m1 = m1
    m2 = m2
    Skills <- MCSkills
    Owns <- MCOwns
    Backends <- MCBackends
    Unnamed = Unnamed
    Undeclared = Undeclared
    Grades <- MCGrades
    Asked = {"success", "output_diff"}
    Settings <- MCSettings
    Threshold = 1
    MaxBoards = 3
    MaxLocks = 2
    MaxPolicy = 2
    Rows <- MCRows
    Declared <- MCDeclared
    Cwd <- MCCwd
    NativeAnswers <- MCNative
    PythonAnswers <- MCPython
    Calls <- MCCalls
    Retired <- MCRetired
    NoRun = NoRun
INVARIANTS PassedOwnBar PortBugsFailL3 DisagreementBounded AnswersHeard
CHECK_DEADLOCK FALSE
