SPECIFICATION Spec
CONSTANTS
    NoFile = NoFile
    Plans <- MCPlans
    Folders <- MCFolders
    Settings <- MCSettings
    Calls <- MCCalls
    Newcomers <- MCNewcomers
INVARIANTS PagesAsAsked  ReportIsTrue
PROPERTY FolderIsKept
CHECK_DEADLOCK FALSE
