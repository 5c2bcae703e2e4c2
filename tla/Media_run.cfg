SPECIFICATION SeenSpec
CONSTANTS
    NoFile = NoFile
    NoTime = NoTime
    Plans <- MCPlans
    Folders <- MCFolders
    Settings <- MCSettings
    Calls <- MCCalls
    Newcomers <- MCNewcomers
INVARIANTS MadeAsAsked 
PROPERTY FolderIsKeptWhenSeen
CHECK_DEADLOCK FALSE
