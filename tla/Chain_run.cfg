SPECIFICATION MCSpec
CONSTANTS
    NoFile = NoFile
    Plans <- MCPlans
    Disks <- MCDisks
    Respelled <- MCSpelled
    OutputCapable <- MCOutputCapable
    Kinds <- MCKinds
    Structured <- MCStructured
    Requests <- MCRequests
INVARIANTS OnlyNamedFilesRead ReusedSourcesRead NameKeepsBranchEnd
PROPERTIES  FallbackDestroysNothing
CHECK_DEADLOCK FALSE
