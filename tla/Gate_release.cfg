SPECIFICATION Spec
CONSTANTS
    NoBin = NoBin
    Oses = {"linux"}
    Edits = {{"text"}, {"code", "core", "handlers"}}
    MaxEdits = 1
    MaxRuns = 2
    MaxWaivers = 1
    MaxStageRuns = 3
    Prompt = TRUE
INVARIANTS  SupportedIsEarned
CHECK_DEADLOCK FALSE
