SPECIFICATION Spec
CONSTANTS
    Fixtures <- MCFixtures
    Corpus <- MCCorpus
    NoPlan = NoPlan
    MaxRuns = 2
    MaxChanges = 2
INVARIANTS  KnownMedia
PROPERTY MediaKept
CHECK_DEADLOCK FALSE
