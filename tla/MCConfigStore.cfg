SPECIFICATION FairSpec
CONSTANTS
    STORES = 2
    DATA = {1, 2}
    OFFSETS = {0, 1}
    PAGE_WORDS = 3
    TIMERS_MAX = 3
    OTHERS = 1
    MaxCalls = 2
    MaxFailures = 1
INVARIANTS TypeOK IdleIsSaved WrittenSoFar StoresHaveTimer
PROPERTIES ProgramsBlank KeepsPromise ChangesSaved
