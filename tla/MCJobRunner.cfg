CONSTANTS
    Pursuits = {p1}
    Threads = {t1}
    Worker = Worker
    NoOne = NoOne
    MaxJobs = 2
    MaxRuns = 2
    MaxCrashes = 1
    MaxFaults = 1
SPECIFICATION FairSpec
INVARIANTS TypeOK RunsAreSound
PROPERTIES HistoryStands EveryJobEnds
CHECK_DEADLOCK FALSE
