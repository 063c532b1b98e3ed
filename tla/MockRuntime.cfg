SPECIFICATION FairSpec
CONSTANTS
    t1 = t1
    t2 = t2
    j1 = j1
    j2 = j2
    Threads = {t1, t2}
    Jobs = {j1, j2}
    NoThread = NoThread
    NoJob = NoJob
    MaxServers = 2
    MaxCalls = 6
INVARIANTS
    AnswersAgree
    NoLostJobs
PROPERTIES
    FallsBackOnlyAtTheEnd
    EverythingEnds
