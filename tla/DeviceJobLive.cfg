\* Timed waits return whatever the service does, every call if jobs end.
SPECIFICATION ThreadFairSpec
CONSTANTS
    Threads = {t1, t2}
    Handles = {h1}
    Ids = {i1}
    Programs = {p1}
    NoThread = NoThread
    NoHandle = NoHandle
    NoId = NoId
    NoProgram = NoProgram
    MaxCalls = 4
PROPERTIES CallsReturn
