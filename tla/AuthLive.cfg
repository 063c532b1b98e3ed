SPECIFICATION FairSpec
CONSTANTS
    t1 = t1
    t2 = t2
    Threads = {t1, t2}
    NoThread = NoThread
    Timeout = 2
    Waits = {0, 1}
    MaxTime = 3
    Lifetimes = {4}
    MarginCap = 2
    MarginShare = 2
    BaseDelay = 0
    RetryAfter <- MCRetryAfter
    MaxDelay = 9
    MaxTokens = 2
    MaxRequests = 2
    MaxClock = 3
PROPERTIES
    RequestsReturn
