SPECIFICATION Spec
CONSTANTS
    t1 = t1
    t2 = t2
    Threads = {t1, t2}
    NoThread = NoThread
    Timeout = 2
    Waits = {0, 5}
    MaxTime = 5
    Lifetimes = {4}
    MarginCap = 2
    MarginShare = 2
    BaseDelay = 0
    RetryAfter <- MCRetryAfter
    MaxDelay = 9
    MaxTokens = 3
    MaxRequests = 3
    MaxClock = 5
SYMMETRY Symmetry
INVARIANTS
    TypeOK
    RefusedTokensDie
    RefreshIsShared
    RequestsAreBounded
    TimesAsAsked
    NeverSendsExpired
