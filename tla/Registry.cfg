SPECIFICATION Spec
CONSTANTS
    t1 = t1
    t2 = t2
    s1 = s1
    s2 = s2
    j1 = j1
    j2 = j2
    k1 = k1
    k2 = k2
    Threads = {t1, t2}
    Sessions = {s1, s2}
    Jobs = {j1, j2}
    Keys = {k1, k2}
    NoThread = NoThread
    NoSession = NoSession
    NoJob = NoJob
    Unset = Unset
    NoAuth = NoAuth
    Gone = Gone
SYMMETRY Symmetry
INVARIANTS
    UsesLiveObjects
    MutexHeldByInit
    ConfigurationKept
PROPERTIES
    AuthNeverReplaced
