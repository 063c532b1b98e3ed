\* Two handles, one of which may be retrieved from the job of the other.
SPECIFICATION Spec
CONSTANTS
    Threads = {t1, t2}
    Handles = {h1, h2}
    Ids = {i1}
    Programs = {p1}
    NoThread = NoThread
    NoHandle = NoHandle
    NoId = NoId
    NoProgram = NoProgram
    MaxCalls = 5
SYMMETRY Symmetry
INVARIANTS NeverAheadOfService TruthfulAnswers
PROPERTIES ImplementsContract
