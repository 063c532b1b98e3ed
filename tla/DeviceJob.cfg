\* Two threads share one handle; two program lists.
SPECIFICATION Spec
CONSTANTS
    Threads = {t1, t2}
    Handles = {h1}
    Ids = {i1, i2}
    Programs = {p1, p2}
    NoThread = NoThread
    NoHandle = NoHandle
    NoId = NoId
    NoProgram = NoProgram
    MaxCalls = 6
SYMMETRY Symmetry
INVARIANTS TypeOK SubmittedOnce ShowsWhatRuns
    CachedResultsAreOfThisJob Serialized
PROPERTIES TerminalIsFinal ImplementsContract
