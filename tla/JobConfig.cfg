SPECIFICATION Spec
CONSTANTS
    Qasm <- MCQasm
    Qpy <- MCQpy
    Executor <- MCExecutor
    Layout <- MCLayout
    NoLayout <- MCNoLayout
    PayloadShots <- MCPayloadShots
    Declare <- MCDeclare
    Normal <- MCNormalize
    Limit = 6
    DefaultShots = 3
    DD = {"off", "on"}
    DefaultDD = "off"
    BadDD = "bad"
    Times = {60, 900}
    DefaultTime = 60
    ShotValues = {0, 1, 2, 3, 4, 7}
    MaxPrograms = 3
    Foreign <- MCForeign
    NoPayload = NoPayload
INVARIANTS
    WithinLimit
    ExecutorDropsNothing
    RoundTrip
    AskedIsSent
PROPERTIES
    RejectionChangesNothing
