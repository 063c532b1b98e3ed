SPECIFICATION Spec
CONSTANTS
    None = None
    Unset = Unset
    Garbled = Garbled
    Backends = {"backend", "other"}
    Region <- MCRegion
    Endpoint <- MCEndpoint
    DefaultAuthUrl = "https://iam.cloud.ibm.com"
    Timeouts = {5}
    Worlds <- MCWorlds
    LaterWorlds <- MCLaterWorlds
    Values <- MCValues
INVARIANTS
    OperationsWork
    ContradictionsFail
    CalibrationsReported
    DiagnosticTells
PROPERTIES
    FirstSourceWins
