SPECIFICATION Spec
CONSTANTS
    Words <- MCWords
    Numeral <- MCNumeral
    MaxSize = 7
    Comment = Comment
    Unclosed = Unclosed
    Unreadable = Unreadable
    Qubits = 2
    NoContent = NoContent
    Versions = {"3.0", "2.0"}
    Statements <- MCStatements
    Files <- MCFiles
    Contents <- MCContents
    Texts <- MCTexts
    Shots = 2
    MaxStatements = 3
    MaxMeasured = 2
    None = None
INVARIANTS
    RegistersAsDeclared
    NativeGatesDeclared
    ResultsAsMeasured
    QpyTravels
CHECK_DEADLOCK FALSE
