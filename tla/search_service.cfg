CONSTANTS
    Requests = {r1, r2}
    Inputs <- MCInputs
    Dictionary <- MCDictionary
    Pieces <- MCPieces
    TermOf <- MCTermOf
    NoTerm = NoTerm
    None = None
    DefaultLimit = 2
    MaxResults = 2
    MaxVersion = 1
    MaxInvalidations = 1
    MaxTimeouts = 1
    MaxFaults = 1
SYMMETRY MCSymmetry
SPECIFICATION Spec
INVARIANTS
    AnswersOwnQuery
    StaleOnlyFromFlight
    AnswerUnderway
    FailsOnlyByQuery
CHECK_DEADLOCK FALSE
