CONSTANTS
    d1 = d1
    d2 = d2
    blank = blank
    NoDoc = NoDoc
    Docs <- MCDocs
    TermsOf <- MCTermsOf
    Tokens <- MCTokens
    Weight <- MCWeight
    SegmentMaxSize = 2
    MaxDeliveries = 3
    MaxFaults = 1
    MaxRestarts = 1
SPECIFICATION Spec
INVARIANTS
    LossOnlyInWindow
    AlwaysSearchable
    BufferBounded
    CleanExitDurable
PROPERTIES
    ImplementsBuffer
CHECK_DEADLOCK FALSE
