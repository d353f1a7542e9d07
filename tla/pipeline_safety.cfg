CONSTANTS
    r1 = r1
    r2 = r2
    r3 = r3
    k = k
    NoKey = NoKey
    None = None
    Requests <- MCRequests
    KeyOf <- MCKeyOf
    KindsOf <- MCKindsOf
    MaxMessages = 3
    MaxFaults = 2
    MaxCrashes = 1
SPECIFICATION Spec
INVARIANTS
    OneDocumentPerKey
    CommitCovers
    IndexedIsKept
PROPERTIES
    PublishedIsStored
CHECK_DEADLOCK FALSE
