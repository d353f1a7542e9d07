CONSTANTS
    Requests = {r1, r2}
    Keys = {k1, k2}
    Stray = Stray
    None = None
    RateLimits = {0, 1}
    DefaultLimit = 1
    DefaultPage = 1
    MaxPage = 2
    MaxDocs = 4
    MaxFaults = 1
    MaxRefills = 1
    MaxRenewals = 1
    MaxRestarts = 1
SYMMETRY MCSymmetry
SPECIFICATION Spec
INVARIANTS
    KeyDecides
    AdmissionBound
    KeysAccounted
    WalkMissesNothing
CONSTRAINTS
    MCOneHalf
    MCOneGains
