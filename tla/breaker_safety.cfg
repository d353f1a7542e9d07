CONSTANTS
    Callers = {c1, c2, c3, c4}
    FailureThreshold = 3
    ResetTimeout = 2
    HalfOpenMaxRequests = 2
SPECIFICATION BreakerSpec
INVARIANTS
    HalfOpenHasProbe
    ProbesBounded
    ClosedBelowThreshold
PROPERTIES
    NeverClosesFromOpen
    Recovers
