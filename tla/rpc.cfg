CONSTANTS
    shared = shared
    m = m
    Clients = {shared, idle}
    Callers = {p1, p2}
    ClientOf <- MCClientOf
    Methods = {m}
    MethodOf <- MCMethodOf
    None = None
    MaxDrops = 1
SPECIFICATION Spec
INVARIANTS
    OwnAnswer
    StoppedIsQuiet
PROPERTIES
    StopReturns
    CallReturns
CHECK_DEADLOCK FALSE
