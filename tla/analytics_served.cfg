CONSTANTS
    MaxEvents = 1
    BufferSize = 1
    MaxFaults = 0
    HitEvents = {1}
    ZeroEvents = {}
    Latency <- MCLatency
SPECIFICATION Spec
PROPERTIES
    ServedIsCounted
