CONSTANTS
    MaxEvents = 3
    BufferSize = 2
    MaxFaults = 1
    HitEvents = {1}
    ZeroEvents = {2}
    Latency <- MCLatency
SPECIFICATION Spec
INVARIANTS
    DrainCoversSignal
    NoSilentLoss
    SnapshotSkew
    PercentileRanks
PROPERTIES
    CloseReturns
