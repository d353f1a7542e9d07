\* A key with limit 0 (cmd/auth accepts it), one with a single token and one
\* with two; a window of two ticks, watched for two windows.
SPECIFICATION Spec
CONSTANTS
    k0 = k0
    k1 = k1
    k2 = k2
    Keys = {k0, k1, k2}
    Limit <- MCLimit
    Window = 2
    MaxWatch = 4
INVARIANTS
    WindowBound
    ZeroLimit
PROPERTY ImplementsTokenBucket
