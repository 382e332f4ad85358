SPECIFICATION MCCheckSpec
CONSTANTS
    Writers = {w1, w2, w3}
    Calls = {"delete"}
    Keys = {k1}
    InitialKeys = {k1}
    Vals = {c0}
    InitialVal = c0
    SchemaKey = schema
    NoHash = nohash
    MaxRetries = 0
    Quantization = 3
    FollowerDelay = 0
    MaxXid = 4
    MaxClock = 2
    MaxTokens = 0
    Collectors = {g1}
    Window = 1
    BatchSize = 1
SYMMETRY Symmetry
CHECK_DEADLOCK FALSE
INVARIANT
    CheckedRevisionIsReadable
