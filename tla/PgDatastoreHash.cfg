SPECIFICATION Spec
CONSTANTS
    Writers = {w1, w2}
    Calls = {"assert", "schema"}
    Keys = {}
    InitialKeys = {}
    Vals = {c0, c1}
    InitialVal = c0
    SchemaKey = schema
    NoHash = nohash
    MaxRetries = 0
    Quantization = 1
    FollowerDelay = 0
    MaxXid = 3
    MaxClock = 1
    MaxTokens = 0
CHECK_DEADLOCK FALSE
INVARIANTS
    OptimizedHashIsActive
